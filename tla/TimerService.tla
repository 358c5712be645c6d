---------------------------- MODULE TimerService ----------------------------
(***************************************************************************)
(* What LocTimer promises its clients (gps/utils/LocTimer.h): start() of a *)
(* stopped timer makes it run; every run ends exactly once, either by a    *)
(* stop() that returns true or by an expiration, whose callback the        *)
(* service makes, one callback at a time.                                  *)
(***************************************************************************)
CONSTANTS Timers, None

VARIABLES running,  \* the timers between start() and stop() or expiration
          calling   \* the timer whose timeOutCallback() is due, or None

vars == <<running, calling>>

Init == running = {} /\ calling = None

Start(c) == /\ c \notin running
            /\ running' = running \cup {c}
            /\ UNCHANGED calling

Stop(c) == /\ c \in running
           /\ running' = running \ {c}
           /\ UNCHANGED calling

Expired(c) == /\ c \in running
              /\ calling = None
              /\ running' = running \ {c}
              /\ calling' = c

Callback == /\ calling # None
            /\ calling' = None
            /\ UNCHANGED running

Next == \/ \E c \in Timers : Start(c) \/ Stop(c) \/ Expired(c)
        \/ Callback

\* A timer that is left running expires.  (Fairness of Expired(c) would say
\* too little, since callbacks of other timers disable it, or, if strong, too
\* much: a client may stop its timer each time before it expires.)
Fairness == /\ \A c \in Timers : c \in running ~> c \notin running
            /\ WF_vars(Callback)

SafeSpec == Init /\ [][Next]_vars
Spec     == SafeSpec /\ Fairness
=============================================================================
