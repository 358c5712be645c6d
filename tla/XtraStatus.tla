----------------------------- MODULE XtraStatus -----------------------------
(***************************************************************************)
(* XtraSystemStatusObserver (gps/gnss/XtraSystemStatusObserver.cpp), a     *)
(* client of the OsObserver, here its only one, that tells the XTRA daemon *)
(* what it hears of networks, the tracking area and the operator, and what *)
(* the adapter tells it: the GPS lock and whether XTRA is throttled.  It   *)
(* keeps the last values, sends nothing before the daemon has asked for    *)
(* the status, and each change afterwards.  The fields mConnections,       *)
(* mNetworkHandle, mTac and mMccmnc are seen[Xtra] of OsObserver.          *)
(*                                                                         *)
(* The daemon is not in src/.  It is on the other side of a local datagram *)
(* socket: what is sent while it is down is lost.  It asks when it starts  *)
(* and when it hears "halinit"; a request made before the HAL started is   *)
(* lost as well.                                                           *)
(***************************************************************************)
EXTENDS OsObserver

CONSTANTS
  Locks,       \* GPS locks, without the bit for network-initiated requests
  MaxUpdates,  \* bound on the updates of the lock and the throttle
  MaxStarts    \* bound on the starts of the daemon

ASSUME LocksAssumption == None \notin Locks
ASSUME MaxAssumption == MaxUpdates \in Nat /\ MaxStarts \in Nat
VARIABLES
  mGpsLock, mXtraThrottle, mReqStatusReceived,
  halInit,   \* the timer that announces the HAL has run out
  toDaemon,  \* datagrams the daemon has not read
  daemon,    \* where the daemon is, and what it has been told
  updates, starts  \* what has been used of the bounds

xtraState  == <<mGpsLock, mXtraThrottle, mReqStatusReceived>>
daemonVars == <<toDaemon, daemon, starts>>
xtraVars   == <<xtraState, halInit, daemonVars, updates>>
vars       == <<observerVars, xtraVars>>

DaemonStates == {"down", "started", "asked", "informed"}

View == [lock : Locks \cup {None}, throttle : BOOLEAN \cup {None},
         items : [Items -> Value \cup {None}]]
Unknown == [lock |-> None, throttle |-> None, items |-> Nothing]

XtraMessage ==
  [op : {"lock"}, lock : Locks] \cup [op : {"throttle"}, enabled : BOOLEAN]
    \cup [op : {"status"}, updated : BOOLEAN]

DatagramOK(d) ==
  \/ d \in [op : {"halinit"}] \cup [op : {"gpslock"}, lock : Locks]
            \cup [op : {"xtrathrottle"}, enabled : BOOLEAN]
  \/ d.op = "items" /\ IsCopy(d.values)
  \/ d \in [op : {"respondStatus"}, lock : Locks \cup {None},
             items : [Items -> Value \cup {None}]]

TypeOK ==
  /\ ObserverTypeOK
  /\ \A k \in DOMAIN queue : MessageOK(queue[k]) \/ queue[k] \in XtraMessage
  /\ mGpsLock \in Locks \cup {None}
  /\ mXtraThrottle \in BOOLEAN /\ mReqStatusReceived \in BOOLEAN /\ halInit \in BOOLEAN
  /\ \A k \in DOMAIN toDaemon : DatagramOK(toDaemon[k])
  /\ daemon \in [at : DaemonStates, view : View]
  /\ updates \in 0..MaxUpdates /\ starts \in 0..MaxStarts

\* The constructor subscribes, listens and starts the timer.
Init ==
  /\ NobodySubscribed
  /\ queue = <<[op |-> "subscribe", client |-> Xtra, items |-> {"networkInfo", "mccmnc"}],
               [op |-> "requestData", client |-> Xtra, items |-> {"tac"}]>>
  /\ mGpsLock = None /\ mXtraThrottle = TRUE /\ mReqStatusReceived = FALSE
  /\ halInit = FALSE
  /\ toDaemon = <<>>
  /\ daemon \in [at : {"down", "started", "asked"}, view : {Unknown}]
  /\ updates = 0 /\ starts = 0

-----------------------------------------------------------------------------
(***************************************************************************)
(* LocIpc::send(), if the daemon is there; and not before it has asked.    *)
(***************************************************************************)
SendToDaemon(d) ==
  toDaemon' = IF daemon.at = "down" THEN toDaemon ELSE Append(toDaemon, d)

Update(d) == IF mReqStatusReceived THEN SendToDaemon(d) ELSE UNCHANGED toDaemon

SendHalInit ==
  /\ ~halInit /\ halInit' = TRUE
  /\ SendToDaemon([op |-> "halinit"])
  /\ UNCHANGED <<observerVars, xtraState, daemon, starts, updates>>

-----------------------------------------------------------------------------
(***************************************************************************)
(* The adapter's calls, in handlers of its own messages.                   *)
(***************************************************************************)
AdapterCall(m) ==
  /\ updates < MaxUpdates /\ updates' = updates + 1
  /\ Send(m)
  /\ UNCHANGED <<callFrame, xtraState, halInit, daemonVars>>

HandleLock ==
  /\ Handling("lock")
  /\ mGpsLock' = Head(queue).lock
  /\ Update([op |-> "gpslock", lock |-> Head(queue).lock])
  /\ queue' = Tail(queue)
  /\ UNCHANGED <<callFrame, mXtraThrottle, mReqStatusReceived, halInit, daemon, starts,
                 updates>>

HandleThrottle ==
  /\ Handling("throttle")
  /\ mXtraThrottle' = Head(queue).enabled
  /\ Update([op |-> "xtrathrottle", enabled |-> Head(queue).enabled])
  /\ queue' = Tail(queue)
  /\ UNCHANGED <<callFrame, mGpsLock, mReqStatusReceived, halInit, daemon, starts,
                 updates>>

\* updateConnections(), updateTac() and updateMccMnc().  Mutated form: what comes
\* before the daemon has asked is not kept.
HandleXtraItemsForget ==
  /\ Handling("items")
  /\ IF mReqStatusReceived THEN HandleItems
     ELSE queue' = Tail(queue) /\ UNCHANGED callFrame
  /\ Update([op |-> "items", values |-> Head(queue).values])
  /\ UNCHANGED <<xtraState, halInit, daemon, starts, updates>>

HandleXtraItems ==
  /\ HandleItems
  /\ Update([op |-> "items", values |-> Head(queue).values])
  /\ UNCHANGED <<xtraState, halInit, daemon, starts, updates>>

\* onStatusRequested(): all values but the throttle, unless the daemon has them.
\* Mutated form: nothing is sent to a daemon that asks again.
HandleStatusOnce ==
  /\ Handling("status")
  /\ mReqStatusReceived' = TRUE
  /\ IF Head(queue).updated \/ mReqStatusReceived THEN UNCHANGED toDaemon
     ELSE SendToDaemon([op |-> "respondStatus", lock |-> mGpsLock, items |-> seen[Xtra]])
  /\ queue' = Tail(queue)
  /\ UNCHANGED <<callFrame, mGpsLock, mXtraThrottle, halInit, daemon, starts, updates>>

HandleStatus ==
  /\ Handling("status")
  /\ mReqStatusReceived' = TRUE
  /\ IF Head(queue).updated THEN UNCHANGED toDaemon
     ELSE SendToDaemon([op |-> "respondStatus", lock |-> mGpsLock, items |-> seen[Xtra]])
  /\ queue' = Tail(queue)
  /\ UNCHANGED <<callFrame, mGpsLock, mXtraThrottle, halInit, daemon, starts, updates>>

-----------------------------------------------------------------------------
(***************************************************************************)
(* The daemon.  A request goes through the listening thread into the queue *)
(* of the task.                                                            *)
(***************************************************************************)
Ask(updated) == Send([op |-> "status", updated |-> updated])

daemonFrame == <<callFrame, xtraState, halInit, updates>>

DaemonStarts ==
  /\ daemon.at = "down" /\ starts < MaxStarts
  /\ starts' = starts + 1
  /\ daemon' = [at |-> "started", view |-> Unknown]
  /\ UNCHANGED <<daemonFrame, queue, toDaemon>>

DaemonStops ==
  /\ daemon.at # "down" /\ starts < MaxStarts
  /\ daemon' = [at |-> "down", view |-> Unknown]
  /\ toDaemon' = <<>>
  /\ UNCHANGED <<daemonFrame, queue, starts>>

DaemonAsks ==
  /\ daemon.at = "started"
  /\ daemon' = [daemon EXCEPT !.at = "asked"]
  /\ Ask(FALSE)
  /\ UNCHANGED <<daemonFrame, toDaemon, starts>>

\* What it makes of a datagram.
Told(view, d) ==
  CASE d.op = "halinit"       -> view
    [] d.op = "gpslock"       -> [view EXCEPT !.lock = d.lock]
    [] d.op = "xtrathrottle"  -> [view EXCEPT !.throttle = d.enabled]
    [] d.op = "items"         -> [view EXCEPT !.items =
         [i \in Items |-> IF i \in DOMAIN d.values THEN d.values[i] ELSE view.items[i]]]
    [] d.op = "respondStatus" -> [view EXCEPT !.lock = d.lock, !.items = d.items]

DaemonHears ==
  /\ toDaemon # <<>>
  /\ LET d == Head(toDaemon) IN
     \/ /\ d.op = "halinit" /\ daemon.at = "informed"
        /\ Ask(TRUE)
        /\ UNCHANGED daemon
     \/ /\ d.op = "halinit" /\ daemon.at # "informed"
        /\ Ask(FALSE)
        /\ daemon' = [daemon EXCEPT !.at = "asked"]
     \/ /\ d.op # "halinit"
        /\ daemon' = [at |-> IF d.op = "respondStatus" THEN "informed" ELSE daemon.at,
                      view |-> Told(daemon.view, d)]
        /\ UNCHANGED queue
  /\ toDaemon' = Tail(toDaemon)
  /\ UNCHANGED <<daemonFrame, starts>>

-----------------------------------------------------------------------------
MsgTaskStep ==
  \/ HandleCall /\ UNCHANGED xtraVars
  \/ HandleXtraItems \/ HandleLock \/ HandleThrottle \/ HandleStatus

DaemonStep == DaemonAsks \/ DaemonHears

Next ==
  \/ FrameworkCalls /\ UNCHANGED xtraVars
  \/ \E lock \in Locks : AdapterCall([op |-> "lock", lock |-> lock])
  \/ \E enabled \in BOOLEAN : AdapterCall([op |-> "throttle", enabled |-> enabled])
  \/ MsgTaskStep
  \/ SendHalInit
  \/ DaemonStep \/ DaemonStarts \/ DaemonStops

\* The task, the timer and the daemon run.
Fairness == WF_vars(MsgTaskStep) /\ WF_vars(SendHalInit) /\ WF_vars(DaemonStep)

Spec     == Init /\ [][Next]_vars
FairSpec == Spec /\ Fairness

-----------------------------------------------------------------------------
(***************************************************************************)
(* Properties.                                                             *)
(***************************************************************************)

\* Once nothing is under way, a daemon that has been answered knows the lock and
\* the last value of every item, as the observer has them cached: what came before
\* it asked, what has changed since and what it missed while it was down.
DaemonIsUpToDate ==
  daemon.at = "informed" /\ queue = <<>> /\ toDaemon = <<>> =>
    daemon.view.lock = mGpsLock /\ daemon.view.items = mDataItemCache

\* A daemon that is there is informed in the end, even one that asked before the
\* HAL was there to answer, unless it stops.
DaemonIsInformed == daemon.at # "down" ~> daemon.at \in {"informed", "down"}

\* The same as DaemonIsUpToDate of the throttle, which respondStatus leaves out:
\* violated by an update that comes before the daemon has asked.
DaemonKnowsThrottle ==
  daemon.at = "informed" /\ queue = <<>> /\ toDaemon = <<>> /\ ~mXtraThrottle =>
    daemon.view.throttle = FALSE
=============================================================================
