-------------------------------- MODULE Agps --------------------------------
(***************************************************************************)
(* The AGPS state machines of gps/gnss/Agps.cpp and the messages that feed *)
(* them (gps/gnss/GnssAdapter.cpp).                                        *)
(*                                                                         *)
(* The modem asks for data connections (ATL requests, each with a handle)  *)
(* and releases them.  AgpsManager shares one connection of the framework  *)
(* among the requests of one type: an AgpsStateMachine (an "nif") keeps    *)
(* their list, tells the framework to open or close the connection, and    *)
(* tells the modem what became of each request.  The modem's calls and the *)
(* framework's reports are messages to the adapter's MsgTask, in one FIFO  *)
(* queue; the calls back to them are made from that task.                  *)
(*                                                                         *)
(* One path has no message: dataConnOpenCommand() with an APN that it      *)
(* refuses calls reportAtlClosed() itself, on the framework's thread, with *)
(* no lock.  So a handler of the MsgTask is two steps here, the reading of *)
(* the state and the work, and so is that call.  When both are inside the  *)
(* same state machine, they change a std::list and mState together, which  *)
(* is undefined: "raced" is set, and what is said of the state machines is *)
(* said as long as it is not.                                              *)
(*                                                                         *)
(* Every subscriber is made with mWaitForCloseComplete false (requestATL), *)
(* so AGPS_STATE_RELEASING and inactive subscribers do not occur, and      *)
(* handleModemSSR() has no caller: neither is modelled.                    *)
(***************************************************************************)
EXTENDS Naturals, Sequences

CONSTANTS
  Handles,      \* connection handles of the modem
  Nifs,         \* the state machines: mAgnssNif, mInternetNif
  Faults,       \* what else the framework may do: a subset of FaultKinds
  MaxInFlight,  \* bound on the messages under way when the modem calls
  NoArg         \* no handle, no state machine

FaultKinds == {"badApn", "closeFails"}

ASSUME FaultsAssumption == Faults \subseteq FaultKinds
ASSUME InFlightAssumption == MaxInFlight \in Nat
ASSUME NoArgAssumption  == NoArg \notin Handles \cup Nifs

VARIABLES
  created,          \* the nifs that createAgpsStateMachines() has made
  mState,           \* AgpsStateMachine::mState
  mSubscriberList,  \* the handles in AgpsStateMachine::mSubscriberList
  atlQueue,         \* the adapter's messages
  toFramework,      \* the calls of mFrameworkStatusV4Cb not yet acted upon
  framework,        \* the framework's data connection for each nif
  atl,              \* the modem's view of each handle
  handling,         \* what the MsgTask, inside the handler of Head(atlQueue), has read
  closing,          \* the nif whose reportAtlClosed() the framework's thread is inside
  raced             \* history: both threads have been inside one nif

nifVars == <<created, mState, mSubscriberList>>
threadVars == <<handling, closing, raced>>
atlVars == <<nifVars, atlQueue, toFramework, framework, atl, threadVars>>

NifStates == {"RELEASED", "PENDING", "ACQUIRED"}

\* The handler's state machine and the mState that its switch has read; no
\* state machine when the request's type has none or no list has the handle.
Idle   == [n |-> NoArg, saw |-> "idle"]
Absent == [n |-> NoArg, saw |-> "absent"]
Handling == {Idle, Absent} \cup [n : Nifs, saw : NifStates]

AtlMessage ==
       [op : {"requestATL"}, h : Handles, n : Nifs]
  \cup [op : {"releaseATL"}, h : Handles, n : {NoArg}]
  \cup [op : {"opened", "failed", "closed"}, h : {NoArg}, n : Nifs]

Command == [op : {"request", "release"}, n : Nifs]

Report(op, n) == [op |-> op, h |-> NoArg, n |-> n]

-----------------------------------------------------------------------------
(***************************************************************************)
(* What the modem makes of the two status callbacks (mLocApi's             *)
(* atlOpenStatus() and atlCloseStatus()) for the handles of a set.  It has *)
(* no use for the success of a request that it is already closing.         *)
(***************************************************************************)
AtlOpened(S) == [h \in Handles |-> IF h \in S /\ atl[h] = "asked" THEN "open" ELSE atl[h]]
AtlEnded(S)  == [h \in Handles |-> IF h \in S THEN "idle" ELSE atl[h]]

\* requestOrReleaseDataConn()
DataConn(op, n) == toFramework' = Append(toFramework, [op |-> op, n |-> n])

AddSubscriber(h, n) == mSubscriberList' = [mSubscriberList EXCEPT ![n] = @ \cup {h}]

Transition(n, state) == mState' = [mState EXCEPT ![n] = state]

-----------------------------------------------------------------------------
(***************************************************************************)
(* AgpsStateMachine::processAgpsEvent(), by event, when its switch has     *)
(* found the state machine in the state "saw".                             *)
(***************************************************************************)

\* Mutated form: a request that finds the connection open is not told so.
SubscribeSilently(h, n, saw) ==
  /\ AddSubscriber(h, n)
  /\ IF saw = "RELEASED"
     THEN DataConn("request", n) /\ Transition(n, "PENDING")
     ELSE UNCHANGED <<toFramework, mState>>
  /\ UNCHANGED atl

Subscribe(h, n, saw) ==
  /\ AddSubscriber(h, n)
  /\ IF saw = "RELEASED"
     THEN DataConn("request", n) /\ Transition(n, "PENDING")
     ELSE UNCHANGED <<toFramework, mState>>
  /\ atl' = IF saw = "ACQUIRED" THEN AtlOpened({h}) ELSE atl

\* The subscriber was in n's list, so n is PENDING or ACQUIRED.  The other
\* branch, for RELEASED, only notifies.  (deleteSubscriber() compares the rest
\* of the list with the subscriber it has just freed; nothing is allocated in
\* between, so it still reads the handle that was there.)
\* Mutated form: only the last subscriber is notified.
UnsubscribeSilently(h, n, saw) ==
  /\ mSubscriberList' = [mSubscriberList EXCEPT ![n] = @ \ {h}]
  /\ IF mSubscriberList'[n] = {}
     THEN Transition(n, "RELEASED") /\ DataConn("release", n) /\ atl' = AtlEnded({h})
     ELSE UNCHANGED <<mState, toFramework, atl>>

Unsubscribe(h, n, saw) ==
  /\ atl' = AtlEnded({h})
  /\ IF saw = "RELEASED"
     THEN UNCHANGED <<mState, mSubscriberList, toFramework>>
     ELSE /\ mSubscriberList' = [mSubscriberList EXCEPT ![n] = @ \ {h}]
          /\ IF mSubscriberList'[n] = {}
             THEN Transition(n, "RELEASED") /\ DataConn("release", n)
             ELSE UNCHANGED <<mState, toFramework>>

Granted(n, saw) ==
  /\ UNCHANGED <<mSubscriberList, toFramework>>
  /\ IF saw = "PENDING"
     THEN Transition(n, "ACQUIRED") /\ atl' = AtlOpened(mSubscriberList[n])
     ELSE UNCHANGED <<mState, atl>>

\* DENIED ends a PENDING state machine, RELEASED an ACQUIRED one: all the
\* subscribers are notified and deleted.
\* Mutated form: they are notified but stay in the list.
NotifyEnd(n, saw, state) ==
  /\ UNCHANGED <<mSubscriberList, toFramework>>
  /\ IF saw = state
     THEN Transition(n, "RELEASED") /\ atl' = AtlEnded(mSubscriberList[n])
     ELSE UNCHANGED <<mState, atl>>

End(n, saw, state) ==
  /\ UNCHANGED toFramework
  /\ IF saw = state
     THEN /\ Transition(n, "RELEASED")
          /\ atl' = AtlEnded(mSubscriberList[n])
          /\ mSubscriberList' = [mSubscriberList EXCEPT ![n] = {}]
     ELSE UNCHANGED <<mState, mSubscriberList, atl>>

DenyApn(n, saw) == End(n, saw, "PENDING")

Released(n, saw) == End(n, saw, "ACQUIRED")

-----------------------------------------------------------------------------
(***************************************************************************)
(* The MsgTask of the adapter: AgpsManager's methods.                      *)
(***************************************************************************)
Holders(h) == {n \in created : h \in mSubscriberList[n]}

\* The state machine that a message is for, ...
Targets(m) == CASE m.op = "requestATL" -> {m.n} \cap created
                [] m.op = "releaseATL" -> Holders(m.h)
                [] OTHER               -> {m.n}

\* ... and those that its handler looks into: releaseATL() searches both lists.
Touched(m) == IF m.op = "releaseATL" THEN Nifs ELSE {m.n}

\* The handler of the next message has got as far as the switch on mState.
TaskBegins ==
  /\ handling = Idle
  /\ atlQueue # <<>>
  /\ LET m == Head(atlQueue) IN
       /\ handling' \in IF Targets(m) = {} THEN {Absent}
                        ELSE {[n |-> n, saw |-> mState[n]] : n \in Targets(m)}
       /\ raced' = (raced \/ closing \in Touched(m))
  /\ UNCHANGED <<nifVars, atlQueue, toFramework, framework, atl, closing>>

\* The rest of a handler.
Receive(op) == /\ handling # Idle
               /\ atlQueue # <<>>
               /\ Head(atlQueue).op = op
               /\ atlQueue' = Tail(atlQueue)
               /\ handling' = Idle
               /\ UNCHANGED <<created, framework, closing, raced>>

\* createAgpsStateMachines(), from the MsgTask: at the start, and when the
\* framework registers.
CreateAgpsStateMachines(S) ==
  /\ handling = Idle
  /\ ~ S \subseteq created
  /\ created' = created \cup S
  /\ UNCHANGED <<mState, mSubscriberList, atlQueue, toFramework, framework, atl, threadVars>>

\* A request for a type that has no state machine fails at once.
RequestATL ==
  /\ Receive("requestATL")
  /\ LET h == Head(atlQueue).h IN
       IF handling = Absent
       THEN atl' = AtlEnded({h}) /\ UNCHANGED <<mState, mSubscriberList, toFramework>>
       ELSE Subscribe(h, handling.n, handling.saw)

\* A handle that no state machine knows is ignored.
ReleaseATL ==
  /\ Receive("releaseATL")
  /\ IF handling = Absent
     THEN UNCHANGED <<mState, mSubscriberList, toFramework, atl>>
     ELSE Unsubscribe(Head(atlQueue).h, handling.n, handling.saw)

ReportAtlOpenSuccess == Receive("opened") /\ Granted(handling.n, handling.saw)

ReportAtlOpenFailed == Receive("failed") /\ DenyApn(handling.n, handling.saw)

ReportAtlClosed == Receive("closed") /\ Released(handling.n, handling.saw)

-----------------------------------------------------------------------------
(***************************************************************************)
(* The modem (QMI thread): GnssAdapter::requestATL() and releaseATL().     *)
(***************************************************************************)
InFlight == Len(atlQueue) + Len(toFramework)

ModemRequest(h, n) ==
  /\ atl[h] = "idle"
  /\ InFlight < MaxInFlight
  /\ atl' = [atl EXCEPT ![h] = "asked"]
  /\ atlQueue' = Append(atlQueue, [op |-> "requestATL", h |-> h, n |-> n])
  /\ UNCHANGED <<nifVars, toFramework, framework, threadVars>>

ModemRelease(h) ==
  /\ atl[h] \in {"asked", "open"}
  /\ atl' = [atl EXCEPT ![h] = "closing"]
  /\ atlQueue' = Append(atlQueue, [op |-> "releaseATL", h |-> h, n |-> NoArg])
  /\ UNCHANGED <<nifVars, toFramework, framework, threadVars>>

-----------------------------------------------------------------------------
(***************************************************************************)
(* The framework acts on the calls in order and reports the result: one    *)
(* answer to each request, and one to a release of an open connection.     *)
(***************************************************************************)
Act(op, n) == /\ closing = NoArg
              /\ toFramework # <<>>
              /\ Head(toFramework) = [op |-> op, n |-> n]
              /\ toFramework' = Tail(toFramework)

\* agpsOpenResultCb(true), dataConnOpenCommand()
FrameworkOpens(n) ==
  /\ Act("request", n)
  /\ framework' = [framework EXCEPT ![n] = "open"]
  /\ atlQueue' = Append(atlQueue, Report("opened", n))
  /\ UNCHANGED <<nifVars, atl, threadVars>>

\* agpsOpenResultCb(false), dataConnFailedCommand()
FrameworkFails(n) ==
  /\ Act("request", n)
  /\ framework[n] = "closed"
  /\ atlQueue' = Append(atlQueue, Report("failed", n))
  /\ UNCHANGED <<nifVars, framework, atl, threadVars>>

\* dataConnOpenCommand() with an APN that its length check refuses: it calls
\* reportAtlClosed() itself, in the framework's thread, which does nothing
\* unless it finds the state machine ACQUIRED.
FrameworkOpensBadApn(n) ==
  /\ "badApn" \in Faults
  /\ Act("request", n)
  /\ framework' = [framework EXCEPT ![n] = "open"]
  /\ closing' = IF mState[n] = "ACQUIRED" THEN n ELSE NoArg
  /\ raced' = (raced \/ (handling # Idle /\ n \in Touched(Head(atlQueue))))
  /\ UNCHANGED <<nifVars, atlQueue, atl, handling>>

\* ... and the rest of that reportAtlClosed().
FrameworkReportsClosed ==
  /\ closing # NoArg
  /\ Released(closing, "ACQUIRED")
  /\ closing' = NoArg
  /\ UNCHANGED <<created, atlQueue, framework, handling, raced>>

\* agpsCloseResultCb(true), dataConnClosedCommand(); no answer when there is
\* nothing to close.
FrameworkCloses(n) ==
  /\ Act("release", n)
  /\ framework' = [framework EXCEPT ![n] = "closed"]
  /\ atlQueue' = IF framework[n] = "open" THEN Append(atlQueue, Report("closed", n)) ELSE atlQueue
  /\ UNCHANGED <<nifVars, atl, threadVars>>

\* agpsCloseResultCb(false) calls dataConnFailedCommand() as well.
FrameworkFailsToClose(n) ==
  /\ "closeFails" \in Faults
  /\ Act("release", n)
  /\ framework[n] = "open"
  /\ atlQueue' = Append(atlQueue, Report("failed", n))
  /\ UNCHANGED <<nifVars, framework, atl, threadVars>>

\* The network is lost.
FrameworkLoses(n) ==
  /\ framework[n] = "open"
  /\ InFlight < MaxInFlight
  /\ framework' = [framework EXCEPT ![n] = "closed"]
  /\ atlQueue' = Append(atlQueue, Report("closed", n))
  /\ UNCHANGED <<nifVars, toFramework, atl, threadVars>>

-----------------------------------------------------------------------------
AtlInit ==
  /\ created = {}
  /\ mState = [n \in Nifs |-> "RELEASED"]
  /\ mSubscriberList = [n \in Nifs |-> {}]
  /\ atlQueue = <<>>
  /\ toFramework = <<>>
  /\ framework = [n \in Nifs |-> "closed"]
  /\ atl = [h \in Handles |-> "idle"]
  /\ handling = Idle
  /\ closing = NoArg
  /\ raced = FALSE

TaskNext == \/ TaskBegins
            \/ RequestATL \/ ReleaseATL
            \/ ReportAtlOpenSuccess \/ ReportAtlOpenFailed \/ ReportAtlClosed

FrameworkNext ==
  \/ FrameworkReportsClosed
  \/ \E n \in Nifs :
       \/ FrameworkOpens(n) \/ FrameworkFails(n) \/ FrameworkOpensBadApn(n)
       \/ FrameworkCloses(n) \/ FrameworkFailsToClose(n)

AtlNext ==
  \/ TaskNext
  \/ FrameworkNext
  \/ \E n \in Nifs : FrameworkLoses(n)
  \/ \E S \in SUBSET Nifs : CreateAgpsStateMachines(S)
  \/ \E h \in Handles : ModemRelease(h) \/ \E n \in Nifs : ModemRequest(h, n)

AtlSpec == AtlInit /\ [][AtlNext]_atlVars

\* The MsgTask handles its messages and the framework acts on the calls it
\* gets; the modem need not call, and networks need not be lost.
AtlFairness == WF_atlVars(TaskNext) /\ WF_atlVars(FrameworkNext)

AtlFairSpec == AtlSpec /\ AtlFairness

-----------------------------------------------------------------------------
(***************************************************************************)
(* Properties.                                                             *)
(***************************************************************************)
\* The types of the variables (all of Agps.cpp's state).
AtlTypeOK ==
  /\ created \subseteq Nifs
  /\ mState \in [Nifs -> NifStates]
  /\ mSubscriberList \in [Nifs -> SUBSET Handles]
  /\ atlQueue \in Seq(AtlMessage)
  /\ toFramework \in Seq(Command)
  /\ framework \in [Nifs -> {"open", "closed"}]
  /\ atl \in [Handles -> {"idle", "asked", "open", "closing"}]
  /\ handling \in Handling
  /\ closing \in Nifs \cup {NoArg}
  /\ raced \in BOOLEAN

\* "Subscriber list should be empty if we are in released state" (a comment
\* of processAgpsEventReleased()), and only then: a state machine that holds
\* or awaits the connection does so for some request.  Said as long as the
\* framework's thread has not closed a state machine that the MsgTask was in.
SubscribersMatchState ==
  ~ raced => \A n \in Nifs : mState[n] = "RELEASED" <=> mSubscriberList[n] = {}

AtlQueued(op, h) == \E i \in DOMAIN atlQueue : atlQueue[i].op = op /\ atlQueue[i].h = h

\* What a state machine holds for a handle and what the modem believes of it
\* agree.
AgreesOn(h) ==
  /\ \A m, n \in Nifs : h \in mSubscriberList[m] \cap mSubscriberList[n] => m = n
  /\ \A n \in Nifs : h \in mSubscriberList[n] =>
       atl[h] \in {"closing", IF mState[n] = "ACQUIRED" THEN "open" ELSE "asked"}
  /\ atl[h] = "asked" => \/ AtlQueued("requestATL", h)
                         \/ \E n \in Nifs : h \in mSubscriberList[n]
  /\ atl[h] = "open" => \E n \in Nifs : h \in mSubscriberList[n]
  /\ atl[h] = "closing" => AtlQueued("releaseATL", h)

\* Whatever calls and reports are under way, also one of a refused APN in
\* another state machine than the MsgTask's, the modem has been told that the
\* connection is open for exactly the subscribers of an ACQUIRED state machine,
\* a request is never forgotten, and none outlives the answer that ends it.  A
\* handle is in one list at most: releaseATL() looks in one state machine after
\* the other and stops at the first that knows the handle.  Said as long as the
\* framework's thread has not closed a state machine that the MsgTask was in.
AtlAgreement == ~ raced => \A h \in Handles : AgreesOn(h)

\* The same without that condition (violated: a refused APN closes the state
\* machine between the handler's reading of it and its work).
AtlAlwaysAgrees == \A h \in Handles : AgreesOn(h)

\* Every request of the modem is answered or taken back (violated by a request whose
\* APN is refused), ...
AtlRequestIsAnswered == \A h \in Handles : atl[h] = "asked" ~> atl[h] # "asked"

\* ... and every release is confirmed, unless the two threads have met.
AtlReleaseIsConfirmed ==
  \A h \in Handles : atl[h] = "closing" ~> raced \/ atl[h] = "idle"

\* "If no subscribers in list, release data connection" (a comment of
\* processAgpsEventUnsubscribe()): once all calls and reports have been dealt
\* with, a state machine without subscribers has no connection open.
ReleasedConnectionIsClosed ==
  atlQueue = <<>> /\ toFramework = <<>> =>
    \A n \in Nifs : mSubscriberList[n] = {} => framework[n] = "closed"
=============================================================================
