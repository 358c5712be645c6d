---------------------------- MODULE GnssTracking ----------------------------
(***************************************************************************)
(* The tracking sessions of gps/gnss/GnssAdapter.cpp.                      *)
(*                                                                         *)
(* Clients start, update and stop sessions.  The modem runs one time-based *)
(* fix, so the adapter multiplexes the time-based sessions of all clients  *)
(* on it, and any number of distance-based ones, which it hands through.   *)
(* Every command is a message to the adapter's MsgTask (see Mailbox), and  *)
(* so is every response of the modem, which finds the sessions as the      *)
(* messages before it have left them.  The modem answers its calls in the  *)
(* order they were made, and may restart.                                  *)
(*                                                                         *)
(* A session's number is its id, which is also its place in the maps       *)
(* (operator< of LocationSessionKey).  Options are those that are left     *)
(* after the normalisation of minInterval (MIN_TRACKING_INTERVAL) and of   *)
(* powerMode (TRACKING_TBM_THRESHOLD_MILLIS); those with a minDistance are *)
(* one value, Distance, and the modem supports them.                       *)
(***************************************************************************)
EXTENDS Integers, Sequences, FiniteSetsExt

CONSTANTS
  MaxSessions,  \* number of startTracking() calls
  Clients,      \* LocationAPI objects
  Owner,        \* Owner[s]: the client that starts session s
  Listeners,    \* clients with a tracking or a measurements callback
  TimeOptions,  \* TrackingOptions with minDistance = 0
  Distance,     \* TrackingOptions with a minDistance
  None,         \* no options
  Faults,       \* what the environment may do: a subset of FaultKinds
  MaxCommands,  \* bound on the calls of clients
  MaxHasty,     \* the same, once a client has not waited for an answer
  MaxRestarts   \* bound on the times the modem comes up

Sessions == 1..MaxSessions
Options  == TimeOptions \cup {Distance}

\* What the fix runs with: a combination of the options of several sessions.
FixOptions == [minInterval : Nat, powerMode : Nat]

FaultKinds == {"timeRefused", "distanceRefused", "stopRefused", "clientRemoved"}

INVALID == 0  \* GNSS_POWER_MODE_INVALID, below GNSS_POWER_MODE_M1 and the rest

ASSUME BoundsAssumption ==
  /\ MaxSessions \in Nat /\ MaxCommands \in Nat
  /\ MaxHasty \in Nat /\ MaxRestarts \in Nat
ASSUME ClientsAssumption ==
  Owner \in [Sessions -> Clients] /\ Listeners \subseteq Clients
ASSUME OptionsAssumption ==
  /\ TimeOptions \subseteq FixOptions
  /\ Distance \notin TimeOptions
  /\ None \notin FixOptions \cup {Distance}
ASSUME FaultsAssumption == Faults \subseteq FaultKinds

VARIABLES
  capabilitiesKnown,  \* isEngineCapabilitiesKnown()
  mTimeBased,         \* mTimeBasedTrackingSessions: options, or None
  mDistanceBased,     \* the keys of mDistanceBasedTrackingSessions
  mPendingMsgs,       \* commands put off until the capabilities are known
  mClientData,        \* the clients the adapter knows
  queue,              \* the adapter's messages
  toModem,            \* calls of LocApiBase that the modem has not acted upon
  engine,             \* the options of the modem's time-based fix, or None
  engineDistance,     \* the distance-based sessions of the modem
  mSessionIdCounter,  \* the id of the last session
  ended,              \* sessions whose client has called stopTracking()
  owed,               \* per session, commands whose response has not come
  hasty,              \* sessions commanded before the last command was answered
  commands,           \* calls made by clients
  restarts,           \* times the modem has come up
  disturbed           \* a call was refused or a client with sessions removed

maps == <<mTimeBased, mDistanceBased>>
modemVars == <<engine, engineDistance, restarts>>
clientVars == <<mSessionIdCounter, ended, hasty, commands>>
vars == <<capabilitiesKnown, maps, mPendingMsgs, mClientData, queue, toModem,
          modemVars, clientVars, owed, disturbed>>

\* A message about session s, or what the response to a call will be.
Msg(op, s, o) == [op |-> op, s |-> s, o |-> o, ok |-> TRUE]

\* A call to LocApiBase and the LocApiResponse that goes with it.
Call(call, s, o, then) == [call |-> call, o |-> o, then |-> Msg(then, s, None)]

\* An update from a distance to a time: the rest is done by the response.
SwitchToTime(s, o) ==
  [call |-> "stopDistance", o |-> None, then |-> Msg("thenStartTime", s, o)]

\* startTimeBasedTracking(), updateTracking(): old is what a failure restores.
StartTime(s, o, then, old) == [call |-> "startTime", o |-> o, then |-> Msg(then, s, old)]

-----------------------------------------------------------------------------
(***************************************************************************)
(* The maps of sessions, and the answers to clients.                       *)
(***************************************************************************)
TimeBased == {s \in Sessions : mTimeBased[s] # None}

\* saveTrackingSession()
Save(s, o) ==
  IF o = Distance
  THEN mDistanceBased' = mDistanceBased \cup {s} /\ UNCHANGED mTimeBased
  ELSE mTimeBased' = [mTimeBased EXCEPT ![s] = o] /\ UNCHANGED mDistanceBased

Erase(s) ==
  IF s \in TimeBased
  THEN mTimeBased' = [mTimeBased EXCEPT ![s] = None] /\ UNCHANGED mDistanceBased
  ELSE mDistanceBased' = mDistanceBased \ {s} /\ UNCHANGED mTimeBased

\* reportResponse(): a client that was removed gets nothing.
Report(s) ==
  owed' = IF Owner[s] \in mClientData THEN [owed EXCEPT ![s] = @ - 1] ELSE owed

-----------------------------------------------------------------------------
(***************************************************************************)
(* The multiplexing loops over a set S of time-based sessions, in the      *)
(* order of the map.                                                       *)
(***************************************************************************)

\* multiplexedOptions: the first session with the smallest minInterval.
SmallestOptions(S) ==
  IF S = {} THEN [minInterval |-> 0, powerMode |-> INVALID]
  ELSE mTimeBased[Min({s \in S : \A t \in S :
                         mTimeBased[s].minInterval <= mTimeBased[t].minInterval})]

\* multiplexedPowerMode: an INVALID power mode is replaced by the next one.
MultiplexedPower(S) ==
  LET last == {s \in S : \A t \in S : s <= t => mTimeBased[t].powerMode # INVALID}
  IN IF last = {} THEN INVALID ELSE Min({mTimeBased[s].powerMode : s \in last})

\* Mutated form: the interval is not compared.
OutranksInPower(o, S) == o.powerMode < MultiplexedPower(S)

\* A session with options o asks for more than those of S.
Outranks(o, S) == \/ o.minInterval < SmallestOptions(S).minInterval
                  \/ o.powerMode < MultiplexedPower(S)

\* The options of S with those of a session that outranks them.
Combined(o, S) ==
  [minInterval |-> Min({o.minInterval, SmallestOptions(S).minInterval}),
   powerMode   |-> IF o.powerMode < MultiplexedPower(S)
                   THEN o.powerMode ELSE SmallestOptions(S).powerMode]

\* highestPowerTrackingOptions of restartSessions(): an INVALID first one stays.
RestartPower ==
  IF mTimeBased[Min(TimeBased)].powerMode = INVALID THEN INVALID
  ELSE Min({mTimeBased[s].powerMode : s \in TimeBased} \ {INVALID})

\* startTimeBasedTrackingMultiplex(): the calls it makes (one or none).
StartMultiplex(s, o) ==
  IF TimeBased = {} THEN <<StartTime(s, o, "started", None)>>
  ELSE IF Outranks(o, TimeBased)
       THEN <<StartTime(s, Combined(o, TimeBased), "started", None)>>
       ELSE <<>>

\* updateTrackingMultiplex()
UpdateMultiplex(s, o) ==
  LET others == TimeBased \ {s} IN
    IF o = mTimeBased[s] \/ (others # {} /\ ~Outranks(o, others)) THEN <<>>
    ELSE <<StartTime(s, IF others = {} THEN o ELSE Combined(o, others),
                     "updated", mTimeBased[s])>>

\* Mutated form: the last session goes without stopFix().
StopMultiplexLast(s) ==
  LET others == TimeBased \ {s} IN
    IF others # {} /\ Outranks(mTimeBased[s], others)
    THEN <<StartTime(s, [SmallestOptions(others) EXCEPT
                           !.powerMode = MultiplexedPower(others)],
                     "started", None)>>
    ELSE <<>>

\* stopTimeBasedTrackingMultiplex(): the engine goes on with the others.
StopMultiplex(s) ==
  LET others == TimeBased \ {s} IN
    IF others = {} THEN <<Call("stopFix", s, None, "fixStopped")>>
    ELSE IF Outranks(mTimeBased[s], others)
         THEN <<StartTime(s, [SmallestOptions(others) EXCEPT
                                !.powerMode = MultiplexedPower(others)],
                          "started", None)>>
         ELSE <<>>

\* "reportToClientWithNoWait": when no call was made, or its response reports.
ReportIfNone(calls, s) == IF calls = <<>> THEN Report(s) ELSE UNCHANGED owed

\* Any order in which a loop over the map meets the sessions of S (there is
\* exactly one).
KeyOrders(S) == {f \in [1..Cardinality(S) -> S] : \A i, j \in DOMAIN f : i < j => f[i] < f[j]}

-----------------------------------------------------------------------------
(***************************************************************************)
(* Clients.                                                                *)
(***************************************************************************)
Post(m) == queue' = Append(queue, m)

Leaving(c) == \/ c \notin mClientData
              \/ \E i \in 1..Len(queue) : queue[i].op = "removeClient" /\ queue[i].c = c

ClientCalls(s) ==
  /\ hasty' = IF owed[s] > 0 THEN hasty \cup {s} ELSE hasty
  /\ commands >= MaxHasty => hasty' = {}
  /\ commands' = commands + 1
  /\ ~Leaving(Owner[s])
  /\ owed' = [owed EXCEPT ![s] = @ + 1]
  /\ UNCHANGED <<capabilitiesKnown, maps, mPendingMsgs, mClientData, toModem,
                 modemVars, disturbed>>

StartTracking(s, o) ==
  /\ s \in Sessions
  /\ mSessionIdCounter' = s
  /\ ClientCalls(s)
  /\ Post(Msg("start", s, o))
  /\ UNCHANGED ended

UpdateTracking(s, o) ==
  /\ s \notin ended
  /\ ClientCalls(s)
  /\ Post(Msg("update", s, o))
  /\ UNCHANGED <<mSessionIdCounter, ended>>

StopTracking(s) ==
  /\ s \notin ended
  /\ ended' = ended \cup {s}
  /\ ClientCalls(s)
  /\ Post(Msg("stop", s, None))
  /\ UNCHANGED mSessionIdCounter

RemoveClient(c) ==
  /\ "clientRemoved" \in Faults
  /\ commands' = commands + 1
  /\ ~Leaving(c)
  /\ Post([op |-> "removeClient", c |-> c])
  /\ UNCHANGED <<capabilitiesKnown, maps, mPendingMsgs, mClientData, toModem,
                 modemVars, mSessionIdCounter, ended, hasty, owed, disturbed>>

-----------------------------------------------------------------------------
(***************************************************************************)
(* The messages of the clients, handled on the MsgTask's thread.           *)
(***************************************************************************)
Receive(op) == queue # <<>> /\ Head(queue).op = op /\ queue' = Tail(queue)

Ask(calls) == toModem' = toModem \o calls

Session == Head(queue).s
NewOptions == Head(queue).o

HandlerUnchanged == UNCHANGED <<modemVars, clientVars>>

MustWait == ~capabilitiesKnown /\ NewOptions = Distance

\* Until the engine is up, a command for a distance waits in mPendingMsgs.
DeferCommand ==
  /\ Receive("start") \/ Receive("update")
  /\ MustWait
  /\ mPendingMsgs' = Append(mPendingMsgs, Head(queue))
  /\ HandlerUnchanged
  /\ UNCHANGED <<capabilitiesKnown, maps, mClientData, toModem, owed, disturbed>>

\* MsgStartTracking; without a callback, the error is not reported.
HandleStart ==
  /\ Receive("start")
  /\ ~MustWait
  /\ IF Owner[Session] \notin mClientData \cap Listeners
     THEN UNCHANGED <<maps, toModem, owed>>
     ELSE /\ Save(Session, NewOptions)
          /\ IF NewOptions = Distance
             THEN /\ Ask(<<Call("startDistance", Session, Distance, "started")>>)
                  /\ UNCHANGED owed
             ELSE LET calls == StartMultiplex(Session, NewOptions)
                  IN Ask(calls) /\ ReportIfNone(calls, Session)
  /\ HandlerUnchanged
  /\ UNCHANGED <<capabilitiesKnown, mPendingMsgs, mClientData, disturbed>>

HandleUpdate ==
  /\ Receive("update")
  /\ ~MustWait
  /\ LET s == Session
         o == NewOptions
     IN \/ /\ s \notin TimeBased \cup mDistanceBased
           /\ Report(s)
           /\ UNCHANGED <<maps, toModem>>
        \/ /\ s \in TimeBased /\ o = Distance
           /\ Ask(StopMultiplex(s) \o <<Call("startDistance", s, Distance, "ignored")>>)
           /\ ReportIfNone(StopMultiplex(s), s)
           /\ mTimeBased' = [mTimeBased EXCEPT ![s] = None]
           /\ mDistanceBased' = mDistanceBased \cup {s}
        \/ /\ s \in mDistanceBased /\ o # Distance
           /\ Erase(s)
           /\ Ask(<<SwitchToTime(s, o)>>)
           /\ UNCHANGED owed
        \/ /\ s \in TimeBased /\ s \notin mDistanceBased /\ o # Distance
           /\ Ask(UpdateMultiplex(s, o))
           /\ ReportIfNone(UpdateMultiplex(s, o), s)
           /\ Save(s, o)
        \/ /\ s \in mDistanceBased \ TimeBased /\ o = Distance
           /\ Ask(<<Call("stopDistance", s, None, "thenStartDistance")>>)
           /\ UNCHANGED <<maps, owed>>
  /\ HandlerUnchanged
  /\ UNCHANGED <<capabilitiesKnown, mPendingMsgs, mClientData, disturbed>>

HandleStop ==
  /\ Receive("stop")
  /\ LET s == Session IN
       \/ /\ s \notin TimeBased \cup mDistanceBased
          /\ Report(s)
          /\ UNCHANGED <<maps, toModem>>
       \/ /\ s \in TimeBased
          /\ Ask(StopMultiplex(s))
          /\ ReportIfNone(StopMultiplex(s), s)
          /\ Erase(s)
       \/ /\ s \in mDistanceBased \ TimeBased
          /\ Ask(<<Call("stopDistance", s, None, "stopped")>>)
          /\ UNCHANGED <<maps, owed>>
  /\ HandlerUnchanged
  /\ UNCHANGED <<capabilitiesKnown, mPendingMsgs, mClientData, disturbed>>

\* MsgRemoveClient: stopClientSessions(), which leaves the time-based sessions
\* in their map, and eraseClient().
HandleRemoveClient ==
  /\ Receive("removeClient")
  /\ LET c == Head(queue).c
         owned == {s \in Sessions : Owner[s] = c}
     IN /\ \E time \in KeyOrders({s \in TimeBased \cap owned : StopMultiplex(s) # <<>>}),
              distance \in KeyOrders(mDistanceBased \cap owned) :
             Ask([i \in DOMAIN time |-> StopMultiplex(time[i])[1]] \o
                 [i \in DOMAIN distance |->
                    Call("stopDistance", distance[i], None, "forget")])
        /\ mClientData' = mClientData \ {c}
        /\ owed' = [s \in Sessions |-> IF s \in owned THEN 0 ELSE owed[s]]
        /\ disturbed' = (disturbed \/ TimeBased \cap owned # {})
  /\ HandlerUnchanged
  /\ UNCHANGED <<capabilitiesKnown, maps, mPendingMsgs>>

\* Mutated form: the distance-based sessions are not restarted.
HandleEngineUpTimeOnly ==
  /\ queue # <<>> /\ Head(queue).op = "engineUp"
  /\ queue' = Tail(queue) \o mPendingMsgs
  /\ mPendingMsgs' = <<>>
  /\ capabilitiesKnown' = TRUE
  /\ Ask(IF TimeBased = {} THEN <<>>
         ELSE <<StartTime(Min(TimeBased), SmallestOptions(TimeBased), "none", None)>>)
  /\ HandlerUnchanged
  /\ UNCHANGED <<maps, mClientData, owed, disturbed>>

\* MsgHandleEngineUpEvent: restartSessions(), and the commands that waited.
HandleEngineUp ==
  /\ queue # <<>> /\ Head(queue).op = "engineUp"
  /\ queue' = Tail(queue) \o mPendingMsgs
  /\ mPendingMsgs' = <<>>
  /\ capabilitiesKnown' = TRUE
  /\ \E distance \in KeyOrders(mDistanceBased) :
       Ask((IF TimeBased = {} THEN <<>>
            ELSE <<StartTime(Min(TimeBased),
                             [SmallestOptions(TimeBased) EXCEPT !.powerMode = RestartPower],
                             "none", None)>>) \o
           [i \in DOMAIN distance |-> Call("startDistance", distance[i], Distance, "ignored")])
  /\ HandlerUnchanged
  /\ UNCHANGED <<maps, mClientData, owed, disturbed>>

-----------------------------------------------------------------------------
(***************************************************************************)
(* The responses of the modem, handled on the same thread.                 *)
(***************************************************************************)
Succeeded == Head(queue).ok

ResponseUnchanged ==
  /\ HandlerUnchanged
  /\ UNCHANGED <<capabilitiesKnown, mPendingMsgs, mClientData, disturbed>>

\* To a start of either kind, and to the restart of the fix without a session
\* that was stopped.
HandleStarted ==
  /\ Receive("started")
  /\ IF Succeeded THEN UNCHANGED maps ELSE Erase(Session)
  /\ Report(Session)
  /\ ResponseUnchanged /\ UNCHANGED toModem

\* Mutated form: a failure is only undone.
HandleUpdatedSilently ==
  /\ Receive("updated")
  /\ IF Succeeded
     THEN UNCHANGED maps /\ Report(Session)
     ELSE Save(Session, NewOptions) /\ UNCHANGED owed
  /\ ResponseUnchanged /\ UNCHANGED toModem

HandleUpdated ==
  /\ Receive("updated")
  /\ IF Succeeded THEN UNCHANGED maps ELSE Save(Session, NewOptions)
  /\ Report(Session)
  /\ ResponseUnchanged /\ UNCHANGED toModem

\* To stopFix().
HandleFixStopped ==
  /\ Receive("fixStopped")
  /\ Report(Session)
  /\ ResponseUnchanged /\ UNCHANGED <<maps, toModem>>

\* Mutated form: the session stays in its map.
HandleStoppedKeeping ==
  /\ Receive("stopped")
  /\ Report(Session)
  /\ ResponseUnchanged /\ UNCHANGED <<maps, toModem>>

\* To stopDistanceBasedTracking(), for a stop and for a removed client.
HandleStopped ==
  /\ Receive("stopped")
  /\ IF Succeeded THEN Erase(Session) ELSE UNCHANGED maps
  /\ Report(Session)
  /\ ResponseUnchanged /\ UNCHANGED toModem

HandleForget ==
  /\ Receive("forget")
  /\ IF Succeeded THEN Erase(Session) ELSE UNCHANGED maps
  /\ ResponseUnchanged /\ UNCHANGED <<toModem, owed>>

\* The second half of an update from a distance to a time.
HandleThenStartTime ==
  /\ Receive("thenStartTime")
  /\ Ask(StartMultiplex(Session, NewOptions))
  /\ ReportIfNone(StartMultiplex(Session, NewOptions), Session)
  /\ Save(Session, NewOptions)
  /\ ResponseUnchanged

\* The second and third parts of an update from a distance to another.
HandleThenStartDistance ==
  /\ Receive("thenStartDistance")
  /\ Ask(IF Succeeded THEN <<Call("startDistance", Session, Distance, "restarted")>>
         ELSE <<>>)
  /\ ResponseUnchanged /\ UNCHANGED <<maps, owed>>

HandleRestarted ==
  /\ Receive("restarted")
  /\ IF Succeeded THEN Save(Session, Distance) ELSE UNCHANGED maps
  /\ Report(Session)
  /\ ResponseUnchanged /\ UNCHANGED toModem

HandleIgnored ==
  /\ Receive("ignored")
  /\ ResponseUnchanged /\ UNCHANGED <<maps, toModem, owed>>

-----------------------------------------------------------------------------
(***************************************************************************)
(* The modem, which answers nothing before it has come up.                 *)
(***************************************************************************)
Respond(ok) ==
  LET then == Head(toModem).then IN
    /\ restarts > 0
    /\ toModem # <<>>
    /\ toModem' = Tail(toModem)
    /\ queue' = IF then.op = "none" THEN queue ELSE Append(queue, [then EXCEPT !.ok = ok])
    /\ UNCHANGED <<capabilitiesKnown, maps, mPendingMsgs, mClientData, restarts,
                   clientVars, owed>>

ModemAccepts ==
  /\ Respond(TRUE)
  /\ LET c == Head(toModem) IN
       \/ c.call = "startTime" /\ engine' = c.o /\ UNCHANGED engineDistance
       \/ c.call = "stopFix" /\ engine' = None /\ UNCHANGED engineDistance
       \/ /\ c.call = "startDistance"
          /\ engineDistance' = engineDistance \cup {c.then.s}
          /\ UNCHANGED engine
       \/ /\ c.call = "stopDistance"
          /\ engineDistance' = engineDistance \ {c.then.s}
          /\ UNCHANGED engine
  /\ UNCHANGED disturbed

Refusal(call) == CASE call \in {"startTime", "stopFix"} -> "timeRefused"
                   [] call = "startDistance"            -> "distanceRefused"
                   [] call = "stopDistance"             -> "stopRefused"

\* Bound: one refusal in a behaviour.
ModemRefuses ==
  /\ ~disturbed
  /\ Respond(FALSE)
  /\ Refusal(Head(toModem).call) \in Faults
  /\ disturbed' = TRUE
  /\ UNCHANGED <<engine, engineDistance>>

\* The modem comes up, the first time or after a crash, without any session.
ModemUp ==
  /\ restarts < MaxRestarts
  /\ restarts' = restarts + 1
  /\ engine' = None
  /\ engineDistance' = {}
  /\ Post([op |-> "engineUp"])
  /\ UNCHANGED <<capabilitiesKnown, maps, mPendingMsgs, mClientData, toModem,
                 clientVars, owed, disturbed>>

-----------------------------------------------------------------------------
Init ==
  /\ capabilitiesKnown = FALSE
  /\ mTimeBased = [s \in Sessions |-> None]
  /\ mDistanceBased = {}
  /\ mPendingMsgs = <<>>
  /\ mClientData = Clients
  /\ queue = <<>>
  /\ toModem = <<>>
  /\ engine = None
  /\ engineDistance = {}
  /\ mSessionIdCounter = 0
  /\ ended = {}
  /\ hasty = {}
  /\ owed = [s \in Sessions |-> 0]
  /\ commands = 0
  /\ restarts = 0
  /\ disturbed = FALSE

ClientStep ==
  /\ commands < MaxCommands
  /\ \/ \E o \in Options : StartTracking(mSessionIdCounter + 1, o)
     \/ \E s \in 1..mSessionIdCounter, o \in Options : UpdateTracking(s, o)
     \/ \E s \in 1..mSessionIdCounter : StopTracking(s)
     \/ \E c \in Clients : RemoveClient(c)

Handle ==
  \/ DeferCommand \/ HandleStart \/ HandleUpdate \/ HandleStop
  \/ HandleRemoveClient \/ HandleEngineUp
  \/ HandleStarted \/ HandleUpdated \/ HandleFixStopped \/ HandleStopped
  \/ HandleForget \/ HandleThenStartTime \/ HandleThenStartDistance
  \/ HandleRestarted \/ HandleIgnored

Modem == ModemAccepts \/ ModemRefuses

Next == ClientStep \/ Handle \/ Modem \/ ModemUp

Spec == Init /\ [][Next]_vars

-----------------------------------------------------------------------------
(***************************************************************************)
(* Properties.                                                             *)
(***************************************************************************)
CommandOps  == {"start", "update", "stop"}
ResponseOps == {"started", "updated", "fixStopped", "stopped", "forget",
                "thenStartTime", "thenStartDistance", "restarted", "ignored"}

Command  == [op : {"start", "update"}, s : Sessions, o : Options, ok : {TRUE}]
       \cup [op : {"stop"}, s : Sessions, o : {None}, ok : {TRUE}]

Response(outcomes) ==
       [op : ResponseOps \ {"thenStartTime"}, s : Sessions, o : TimeOptions \cup {None},
        ok : outcomes]
  \cup [op : {"thenStartTime"}, s : Sessions, o : TimeOptions, ok : outcomes]

Message == Command \cup Response(BOOLEAN)
           \cup [op : {"removeClient"}, c : Clients] \cup [op : {"engineUp"}]

Then == Response({TRUE}) \cup [op : {"none"}, s : Sessions, o : {None}, ok : {TRUE}]

ModemCall == [call : {"startTime"}, o : FixOptions, then : Then]
        \cup [call : {"stopFix", "stopDistance"}, o : {None}, then : Then]
        \cup [call : {"startDistance"}, o : {Distance}, then : Then]

\* Every variable keeps its type; in particular a message never carries options of
\* the other kind than its handler expects.
TypeOK ==
  /\ capabilitiesKnown \in BOOLEAN
  /\ mTimeBased \in [Sessions -> TimeOptions \cup {None}]
  /\ mDistanceBased \subseteq Sessions
  /\ mPendingMsgs \in Seq(Command)
  /\ mClientData \subseteq Clients
  /\ queue \in Seq(Message)
  /\ toModem \in Seq(ModemCall)
  /\ engine \in FixOptions \cup {None}
  /\ engineDistance \subseteq Sessions
  /\ mSessionIdCounter \in 0..MaxSessions
  /\ ended \cup hasty \subseteq Sessions
  /\ owed \in [Sessions -> Int]
  /\ commands \in 0..MaxCommands
  /\ restarts \in 0..MaxRestarts
  /\ disturbed \in BOOLEAN

\* The messages that report to the client of s, or lead to one that does.
Reporting(m, s) == /\ m.op \in (CommandOps \cup ResponseOps) \ {"forget", "ignored"}
                   /\ m.s = s

\* The messages under way, those that calls of the modem will cause included.
UnderWay == queue \o mPendingMsgs \o [i \in DOMAIN toModem |-> toModem[i].then]

\* As many answers are under way as the client waits for: however a command is
\* deferred, split into several calls, refused or overtaken by a restart, it is
\* answered once.
AnswersMatchCommands ==
  LET messages == UnderWay IN
    \A s \in Sessions : Owner[s] \in mClientData =>
      owed[s] = Cardinality({i \in DOMAIN messages : Reporting(messages[i], s)})

Quiet == queue = <<>> /\ toModem = <<>> /\ mPendingMsgs = <<>>

\* The multiplexed fix is as frequent as every time-based session asks for,
\* whatever the order in which sessions come, change and go, and across
\* restarts of the modem.
TimeSessionsAreServed ==
  Quiet /\ ~disturbed => \A s \in TimeBased :
    engine # None /\ engine.minInterval <= mTimeBased[s].minInterval

\* Without time-based sessions the modem runs no fix.  (A client that stops a
\* session before the last update is answered can leave the fix running.)
NoSessionNoFix == Quiet /\ ~disturbed /\ TimeBased \cup hasty = {} => engine = None

\* The modem tracks every registered distance-based session.
DistanceSessionsAreServed ==
  Quiet /\ ~disturbed => mDistanceBased \ hasty \subseteq engineDistance

\* A session is in one of the two maps, and in none once it was stopped.
StoppedSessionIsGone ==
  Quiet /\ ~disturbed => \A s \in Sessions \ hasty :
    /\ s \notin TimeBased \cap mDistanceBased
    /\ s \in ended => s \notin TimeBased \cup mDistanceBased

-----------------------------------------------------------------------------
(***************************************************************************)
(* What LocationAPI.h promises and the code does not keep.                 *)
(***************************************************************************)

\* "stopTracking stops a tracking session associated with id parameter",
\* whether or not the client has waited for the answers to earlier commands.
StopEndsSession ==
  Quiet /\ ~disturbed => ended \cap (TimeBased \cup mDistanceBased) = {}

\* "find the smallest interval and powerMode" (a smaller power mode is a more
\* accurate one): the comment in startTimeBasedTrackingMultiplex().
FixHasSmallestPowerMode ==
  Quiet /\ ~disturbed => \A s \in TimeBased : engine.powerMode <= mTimeBased[s].powerMode
=============================================================================
