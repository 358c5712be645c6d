------------------------------ MODULE Batching ------------------------------
(***************************************************************************)
(* The batching sessions of gps/batching/BatchingAdapter.cpp.              *)
(*                                                                         *)
(* A plain session is one of the modem's: the adapter starts and stops it. *)
(* Trips are sessions that end when the device has covered a distance, and *)
(* the modem has one trip for all of them.  The adapter runs it with the   *)
(* shortest distance that some trip still has to go, counts for each trip  *)
(* what the modem's trips have covered of it, and starts the modem's trip  *)
(* anew when the shortest distance or interval changes.  All this is done  *)
(* in continuations of calls of the modem, between which commands, reports *)
(* and restarts are handled.                                               *)
(*                                                                         *)
(* The LocApi of the modem is not in src/: it answers calls in the order   *)
(* they were made, may refuse each, and those still unanswered when the    *)
(* modem restarts, or made before the adapter knows of it, fail.           *)
(***************************************************************************)
EXTENDS Integers, Sequences, SequencesExt, FiniteSetsExt

CONSTANTS
  Clients,      \* LocationAPI objects
  None,         \* no trip, no argument
  Width,        \* distances are unsigned integers below it
  Bounds        \* what may happen in a behaviour: one of these

Modes == {"routine", "trip", "noAutoReport"}
Distances == 0..(Width - 1)

\* The options sessions may have, and bounds on the commands, the starts of the modem
\* (the first included), the calls it refuses; and whether clients may go.  No distance
\* and no interval is refused, nor is 0, the default of both.
ASSUME BoundsAssumption ==
  \A b \in Bounds :
    /\ \A o \in b.options :
         o.mode \in Modes /\ o.distance \in Distances /\ o.interval \in Nat
    /\ {b.commands, b.starts, b.refusals} \subseteq Nat /\ b.leaves \in BOOLEAN
ASSUME NamesAssumption == None \notin Clients

VARIABLES
  mBatchingSessions,   \* BatchingOptions by session
  mTripSessions,       \* TripSessionStatus by session
  mOngoing,            \* mOngoingTripDistance, mOngoingTripTBFInterval
  mDropped,            \* mTripWithOngoingTripDistanceDropped, ...TBFDropped
  batchFull,           \* LOC_API_ADAPTER_BIT_BATCH_FULL is in the event mask
  mClientData,         \* the clients the adapter knows
  engineKnown,         \* isEngineCapabilitiesKnown()
  mPendingMsgs,        \* commands put off until it is
  queue,               \* the adapter's messages
  toModem,             \* calls under way
  modem,               \* the modem's plain sessions and its trip
  cmds,                \* the commands given: a start is also the session's id
  accepted, answered,  \* commands that passed the checks of proc(), and their answers
  went,                \* how far the device has gone since a trip began, up to its distance
  early,               \* trips reported complete before that
  refused,             \* sessions, and 0 for the modem's trip, with a refused call
  crossed,             \* something about trips was handled during a call about trips
  destroyed, starts, refusals,
  bounds

sessionVars == <<mBatchingSessions, mTripSessions, mOngoing, mDropped, batchFull, went>>
modemVars   == <<modem, starts, refused, refusals>>
clientVars  == <<cmds, destroyed, bounds>>
vars == <<sessionVars, mClientData, engineKnown, mPendingMsgs, queue, toModem, modemVars,
          clientVars, accepted, answered, early, crossed>>

DefaultOptions == [mode |-> "routine", distance |-> 0, interval |-> 0]
AllOptions == UNION {b.options : b \in Bounds}
Command == [op : {"start", "update", "stop", "get"}, client : Clients, session : Nat \ {0},
            options : AllOptions \cup {DefaultOptions}]

\* TripSessionStatus
Trip == [ongoingBatch : Distances, thisTrip : Distances, onRestart : Distances,
         distance : Distances, interval : Nat]

\* What the continuations of a command carry.  Client removal has number 0.
Job(n, session, options, restart) ==
  [n |-> n, session |-> session, options |-> options, restart |-> restart]

Msg(op, arg) == [op |-> op, arg |-> arg, ok |-> TRUE, distance |-> 0]
Call(call, arg, then) == [call |-> call, arg |-> arg, then |-> then]
NoTrip == [distance |-> 0, interval |-> 0]

TripCalls == {"startTrip", "restartTrip", "stopTrip", "query"}
TripResponses == {"tripStarted", "tripQueried", "tripRestarted", "tripStopped",
                  "remaining", "multiplexed", "tripResumed", "tripEnded"}

TypeOK ==
  /\ bounds \in Bounds
  /\ Len(cmds) <= bounds.commands /\ \A n \in DOMAIN cmds : cmds[n] \in Command
  /\ DOMAIN mBatchingSessions \cup DOMAIN mTripSessions \subseteq DOMAIN cmds
  /\ \A s \in DOMAIN mBatchingSessions :
       mBatchingSessions[s] \in AllOptions \cup {DefaultOptions}
  /\ \A s \in DOMAIN mTripSessions : mTripSessions[s] \in Trip
  /\ mOngoing \in [distance : Distances, interval : Nat]
  /\ mDropped \in [distance : BOOLEAN, interval : BOOLEAN]
  /\ {batchFull, engineKnown, crossed} \subseteq BOOLEAN
  /\ mClientData \subseteq Clients /\ destroyed \subseteq Clients
  /\ \A k \in DOMAIN mPendingMsgs : mPendingMsgs[k].op = "command"
  /\ \A k \in DOMAIN queue : queue[k].op \in TripResponses \cup
       {"command", "started", "stopped", "got", "ignored", "removeClient", "engineUp",
        "completed"}
  /\ \A k \in DOMAIN toModem : toModem[k].call \in TripCalls \cup
       {"startBatching", "stopBatching", "getBatchedLocations"}
  /\ modem.trip # None => modem.trip \in [distance : Distances, interval : Nat,
                                         accumulated : Distances, reported : BOOLEAN]
  /\ accepted \cup answered \cup early \subseteq DOMAIN cmds
  /\ DOMAIN mTripSessions \subseteq DOMAIN went
  /\ starts \in 0..bounds.starts /\ refusals \in 0..bounds.refusals

Init ==
  /\ mBatchingSessions = <<>> /\ mTripSessions = <<>> /\ went = <<>>
  /\ mOngoing = NoTrip /\ mDropped = [distance |-> FALSE, interval |-> FALSE]
  /\ batchFull = FALSE /\ engineKnown = FALSE
  /\ mClientData = Clients /\ destroyed = {}
  /\ mPendingMsgs = <<>> /\ queue = <<>> /\ toModem = <<>>
  /\ modem = [batching |-> <<>>, trip |-> None]
  /\ cmds = <<>> /\ accepted = {} /\ answered = {}
  /\ early = {} /\ refused = {} /\ crossed = FALSE
  /\ starts = 0 /\ refusals = 0
  /\ bounds \in Bounds

-----------------------------------------------------------------------------
(***************************************************************************)
(* The adapter's state as one record, so that the functions of the adapter *)
(* which call each other are operators on it.                              *)
(***************************************************************************)
Adapter ==
  [sessions |-> mBatchingSessions, trips |-> mTripSessions, ongoing |-> mOngoing,
   dropped |-> mDropped, batchFull |-> batchFull, crossed |-> crossed,
   calls |-> <<>>, answers |-> {}]

Without(f, S) == [x \in DOMAIN f \ S |-> f[x]]
With(f, x, y) == [z \in DOMAIN f \cup {x} |-> IF z = x THEN y ELSE f[z]]

\* Trips of which the device's way counts: from the start command on.
Begun(a) ==
  DOMAIN a.trips
    \cup {m.arg.session : m \in {k \in ToSet(Tail(queue)) : k.op = "tripQueried"}}
    \cup {c.then.arg.session :
            c \in {k \in ToSet(toModem \o a.calls) : k.then.op = "tripQueried"}}

\* The responses that are under way when the message at the head has been handled: those
\* in the queue and those to come, in this order.
Thens(calls) == [k \in DOMAIN calls |-> calls[k].then]
UnderWay(a) == Tail(queue) \o Thens(toModem \o a.calls)

\* More than one of them is about trips.
TripsCross(a) ==
  \E i, j \in DOMAIN UnderWay(a) :
    i < j /\ {UnderWay(a)[i].op, UnderWay(a)[j].op} \subseteq TripResponses

Becomes(a) ==
  /\ mBatchingSessions' = a.sessions /\ mTripSessions' = a.trips
  /\ mOngoing' = a.ongoing /\ mDropped' = a.dropped /\ batchFull' = a.batchFull
  /\ toModem' = toModem \o a.calls
  /\ crossed' = (a.crossed \/ TripsCross(a))
  /\ answered' = answered \cup (a.answers \ {0})
  /\ went' = [s \in Begun(a) |-> IF s \in DOMAIN went THEN went[s] ELSE 0]

Calls(a, call, arg, then) == [a EXCEPT !.calls = Append(@, Call(call, arg, then))]

\* reportResponse(): a client that is gone is not told, nor waiting.
Reports(a, job) == [a EXCEPT !.answers = @ \cup {job.n}]

EraseSession(a, s) == [a EXCEPT !.sessions = Without(@, {s})]
EraseTrip(a, s)    == [a EXCEPT !.trips = Without(@, {s})]
Minus(x, y) == (x - y) % Width
Plus(x, y)  == (x + y) % Width

\* autoReportBatchingSessionsCount(): a trip may be in both maps and is counted twice.
ReportingCount(a) ==
  Cardinality({s \in DOMAIN a.sessions : a.sessions[s].mode # "noAutoReport"})
    + Cardinality(DOMAIN a.trips)

DisableIf(a, condition) == [a EXCEPT !.batchFull = @ /\ ~condition]

-----------------------------------------------------------------------------
(***************************************************************************)
(* The adapter's functions.                                                *)
(***************************************************************************)
\* startBatching().  Mutated form: batch full events are not registered for.
StartBatchingUnregistered(a, job) ==
  Calls([a EXCEPT !.sessions = With(@, job.session, job.options)],
        "startBatching", job, Msg("started", job))

StartBatching(a, job) ==
  Calls([a EXCEPT
           !.batchFull = @ \/ (job.options.mode # "noAutoReport" /\ ReportingCount(a) = 0),
           !.sessions = With(@, job.session, job.options)],
        "startBatching", job, Msg("started", job))

\* stopBatching(): the response has the options the session had.
StopBatching(a, job) ==
  IF job.session \in DOMAIN a.sessions
  THEN Calls(EraseSession(a, job.session), "stopBatching", job,
             Msg("stopped", [job |-> job, mode |-> a.sessions[job.session].mode]))
  ELSE a

\* startTripBatchingMultiplex()
StartTrip(a, job) ==
  IF DOMAIN a.trips = {}
  THEN Calls([a EXCEPT
                !.batchFull = @ \/ ReportingCount(a) = 0,
                !.sessions = With(@, job.session, job.options),
                !.trips = With(@, job.session,
                  [ongoingBatch |-> 0, thisTrip |-> 0, onRestart |-> 0,
                   distance |-> job.options.distance, interval |-> job.options.interval])],
             "startTrip",
             [distance |-> job.options.distance, interval |-> job.options.interval],
             Msg("tripStarted", job))
  ELSE Calls(a, "query", None, Msg("tripQueried", job))

Start(a, job) == IF job.options.mode = "trip" THEN StartTrip(a, job) ELSE StartBatching(a, job)

\* The shortest remaining distance and interval, as the loops over the map have it.
Shorter(x, y) == IF x = 0 \/ x > y THEN y ELSE x
InOrder(f) == [k \in 1..Cardinality(DOMAIN f) |-> f[SetToSortSeq(DOMAIN f, <)[k]]]
MinRemaining(trips) ==
  FoldLeft(LAMBDA min, t : Shorter(min, Minus(t.distance, t.thisTrip)), 0, InOrder(trips))
MinInterval(trips) ==
  FoldLeft(LAMBDA min, t : Shorter(min, t.interval), 0, InOrder(trips))

\* restartTripBatching(): the minima are those of the call, not of its response.
RestartTripBatching(a, query, distance) ==
  IF DOMAIN a.trips = {}
  THEN DisableIf(Calls([a EXCEPT !.ongoing = NoTrip], "stopTrip", None, Msg("tripEnded", None)),
                 ReportingCount(a) = 0)
  ELSE Calls(a, "query", None,
             Msg("remaining", [distance |-> MinRemaining(a.trips),
                               interval |-> MinInterval(a.trips),
                               query |-> query, covered |-> distance]))

\* A trip with the ongoing distance or interval is gone.  The status of a trip that is
\* not in the map, or no longer, is what the memory holds: garbage.
Drops(a, trip) ==
  [a EXCEPT !.dropped = [distance |-> @.distance \/ trip.distance = a.ongoing.distance,
                         interval |-> @.interval \/ trip.interval = a.ongoing.interval]]
DropsGarbage(a, garbage) ==
  [a EXCEPT !.dropped = [distance |-> @.distance \/ garbage.distance,
                         interval |-> @.interval \/ garbage.interval]]

\* stopTripBatchingMultiplexCommon().  The trip stays in the map of sessions unless it
\* is updated.  Mutated form: the modem's trip goes on as it is.
StopTripAlone(a, job, garbage) ==
  LET dropped == IF job.session \in DOMAIN a.trips THEN Drops(a, a.trips[job.session])
                 ELSE DropsGarbage(a, garbage)
      erased == EraseTrip(dropped, job.session)
      stopped == IF DOMAIN erased.trips = {} THEN [erased EXCEPT !.ongoing = NoTrip] ELSE erased
  IN Reports(IF job.restart THEN Start(EraseSession(stopped, job.session), job) ELSE stopped, job)

StopTripCommon(a, job, garbage) ==
  LET dropped == IF job.session \in DOMAIN a.trips THEN Drops(a, a.trips[job.session])
                 ELSE DropsGarbage(a, garbage)
      erased == EraseTrip(dropped, job.session)
      stopped == IF DOMAIN erased.trips = {} THEN [erased EXCEPT !.ongoing = NoTrip]
                 ELSE RestartTripBatching(erased, TRUE, 0)
  IN Reports(IF job.restart THEN Start(EraseSession(stopped, job.session), job) ELSE stopped, job)

\* stopTripBatchingMultiplex()
StopTrip(a, job, garbage) ==
  IF Cardinality(DOMAIN a.trips) = 1
  THEN Calls(a, "stopTrip", None, Msg("tripStopped", job))
  ELSE StopTripCommon(a, job, garbage)

-----------------------------------------------------------------------------
(***************************************************************************)
(* Calls of clients.                                                       *)
(***************************************************************************)
Sessions(c) == {s \in DOMAIN cmds : cmds[s].op = "start" /\ cmds[s].client = c}

\* startBatchingCommand() and the commands on a session of the client.
GiveCommand(op, c, s, options) ==
  /\ Len(cmds) < bounds.commands /\ c \notin destroyed
  /\ cmds' = Append(cmds, [op |-> op, client |-> c, session |-> s, options |-> options])
  /\ queue' = Append(queue, Msg("command", Len(cmds) + 1))
  /\ UNCHANGED <<sessionVars, mClientData, engineKnown, mPendingMsgs, toModem, modemVars,
                 destroyed, bounds, accepted, answered, early, crossed>>

StartBatchingCommand(c, options) == GiveCommand("start", c, Len(cmds) + 1, options)
UpdateBatchingOptionsCommand(c, s, options) == GiveCommand("update", c, s, options)
StopBatchingCommand(c, s) == GiveCommand("stop", c, s, DefaultOptions)
GetBatchedLocationsCommand(c, s) == GiveCommand("get", c, s, DefaultOptions)

\* LocationAPI::destroy()
Destroy(c) ==
  /\ bounds.leaves /\ c \notin destroyed /\ destroyed' = destroyed \cup {c}
  /\ queue' = Append(queue, Msg("removeClient", c))
  /\ UNCHANGED <<sessionVars, mClientData, engineKnown, mPendingMsgs, toModem, modemVars,
                 cmds, bounds, accepted, answered, early, crossed>>

-----------------------------------------------------------------------------
(***************************************************************************)
(* Handlers of the adapter's messages.                                     *)
(***************************************************************************)
Handling(op) == queue # <<>> /\ Head(queue).op = op /\ queue' = Tail(queue)
Arg == Head(queue).arg
Ok  == Head(queue).ok
Garbage == [distance : BOOLEAN, interval : BOOLEAN]

InMap(c, s) == s \in DOMAIN mBatchingSessions /\ cmds[s].client = c

\* What proc() checks; a command that does not pass is not answered, but for "get".
Passes(cmd) ==
  /\ cmd.op \in {"start", "get"} => cmd.client \in mClientData
  /\ cmd.op # "start" => InMap(cmd.client, cmd.session)

Perform(cmd, job, garbage) ==
  CASE cmd.op = "start" -> Start(Adapter, job)
    [] cmd.op \in {"update", "stop"} ->
         IF cmd.session \in DOMAIN mTripSessions THEN StopTrip(Adapter, job, garbage)
         ELSE StopBatching(Adapter, job)
    [] cmd.op = "get" ->
         Calls(Adapter, "getBatchedLocations", None, Msg("got", job))

\* MsgStartBatching::proc() and the others.
HandleCommand ==
  /\ Handling("command")
  /\ LET cmd == cmds[Arg]
         job == Job(Arg, cmd.session, cmd.options, cmd.op = "update")
     IN \/ /\ ~engineKnown
           /\ mPendingMsgs' = Append(mPendingMsgs, Head(queue))
           /\ UNCHANGED <<sessionVars, toModem, accepted, answered, crossed>>
        \/ /\ engineKnown /\ ~Passes(cmd)
           /\ UNCHANGED <<sessionVars, mPendingMsgs, toModem, accepted, answered, crossed>>
        \/ /\ engineKnown /\ Passes(cmd)
           /\ \E garbage \in Garbage : Becomes(Perform(cmd, job, garbage))
           /\ accepted' = accepted \cup {Arg}
           /\ UNCHANGED mPendingMsgs
  /\ UNCHANGED <<mClientData, engineKnown, modemVars, clientVars, early>>

Continues(op) ==
  /\ Handling(op)
  /\ UNCHANGED <<mClientData, engineKnown, mPendingMsgs, modemVars, clientVars, accepted,
                 early>>

HandleStarted ==
  /\ Continues("started")
  /\ LET erased == IF Ok THEN Adapter ELSE EraseSession(Adapter, Arg.session)
     IN Becomes(Reports(DisableIf(erased, /\ ~Ok /\ Arg.options.mode # "noAutoReport"
                                          /\ ReportingCount(erased) = 0), Arg))

\* A stop that fails saves the options of the update, or, for want of an update, the
\* default ones.
HandleStopped ==
  /\ Continues("stopped")
  /\ LET job == Arg.job
         disabled == DisableIf(Adapter,
           ReportingCount(Adapter) = 0 /\ Arg.mode # "noAutoReport")
     IN Becomes(Reports(
          IF ~Ok THEN [Adapter EXCEPT !.sessions = With(@, job.session, job.options)]
          ELSE IF job.restart THEN Start(disabled, job) ELSE disabled, job))

HandleGot == Continues("got") /\ Becomes(Reports(Adapter, Arg))
HandleIgnored ==
  /\ \E op \in {"ignored", "tripEnded"} : Continues(op)
  /\ Becomes(Adapter)

HandleTripStarted ==
  /\ Continues("tripStarted")
  /\ LET ongoing == [distance |-> Arg.options.distance, interval |-> Arg.options.interval]
         erased == EraseTrip(EraseSession(Adapter, Arg.session), Arg.session)
     IN Becomes(Reports(
          IF Ok THEN [Adapter EXCEPT !.ongoing = ongoing]
          ELSE DisableIf(erased, ReportingCount(erased) = 0), Arg))

\* The modem's trip starts anew: what its last one has covered is counted from 0.
Restarted(trips) ==
  [s \in DOMAIN trips |->
     [trips[s] EXCEPT !.ongoingBatch = 0, !.onRestart = trips[s].thisTrip]]

\* The response to the query of a start.  Mutated form: the new trip does not note how
\* far the modem's trip has already gone.
HandleTripQueriedFromZero ==
  /\ Continues("tripQueried")
  /\ LET covered == Head(queue).distance
         o == Arg.options
         remaining == IF Ok THEN Minus(mOngoing.distance, covered) ELSE mOngoing.distance
         needsRestart == mOngoing.interval > o.interval \/ o.distance < remaining
         known == IF ~Ok THEN Adapter
                  ELSE [Adapter EXCEPT !.trips = With(@, Arg.session,
                          [ongoingBatch |-> 0, thisTrip |-> 0, onRestart |-> 0,
                           distance |-> o.distance, interval |-> o.interval])]
         ongoing == [distance |-> IF o.distance < remaining THEN o.distance ELSE remaining,
                     interval |-> IF mOngoing.interval > o.interval THEN o.interval
                                  ELSE mOngoing.interval]
     IN Becomes(
          IF needsRestart
          THEN Calls([known EXCEPT !.ongoing = ongoing, !.trips = Restarted(@)],
                     "restartTrip", ongoing, Msg("tripRestarted", Arg))
          ELSE Reports(known, Arg))

HandleTripQueried ==
  /\ Continues("tripQueried")
  /\ LET covered == Head(queue).distance
         o == Arg.options
         remaining == IF Ok THEN Minus(mOngoing.distance, covered) ELSE mOngoing.distance
         needsRestart == mOngoing.interval > o.interval \/ o.distance < remaining
         known == IF ~Ok THEN Adapter
                  ELSE [Adapter EXCEPT !.trips = With(@, Arg.session,
                          [ongoingBatch |-> covered, thisTrip |-> 0, onRestart |-> 0,
                           distance |-> o.distance, interval |-> o.interval])]
         ongoing == [distance |-> IF o.distance < remaining THEN o.distance ELSE remaining,
                     interval |-> IF mOngoing.interval > o.interval THEN o.interval
                                  ELSE mOngoing.interval]
     IN Becomes(
          IF needsRestart
          THEN Calls([known EXCEPT !.ongoing = ongoing, !.trips = Restarted(@)],
                     "restartTrip", ongoing, Msg("tripRestarted", Arg))
          ELSE Reports(known, Arg))

\* Mutated form: the client whose trip made the modem's start anew is not told.
HandleTripRestartedSilently == Continues("tripRestarted") /\ Becomes(Adapter)

HandleTripRestarted == Continues("tripRestarted") /\ Becomes(Reports(Adapter, Arg))

HandleTripStopped ==
  /\ Continues("tripStopped")
  /\ \E garbage \in Garbage :
       Becomes(StopTripCommon(DisableIf(Adapter, Ok /\ ReportingCount(Adapter) = 1),
                              Arg, garbage))

\* The response to the query of restartTripBatching().
HandleRemaining ==
  /\ Continues("remaining")
  /\ LET covered == IF Arg.query THEN Head(queue).distance ELSE Arg.covered
         left == Minus(mOngoing.distance, covered)
         going == ~mDropped.distance /\ left # 0
         shorter == IF going THEN Arg.distance < left ELSE Arg.distance # 0
         faster == \/ Arg.interval < mOngoing.interval
                   \/ Arg.interval # mOngoing.interval /\ mDropped.interval
         ongoing == [distance |-> IF shorter THEN Arg.distance ELSE mOngoing.distance,
                     interval |-> IF faster THEN Arg.interval ELSE mOngoing.interval]
     IN Becomes(IF shorter \/ faster
                THEN Calls(Adapter, "restartTrip", ongoing,
                           Msg("multiplexed", [covered |-> covered, ongoing |-> ongoing]))
                ELSE Adapter)

HandleMultiplexed ==
  /\ Continues("multiplexed")
  /\ LET counted == [s \in DOMAIN mTripSessions |->
           LET t == mTripSessions[s]
               sofar == Plus(t.onRestart, Minus(Arg.covered, t.ongoingBatch))
           IN [t EXCEPT !.thisTrip = sofar, !.onRestart = sofar, !.ongoingBatch = 0]]
     IN Becomes(IF Ok THEN [Adapter EXCEPT !.trips = counted, !.ongoing = Arg.ongoing]
                ELSE Adapter)

HandleTripResumed ==
  /\ Continues("tripResumed")
  /\ Becomes(IF Ok THEN Adapter ELSE [Adapter EXCEPT !.ongoing = NoTrip])

\* MsgReportCompletedTrips::proc().  The status of a completed trip is compared after
\* it is erased.
HandleCompleted ==
  /\ Handling("completed")
  /\ LET counted == [s \in DOMAIN mTripSessions |->
           LET t == mTripSessions[s]
           IN [t EXCEPT !.thisTrip = Plus(t.onRestart, Minus(Arg, t.ongoingBatch))]]
         complete == {s \in DOMAIN counted : counted[s].distance <= counted[s].thisTrip}
         remaining == [Adapter EXCEPT !.trips = Without(counted, complete)]
     IN /\ \E garbage \in Garbage :
             Becomes(IF complete = {} THEN remaining
                     ELSE RestartTripBatching(DropsGarbage(remaining, garbage), FALSE, Arg))
        /\ early' = early \cup {s \in complete : went[s] < counted[s].distance}
  /\ UNCHANGED <<mClientData, engineKnown, mPendingMsgs, modemVars, clientVars, accepted>>

\* The sessions of a map in the order it has them, that of their ids.
Orders(S) ==
  {order \in [1..Cardinality(S) -> S] :
     \A i, j \in DOMAIN order : i < j => order[i] < order[j]}

\* stopClientSessions(): each session is stopped, as what its options say it is.
StopSession(a, s, garbage) ==
  IF mBatchingSessions[s].mode = "trip"
  THEN StopTrip(a, Job(0, s, DefaultOptions, FALSE), garbage)
  ELSE StopBatching(a, Job(0, s, DefaultOptions, FALSE))

StopSessions(order, garbage) ==
  LET after[k \in 0..Len(order)] ==
        IF k = 0 THEN Adapter ELSE StopSession(after[k - 1], order[k], garbage)
  IN after[Len(order)]

\* MsgRemoveClient::proc(), updateClientsEventMask()
HandleRemoveClient ==
  /\ Handling("removeClient")
  /\ LET own == {s \in DOMAIN mBatchingSessions : cmds[s].client = Arg}
     IN \E order \in Orders(own), garbage \in Garbage :
          LET a == StopSessions(order, garbage)
          IN Becomes([a EXCEPT !.batchFull = ReportingCount(a) > 0,
                               !.crossed = @ \/ \E s \in own :
                                                  mBatchingSessions[s].mode = "trip"])
  /\ mClientData' = mClientData \ {Arg}
  /\ UNCHANGED <<engineKnown, mPendingMsgs, modemVars, clientVars, accepted, early>>

\* MsgSSREvent::proc(), restartSessions(): the sessions are started again, and the
\* modem's trip with what is left to go; that ongoingBatch is reset has no effect, it is
\* reset in a copy.  Mutated form: only the trips are.
ResumeTrips(a) ==
  IF DOMAIN a.trips = {} THEN a
  ELSE LET ongoing == [distance |-> MinRemaining(a.trips), interval |-> MinInterval(a.trips)]
       IN Calls([a EXCEPT !.ongoing = ongoing], "startTrip", ongoing, Msg("tripResumed", None))

PlainSessions == {s \in DOMAIN mBatchingSessions : mBatchingSessions[s].mode # "trip"}

CallsOfPlain(order) ==
  [k \in DOMAIN order |->
     LET job == Job(0, order[k], mBatchingSessions[order[k]], FALSE)
     IN Call("startBatching", job, Msg("ignored", job))]

RestartTripsOnly(a, order) == ResumeTrips([a EXCEPT !.batchFull = @ \/ ReportingCount(a) > 0])

RestartSessions(a, order) ==
  ResumeTrips([a EXCEPT !.batchFull = @ \/ ReportingCount(a) > 0,
                        !.calls = CallsOfPlain(order)])

\* The calls made between the restart and its message have failed by then.
HandleEngineUp ==
  /\ queue # <<>> /\ Head(queue).op = "engineUp" /\ toModem = <<>>
  /\ queue' = Tail(queue) \o mPendingMsgs
  /\ mPendingMsgs' = <<>> /\ engineKnown' = TRUE
  /\ \E order \in Orders(PlainSessions) : Becomes(RestartSessions(Adapter, order))
  /\ UNCHANGED <<mClientData, modemVars, clientVars, accepted, early>>

-----------------------------------------------------------------------------
(***************************************************************************)
(* The modem.                                                              *)
(***************************************************************************)
Restarting == \E k \in DOMAIN queue : queue[k].op = "engineUp"

Answers(ok, distance) ==
  /\ queue' = Append(queue, [Head(toModem).then EXCEPT !.ok = ok, !.distance = distance])
  /\ toModem' = Tail(toModem)
  /\ UNCHANGED <<sessionVars, mClientData, engineKnown, mPendingMsgs, clientVars, accepted,
                 answered, early, crossed, starts>>

Runs(ongoing) ==
  [distance |-> ongoing.distance, interval |-> ongoing.interval,
   accumulated |-> 0, reported |-> FALSE]

ModemActs ==
  /\ toModem # <<>> /\ ~Restarting /\ UNCHANGED <<refused, refusals>>
  /\ LET call == Head(toModem).call
         arg == Head(toModem).arg
     IN /\ modem' =
             CASE call = "startBatching" ->
                    [modem EXCEPT !.batching = With(@, arg.session, arg.options)]
               [] call = "stopBatching" ->
                    [modem EXCEPT !.batching = Without(@, {arg.session})]
               [] call \in {"startTrip", "restartTrip"} -> [modem EXCEPT !.trip = Runs(arg)]
               [] call = "stopTrip" -> [modem EXCEPT !.trip = None]
               [] OTHER -> modem
        /\ Answers(TRUE, IF call = "query" /\ modem.trip # None THEN modem.trip.accumulated
                         ELSE 0)

\* What a refused call was about.  A refused start is undone and needs no mention,
\* unless a restart comes before its response.
Spoils(then) ==
  CASE then.op = "stopped" -> {then.arg.job.session}
    [] then.op = "ignored" -> {then.arg.session}
    [] then.op = "started" -> IF Restarting THEN {then.arg.session} ELSE {}
    [] then.op = "tripStarted" -> IF Restarting THEN {0} ELSE {}
    [] then.op \in TripResponses \ {"tripStarted"} -> {0}
    [] OTHER -> {}

ModemRefuses ==
  /\ toModem # <<>> /\ refused' = refused \cup Spoils(Head(toModem).then)
  /\ Restarting \/ refusals < bounds.refusals
  /\ refusals' = refusals + (IF Restarting THEN 0 ELSE 1)
  /\ UNCHANGED modem
  /\ Answers(FALSE, 0)

ModemStarts ==
  /\ starts < bounds.starts /\ starts' = starts + 1
  /\ modem' = [batching |-> <<>>, trip |-> None]
  /\ queue' = queue \o [k \in DOMAIN toModem |-> [toModem[k].then EXCEPT !.ok = FALSE]]
                \o <<Msg("engineUp", None)>>
  /\ toModem' = <<>>
  /\ refused' = refused \cup UNION {Spoils(toModem[k].then) : k \in DOMAIN toModem}
  /\ UNCHANGED <<sessionVars, mClientData, engineKnown, mPendingMsgs, clientVars, accepted,
                 answered, early, crossed, refusals>>

\* The device moves on while the modem's trip lasts, which it reports complete once.
MaxDistance == Max({o.distance : o \in bounds.options})
DeviceMoves ==
  /\ modem.trip # None /\ ~modem.trip.reported
  /\ LET accumulated == modem.trip.accumulated + 1
         complete == accumulated >= modem.trip.distance
     IN /\ modem' = [modem EXCEPT !.trip.accumulated = accumulated, !.trip.reported = complete]
        /\ queue' = IF complete THEN Append(queue, Msg("completed", accumulated))
                    ELSE queue
  /\ went' = [s \in DOMAIN went |-> IF went[s] < MaxDistance
                                    THEN went[s] + 1 ELSE went[s]]
  /\ UNCHANGED <<mBatchingSessions, mTripSessions, mOngoing, mDropped, batchFull,
                 mClientData, engineKnown, mPendingMsgs, toModem, starts, refused, refusals,
                 clientVars, accepted, answered, early, crossed>>

-----------------------------------------------------------------------------
ClientNext ==
  \E c \in Clients :
    \/ \E o \in bounds.options : StartBatchingCommand(c, o)
    \/ \E s \in Sessions(c) :
         \/ \E o \in bounds.options : UpdateBatchingOptionsCommand(c, s, o)
         \/ StopBatchingCommand(c, s)
         \/ GetBatchedLocationsCommand(c, s)
    \/ Destroy(c)

TaskNext ==
  \/ HandleCommand \/ HandleStarted \/ HandleStopped \/ HandleGot \/ HandleIgnored
  \/ HandleTripStarted \/ HandleTripQueried \/ HandleTripRestarted \/ HandleTripStopped
  \/ HandleRemaining \/ HandleMultiplexed \/ HandleTripResumed
  \/ HandleCompleted \/ HandleRemoveClient \/ HandleEngineUp

ModemAnswers == ModemActs \/ ModemRefuses

Next == ClientNext \/ TaskNext \/ ModemAnswers \/ ModemStarts \/ DeviceMoves

Spec == Init /\ [][Next]_vars

-----------------------------------------------------------------------------
(***************************************************************************)
(* Properties.                                                             *)
(***************************************************************************)
\* Nothing is under way.
Quiet == queue = <<>> /\ toModem = <<>> /\ mPendingMsgs = <<>>

Reporting == \/ mTripSessions # <<>>
             \/ \E s \in DOMAIN mBatchingSessions : mBatchingSessions[s].mode = "routine"

\* While a session or a trip wants its locations when the modem's batch is full, the
\* adapter is registered for the event: no start, stop, failure or restart of others
\* takes it away (autoReportBatchingSessionsCount() and its callers).  Left out are
\* behaviours in which calls about trips cross, and those in which the modem refused to
\* stop a plain session, which is then saved again without the event, or to start one
\* again after a restart.
BatchFullIsReported == ~crossed /\ refused \subseteq {0} /\ Reporting => batchFull

\* When all is done, and whatever updates, failed starts, removed clients and restarts
\* came in which order, the modem has the plain sessions of the adapter with their
\* options, and no session that the adapter does not know (startBatching(),
\* stopBatching(), restartSessions()).
PlainSessionsAreServed ==
  Quiet /\ ~crossed => \A s \in DOMAIN cmds \ refused :
    /\ s \in DOMAIN modem.batching => s \in DOMAIN mBatchingSessions
    /\ s \in DOMAIN mBatchingSessions /\ mBatchingSessions[s].mode # "trip" =>
         s \in DOMAIN modem.batching /\ modem.batching[s] = mBatchingSessions[s]

\* Trips all ask for positions at the same interval.
OneInterval ==
  \A o, p \in {q \in bounds.options : q.mode = "trip"} : o.interval = p.interval

\* Trips all have an interval.  0, which it is by default, the loops over the trips take
\* for none found yet, and whatever comes after it for the shortest.
HaveIntervals ==
  \A o \in {p \in bounds.options : p.mode = "trip"} : o.interval > 0

\* When all is done, the modem has a trip if and only if the adapter has some, at least
\* as often as each wants a position if all have an interval.  If all want them as often,
\* the modem's trip is still to be reported complete: the trips left behind by one that
\* ended are never forgotten.  After a restart of the modem they may be, and after a trip
\* that wants them more often than the others (startTripBatchingMultiplex(),
\* restartTripBatching(), restartSessions()).
TripsAreServed ==
  Quiet /\ ~crossed /\ 0 \notin refused =>
    /\ mTripSessions = <<>> <=> modem.trip = None
    /\ \A s \in DOMAIN mTripSessions :
         /\ ~HaveIntervals \/ modem.trip.interval <= mTripSessions[s].interval
         /\ starts > 1 \/ ~OneInterval \/ ~modem.trip.reported

\* Trips without an interval are served too, as often as they want: violated when the
\* modem restarts, or one of them stops, while another trip has an interval.
IntervalsAreServed ==
  Quiet /\ ~crossed /\ 0 \notin refused =>
    \A s \in DOMAIN mTripSessions : modem.trip.interval <= mTripSessions[s].interval

\* No trip is reported complete before the device has gone its distance since the
\* client asked for it, in how many of the modem's trips it may have done so, unless
\* the modem refused one of them (MsgReportCompletedTrips::proc() and what the other
\* continuations count).
NoTripEndsEarly == crossed \/ starts > 1 \/ 0 \in refused \/ early = {}

\* A command that proc() accepts is answered, over all the calls of the modem it takes
\* and a restart in the midst of them, unless its client is gone (reportResponse()).
AcceptedIsAnswered ==
  Quiet => accepted \subseteq answered
                       \cup {n \in DOMAIN cmds : cmds[n].client \notin mClientData}

\* "Reset the accumulatedDistanceOngoingBatch for each session" (a comment of
\* restartSessions()): the trips are served after a restart of the modem too.
RestartedTripsAreServed ==
  Quiet /\ ~crossed /\ 0 \notin refused =>
    \A s \in DOMAIN mTripSessions : ~modem.trip.reported

\* "Record the total accumulated distance so far for the session" (a comment of
\* startTripBatchingMultiplex()): a trip that makes the modem's start anew lets the
\* others forget nothing of their way, so none is left behind by the modem's trip.
DistanceSoFarIsRecorded == starts <= 1 => RestartedTripsAreServed

\* No trip is reported complete early either when the modem refuses to start its trip
\* anew ("New Trip restart failed!", startTripBatchingMultiplex()).
NoTripEndsEarlyRefused == crossed \/ starts > 1 \/ early = {}
=============================================================================
