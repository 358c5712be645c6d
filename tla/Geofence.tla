------------------------------ MODULE Geofence ------------------------------
(***************************************************************************)
(* The geofences of gps/geofence/GeofenceAdapter.cpp.                      *)
(*                                                                         *)
(* A client names its geofences by ids it got from addGeofences(), and the *)
(* modem names them by hardware ids of its own, which it gives out again.  *)
(* The adapter keeps two maps between the two.  A command names several    *)
(* geofences and is answered once for all of them, although each is an     *)
(* item of its own on the way: a message of the adapter's MsgTask that     *)
(* comes through the call queue of the LocApi, a call of the modem, and a  *)
(* message with the response of the modem.  When the modem restarts it     *)
(* has forgotten the geofences, and the adapter adds them again.           *)
(*                                                                         *)
(* The LocApi of the modem is not in src/: it answers the calls in the     *)
(* order they were made, may refuse each, and calls still unanswered when  *)
(* the modem restarts fail.  The hardware id of a call is that of when the *)
(* call was made, and the modem may have given it to another geofence by   *)
(* then: because it takes calls between its restart and the message that   *)
(* tells the adapter of it (EarlyCalls), or because it gives out ids again *)
(* while it runs (ReusesIds).  The adapter copes with neither.             *)
(***************************************************************************)
EXTENDS Integers, Sequences, SequencesExt, FiniteSetsExt

CONSTANTS
  Clients,      \* LocationAPI objects
  HwIds,        \* hardware ids of the modem, integers
  Masks,        \* GeofenceOption: breach types, responsiveness, dwell time
  NewMask,      \* the options with which geofences are added
  None,         \* no client, no options
  EarlyCalls,   \* the modem takes calls made before the adapter knows it restarted
  ReusesIds,    \* the modem gives out the hardware id of a removed geofence again
  MaxCount,     \* number of geofences in a command
  MaxEvents,    \* bound on the commands of clients and breaches the modem reports
  MaxRestarts   \* bound on the restarts of the modem

ASSUME BoundsAssumption ==
  /\ MaxCount \in Nat \ {0} /\ MaxEvents \in Nat /\ MaxRestarts \in Nat
  /\ {EarlyCalls, ReusesIds} \subseteq BOOLEAN
ASSUME NamesAssumption ==
  HwIds \subseteq Nat /\ None \notin Clients \cup Masks \cup {NewMask, "success"}

VARIABLES
  mGeofences,    \* GeofenceObjects by hardware id
  mGeofenceIds,  \* hardware ids by id: an id is that of one client
  mClientData,   \* the clients the adapter knows
  queue,         \* the adapter's messages
  toModem,       \* calls the LocApi has not made
  modem,         \* the geofences of the modem by hardware id
  given,         \* hardware ids the modem has given out since it started
  cmds,          \* the commands given: what they name and the arrays they share
  destroyed,     \* clients that are no more
  mSessionIdCounter,  \* the last id given out
  notified,      \* breaches of geofences and what each was reported as
  lost,          \* geofences the modem did not take back after a restart
  breaches, restarts  \* what has been used of the bounds

maps == <<mGeofences, mGeofenceIds>>
modemVars == <<toModem, modem, given, restarts, breaches, lost>>
clientVars == <<destroyed, mSessionIdCounter>>
vars == <<maps, mClientData, queue, modemVars, cmds, clientVars, notified>>

Ops == {"add", "remove", "pause", "resume", "modify"}
Ids == 2..(MaxEvents * MaxCount + 1)  \* the first id is 2

\* GeofenceObject; the place is left out, which never changes.
Object == [client : Clients, id : Ids, mask : Masks \cup {NewMask}, paused : BOOLEAN]

\* errs and ids of a command are shared by its items; the last item frees them.
\* whole: the options and the places of an addition or modification are not NULL.
Command == [op : Ops, client : Clients, ids : Seq(Ids), mask : Masks \cup {NewMask, None},
            whole : BOOLEAN,
            errs : Seq({None, "success", "unknown", "failed", "invalid"}), freed : BOOLEAN,
            answer : Seq({None, "success", "unknown", "failed", "invalid"}) \cup {None}]

Msg(op, arg) == [op |-> op, arg |-> arg, ok |-> TRUE, hw |-> None]

Call(call, hw, object, then) == [call |-> call, hw |-> hw, object |-> object, then |-> then]

TypeOK ==
  /\ DOMAIN mGeofences \subseteq HwIds
  /\ \A hw \in DOMAIN mGeofences : mGeofences[hw] \in Object
  /\ DOMAIN mGeofenceIds \subseteq Ids
  /\ \A id \in DOMAIN mGeofenceIds : mGeofenceIds[id] \in HwIds
  /\ mClientData \subseteq Clients /\ destroyed \subseteq Clients /\ lost \subseteq Ids
  /\ mSessionIdCounter \in Ids \cup {1}
  /\ \A k \in DOMAIN queue : queue[k].op \in
       {"command", "item", "added", "done", "erased", "restored", "ignored",
        "removeClient", "engineUp", "breach"}
  /\ \A k \in DOMAIN toModem : toModem[k].call \in Ops \cup {"sync"}
  /\ DOMAIN modem \subseteq given /\ given \subseteq HwIds
  /\ \A hw \in DOMAIN modem : modem[hw] \in Object
  /\ Len(cmds) <= MaxEvents /\ \A n \in DOMAIN cmds : cmds[n] \in Command
  /\ breaches \in 0..MaxEvents /\ restarts \in 0..MaxRestarts

Init ==
  /\ mGeofences = <<>> /\ mGeofenceIds = <<>>
  /\ mClientData = Clients /\ destroyed = {} /\ mSessionIdCounter = 1
  /\ queue = <<>> /\ toModem = <<>>
  /\ modem = <<>> /\ given = {}
  /\ cmds = <<>>
  /\ notified = {} /\ lost = {}
  /\ breaches = 0 /\ restarts = 0

-----------------------------------------------------------------------------
(***************************************************************************)
(* Calls of clients.                                                       *)
(***************************************************************************)
OwnIds(c) == UNION {ToSet(cmds[n].ids) : n \in {k \in DOMAIN cmds :
                                                  cmds[k].op = "add" /\ cmds[k].client = c}}

GiveCommand(op, c, ids, mask, whole) ==
  /\ Len(cmds) + breaches < MaxEvents /\ c \notin destroyed
  /\ cmds' = Append(cmds, [op |-> op, client |-> c, ids |-> ids, mask |-> mask, whole |-> whole,
                           errs |-> [i \in DOMAIN ids |-> None], freed |-> FALSE,
                           answer |-> None])
  /\ queue' = Append(queue, Msg("command", Len(cmds) + 1))
  /\ UNCHANGED <<maps, mClientData, modemVars, destroyed, notified>>

\* The ids are those of generateSessionId(), and given out whatever the arrays.
AddGeofences(c, count, whole) ==
  /\ mSessionIdCounter' = mSessionIdCounter + count
  /\ GiveCommand("add", c, [i \in 1..count |-> mSessionIdCounter + i], NewMask, whole)

\* The four commands that name geofences of the client, in any order.  The array of ids
\* is not NULL: its copy would have no contents.
OnGeofences(op, c, ids, mask, whole) ==
  /\ ids # <<>> /\ IsInjective(ids)
  /\ GiveCommand(op, c, ids, mask, whole)
  /\ UNCHANGED mSessionIdCounter

\* LocationAPI::destroy()
Destroy(c) ==
  /\ c \notin destroyed /\ destroyed' = destroyed \cup {c}
  /\ queue' = Append(queue, Msg("removeClient", c))
  /\ UNCHANGED <<maps, mClientData, modemVars, cmds, mSessionIdCounter, notified>>

-----------------------------------------------------------------------------
(***************************************************************************)
(* The maps.                                                               *)
(***************************************************************************)
Without(f, S) == [x \in DOMAIN f \ S |-> f[x]]
With(f, x, y) == [z \in DOMAIN f \cup {x} |-> IF z = x THEN y ELSE f[z]]

\* saveGeofenceItem().  Mutated form: only the hardware id is saved.
SaveObjectOnly(object, hw) ==
  /\ mGeofences' = With(mGeofences, hw, [object EXCEPT !.paused = FALSE])
  /\ UNCHANGED mGeofenceIds

Save(object, hw) ==
  /\ mGeofences' = With(mGeofences, hw, [object EXCEPT !.paused = FALSE])
  /\ mGeofenceIds' = With(mGeofenceIds, object.id, hw)

\* removeGeofenceItem()
RemoveItem(hw) ==
  IF hw \in DOMAIN mGeofences /\ mGeofences[hw].id \in DOMAIN mGeofenceIds
  THEN /\ mGeofenceIds' = Without(mGeofenceIds, {mGeofences[hw].id})
       /\ mGeofences' = Without(mGeofences, {hw})
  ELSE UNCHANGED maps

\* The keys of a map as an iterator finds them.
InOrder(S) == {s \in Bijection(1..Cardinality(S), S) :
                 \A j, k \in DOMAIN s : j < k => s[j] < s[k]}

\* What a command makes of a geofence, here and in the modem.
Changed(op, mask, object) ==
  CASE op = "pause"  -> [object EXCEPT !.paused = TRUE]
    [] op = "resume" -> [object EXCEPT !.paused = FALSE]
    [] op = "modify" -> [object EXCEPT !.mask = mask]

\* pauseGeofenceItem(), resumeGeofenceItem(), modifyGeofenceItem()
ChangeItem(hw, op, mask) ==
  /\ mGeofences' = IF hw \in DOMAIN mGeofences
                   THEN [mGeofences EXCEPT ![hw] = Changed(op, mask, @)] ELSE mGeofences
  /\ UNCHANGED mGeofenceIds

-----------------------------------------------------------------------------
(***************************************************************************)
(* Handlers of the adapter's messages.                                     *)
(***************************************************************************)
Handling(op) == queue # <<>> /\ Head(queue).op = op /\ queue' = Tail(queue)
Arg == Head(queue).arg
Ok  == Head(queue).ok

Calls(s) == toModem' = toModem \o s /\ UNCHANGED <<modem, given, restarts, breaches, lost>>

\* MsgAddGeofences::proc() and the others: every item goes through the call queue.
HandleCommand ==
  /\ Handling("command") /\ cmds[Arg].whole
  /\ Calls([i \in DOMAIN cmds[Arg].ids |-> Call("sync", None, None, Msg("item", <<Arg, i>>))])
  /\ UNCHANGED <<maps, mClientData, cmds, clientVars, notified>>

\* An array is NULL: the items are invalid in an array that nobody reports or frees.
HandleNullCommand ==
  /\ Handling("command") /\ ~cmds[Arg].whole
  /\ cmds' = [cmds EXCEPT ![Arg].errs = [i \in DOMAIN cmds[Arg].ids |-> "invalid"]]
  /\ UNCHANGED <<maps, mClientData, modemVars, clientVars, notified>>

\* What an item writes to errs[i]; the last one of the command reports the array as
\* it is by then and frees it.  reportResponse() finds the client or does not.
\* Mutated form: the first item reports.
WriteFirst(n, i, err) ==
  LET errs == IF cmds[n].freed THEN cmds[n].errs ELSE [cmds[n].errs EXCEPT ![i] = err]
  IN cmds' = IF i = 1 /\ Len(errs) > 1
             THEN [cmds EXCEPT ![n].errs = errs, ![n].freed = TRUE]
             ELSE [cmds EXCEPT ![n].errs = errs]

Write(n, i, err) ==
  LET errs == IF cmds[n].freed THEN cmds[n].errs ELSE [cmds[n].errs EXCEPT ![i] = err]
  IN cmds' = IF i = Len(errs)
             THEN [cmds EXCEPT ![n].errs = errs, ![n].freed = TRUE,
                     ![n].answer = IF cmds[n].client \in mClientData THEN errs ELSE None]
             ELSE [cmds EXCEPT ![n].errs = errs]

\* An item that has come through the call queue.
HandleItem ==
  /\ Handling("item")
  /\ LET n == Arg[1]
         i == Arg[2]
         c == cmds[n]
         id == c.ids[i]
         object == [client |-> c.client, id |-> id, mask |-> c.mask, paused |-> FALSE]
     IN \/ /\ c.op = "add"
           /\ Calls(<<Call("add", None, object, Msg("added", <<n, i, object>>))>>)
           /\ UNCHANGED cmds
        \/ /\ c.op # "add" /\ id \in DOMAIN mGeofenceIds
           /\ LET hw == mGeofenceIds[id] IN
              /\ Calls(<<Call(c.op, hw, object, Msg("done", <<n, i, hw>>))>>)
              /\ cmds' = [cmds EXCEPT ![n].errs[i] = "success"]
        \/ /\ c.op # "add" /\ id \notin DOMAIN mGeofenceIds
           /\ Write(n, i, "unknown")
           /\ UNCHANGED modemVars
  /\ UNCHANGED <<maps, mClientData, clientVars, notified>>

Result == IF Ok THEN "success" ELSE "failed"

\* The response of addGeofence().
HandleAdded ==
  /\ Handling("added")
  /\ IF Ok THEN Save(Arg[3], Head(queue).hw) ELSE UNCHANGED maps
  /\ Write(Arg[1], Arg[2], Result)
  /\ UNCHANGED <<mClientData, modemVars, clientVars, notified>>

\* The responses of the other calls.  A resume that fails writes nothing, and is not
\* answered; a modify that fails leaves what the item has found.
\* Mutated form: the item changes whether or not the modem has changed it.
HandleDoneAnyway ==
  /\ Handling("done")
  /\ LET n == Arg[1]
         i == Arg[2]
         hw == Arg[3]
         op == cmds[n].op
     IN /\ IF op = "remove" THEN RemoveItem(hw) ELSE ChangeItem(hw, op, cmds[n].mask)
        /\ Write(n, i, Result)
  /\ UNCHANGED <<mClientData, modemVars, clientVars, notified>>

HandleDone ==
  /\ Handling("done")
  /\ LET n == Arg[1]
         i == Arg[2]
         hw == Arg[3]
         op == cmds[n].op
     IN /\ IF ~Ok THEN UNCHANGED maps
           ELSE IF op = "remove" THEN RemoveItem(hw) ELSE ChangeItem(hw, op, cmds[n].mask)
        /\ IF op = "resume" /\ ~Ok THEN UNCHANGED cmds
           ELSE Write(n, i, IF op = "modify" /\ ~Ok THEN cmds[n].errs[i] ELSE Result)
  /\ UNCHANGED <<mClientData, modemVars, clientVars, notified>>

\* MsgRemoveClient::proc(), stopClientSessions(): the ids are forgotten at once, the
\* objects when the modem has removed them.
HandleRemoveClient ==
  /\ Handling("removeClient")
  /\ LET own == DOMAIN mGeofenceIds \cap OwnIds(Arg)
     IN /\ mGeofenceIds' = Without(mGeofenceIds, own)
        /\ \E id \in InOrder(own) :
             Calls([k \in DOMAIN id |-> LET hw == mGeofenceIds[id[k]]
                                       IN Call("remove", hw, None, Msg("erased", hw))])
  /\ mClientData' = mClientData \ {Arg}
  /\ UNCHANGED <<mGeofences, cmds, clientVars, notified>>

HandleErased ==
  /\ Handling("erased")
  /\ mGeofences' = IF Ok THEN Without(mGeofences, {Arg}) ELSE mGeofences
  /\ UNCHANGED <<mGeofenceIds, mClientData, modemVars, cmds, clientVars, notified>>

\* The calls made between the restart and its message have failed by then, unless
\* they are taken early.
CallsFailed == EarlyCalls \/ \A k \in DOMAIN toModem : toModem[k].call = "sync"

\* MsgSSREvent::proc(), restartGeofences().  Mutated form: the maps are kept, as if
\* the modem gave the same hardware ids again.
HandleEngineUpKeep ==
  /\ Handling("engineUp") /\ CallsFailed
  /\ UNCHANGED maps
  /\ \E hw \in InOrder(DOMAIN mGeofences) :
       Calls([k \in DOMAIN hw |-> LET object == mGeofences[hw[k]]
              IN Call("add", None, [object EXCEPT !.paused = FALSE], Msg("ignored", None))])
  /\ UNCHANGED <<mClientData, cmds, clientVars, notified>>

HandleEngineUp ==
  /\ Handling("engineUp") /\ CallsFailed
  /\ IF DOMAIN mGeofences = {} THEN UNCHANGED maps
     ELSE mGeofences' = <<>> /\ mGeofenceIds' = <<>>
  /\ \E hw \in InOrder(DOMAIN mGeofences) :
       Calls([k \in DOMAIN hw |-> LET object == mGeofences[hw[k]]
              IN Call("add", None, [object EXCEPT !.paused = FALSE], Msg("restored", object))])
  /\ UNCHANGED <<mClientData, cmds, clientVars, notified>>

\* A geofence that is added again is paused again, and saved as one that is not.
\* Mutated form: one that is paused is not saved.
HandleRestoredActive ==
  /\ Handling("restored")
  /\ IF Ok /\ ~Arg.paused THEN Save(Arg, Head(queue).hw) ELSE UNCHANGED maps
  /\ Calls(IF Ok /\ Arg.paused
           THEN <<Call("pause", Head(queue).hw, Arg, Msg("ignored", None))>> ELSE <<>>)
  /\ UNCHANGED <<mClientData, cmds, clientVars, notified>>

HandleRestored ==
  /\ Handling("restored")
  /\ IF Ok THEN /\ Save(Arg, Head(queue).hw)
                /\ Calls(IF Arg.paused
                         THEN <<Call("pause", Head(queue).hw, Arg, Msg("ignored", None))>>
                         ELSE <<>>)
     ELSE UNCHANGED <<maps, modemVars>>
  /\ UNCHANGED <<mClientData, cmds, clientVars, notified>>

HandleIgnored ==
  /\ Handling("ignored")
  /\ UNCHANGED <<maps, mClientData, modemVars, cmds, clientVars, notified>>

\* geofenceBreach(): the client of the geofence that has the hardware id by now is
\* told, under the id by which it knows it.
HandleBreach ==
  /\ Handling("breach")
  /\ LET hw == Arg[1] IN
     notified' = IF hw \in DOMAIN mGeofences /\ mGeofences[hw].client \in mClientData
                 THEN notified \cup {[breached |-> Arg[2], client |-> mGeofences[hw].client,
                                      id |-> mGeofences[hw].id]}
                 ELSE notified
  /\ UNCHANGED <<maps, mClientData, modemVars, cmds, clientVars>>

-----------------------------------------------------------------------------
(***************************************************************************)
(* The modem.                                                              *)
(***************************************************************************)
Restored(calls) == {call.then.arg.id : call \in {k \in ToSet(calls) : k.then.op = "restored"}}

Answer(ok, hw) ==
  /\ queue' = Append(queue, [Head(toModem).then EXCEPT !.ok = ok, !.hw = hw])
  /\ toModem' = Tail(toModem)
  /\ lost' = lost \cup (IF ok THEN {} ELSE Restored(<<Head(toModem)>>))
  /\ UNCHANGED <<maps, mClientData, cmds, clientVars, notified, restarts, breaches>>

Restarting == \E k \in DOMAIN queue : queue[k].op = "engineUp"

\* A call that is not refused.
ModemActs ==
  /\ toModem # <<>>
  /\ LET call == Head(toModem) IN
     /\ call.call = "sync" \/ EarlyCalls \/ ~Restarting
     /\ \/ call.call = "sync" /\ UNCHANGED <<modem, given>> /\ Answer(TRUE, None)
        \/ /\ call.call = "add"
           /\ \E hw \in HwIds \ (IF ReusesIds THEN DOMAIN modem ELSE given) :
                /\ modem' = With(modem, hw, call.object) /\ given' = given \cup {hw}
                /\ Answer(TRUE, hw)
        \/ /\ call.call \notin {"sync", "add"} /\ call.hw \in DOMAIN modem
           /\ modem' = IF call.call = "remove" THEN Without(modem, {call.hw})
                       ELSE [modem EXCEPT ![call.hw] = Changed(call.call, call.object.mask, @)]
           /\ UNCHANGED given
           /\ Answer(TRUE, call.hw)

ModemRefuses ==
  /\ toModem # <<>> /\ Head(toModem).call # "sync"
  /\ UNCHANGED <<modem, given>>
  /\ Answer(FALSE, None)

ModemRestarts ==
  /\ restarts < MaxRestarts /\ restarts' = restarts + 1
  /\ modem' = <<>> /\ given' = {}
  /\ queue' = queue \o
       [k \in DOMAIN toModem |->
          [toModem[k].then EXCEPT !.ok = toModem[k].call = "sync"]]
       \o <<Msg("engineUp", None)>>
  /\ toModem' = <<>>
  /\ lost' = lost \cup Restored(toModem)
  /\ UNCHANGED <<maps, mClientData, cmds, clientVars, notified, breaches>>

ModemBreach(hw) ==
  /\ Len(cmds) + breaches < MaxEvents /\ breaches' = breaches + 1
  /\ ~modem[hw].paused
  /\ queue' = Append(queue, Msg("breach", <<hw, modem[hw].id>>))
  /\ UNCHANGED <<maps, mClientData, cmds, clientVars, notified, toModem, modem, given, restarts, lost>>

-----------------------------------------------------------------------------
ClientNext ==
  \E c \in Clients :
    \/ \E count \in 1..MaxCount, whole \in BOOLEAN : AddGeofences(c, count, whole)
    \/ \E ids \in SeqOf(OwnIds(c), MaxCount) :
         \/ \E op \in {"remove", "pause", "resume"} : OnGeofences(op, c, ids, None, TRUE)
         \/ \E mask \in Masks, whole \in BOOLEAN : OnGeofences("modify", c, ids, mask, whole)
    \/ Destroy(c)

TaskNext ==
  \/ HandleCommand \/ HandleNullCommand \/ HandleItem \/ HandleAdded \/ HandleDone
  \/ HandleRemoveClient \/ HandleErased
  \/ HandleEngineUp \/ HandleRestored \/ HandleIgnored
  \/ HandleBreach

ModemAnswers == ModemActs \/ ModemRefuses

Next ==
  \/ ClientNext \/ TaskNext \/ ModemAnswers \/ ModemRestarts
  \/ \E hw \in DOMAIN modem : ModemBreach(hw)

Spec == Init /\ [][Next]_vars

\* The MsgTask runs, and the modem answers.
FairSpec == Spec /\ WF_vars(TaskNext) /\ WF_vars(ModemAnswers)

-----------------------------------------------------------------------------
(***************************************************************************)
(* Properties.                                                             *)
(***************************************************************************)
Quiet == queue = <<>> /\ toModem = <<>>

\* An id leads to the object of its geofence, under a hardware id no other id has,
\* although a restarted modem gives these out again; and an object of a client that is
\* there has its id.
MapsAgree ==
  /\ \A id \in DOMAIN mGeofenceIds :
       mGeofenceIds[id] \in DOMAIN mGeofences /\ mGeofences[mGeofenceIds[id]].id = id
  /\ \A hw \in DOMAIN mGeofences :
       mGeofences[hw].client \in mClientData => mGeofences[hw].id \in DOMAIN mGeofenceIds

\* Once nothing is under way, the modem and the adapter have the same geofences of the
\* clients that are there, with the same options, and the modem has none the adapter
\* does not know: through refused calls, the removal of clients and restarts with
\* commands under way.
ModemAgrees ==
  Quiet => /\ DOMAIN modem \subseteq DOMAIN mGeofences
           /\ \A hw \in DOMAIN mGeofences :
                /\ mGeofences[hw].client \in mClientData => hw \in DOMAIN modem
                /\ hw \in DOMAIN modem => /\ modem[hw].id = mGeofences[hw].id
                                          /\ modem[hw].mask = mGeofences[hw].mask

\* A geofence whose addition was answered with success stays until a command names it
\* for removal or its client goes, through restarts of the modem, unless the modem
\* did not take it back.
GeofencesSurvive ==
  Quiet => \A n \in DOMAIN cmds :
    cmds[n].op = "add" /\ cmds[n].client \in mClientData /\ cmds[n].answer # None =>
      \A i \in DOMAIN cmds[n].ids :
        \/ cmds[n].answer[i] # "success"
        \/ cmds[n].ids[i] \in lost \cup DOMAIN mGeofenceIds
        \/ \E k \in DOMAIN cmds : cmds[k].op = "remove" /\ cmds[n].ids[i] \in ToSet(cmds[k].ids)

\* A breach is reported as one of the geofence the modem meant, although its hardware
\* id may have been given to another one before the message is handled.
BreachIsOfItsGeofence == \A b \in notified : b.breached = b.id

\* Every command whose arrays are not NULL is answered, but for resumptions that fail
\* and clients that have gone: however its items are split between the adapter, which
\* does not know an id, and a modem that refuses, answers or restarts.
CommandIsAnswered ==
  \A n \in 1..MaxEvents :
    (n \in DOMAIN cmds /\ cmds[n].op # "resume" /\ cmds[n].whole) ~>
      (n \in DOMAIN cmds /\ (cmds[n].freed \/ cmds[n].client \in destroyed))

\* The answer to a command has the results of all its items: violated when the last
\* item is answered by the adapter itself and the modem still has another one, which
\* then writes to an array that is freed.
AnswerIsComplete ==
  \A n \in DOMAIN cmds : cmds[n].freed =>
    \A k \in DOMAIN toModem : toModem[k].then.op = "done" => toModem[k].then.arg[1] # n

\* A command with a NULL array is answered with an invalid parameter, as LocationAPI.h
\* has it for addGeofences() and modifyGeofences(): violated, it is never answered.
NullIsAnswered ==
  \A n \in 1..MaxEvents :
    (n \in DOMAIN cmds /\ ~cmds[n].whole) ~>
      (n \in DOMAIN cmds /\ (cmds[n].freed \/ cmds[n].client \in destroyed))

\* A resumption that fails is answered as well: violated, its response is not sent.
ResumeIsAnswered ==
  \A n \in 1..MaxEvents :
    (n \in DOMAIN cmds /\ cmds[n].op = "resume") ~>
      (n \in DOMAIN cmds /\ (cmds[n].freed \/ cmds[n].client \in destroyed))

\* A client that has been removed has no geofences: violated by one that was being
\* added, and by one whose removal was refused or had not been answered when the modem
\* restarted, which is added again.
RemovedClientHasNoGeofences ==
  Quiet => \A hw \in DOMAIN modem : modem[hw].client \in mClientData

\* A geofence that is gone is forgotten: violated when the client goes while it removes
\* a geofence, whose object then stays and is added again by the next restart.
GoneGeofenceIsForgotten == Quiet => DOMAIN mGeofences \subseteq DOMAIN modem

\* The adapter knows which geofences are paused: violated by every restart.
PausedIsKnown ==
  Quiet => \A hw \in DOMAIN modem : hw \in DOMAIN mGeofences =>
    (modem[hw].paused <=> mGeofences[hw].paused)
=============================================================================
