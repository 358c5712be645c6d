----------------------------- MODULE LocationApi -----------------------------
(***************************************************************************)
(* The life of a client of gps/location/LocationAPI.cpp.                   *)
(*                                                                         *)
(* A LocationAPI object is known to the adapters of the kinds of callbacks *)
(* it has: each keeps a map of its clients, which only the MsgTask the     *)
(* adapters share reads and writes.  createInstance(), updateCallbacks()   *)
(* and destroy() run on threads of the clients under gDataMutex and send   *)
(* messages to the adapters.  An object that is destroyed with a callback  *)
(* is deleted by the MsgTask when the last adapter has removed it, and     *)
(* memory that is deleted may be the next object.                          *)
(*                                                                         *)
(* The commands on sessions are left out: they go to one adapter, whose    *)
(* module has them.                                                        *)
(***************************************************************************)
EXTENDS Integers, Sequences, Functions

CONSTANTS
  Clients,     \* memory for LocationAPI objects
  Adapters,    \* those of "gnss", "batching" and "geofence" that there are
  Narrowing,   \* updateCallbacks() may take kinds of callbacks away
  None,        \* nothing
  MaxCalls     \* bound on the calls of createInstance() and updateCallbacks()

ASSUME BoundsAssumption == MaxCalls \in Nat /\ Narrowing \in BOOLEAN

VARIABLES
  clientData,         \* gData.clientData: the kinds of callbacks of the clients
  destroyClientData,  \* gData.destroyClientData: waitAdapterMask of those with a callback
  interfaces,         \* adapters whose library is loaded
  loadFailed,         \* adapters whose library could not be
  gDataMutex,         \* the messages its holder has still to send; empty, it is free
  queue,              \* the MsgTask's messages
  task,               \* None, or what the MsgTask is doing in the midst of a message
  mClientData,        \* each adapter's clients
  mPendingMsgs,       \* clients whose requests wait for the adapter's engine
  known,              \* adapters whose engine has reported its capabilities
  object,             \* what the memory of a client is
  awaited,            \* objects whose completion callback is owed
  told,               \* clients that were called with the capabilities
  calls               \* calls used up

gData == <<clientData, destroyClientData, interfaces, loadFailed>>
adapterVars == <<mClientData, mPendingMsgs, known>>
vars == <<gData, gDataMutex, queue, task, adapterVars, object, awaited, told, calls>>

Kinds == SUBSET Adapters
Msg(op, a, c) == [op |-> op, a |-> a, c |-> c]
Messages == [op : {"add", "remove", "request"}, a : Adapters, c : Clients]
              \cup [op : {"engineUp"}, a : Adapters, c : {None}]
Tasks == [do : {"complete", "delete"}, a : Adapters, c : Clients]

ASSUME NamesAssumption ==
  None \notin Clients \cup Tasks /\ Adapters \subseteq {"gnss", "batching", "geofence"}

TypeOK ==
  /\ DOMAIN clientData \subseteq Clients /\ \A c \in DOMAIN clientData : clientData[c] \in Kinds
  /\ DOMAIN destroyClientData \subseteq Clients
  /\ \A c \in DOMAIN destroyClientData : destroyClientData[c] \in Kinds \ {{}}
  /\ interfaces \in Kinds /\ loadFailed \in Kinds
  /\ gDataMutex \in Seq(Messages)
  /\ queue \in Seq(Messages)
  /\ task \in {None} \cup Tasks
  /\ mClientData \in [Adapters -> SUBSET Clients]
  /\ mPendingMsgs \in [Adapters -> Seq(Clients)]
  /\ known \in Kinds
  /\ object \in [Clients -> {"free", "created", "destroyed"}]
  /\ awaited \subseteq Clients /\ told \subseteq Clients /\ calls \in 0..MaxCalls

Init ==
  /\ clientData = <<>> /\ destroyClientData = <<>>
  /\ interfaces = {} /\ loadFailed = {}
  /\ gDataMutex = <<>>
  /\ queue = <<>> /\ task = None
  /\ mClientData = [a \in Adapters |-> {}]
  /\ mPendingMsgs = [a \in Adapters |-> <<>>]
  /\ known = {}
  /\ object = [c \in Clients |-> "free"]
  /\ awaited = {} /\ told = {} /\ calls = 0

With(f, x, y) == [z \in DOMAIN f \cup {x} |-> IF z = x THEN y ELSE f[z]]
Without(f, x) == [z \in DOMAIN f \ {x} |-> f[z]]

-----------------------------------------------------------------------------
(***************************************************************************)
(* Calls of clients.  Each takes the mutex, under which only the messages  *)
(* it sends can be seen by others.                                         *)
(***************************************************************************)
\* loadLocationInterface(): a library is tried once.
Load(kinds) ==
  \E failed \in SUBSET (kinds \ (interfaces \cup loadFailed)) :
    /\ loadFailed' = loadFailed \cup failed
    /\ interfaces' = interfaces \cup (kinds \ loadFailed')

\* The adapters in the order the code goes through them.
If(a, kinds) == IF a \in kinds THEN <<a>> ELSE <<>>
InOrder(kinds) == If("gnss", kinds) \o If("batching", kinds) \o If("geofence", kinds)

\* The first adapter is asked for the capabilities, once it knows the client.
\* Mutated form: it is asked before.
RegistrationRequestFirst(c, kinds) ==
  LET order == InOrder(kinds) IN
  (IF order = <<>> THEN <<>> ELSE <<Msg("request", order[1], c)>>)
    \o [i \in DOMAIN order |-> Msg("add", order[i], c)]

Registration(c, kinds) ==
  LET order == InOrder(kinds) IN
  IF order = <<>> THEN <<>>
  ELSE <<Msg("add", order[1], c), Msg("request", order[1], c)>>
         \o [i \in 1..(Len(order) - 1) |-> Msg("add", order[i + 1], c)]

CreateInstance(c, kinds) ==
  /\ gDataMutex = <<>> /\ object[c] = "free" /\ calls < MaxCalls
  /\ object' = [object EXCEPT ![c] = "created"]
  /\ Load(kinds)
  /\ gDataMutex' = Registration(c, kinds \cap interfaces')
  /\ clientData' = With(clientData, c, kinds)
  /\ told' = told \ {c} /\ calls' = calls + 1
  /\ UNCHANGED <<destroyClientData, queue, task, adapterVars, awaited>>

UpdateCallbacks(c, kinds) ==
  /\ gDataMutex = <<>> /\ object[c] = "created" /\ calls < MaxCalls
  /\ Narrowing \/ clientData[c] \subseteq kinds
  /\ Load(kinds)
  /\ LET order == InOrder(kinds \cap interfaces')
     IN gDataMutex' = [i \in DOMAIN order |-> Msg("add", order[i], c)]
  /\ clientData' = With(clientData, c, kinds)
  /\ calls' = calls + 1
  /\ UNCHANGED <<destroyClientData, queue, task, adapterVars, object, awaited, told>>

\* destroy() with a completion callback or without.  Mutated form: it waits for all
\* the kinds of the client, those whose library is not loaded included.
DestroyWaitAll(c, callback) ==
  /\ gDataMutex = <<>> /\ object[c] = "created"
  /\ LET order == InOrder(clientData[c] \cap interfaces) IN
     /\ gDataMutex' = [i \in DOMAIN order |-> Msg("remove", order[i], c)]
     /\ destroyClientData' = IF callback /\ clientData[c] # {}
                             THEN With(destroyClientData, c, clientData[c])
                             ELSE destroyClientData
     /\ object' = [object EXCEPT ![c] = IF callback /\ clientData[c] = {}
                                        THEN "free" ELSE "destroyed"]
     /\ awaited' = IF callback /\ clientData[c] # {} THEN awaited \cup {c} ELSE awaited
  /\ clientData' = Without(clientData, c)
  /\ UNCHANGED <<interfaces, loadFailed, queue, task, adapterVars, told, calls>>

Destroy(c, callback) ==
  /\ gDataMutex = <<>> /\ object[c] = "created"
  /\ LET wait == clientData[c] \cap interfaces
         order == InOrder(wait)
     IN
     /\ gDataMutex' = [i \in DOMAIN order |-> Msg("remove", order[i], c)]
     /\ destroyClientData' = IF callback /\ wait # {} THEN With(destroyClientData, c, wait)
                             ELSE destroyClientData
     /\ object' = [object EXCEPT ![c] = IF callback /\ wait = {} THEN "free" ELSE "destroyed"]
     /\ awaited' = IF callback /\ wait # {} THEN awaited \cup {c} ELSE awaited
  /\ clientData' = Without(clientData, c)
  /\ UNCHANGED <<interfaces, loadFailed, queue, task, adapterVars, told, calls>>

\* The thread that has the mutex sends its messages, and unlocks after the last.
Send ==
  /\ gDataMutex # <<>>
  /\ queue' = Append(queue, Head(gDataMutex))
  /\ gDataMutex' = Tail(gDataMutex)
  /\ UNCHANGED <<gData, task, adapterVars, object, awaited, told, calls>>

-----------------------------------------------------------------------------
(***************************************************************************)
(* The MsgTask.                                                            *)
(***************************************************************************)
Handling(op) == task = None /\ queue # <<>> /\ Head(queue).op = op
A == Head(queue).a
C == Head(queue).c

\* MsgAddClient::proc()
HandleAdd ==
  /\ Handling("add") /\ queue' = Tail(queue)
  /\ mClientData' = [mClientData EXCEPT ![A] = @ \cup {C}]
  /\ UNCHANGED <<gData, gDataMutex, task, mPendingMsgs, known, object, awaited, told, calls>>

\* MsgRemoveClient::proc(), up to its callback.
HandleRemove ==
  /\ Handling("remove") /\ queue' = Tail(queue)
  /\ mClientData' = [mClientData EXCEPT ![A] = @ \ {C}]
  /\ task' = [do |-> "complete", a |-> A, c |-> C]
  /\ UNCHANGED <<gData, gDataMutex, mPendingMsgs, known, object, awaited, told, calls>>

\* onRemoveClientCompleteCb(), under the mutex.  Mutated form: it does not wait for
\* the other adapters.
RemoveClientCompleteAny ==
  /\ task # None /\ task.do = "complete" /\ gDataMutex = <<>>
  /\ IF task.c \notin DOMAIN destroyClientData THEN task' = None /\ UNCHANGED destroyClientData
     ELSE /\ destroyClientData' = Without(destroyClientData, task.c)
          /\ task' = [task EXCEPT !.do = "delete"]
  /\ UNCHANGED <<clientData, interfaces, loadFailed, gDataMutex, queue, adapterVars, object,
                 awaited, told, calls>>

RemoveClientComplete ==
  /\ task # None /\ task.do = "complete" /\ gDataMutex = <<>>
  /\ LET c == task.c IN
     IF c \notin DOMAIN destroyClientData THEN task' = None /\ UNCHANGED destroyClientData
     ELSE IF destroyClientData[c] \subseteq {task.a}
     THEN /\ destroyClientData' = Without(destroyClientData, c)
          /\ task' = [task EXCEPT !.do = "delete"]
     ELSE /\ destroyClientData' = [destroyClientData EXCEPT ![c] = @ \ {task.a}]
          /\ task' = None
  /\ UNCHANGED <<clientData, interfaces, loadFailed, gDataMutex, queue, adapterVars, object,
                 awaited, told, calls>>

\* The completion callback, and delete this.
CompleteDestroy ==
  /\ task # None /\ task.do = "delete"
  /\ object' = [object EXCEPT ![task.c] = "free"]
  /\ awaited' = awaited \ {task.c}
  /\ task' = None
  /\ UNCHANGED <<gData, gDataMutex, queue, adapterVars, told, calls>>

\* MsgRequestCapabilities::proc()
HandleRequest ==
  /\ Handling("request") /\ queue' = Tail(queue)
  /\ IF A \notin known
     THEN mPendingMsgs' = [mPendingMsgs EXCEPT ![A] = Append(@, C)] /\ UNCHANGED told
     ELSE told' = (IF C \in mClientData[A] THEN told \cup {C} ELSE told)
          /\ UNCHANGED mPendingMsgs
  /\ UNCHANGED <<gData, gDataMutex, task, mClientData, known, object, awaited, calls>>

\* MsgSSREvent::proc(): the clients are told, and the requests that wait sent again.
HandleEngineUp ==
  /\ Handling("engineUp")
  /\ known' = known \cup {A}
  /\ told' = told \cup mClientData[A]
  /\ queue' = Tail(queue) \o
       [i \in DOMAIN mPendingMsgs[A] |-> Msg("request", A, mPendingMsgs[A][i])]
  /\ mPendingMsgs' = [mPendingMsgs EXCEPT ![A] = <<>>]
  /\ UNCHANGED <<gData, gDataMutex, task, mClientData, object, awaited, calls>>

\* The engine of an adapter that is there comes up.
EngineUp(a) ==
  /\ a \in interfaces \ known /\ Msg("engineUp", a, None) \notin Range(queue)
  /\ queue' = Append(queue, Msg("engineUp", a, None))
  /\ UNCHANGED <<gData, gDataMutex, task, adapterVars, object, awaited, told, calls>>

-----------------------------------------------------------------------------
ClientNext ==
  \E c \in Clients :
    \/ \E kinds \in Kinds : CreateInstance(c, kinds) \/ UpdateCallbacks(c, kinds)
    \/ \E callback \in BOOLEAN : Destroy(c, callback)

TaskNext ==
  \/ HandleAdd \/ HandleRemove \/ RemoveClientComplete \/ CompleteDestroy
  \/ HandleRequest \/ HandleEngineUp

Next == ClientNext \/ Send \/ TaskNext \/ \E a \in Adapters : EngineUp(a)

Spec == Init /\ [][Next]_vars

\* The MsgTask runs, a thread that has the mutex goes on, and engines come up.
FairSpec ==
  /\ Spec
  /\ WF_vars(Send) /\ WF_vars(TaskNext)
  /\ \A a \in Adapters : WF_vars(EngineUp(a))

-----------------------------------------------------------------------------
(***************************************************************************)
(* Properties.                                                             *)
(***************************************************************************)
\* The messages that name a client, sent or to be sent.
Underway(c) ==
  {m \in Range(queue) \cup Range(gDataMutex) : m.c = c}

\* Memory that is deleted is no client of an adapter, and no message makes it one or
\* removes it: nothing is called in it, and the object that comes to be there next is
\* not removed in place of the one that was.  An object that took away a kind of its
\* callbacks stays in that adapter for good (Narrowing).
DeletedClientIsForgotten ==
  \A c \in Clients : object[c] = "free" =>
    /\ \A a \in Adapters : c \notin mClientData[a]
    /\ \A m \in Underway(c) : m.op = "request"

\* A client that is there is, or is about to be, with all the adapters of its kinds
\* whose library is loaded, although its calls and the adapters go on at the same time.
ClientIsRegistered ==
  \A c \in DOMAIN clientData : \A a \in clientData[c] \cap interfaces :
    c \in mClientData[a] \/ Msg("add", a, c) \in Underway(c)

\* The completion callback of destroy() comes.
DestroyCompletes == \A c \in Clients : c \in awaited ~> c \notin awaited

\* A client whose creation asks for the capabilities is called with them, or destroyed,
\* whether the engine comes up before its messages are handled, after or in between.
CapabilitiesReachClient ==
  \A c \in Clients :
    (\E a \in Adapters : Msg("request", a, c) \in Range(gDataMutex)) ~>
      (c \in told \/ object[c] # "created")

\* A client with callbacks of a kind is called with the capabilities: violated by one
\* that got its first kind from updateCallbacks(), which does not ask for them.
CapabilitiesReachAll ==
  \A c \in Clients :
    (c \in DOMAIN clientData /\ clientData[c] \cap interfaces # {}) ~>
      (c \in told \/ c \notin DOMAIN clientData)
=============================================================================
