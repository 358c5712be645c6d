------------------------------ MODULE MsgTask -------------------------------
(***************************************************************************)
(* A MsgTask (gps/utils/MsgTask.cpp), from its constructor to the end of   *)
(* its thread: a LocThread whose runnable takes messages from a msg_q      *)
(* (gps/utils/msg_q.c) and handles them.  Any thread may send; one thread  *)
(* calls destroy(): the client that made the task, or the task's own       *)
(* thread from within a message (LocApiBase's LocKillMsg, which has a      *)
(* detached task).                                                         *)
(*                                                                         *)
(* The critical sections of msg_q are single steps.  The client's contract *)
(* is that nothing is sent once the MsgTask has been freed.                *)
(***************************************************************************)
EXTENDS Naturals, Sequences

CONSTANTS Msgs, None

ASSUME NoneIsNoMessage == None \notin Msgs

VARIABLES
  delegate, mRunnable, mJoinable, mRefCount, runnable, joinable, startResult,
  client, thread,  \* the task's LocThread; its runnable is the MsgTask
  mThread,         \* MsgTask::mThread is not NULL
  list,            \* msg_q::msg_list, the oldest message first
  unblocked,       \* msg_q::unblocked
  receiver,        \* where the spawned thread is in run()
  current,         \* the message whose proc() is running
  handled,         \* the messages whose proc() has been run, in that order
  lost,            \* the messages that msg_q_snd() has refused
  flushed,         \* the messages deleted with the queue
  owner,           \* where the owner of the MsgTask is
  destroyer        \* who calls destroy(): "client" or "task"

T == INSTANCE LocThread

threadVars == <<delegate, mRunnable, mJoinable, mRefCount, runnable, joinable,
                startResult, client, thread>>
queueVars  == <<list, unblocked, receiver, current, handled, lost, flushed>>
ownerVars  == <<mThread, owner, destroyer>>
vars == <<threadVars, queueVars, ownerVars>>

Known(m) == \/ m = current \/ m \in lost \cup flushed
            \/ \E i \in DOMAIN list : list[i] = m
            \/ \E i \in DOMAIN handled : handled[i] = m

-----------------------------------------------------------------------------
(***************************************************************************)
(* The constructor.                                                        *)
(***************************************************************************)
Construct ==
  /\ owner = "constructor"
  /\ \E j \in BOOLEAN : T!StartThread(j) \/ T!StartFails(j)
  /\ UNCHANGED <<queueVars, ownerVars>>

ConstructorReturns ==
  /\ owner = "constructor"
  /\ client \in {"running", "gone"}
  /\ mThread' = (startResult = "true")
  /\ owner' = "inUse"
  /\ UNCHANGED <<threadVars, queueVars, destroyer>>

-----------------------------------------------------------------------------
(***************************************************************************)
(* sendMsg(), msg_q_snd(): the result is not looked at.                    *)
(***************************************************************************)
\* Mutated forms: the receiver is not signalled; messages are stacked.
SendQuietly(m) ==
  /\ list' = Append(list, m)
  /\ UNCHANGED receiver

SendFirst(m) ==
  /\ list' = <<m>> \o list
  /\ receiver' = IF receiver = "waiting" THEN "woken" ELSE receiver

Enqueue(m) ==
  /\ list' = Append(list, m)
  /\ receiver' = IF receiver = "waiting" THEN "woken" ELSE receiver

SendMsg(m) ==
  /\ owner # "constructor" /\ runnable = "alive"
  /\ ~ Known(m)
  /\ IF unblocked
     THEN lost' = lost \cup {m} /\ UNCHANGED <<list, receiver>>
     ELSE Enqueue(m) /\ UNCHANGED lost
  /\ UNCHANGED <<threadVars, ownerVars, unblocked, current, handled, flushed>>

-----------------------------------------------------------------------------
(***************************************************************************)
(* The spawned thread: run() and msg_q_rcv().                              *)
(***************************************************************************)
Take ==
  /\ list # <<>>
  /\ current' = Head(list)
  /\ list' = Tail(list)
  /\ receiver' = "proc"
  /\ UNCHANGED threadVars

Wait == receiver' = "waiting" /\ UNCHANGED <<threadVars, list, current>>

ReceiveFails ==
  /\ receiver' = "out"
  /\ T!RunReturns(FALSE)
  /\ UNCHANGED <<list, current>>

RunCalled ==
  /\ T!Loop
  /\ receiver' = IF mRunnable THEN "called" ELSE "out"
  /\ UNCHANGED <<list, unblocked, current, handled, lost, flushed, ownerVars>>

Receive ==
  /\ receiver = "called"
  /\ \/ unblocked /\ ReceiveFails
     \/ ~ unblocked /\ Take
     \/ ~ unblocked /\ list = <<>> /\ Wait
  /\ UNCHANGED <<unblocked, handled, lost, flushed, ownerVars>>

\* The wait also ends without a signal.
SpuriousWakeup ==
  /\ receiver = "waiting"
  /\ receiver' = "woken"
  /\ UNCHANGED <<threadVars, list, unblocked, current, handled, lost, flushed, ownerVars>>

\* A message is taken even if the queue has been unblocked.
WaitReturns ==
  /\ receiver = "woken"
  /\ \/ Take
     \/ list = <<>> /\ unblocked /\ ReceiveFails
     \/ list = <<>> /\ ~ unblocked /\ Wait
  /\ UNCHANGED <<unblocked, handled, lost, flushed, ownerVars>>

InDestroy(who) == destroyer = who /\ owner \in {"reset", "bye", "byeing", "delete"}

\* proc() has returned and the message is deleted.
ProcReturns ==
  /\ receiver = "proc"
  /\ ~ InDestroy("task")
  /\ handled' = Append(handled, current)
  /\ current' = None
  /\ receiver' = "out"
  /\ T!RunReturns(TRUE)
  /\ UNCHANGED <<list, unblocked, lost, flushed, ownerVars>>

\* ~MsgTask(): msg_q_flush(), msg_q_destroy()
Flush ==
  /\ flushed' = flushed \cup {list[i] : i \in DOMAIN list}
  /\ list' = <<>>
  /\ UNCHANGED <<unblocked, receiver, current, handled, lost>>

ThreadDeletesTask == T!DeleteRunnable /\ Flush /\ UNCHANGED ownerVars

ThreadSteps ==
  /\ T!ThreadMain \/ T!Prerun \/ T!Postrun \/ T!ClearRunnable \/ T!ThreadDestroy
  /\ UNCHANGED <<queueVars, ownerVars>>

-----------------------------------------------------------------------------
(***************************************************************************)
(* destroy()                                                               *)
(***************************************************************************)
\* msg_q_unblock()
\* Mutated form: the waiting thread is left asleep.
UnblockQuietly == unblocked' = TRUE /\ UNCHANGED receiver

Unblock ==
  /\ unblocked' = TRUE
  /\ receiver' = IF receiver = "waiting" THEN "woken" ELSE receiver

\* mThread is read before msg_q_unblock().
DestroyCalled(who) ==
  /\ owner = "inUse"
  /\ who = "task" => receiver = "proc" /\ ~ joinable
  /\ destroyer' = who
  /\ Unblock
  /\ owner' = IF mThread THEN "reset" ELSE "delete"
  /\ UNCHANGED <<threadVars, mThread, list, current, handled, lost, flushed>>

\* mThread = NULL
ResetThread ==
  /\ owner = "reset"
  /\ mThread' = FALSE
  /\ owner' = "bye"
  /\ UNCHANGED <<threadVars, queueVars, destroyer>>

\* delete thread
DeleteThread ==
  /\ owner = "bye"
  /\ T!Bye
  /\ owner' = "byeing"
  /\ UNCHANGED <<queueVars, mThread, destroyer>>

ClientSteps == T!ClientNext /\ UNCHANGED <<queueVars, ownerVars>>

DestroyReturned ==
  /\ owner = "byeing"
  /\ client = "gone"
  /\ owner' = "destroyed"
  /\ UNCHANGED <<threadVars, queueVars, mThread, destroyer>>

\* delete this
DeleteTask ==
  /\ owner = "delete"
  /\ T!ClientDeletes
  /\ owner' = "destroyed"
  /\ Flush
  /\ UNCHANGED <<mThread, destroyer>>

-----------------------------------------------------------------------------
Init ==
  /\ T!Init
  /\ mThread = TRUE
  /\ list = <<>>
  /\ unblocked = FALSE
  /\ receiver = "out"
  /\ current = None
  /\ handled = <<>>
  /\ lost = {}
  /\ flushed = {}
  /\ owner = "constructor"
  /\ destroyer = "client"

OwnerNext == \/ Construct \/ ConstructorReturns
             \/ ResetThread \/ DeleteThread \/ ClientSteps \/ DestroyReturned \/ DeleteTask

ThreadNext == \/ RunCalled \/ Receive \/ WaitReturns \/ ProcReturns
              \/ ThreadDeletesTask \/ ThreadSteps

Next == \/ OwnerNext
        \/ ThreadNext
        \/ SpuriousWakeup
        \/ \E m \in Msgs : SendMsg(m)
        \/ \E who \in {"client", "task"} : DestroyCalled(who)

Spec == Init /\ [][Next]_vars

\* Both threads are scheduled and every proc() returns; nobody has to send,
\* nor to destroy the task.
Fairness == WF_vars(OwnerNext) /\ WF_vars(ThreadNext)

FairSpec == Spec /\ Fairness

-----------------------------------------------------------------------------
(***************************************************************************)
(* Properties.                                                             *)
(***************************************************************************)
Receivers == {"out", "called", "waiting", "woken", "proc"}
OwnerStates == {"constructor", "inUse", "reset", "bye", "byeing", "delete", "destroyed"}

\* The types of the variables (the members of MsgTask and msg_q).
TypeOK ==
  /\ T!TypeOK
  /\ mThread \in BOOLEAN
  /\ list \in Seq(Msgs)
  /\ unblocked \in BOOLEAN
  /\ receiver \in Receivers
  /\ current \in Msgs \cup {None}
  /\ handled \in Seq(Msgs)
  /\ lost \subseteq Msgs
  /\ flushed \subseteq Msgs
  /\ owner \in OwnerStates
  /\ destroyer \in {"client", "task"}

\* The messages of the adapters are handled one at a time, once, in the order
\* of the sendMsg() calls (the guarantee that the command handlers of all
\* adapters rest on), through every interleaving with destroy().
M == INSTANCE Mailbox WITH open <- ~ unblocked, box <- list
ImplementsMailbox == M!MailSpec

\* Neither the owner nor the thread is inside a method of a LocThreadDelegate that the
\* other one has freed, wherever destroy() comes in the life of the two.
DelegateInUseIsAlive == T!DelegateInUseIsAlive

\* The thread neither waits for a message nor handles one when the MsgTask,
\* and with it the queue, has been freed.
ReceiverHasQueue == receiver # "out" => runnable = "alive"

\* After the destruction of a joinable task no message is being handled: the
\* client may free what its messages refer to.
NoMessageAfterJoin ==
  owner = "destroyed" /\ joinable => current = None

\* Every message that a deleted task had accepted was handled or deleted with
\* the queue (~MsgTask()).
DeletedTaskIsEmpty == runnable = "freed" => list = <<>> /\ current = None

\* A message that was accepted is handled, unless the task is destroyed.
AcceptedIsHandled ==
  \A m \in Msgs :
    startResult = "true" /\ (\E i \in DOMAIN list : list[i] = m)
      ~> unblocked \/ (\E i \in DOMAIN handled : handled[i] = m)

\* destroy() returns, whatever the thread is doing.
DestroyReturns == owner \in {"reset", "delete"} ~> owner = "destroyed"

\* "this obj will be deleted once thread is deleted" (MsgTask.h, of destroy()):
\* while destroy() has the LocThread still to delete, the MsgTask it is called
\* on exists.
DestroyHasTask == owner \in {"reset", "delete"} => runnable = "alive"
=============================================================================
