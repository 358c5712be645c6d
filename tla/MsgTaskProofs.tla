--------------------------- MODULE MsgTaskProofs ----------------------------
(***************************************************************************)
(* The safety of LocThread, for every interleaving of client and thread;   *)
(* and that MsgTask implements Mailbox, for every set of messages.         *)
(*                                                                         *)
(* Each step of MsgTask is a step of LocThread or leaves its variables     *)
(* alone, so the inductive invariant of LocThread holds of the task's      *)
(* thread.  On top of it, the invariant of MsgTask relates where the       *)
(* thread is in run() to the message it handles, and the end of the thread *)
(* and of the MsgTask to the call of destroy(), which closes the queue     *)
(* before anything else.                                                   *)
(***************************************************************************)
EXTENDS MsgTask, TLAPS

-----------------------------------------------------------------------------
(***************************************************************************)
(* LocThread.  The inductive invariant counts references: a thread holds   *)
(* one until it has decremented mRefCount, and the one that is about to    *)
(* delete the delegate is alone.                                           *)
(***************************************************************************)
ClientCounts == client \in {"created", "running", "join", "destroy", "unref"}
ThreadCounts == thread \in T!ThreadStates \ {"none", "delete", "ended"}

\* mRefCount is the number of threads that have not called destroy() yet.
RefCountInv ==
  /\ client = "idle" => thread = "none" /\ delegate = "none"
  /\ client # "idle" =>
       mRefCount = (IF ClientCounts THEN 1 ELSE 0) + (IF ThreadCounts THEN 1 ELSE 0)

\* The delegate is there as long as a thread holds a reference to it, or is
\* the one that will delete it.
DeleteInv ==
  /\ ClientCounts \/ ThreadCounts => delegate = "alive"
  /\ client = "delete" => delegate = "alive" /\ mRefCount = 0 /\ thread # "delete"
  /\ thread = "delete" => delegate = "alive" /\ mRefCount = 0

\* A client that has started a joinable thread goes on only after its end.
JoinInv ==
  /\ client \in {"idle", "created"} => startResult = "none"
  /\ client \in {"running", "join"} => startResult = "true"
  /\ client = "deleted" => startResult = "false"
  /\ thread = "none" => ~ mRunnable
  /\ client \in {"created", "running"} /\ thread # "none" => mJoinable = joinable
  /\ client = "running" => thread # "none"
  /\ joinable /\ startResult = "true" /\ client \notin {"running", "join"}
       => thread = "ended"

ThreadIInv == T!TypeOK /\ RefCountInv /\ DeleteInv /\ JoinInv

LEMMA InitThreadIInv == T!Init => ThreadIInv
<1> SUFFICES ASSUME T!Init PROVE ThreadIInv
  OBVIOUS
<1> USE DEF T!Init, ClientCounts, ThreadCounts, T!ClientStates, T!ThreadStates, T!DestroyStates
<1>1. T!TypeOK
  <2>1. mRunnable \in BOOLEAN /\ mJoinable \in BOOLEAN /\ joinable \in BOOLEAN
    BY Zenon
  <2>2. QED
    BY <2>1 DEF T!TypeOK
<1>2. RefCountInv /\ DeleteInv
  BY DEF RefCountInv, DeleteInv
<1>3. JoinInv
  BY DEF JoinInv
<1>4. QED
  BY <1>1, <1>2, <1>3 DEF ThreadIInv

LEMMA NextThreadIInv == ThreadIInv /\ [T!Next]_(T!vars) => ThreadIInv'
<1> SUFFICES ASSUME ThreadIInv, [T!Next]_(T!vars) PROVE ThreadIInv'
  OBVIOUS
<1> USE DEF ThreadIInv, T!TypeOK, RefCountInv, DeleteInv, JoinInv, ClientCounts, ThreadCounts,
            T!ClientStates, T!ThreadStates, T!DestroyStates, T!delegateVars
<1>1. ASSUME NEW j \in BOOLEAN, T!StartThread(j) PROVE ThreadIInv'
  BY <1>1 DEF T!StartThread
<1>2. ASSUME NEW j \in BOOLEAN, T!StartFails(j) PROVE ThreadIInv'
  <2>1. T!TypeOK'
    <3>1. mRunnable' \in BOOLEAN /\ mJoinable' \in BOOLEAN /\ joinable' \in BOOLEAN
      BY <1>2, Zenon DEF T!StartFails
    <3>2. QED
      BY <1>2, <3>1 DEF T!StartFails
  <2>2. RefCountInv' /\ DeleteInv'
    BY <1>2 DEF T!StartFails
  <2>3. JoinInv'
    BY <1>2 DEF T!StartFails
  <2>4. QED
    BY <2>1, <2>2, <2>3
<1>3. CASE T!Stop
  BY <1>3 DEF T!Stop
<1>4. CASE T!Bye
  <2>1. T!TypeOK'
    BY <1>4 DEF T!Bye, T!Stop
  <2>2. RefCountInv' /\ DeleteInv'
    BY <1>4 DEF T!Bye, T!Stop
  <2>3. JoinInv'
    BY <1>4 DEF T!Bye, T!Stop
  <2>4. QED
    BY <2>1, <2>2, <2>3
<1>5. CASE T!ClientDeletes
  BY <1>5 DEF T!ClientDeletes
<1>6. CASE T!CreateReturns
  BY <1>6 DEF T!CreateReturns
<1>7. CASE T!Join
  BY <1>7 DEF T!Join
<1>8. CASE T!ClientDestroy
  BY <1>8 DEF T!ClientDestroy, T!Destroy, T!Unref
<1>9. CASE T!ThreadMain \/ T!Prerun \/ T!Loop \/ T!Postrun
  BY <1>9 DEF T!ThreadMain, T!Prerun, T!Loop, T!Postrun, T!ThreadGoes
<1>10. CASE T!ClearRunnable \/ T!DeleteRunnable
  <2>1. T!TypeOK'
    BY <1>10 DEF T!ClearRunnable, T!DeleteRunnable, T!ThreadGoes
  <2>2. RefCountInv' /\ DeleteInv'
    BY <1>10 DEF T!ClearRunnable, T!DeleteRunnable, T!ThreadGoes
  <2>3. JoinInv'
    BY <1>10 DEF T!ClearRunnable, T!DeleteRunnable, T!ThreadGoes
  <2>4. QED
    BY <2>1, <2>2, <2>3
<1>11. CASE T!ThreadDestroy
  BY <1>11 DEF T!ThreadDestroy, T!Destroy, T!Unref
<1>12. ASSUME NEW more \in BOOLEAN, T!RunReturns(more) PROVE ThreadIInv'
  BY <1>12 DEF T!RunReturns, T!ThreadGoes
<1>13. CASE UNCHANGED T!vars
  BY <1>13 DEF T!vars
<1>14. QED
  BY <1>1, <1>2, <1>3, <1>4, <1>5, <1>6, <1>7, <1>8, <1>9, <1>10, <1>11, <1>12, <1>13
     DEF T!Next, T!ClientNext, T!ThreadNext

\* The strengthened invariant holds in every reachable state.
THEOREM ThreadInvariance == T!Spec => []ThreadIInv
BY InitThreadIInv, NextThreadIInv, PTL DEF T!Spec

\* Every variable keeps its type: in particular mRefCount, which is tested
\* outside its critical section, never becomes negative.
THEOREM ThreadTypeCorrect == T!Spec => []T!TypeOK
BY ThreadInvariance, PTL DEF ThreadIInv

\* No thread is inside a method of a delegate that has been freed, whichever
\* of the two calls destroy() last.
THEOREM DelegateSafe == T!Spec => []T!DelegateInUseIsAlive
<1>1. ThreadIInv => T!DelegateInUseIsAlive
  BY DEF ThreadIInv, T!TypeOK, RefCountInv, DeleteInv, T!DelegateInUseIsAlive,
         T!ClientHolds, T!ThreadHolds,
         ClientCounts, ThreadCounts, T!ClientStates, T!ThreadStates, T!DestroyStates
<1>2. QED
  BY ThreadInvariance, <1>1, PTL

\* When stop(), or the destructor, has returned, a joinable thread has ended.
THEOREM JoinedThreadEnds == T!Spec => []T!StoppedThreadHasEnded
<1>1. ThreadIInv => T!StoppedThreadHasEnded
  BY DEF ThreadIInv, JoinInv, T!StoppedThreadHasEnded
<1>2. QED
  BY ThreadInvariance, <1>1, PTL

-----------------------------------------------------------------------------
(***************************************************************************)
(* The thread of a MsgTask does what a LocThread may do: this holds by the *)
(* definitions, and carries what is proved of LocThread over to MsgTask.   *)
(***************************************************************************)
LEMMA StepOfLocThread == [Next]_vars => [T!Next]_(T!vars)
<1> SUFFICES ASSUME [Next]_vars PROVE T!Next \/ UNCHANGED T!vars
  OBVIOUS
<1> USE DEF T!vars, T!delegateVars, threadVars
<1>1. CASE Construct \/ DeleteThread \/ ClientSteps \/ DeleteTask
  BY <1>1 DEF Construct, DeleteThread, ClientSteps, DeleteTask, T!Next
<1>2. CASE RunCalled \/ ThreadDeletesTask \/ ThreadSteps
  BY <1>2 DEF RunCalled, ThreadDeletesTask, ThreadSteps, T!Next, T!ThreadNext
<1>3. CASE Receive \/ WaitReturns \/ ProcReturns
  BY <1>3 DEF Receive, WaitReturns, ProcReturns, Take, Wait, ReceiveFails, T!Next
<1>4. CASE ConstructorReturns \/ ResetThread \/ DestroyReturned \/ SpuriousWakeup
  BY <1>4 DEF ConstructorReturns, ResetThread, DestroyReturned, SpuriousWakeup
<1>5. ASSUME NEW m \in Msgs, SendMsg(m) PROVE UNCHANGED T!vars
  BY <1>5 DEF SendMsg
<1>6. ASSUME NEW who \in {"client", "task"}, DestroyCalled(who) PROVE UNCHANGED T!vars
  BY <1>6 DEF DestroyCalled
<1>7. CASE UNCHANGED vars
  BY <1>7 DEF vars
<1>8. QED
  BY <1>1, <1>2, <1>3, <1>4, <1>5, <1>6, <1>7 DEF Next, OwnerNext, ThreadNext

\* Neither the owner of a MsgTask nor its thread uses the delegate between them after
\* it was freed.
THEOREM TaskDelegateSafe == Spec => []DelegateInUseIsAlive
<1>1. T!Spec => []T!DelegateInUseIsAlive
  BY DelegateSafe
<1>2. DelegateInUseIsAlive <=> T!DelegateInUseIsAlive
  BY DEF DelegateInUseIsAlive
<1>3. Init => T!Init
  BY DEF Init
<1>4. QED
  BY <1>1, <1>2, <1>3, StepOfLocThread, PTL DEF Spec, T!Spec

-----------------------------------------------------------------------------
(***************************************************************************)
(* The inductive invariant.                                                *)
(***************************************************************************)
LEMMA ThreadStep == ThreadIInv /\ [Next]_vars => ThreadIInv'
BY StepOfLocThread, NextThreadIInv

\* Where the thread is in run(), and the message it handles.
RunInv ==
  /\ current = None <=> receiver # "proc"
  /\ receiver # "out" => thread = "run"

\* Until destroy() unblocks the queue the thread goes on; a MsgTask is freed
\* with an empty queue that takes no message, and no thread in run().
QueueInv ==
  /\ unblocked <=> owner \notin {"constructor", "inUse"}
  /\ ~ unblocked /\ thread # "none" =>
       mRunnable /\ thread \in {"main", "prerun", "loop", "run"}
  /\ runnable = "freed" =>
       /\ unblocked
       /\ list = <<>>
       /\ thread \in {"none", "destroy", "unref", "delete", "ended"}

\* How far the owner is with the LocThread, and whether there is one.
OwnerInv ==
  /\ client \in {"idle", "created"} => owner = "constructor"
  /\ client \notin {"idle", "created"} => startResult # "none"
  /\ startResult = "false" => thread = "none"
  /\ startResult = "true" /\ client # "running" => owner \in {"byeing", "destroyed"}
  /\ startResult = "false" /\ owner # "constructor" => client \in {"gone", "deleted"}
  /\ owner = "inUse" => (mThread <=> startResult = "true")
  /\ owner \in {"reset", "bye", "byeing"} => startResult = "true"
  /\ owner = "delete" => startResult = "false"
  /\ owner \in {"byeing", "destroyed"} => client # "running"
  /\ owner = "destroyed" => client \in {"gone", "deleted"}

IInv == ThreadIInv /\ TypeOK /\ RunInv /\ QueueInv /\ OwnerInv

LEMMA InitIInv == Init => IInv
<1> SUFFICES ASSUME Init PROVE IInv
  OBVIOUS
<1>1. ThreadIInv
  BY InitThreadIInv DEF Init
<1>2. TypeOK
  <2>1. T!TypeOK
    BY <1>1 DEF ThreadIInv
  <2>2. mThread \in BOOLEAN /\ unblocked \in BOOLEAN
    BY Zenon DEF Init
  <2>3. QED
    BY <2>1, <2>2 DEF Init, TypeOK, Receivers, OwnerStates
<1>3. RunInv /\ QueueInv /\ OwnerInv
  BY DEF Init, T!Init, RunInv, QueueInv, OwnerInv
<1>4. QED
  BY <1>1, <1>2, <1>3 DEF IInv

LEMMA NextTypeOK == IInv /\ [Next]_vars => TypeOK'
<1> SUFFICES ASSUME IInv, [Next]_vars PROVE TypeOK'
  OBVIOUS
<1> USE DEF TypeOK
<1>1. TypeOK
  BY DEF IInv
<1>2. T!TypeOK'
  BY ThreadStep DEF IInv, ThreadIInv
<1>3. CASE Construct \/ DeleteThread \/ ClientSteps \/ ThreadSteps
  BY <1>1, <1>2, <1>3 DEF Construct, DeleteThread, ClientSteps, ThreadSteps,
     queueVars, ownerVars, OwnerStates
<1>4. CASE ConstructorReturns \/ ResetThread \/ DestroyReturned
  <2>1. mThread' \in BOOLEAN
    BY <1>1, <1>4, Zenon DEF ConstructorReturns, ResetThread, DestroyReturned
  <2>2. QED
    BY <1>1, <1>2, <1>4, <2>1 DEF ConstructorReturns, ResetThread, DestroyReturned,
       queueVars, OwnerStates
<1>5. CASE RunCalled \/ SpuriousWakeup
  BY <1>1, <1>2, <1>5 DEF RunCalled, SpuriousWakeup, ownerVars, Receivers
<1>6. CASE Receive \/ WaitReturns
  <2>1. /\ UNCHANGED <<unblocked, handled, lost, flushed, ownerVars>>
        /\ receiver' \in Receivers
    BY <1>6 DEF Receive, WaitReturns, Take, Wait, ReceiveFails, Receivers
  <2>2. list' \in Seq(Msgs) /\ current' \in Msgs \cup {None}
    <3>1. CASE Take
      BY <1>1, <3>1 DEF Take
    <3>2. CASE UNCHANGED <<list, current>>
      BY <1>1, <3>2
    <3>3. QED
      BY <1>6, <3>1, <3>2 DEF Receive, WaitReturns, Wait, ReceiveFails
  <2>3. QED
    BY <1>1, <1>2, <2>1, <2>2 DEF ownerVars
<1>7. CASE ProcReturns
  <2>1. current \in Msgs
    BY <1>1, <1>7 DEF IInv, RunInv, ProcReturns
  <2>2. QED
    BY <1>1, <1>2, <1>7, <2>1 DEF ProcReturns, ownerVars, Receivers
<1>8. CASE ThreadDeletesTask \/ DeleteTask
  <2>1. Flush /\ mThread' = mThread /\ destroyer' = destroyer /\ owner' \in OwnerStates
    BY <1>1, <1>8 DEF ThreadDeletesTask, DeleteTask, ownerVars, OwnerStates
  <2>2. flushed' \subseteq Msgs
    BY <1>1, <2>1 DEF Flush
  <2>3. QED
    BY <1>1, <1>2, <2>1, <2>2 DEF Flush
<1>9. ASSUME NEW m \in Msgs, SendMsg(m) PROVE TypeOK'
  <2>1. list' \in Seq(Msgs) /\ lost' \subseteq Msgs
    BY <1>1, <1>9 DEF SendMsg, Enqueue
  <2>2. receiver' \in Receivers
    BY <1>1, <1>9 DEF SendMsg, Enqueue, Receivers
  <2>3. QED
    BY <1>1, <1>2, <1>9, <2>1, <2>2 DEF SendMsg, ownerVars
<1>10. ASSUME NEW who \in {"client", "task"}, DestroyCalled(who) PROVE TypeOK'
  <2>1. unblocked' \in BOOLEAN
    BY <1>10, Zenon DEF DestroyCalled, Unblock
  <2>2. QED
    BY <1>1, <1>2, <1>10, <2>1 DEF DestroyCalled, Unblock, Receivers, OwnerStates
<1>11. CASE UNCHANGED vars
  BY <1>1, <1>2, <1>11 DEF vars, queueVars, ownerVars
<1>12. QED
  BY <1>3, <1>4, <1>5, <1>6, <1>7, <1>8, <1>9, <1>10, <1>11 DEF Next, OwnerNext, ThreadNext

\* A step of the owner's thread in LocThread leaves the spawned thread where it
\* is, once there is one.
LEMMA OwnerStep ==
  IInv /\ (Construct \/ DeleteThread \/ ClientSteps)
    => /\ UNCHANGED <<queueVars, mThread, runnable>>
       /\ thread # "none" => thread' = thread
       /\ client # "idle" => thread' = thread
BY DEF IInv, ThreadIInv, RefCountInv, Construct, DeleteThread, ClientSteps, ownerVars, queueVars,
       T!StartThread, T!StartFails, T!Stop, T!Bye, T!ClientNext, T!CreateReturns, T!Join,
       T!ClientDestroy

LEMMA NextRunInv == IInv /\ [Next]_vars => RunInv'
<1> SUFFICES ASSUME IInv, [Next]_vars PROVE RunInv'
  OBVIOUS
<1> USE DEF RunInv
<1>1. RunInv /\ TypeOK
  BY DEF IInv
<1>2. CASE Construct \/ DeleteThread \/ ClientSteps
  BY <1>1, <1>2, OwnerStep DEF queueVars
<1>3. CASE ConstructorReturns \/ ResetThread \/ DestroyReturned \/ SpuriousWakeup
  BY <1>1, <1>3 DEF ConstructorReturns, ResetThread, DestroyReturned, SpuriousWakeup,
     queueVars, threadVars
<1>4. CASE ThreadSteps
  BY <1>1, <1>4 DEF ThreadSteps, queueVars, T!ThreadMain, T!Prerun, T!Postrun, T!ClearRunnable,
     T!ThreadDestroy, T!Destroy, T!Unref, T!ThreadGoes
<1>5. CASE RunCalled
  BY <1>1, <1>5 DEF RunCalled, T!Loop, T!ThreadGoes
<1>6. CASE Receive \/ WaitReturns
  BY <1>1, <1>6, NoneIsNoMessage DEF TypeOK, Receive, WaitReturns, Take, Wait, ReceiveFails,
     threadVars, T!RunReturns, T!ThreadGoes
<1>7. CASE ProcReturns
  BY <1>1, <1>7 DEF ProcReturns
<1>8. CASE ThreadDeletesTask \/ DeleteTask
  BY <1>1, <1>8 DEF ThreadDeletesTask, DeleteTask, Flush, T!DeleteRunnable, T!ThreadGoes,
     T!ClientDeletes
<1>9. ASSUME NEW m \in Msgs, SendMsg(m) PROVE RunInv'
  BY <1>1, <1>9 DEF SendMsg, Enqueue, threadVars
<1>10. ASSUME NEW who \in {"client", "task"}, DestroyCalled(who) PROVE RunInv'
  BY <1>1, <1>10 DEF DestroyCalled, Unblock, threadVars
<1>11. CASE UNCHANGED vars
  BY <1>1, <1>11 DEF vars, queueVars, threadVars
<1>12. QED
  BY <1>2, <1>3, <1>4, <1>5, <1>6, <1>7, <1>8, <1>9, <1>10, <1>11 DEF Next, OwnerNext, ThreadNext

LEMMA NextQueueInv == IInv /\ [Next]_vars => QueueInv'
<1> SUFFICES ASSUME IInv, [Next]_vars PROVE QueueInv'
  OBVIOUS
<1> USE DEF QueueInv
<1>1. QueueInv /\ RunInv /\ OwnerInv /\ TypeOK
  BY DEF IInv
<1>2. CASE Construct
  <2>1. owner = "constructor" /\ client = "idle" /\ thread = "none"
    BY <1>2 DEF IInv, ThreadIInv, RefCountInv, Construct, T!StartThread, T!StartFails
  <2>2. QED
    BY <1>1, <1>2, <2>1 DEF Construct, T!StartThread, T!StartFails, queueVars, ownerVars
<1>3. CASE DeleteThread
  BY <1>1, <1>3 DEF DeleteThread, queueVars, T!Bye, T!Stop, T!delegateVars
<1>4. CASE ClientSteps
  BY <1>1, <1>4 DEF ClientSteps, queueVars, ownerVars, T!ClientNext, T!CreateReturns, T!Join,
     T!ClientDestroy, T!Destroy, T!Unref, T!delegateVars
<1>5. CASE ConstructorReturns \/ ResetThread \/ DestroyReturned
  BY <1>1, <1>5 DEF ConstructorReturns, ResetThread, DestroyReturned, queueVars, threadVars
<1>6. CASE DeleteTask
  BY <1>1, <1>6 DEF DeleteTask, Flush, T!ClientDeletes, OwnerInv
<1>7. CASE ThreadSteps
  BY <1>1, <1>7 DEF ThreadSteps, queueVars, ownerVars, T!ThreadMain, T!Prerun, T!Postrun,
     T!ClearRunnable, T!ThreadDestroy, T!Destroy, T!Unref, T!ThreadGoes, T!delegateVars
<1>8. CASE RunCalled
  BY <1>1, <1>8 DEF RunCalled, ownerVars, T!Loop, T!ThreadGoes, T!delegateVars
<1>9. CASE Receive \/ WaitReturns \/ ProcReturns
  <2>1. thread = "run" /\ runnable = "alive"
    BY <1>1, <1>9 DEF RunInv, TypeOK, T!TypeOK, Receive, WaitReturns, ProcReturns
  <2>2. /\ UNCHANGED <<unblocked, owner, mRunnable, runnable>>
        /\ thread' \in {"run", "loop"} \/ unblocked
    BY <1>1, <1>9, <2>1 DEF Receive, WaitReturns, ProcReturns, Take, Wait, ReceiveFails,
       threadVars, ownerVars, T!RunReturns, T!ThreadGoes, T!delegateVars
  <2>3. QED
    BY <1>1, <2>1, <2>2
<1>10. CASE ThreadDeletesTask
  BY <1>1, <1>10 DEF ThreadDeletesTask, Flush, ownerVars, T!DeleteRunnable, T!ThreadGoes
<1>11. ASSUME NEW m \in Msgs, SendMsg(m) PROVE QueueInv'
  BY <1>1, <1>11 DEF SendMsg, ownerVars, threadVars
<1>12. ASSUME NEW who \in {"client", "task"}, DestroyCalled(who) PROVE QueueInv'
  BY <1>1, <1>12 DEF DestroyCalled, Unblock, threadVars
<1>13. CASE UNCHANGED vars \/ SpuriousWakeup
  BY <1>1, <1>13 DEF vars, SpuriousWakeup, queueVars, ownerVars, threadVars
<1>14. QED
  BY <1>2, <1>3, <1>4, <1>5, <1>6, <1>7, <1>8, <1>9, <1>10, <1>11, <1>12, <1>13
     DEF Next, OwnerNext, ThreadNext

LEMMA NextOwnerInv == IInv /\ [Next]_vars => OwnerInv'
<1> SUFFICES ASSUME IInv, [Next]_vars PROVE OwnerInv'
  OBVIOUS
<1> USE DEF OwnerInv
<1>1. OwnerInv /\ QueueInv
  BY DEF IInv
<1>2. /\ client = "idle" => thread = "none"
      /\ client \in {"idle", "created"} => startResult = "none"
      /\ client \in {"running", "join"} => startResult = "true"
      /\ startResult \in {"none", "true", "false"}
  BY DEF IInv, ThreadIInv, T!TypeOK, RefCountInv, JoinInv
<1>3. CASE Construct
  BY <1>1, <1>2, <1>3 DEF Construct, T!StartThread, T!StartFails, queueVars, ownerVars
<1>4. CASE ConstructorReturns
  BY <1>1, <1>2, <1>4 DEF ConstructorReturns, threadVars
<1>5. CASE ClientSteps
  <2>1. CASE T!CreateReturns
    <3>1. ~ unblocked /\ owner = "constructor"
      BY <1>1, <2>1 DEF QueueInv, T!CreateReturns
    <3>2. QED
      BY <1>1, <1>2, <1>5, <2>1, <3>1 DEF QueueInv, ClientSteps, T!CreateReturns, queueVars,
         ownerVars, T!delegateVars
  <2>2. CASE T!Join \/ T!ClientDestroy
    BY <1>1, <1>2, <1>5, <2>2 DEF ClientSteps, T!Join, T!ClientDestroy, T!Destroy, T!Unref,
       queueVars, ownerVars
  <2>3. QED
    BY <1>5, <2>1, <2>2 DEF ClientSteps, T!ClientNext
<1>6. CASE DeleteThread
  BY <1>1, <1>2, <1>6 DEF DeleteThread, T!Bye, T!Stop, queueVars
<1>7. CASE ResetThread \/ DestroyReturned
  BY <1>1, <1>2, <1>7 DEF ResetThread, DestroyReturned, threadVars
<1>8. CASE DeleteTask
  BY <1>1, <1>2, <1>8 DEF DeleteTask, T!ClientDeletes
<1>9. CASE ThreadSteps \/ ThreadDeletesTask \/ RunCalled
  BY <1>1, <1>9 DEF ThreadSteps, ThreadDeletesTask, RunCalled, ownerVars, T!ThreadMain, T!Prerun,
     T!Loop, T!Postrun, T!ClearRunnable, T!DeleteRunnable, T!ThreadDestroy, T!Destroy,
     T!Unref, T!ThreadGoes
<1>10. CASE Receive \/ WaitReturns \/ ProcReturns
  <2>1. thread # "none"
    BY <1>10 DEF IInv, RunInv, Receive, WaitReturns, ProcReturns
  <2>2. UNCHANGED <<startResult, client, ownerVars>>
    BY <1>10 DEF Receive, WaitReturns, ProcReturns, Take, Wait, ReceiveFails, threadVars,
       T!RunReturns, T!ThreadGoes
  <2>3. QED
    BY <1>1, <2>1, <2>2 DEF ownerVars
<1>11. CASE (\E m \in Msgs : SendMsg(m)) \/ SpuriousWakeup \/ UNCHANGED vars
  BY <1>1, <1>11 DEF SendMsg, SpuriousWakeup, vars, ownerVars, threadVars
<1>12. ASSUME NEW who \in {"client", "task"}, DestroyCalled(who) PROVE OwnerInv'
  BY <1>1, <1>2, <1>12 DEF DestroyCalled, threadVars
<1>13. QED
  BY <1>3, <1>4, <1>5, <1>6, <1>7, <1>8, <1>9, <1>10, <1>11, <1>12
     DEF Next, OwnerNext, ThreadNext

LEMMA NextIInv == IInv /\ [Next]_vars => IInv'
BY ThreadStep, NextTypeOK, NextRunInv, NextQueueInv, NextOwnerInv DEF IInv

\* The strengthened invariant holds in every reachable state.
THEOREM Invariance == Spec => []IInv
BY InitIInv, NextIInv, PTL DEF Spec

\* Every variable keeps its type.
THEOREM TypeCorrect == Spec => []TypeOK
BY Invariance, PTL DEF IInv

\* The thread is neither in msg_q_rcv() nor in a message's proc() when the
\* MsgTask has been freed, whoever called destroy() and when.
THEOREM QueueSafe == Spec => []ReceiverHasQueue
<1>1. IInv => ReceiverHasQueue
  BY DEF IInv, TypeOK, T!TypeOK, RunInv, QueueInv, ReceiverHasQueue
<1>2. QED
  BY Invariance, <1>1, PTL

\* A deleted task leaves no accepted message behind.
THEOREM DeletedEmpty == Spec => []DeletedTaskIsEmpty
<1>1. IInv => DeletedTaskIsEmpty
  BY DEF IInv, RunInv, QueueInv, DeletedTaskIsEmpty
<1>2. QED
  BY Invariance, <1>1, PTL

\* When destroy() has returned, a joinable task handles no message any more.
THEOREM JoinedTaskIsQuiet == Spec => []NoMessageAfterJoin
<1>1. IInv => NoMessageAfterJoin
  BY DEF IInv, ThreadIInv, T!TypeOK, JoinInv, RunInv, OwnerInv, NoMessageAfterJoin
<1>2. QED
  BY Invariance, <1>1, PTL

-----------------------------------------------------------------------------
(***************************************************************************)
(* MsgTask implements Mailbox: the queue is open until it is unblocked.    *)
(***************************************************************************)
LEMMA StepImplementsMailbox == IInv /\ [Next]_vars => [M!MailNext]_(M!mailVars)
<1> SUFFICES ASSUME IInv, [Next]_vars PROVE M!MailNext \/ UNCHANGED M!mailVars
  OBVIOUS
<1> USE DEF M!mailVars
<1>1. RunInv /\ QueueInv /\ TypeOK
  BY DEF IInv
<1>2. CASE UNCHANGED <<list, unblocked, current, handled>>
  BY <1>2
<1>3. ASSUME NEW m \in Msgs, SendMsg(m), ~ unblocked PROVE M!Accept(m)
  BY <1>3 DEF SendMsg, Enqueue, Known, M!Accept, M!In
<1>4. CASE Receive \/ WaitReturns
  <2>1. UNCHANGED <<unblocked, handled>> /\ receiver # "proc"
    BY <1>4 DEF Receive, WaitReturns
  <2>2. Take \/ UNCHANGED <<list, current>>
    BY <1>4 DEF Receive, WaitReturns, Wait, ReceiveFails
  <2>3. Take => M!Begin
    BY <1>1, <2>1 DEF RunInv, Take, M!Begin
  <2>4. QED
    BY <2>1, <2>2, <2>3 DEF M!MailNext
<1>5. CASE ProcReturns
  <2>1. M!Finish
    BY <1>1, <1>5 DEF RunInv, ProcReturns, M!Finish
  <2>2. QED
    BY <2>1 DEF M!MailNext
<1>6. CASE ThreadDeletesTask \/ DeleteTask
  <2>1. unblocked /\ current = None
    BY <1>1, <1>6 DEF IInv, OwnerInv, RunInv, QueueInv, ThreadDeletesTask, DeleteTask,
       T!DeleteRunnable, T!ThreadGoes
  <2>2. M!Drop
    BY <1>6, <2>1 DEF ThreadDeletesTask, DeleteTask, Flush, M!Drop
  <2>3. QED
    BY <2>2 DEF M!MailNext
<1>7. ASSUME NEW who \in {"client", "task"}, DestroyCalled(who) PROVE M!MailNext
  <2>1. ~ unblocked
    BY <1>1, <1>7 DEF QueueInv, DestroyCalled
  <2>2. M!Close
    BY <1>7, <2>1 DEF DestroyCalled, Unblock, M!Close
  <2>3. QED
    BY <2>2 DEF M!MailNext
<1>8. CASE Construct \/ DeleteThread \/ ClientSteps \/ ThreadSteps \/ ResetThread
           \/ ConstructorReturns \/ DestroyReturned
  BY <1>2, <1>8 DEF Construct, DeleteThread, ClientSteps, ThreadSteps, ResetThread,
     ConstructorReturns, DestroyReturned, queueVars
<1>9. CASE RunCalled \/ SpuriousWakeup \/ UNCHANGED vars
  BY <1>2, <1>9 DEF RunCalled, SpuriousWakeup, vars, queueVars
<1>10. ASSUME NEW m \in Msgs, SendMsg(m), unblocked PROVE UNCHANGED M!mailVars
  BY <1>10 DEF SendMsg
<1>11. QED
  BY <1>3, <1>4, <1>5, <1>6, <1>7, <1>8, <1>9, <1>10 DEF Next, OwnerNext, ThreadNext, M!MailNext

\* The messages a MsgTask accepts are handled one at a time, once, in the order
\* of the sendMsg() calls, for any number of messages and any interleaving with
\* destroy().
THEOREM MailboxRefinement == Spec => ImplementsMailbox
<1>1. Init => M!MailInit
  <2>1. ASSUME unblocked = FALSE PROVE (~ unblocked) = TRUE
    BY <2>1
  <2>2. QED
    BY <2>1 DEF Init, M!MailInit
<1>2. QED
  BY <1>1, Invariance, StepImplementsMailbox, PTL DEF Spec, ImplementsMailbox, M!MailSpec
=============================================================================
