----------------------------- MODULE LocThread ------------------------------
(***************************************************************************)
(* One life of a LocThread (gps/utils/LocThread.cpp): a client thread      *)
(* calls start() and later stop() or the destructor; the spawned thread    *)
(* calls the runnable's run() until it returns false or the client has     *)
(* reset mRunnable.  The two share a LocThreadDelegate that is freed by    *)
(* whichever of them calls destroy() last.                                 *)
(*                                                                         *)
(* mRunnable is read and written without a lock; every read and write is   *)
(* one step.  The mutex only protects mRefCount.                           *)
(***************************************************************************)
EXTENDS Naturals

VARIABLES
  delegate,     \* the memory of the LocThreadDelegate: "none", "alive", "freed"
  mRunnable,    \* LocThreadDelegate::mRunnable is not NULL
  mJoinable,    \* LocThreadDelegate::mJoinable
  mRefCount,    \* LocThreadDelegate::mRefCount
  runnable,     \* the memory of the LocRunnable: "alive" or "freed"
  joinable,     \* the joinable argument of start()
  startResult,  \* what start() returned: "none", "true", "false"
  client,       \* where the client thread is
  thread        \* where the spawned thread is

delegateVars == <<delegate, mRunnable, mJoinable, mRefCount>>
vars == <<delegateVars, runnable, joinable, startResult, client, thread>>

-----------------------------------------------------------------------------
(***************************************************************************)
(* LocThreadDelegate::destroy(), as steps of a thread that is at pc: the   *)
(* count is tested without the lock, decremented under it, and the thread  *)
(* that took the last reference deletes the object; each is at its end     *)
(* when it is done with the object.                                        *)
(***************************************************************************)
DestroyStates == {"destroy", "unref", "delete"}

Unref(pc, end) ==
  /\ pc = "unref"
  /\ mRefCount' = mRefCount - 1
  /\ pc' = IF mRefCount = 1 THEN "delete" ELSE end
  /\ UNCHANGED <<delegate, mRunnable, mJoinable>>

Destroy(pc, end) ==
  \/ /\ pc = "destroy"
     /\ pc' = IF mRefCount > 0 THEN "unref" ELSE end
     /\ UNCHANGED delegateVars
  \/ Unref(pc, end)
  \/ /\ pc = "delete"
     /\ pc' = end
     /\ delegate' = "freed"
     /\ UNCHANGED <<mRunnable, mJoinable, mRefCount>>

-----------------------------------------------------------------------------
(***************************************************************************)
(* The client.                                                             *)
(***************************************************************************)

\* start(): the constructor sets the members, then creates the thread.
\* Mutated forms: a third reference, for the creator; the reference of the
\* client only.
StartThreadThree(j) ==
  /\ client = "idle"
  /\ client' = "created"
  /\ thread' = "main"
  /\ joinable' = j
  /\ delegate' = "alive" /\ mRunnable' = TRUE /\ mJoinable' = j /\ mRefCount' = 3
  /\ UNCHANGED <<runnable, startResult>>

StartThreadOne(j) ==
  /\ client = "idle"
  /\ client' = "created"
  /\ thread' = "main"
  /\ joinable' = j
  /\ delegate' = "alive" /\ mRunnable' = TRUE /\ mJoinable' = j /\ mRefCount' = 1
  /\ UNCHANGED <<runnable, startResult>>

StartThread(j) ==
  /\ client = "idle"
  /\ client' = "created"
  /\ thread' = "main"
  /\ joinable' = j
  /\ delegate' = "alive" /\ mRunnable' = TRUE /\ mJoinable' = j /\ mRefCount' = 2
  /\ UNCHANGED <<runnable, startResult>>

\* pthread_create() fails.
StartFails(j) ==
  /\ client = "idle"
  /\ client' = "created"
  /\ joinable' = j
  /\ delegate' = "alive" /\ mRunnable' = FALSE /\ mJoinable' = FALSE /\ mRefCount' = 1
  /\ UNCHANGED <<runnable, startResult, thread>>

\* create() returns the delegate if isRunning(); start() tells its caller.
CreateReturns ==
  /\ client = "created"
  /\ IF mRunnable
     THEN client' = "running" /\ startResult' = "true"
     ELSE client' = "destroy" /\ startResult' = "false"
  /\ UNCHANGED <<delegateVars, runnable, joinable, thread>>

\* LocThreadDelegate::stop()
Stop ==
  /\ client = "running"
  /\ mRunnable' = FALSE
  /\ mJoinable' = FALSE
  /\ client' = IF mJoinable THEN "join" ELSE "destroy"
  /\ UNCHANGED <<delegate, mRefCount, runnable, joinable, startResult, thread>>

\* ~LocThread() calls bye(): a detached thread is not stopped.
Bye ==
  \/ mJoinable /\ Stop
  \/ /\ client = "running"
     /\ ~ mJoinable
     /\ client' = "destroy"
     /\ UNCHANGED <<delegateVars, runnable, joinable, startResult, thread>>

Join ==
  /\ client = "join"
  /\ thread = "ended"
  /\ client' = "destroy"
  /\ UNCHANGED <<delegateVars, runnable, joinable, startResult, thread>>

ClientDestroy ==
  /\ Destroy(client, "gone")
  /\ UNCHANGED <<runnable, joinable, startResult, thread>>

\* The client deletes the runnable of a start() that returned false.
ClientDeletes ==
  /\ client = "gone"
  /\ startResult = "false"
  /\ client' = "deleted"
  /\ runnable' = "freed"
  /\ UNCHANGED <<delegateVars, joinable, startResult, thread>>

-----------------------------------------------------------------------------
(***************************************************************************)
(* The spawned thread: threadMain().                                       *)
(***************************************************************************)
ThreadGoes(from, to) ==
  /\ thread = from
  /\ thread' = to
  /\ UNCHANGED <<joinable, startResult, client>>

\* The thread reads mRunnable into a local variable; without one it has
\* nothing to do.
ThreadMain == /\ ThreadGoes("main", IF mRunnable THEN "prerun" ELSE "destroy")
              /\ UNCHANGED <<delegateVars, runnable>>

\* prerun() is called if isRunning().
Prerun == ThreadGoes("prerun", "loop") /\ UNCHANGED <<delegateVars, runnable>>

Loop == /\ ThreadGoes("loop", IF mRunnable THEN "run" ELSE "postrun")
        /\ UNCHANGED <<delegateVars, runnable>>

RunReturns(more) == /\ ThreadGoes("run", IF more THEN "loop" ELSE "postrun")
                    /\ UNCHANGED <<delegateVars, runnable>>

\* postrun() is called if isRunning().
Postrun == ThreadGoes("postrun", "clear") /\ UNCHANGED <<delegateVars, runnable>>

ClearRunnable ==
  /\ ThreadGoes("clear", "deleteRunnable")
  /\ mRunnable' = FALSE
  /\ UNCHANGED <<delegate, mJoinable, mRefCount, runnable>>

DeleteRunnable ==
  /\ ThreadGoes("deleteRunnable", "destroy")
  /\ runnable' = "freed"
  /\ UNCHANGED delegateVars

ThreadDestroy ==
  /\ Destroy(thread, "ended")
  /\ UNCHANGED <<runnable, joinable, startResult, client>>

-----------------------------------------------------------------------------
Init ==
  /\ delegate = "none"
  /\ mRunnable = FALSE
  /\ mJoinable = FALSE
  /\ mRefCount = 0
  /\ runnable = "alive"
  /\ joinable = FALSE
  /\ startResult = "none"
  /\ client = "idle"
  /\ thread = "none"

ClientNext == CreateReturns \/ Join \/ ClientDestroy

ThreadNext == \/ ThreadMain \/ Prerun \/ Loop \/ Postrun
              \/ ClearRunnable \/ DeleteRunnable \/ ThreadDestroy

Next == \/ \E j \in BOOLEAN : StartThread(j) \/ StartFails(j)
        \/ Stop \/ Bye
        \/ ClientDeletes
        \/ ClientNext
        \/ ThreadNext
        \/ \E more \in BOOLEAN : RunReturns(more)

Spec == Init /\ [][Next]_vars

\* Threads are scheduled, and run() returns; the client need not stop.
Fairness == /\ WF_vars(ClientNext) /\ WF_vars(ThreadNext)
            /\ WF_vars(\E more \in BOOLEAN : RunReturns(more))

FairSpec == Spec /\ Fairness

-----------------------------------------------------------------------------
(***************************************************************************)
(* Properties.                                                             *)
(***************************************************************************)
ClientStates == {"idle", "created", "running", "join", "gone", "deleted"} \cup DestroyStates
ThreadStates == {"none", "main", "prerun", "loop", "run", "postrun", "clear",
                 "deleteRunnable", "ended"} \cup DestroyStates

\* The types of the variables (LocThreadDelegate's members and the threads).
TypeOK ==
  /\ delegate \in {"none", "alive", "freed"}
  /\ mRunnable \in BOOLEAN
  /\ mJoinable \in BOOLEAN
  /\ mRefCount \in 0..2
  /\ runnable \in {"alive", "freed"}
  /\ joinable \in BOOLEAN
  /\ startResult \in {"none", "true", "false"}
  /\ client \in ClientStates
  /\ thread \in ThreadStates

ClientHolds == client \notin {"idle", "gone", "deleted"}
ThreadHolds == thread \notin {"none", "ended"}

\* "client thread and the spawned thread can both try to destroy()
\* asynchronously. And we delete this obj when mRefCount becomes 0"
\* (LocThread.cpp, destroy()): no thread is inside a method of a delegate
\* that the other one has freed.
DelegateInUseIsAlive == ClientHolds \/ ThreadHolds => delegate = "alive"

\* "if joinable, parent must stop the spawned thread, join, and then destroy()"
\* (bye()): once stop() or the destructor has returned, the thread that was
\* started joinable no longer runs, so the client may free what run() uses.
StoppedThreadHasEnded ==
  joinable /\ startResult = "true" /\ client = "gone" => thread = "ended"

\* A stop() that joins returns, and once the thread has been told to end the
\* delegate is freed: no interleaving of the two destroy() calls leaks it, and
\* none leaves the client in pthread_join() or in destroy().
StoppedDelegateIsFreed ==
  client = "join" \/ (client \in DestroyStates \cup {"gone"} /\ delegate = "alive" /\ ~ mRunnable)
    ~> client \in {"gone", "deleted"} /\ delegate = "freed"

\* "The obj will be deleted by LocThread if start() returns true" (LocThread.h).
StartedRunnableIsDeleted ==
  startResult = "true" /\ client = "gone" /\ thread = "ended" => runnable = "freed"

\* "Else it is client's responsibility to delete the object" (LocThread.h):
\* when start() returns false, the runnable is there until the client deletes it.
RefusedRunnableIsAlive ==
  startResult = "false" /\ client # "deleted" => runnable = "alive"
=============================================================================
