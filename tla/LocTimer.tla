------------------------------ MODULE LocTimer ------------------------------
(***************************************************************************)
(* The timer service of gps/utils/LocTimer.cpp.                            *)
(*                                                                         *)
(* Three kinds of threads share it:                                        *)
(*   - client threads call LocTimer::start() and stop() (both run under    *)
(*     the timer's LocSharedLock, so each is one step here), or the C API  *)
(*     loc_timer_start() / loc_timer_stop();                               *)
(*   - the MsgTask thread owns the heaps: it handles the Push, Remove and  *)
(*     Expire messages in FIFO order;                                      *)
(*   - the poll thread waits for the timerfd of a container to become      *)
(*     readable, disarms it and posts Expire to the MsgTask.               *)
(*                                                                         *)
(* A LocTimerDelegate is one memory slot, allocated by start() and freed   *)
(* by the Remove message, and so is a LocTimerWrapper, the object behind a *)
(* loc_timer_start() handle: it deletes itself after its callback, or is   *)
(* deleted by loc_timer_stop(), and its memory may hold another wrapper    *)
(* afterwards, while clients and the MsgTask still have pointers to it.    *)
(* System calls on the timerfd and on the epoll set are steps of their     *)
(* own, because two threads issue them.                                    *)
(***************************************************************************)
EXTENDS Naturals, Sequences, FiniteSets

CONSTANTS
  Timers,      \* LocTimer objects (client front ends)
  Wrappers,    \* those of them that are memory slots for LocTimerWrapper objects
  Delegates,   \* memory slots for LocTimerDelegate objects
  Containers,  \* LocTimerContainer objects: mSwTimers, mHwTimers
  Delays,      \* values of timeOutInMs
  MaxTime,     \* bound on the clock
  MaxHandles,  \* bound on the pointers to one wrapper that clients hold
  None         \* NULL, and the "disarmed" value of a timerfd

ASSUME TimersAssumption     == Wrappers \subseteq Timers
ASSUME ContainersAssumption == Containers # {}
ASSUME TimeAssumption       == MaxTime \in Nat /\ Delays \subseteq Nat
ASSUME HandlesAssumption    == MaxHandles \in Nat
ASSUME NoneAssumption       ==
  None \notin Timers \cup Delegates \cup Containers \cup Nat

VARIABLES
  now,          \* CLOCK_BOOTTIME
  alive,        \* LocTimer objects that exist
  handles,      \* the pointers to each wrapper slot that clients hold
  mTimer,       \* LocTimer::mTimer
  allocated,    \* LocTimerDelegate slots in use
  mClient,      \* LocTimerDelegate::mClient
  mContainer,   \* LocTimerDelegate::mContainer
  mFutureTime,  \* LocTimerDelegate::mFutureTime
  heap,         \* the delegates in each container
  top,          \* LocHeap::peek() of each container
  fd,           \* absolute expiration of each timerfd, None when disarmed
  polled,       \* containers whose timerfd is in the epoll set
  queue,        \* the MsgTask's message queue
  task,         \* where the MsgTask thread is in its handler
  poll          \* where the poll thread is in run()

clientVars == <<alive, handles, mTimer, allocated, mClient, mContainer, mFutureTime>>
heapVars   == <<heap, top>>
kernelVars == <<fd, polled>>
vars == <<now, clientVars, heapVars, kernelVars, queue, task, poll>>

(***************************************************************************)
(* Messages and thread positions.                                          *)
(***************************************************************************)
Message ==
       [op : {"Push", "Remove"}, k : Containers, d : Delegates]
  \cup [op : {"Expire"}, k : Containers, d : {None}]

Push(k, d)   == [op |-> "Push", k |-> k, d |-> d]
Remove(k, d) == [op |-> "Remove", k |-> k, d |-> d]
Expire(k)    == [op |-> "Expire", k |-> k, d |-> None]

\* In "expiring" the handler of Expire has popped d and read c = d.mClient;
\* in "callback" it has stopped c, in "destroy" the callback of the wrapper c
\* runs, after which the wrapper destroys itself; in "loop" it is about to
\* look for the next delegate that is due.  t is the handler's timerOfNow.
TaskState ==
       [pc : {"idle"}, k : {None}, d : {None}, c : {None}, t : {0}]
  \cup [pc : {"addPoll", "setTime"}, k : Containers, d : {None}, c : {None}, t : {0}]
  \cup [pc : {"expiring"}, k : Containers, d : Delegates, c : Timers \cup {None}, t : Nat]
  \cup [pc : {"callback"}, k : Containers, d : {None}, c : Timers, t : Nat]
  \cup [pc : {"destroy"}, k : Containers, d : {None}, c : Wrappers, t : Nat]
  \cup [pc : {"loop"}, k : Containers, d : {None}, c : {None}, t : Nat]

TaskIdle == [pc |-> "idle", k |-> None, d |-> None, c |-> None, t |-> 0]
TaskAt(pc, k) == [pc |-> pc, k |-> k, d |-> None, c |-> None, t |-> 0]

\* todo is the set of containers whose events epoll_wait() returned and
\* run() has not handled yet; k is the one being handled.
PollState ==
       [pc : {"wait"}, k : {None}, todo : SUBSET Containers]
  \cup [pc : {"removePoll", "send"}, k : Containers, todo : SUBSET Containers]

PollIdle == [pc |-> "wait", k |-> None, todo |-> {}]

(***************************************************************************)
(* The heap, as LocTimerContainer uses it: LocHeap keeps a delegate of the *)
(* highest rank (the earliest mFutureTime) on top; an incoming delegate    *)
(* takes the top only if it outranks it strictly.                          *)
(***************************************************************************)
OutRanks(d, e) == mFutureTime[d] < mFutureTime[e]

Soonest(S) == IF S = {} THEN {None}
              ELSE {d \in S : \A e \in S : ~OutRanks(e, d)}

HeapPush(k, d) ==
  /\ heap' = [heap EXCEPT ![k] = @ \cup {d}]
  /\ top'  = [top EXCEPT ![k] = IF @ = None \/ OutRanks(d, @) THEN d ELSE @]

\* LocHeap::remove() (and pop(), which removes the top): when the top goes,
\* any delegate of the highest rank may replace it, depending on the tree.
HeapRemove(k, d) ==
  /\ heap' = [heap EXCEPT ![k] = @ \ {d}]
  /\ \E new \in IF d = top[k] THEN Soonest(heap[k] \ {d}) ELSE {top[k]} :
       top' = [top EXCEPT ![k] = new]

(***************************************************************************)
(* updateSoonestTime(priorTop), once the heap has its new top: nothing when*)
(* the top is priorTop, otherwise addPoll() and then timerfd_settime().    *)
(* Its branch for an empty heap needs a priorTop, and the two callers that *)
(* shrink a heap pass NULL: that branch is never taken.                    *)
(***************************************************************************)
\* Mutated form: a container that is polled is taken for one that is armed.
UpdateUnlessPolled(k, priorTop) ==
  IF top'[k] # priorTop /\ k \notin polled
  THEN task' = TaskAt("addPoll", k) ELSE task' = TaskIdle

UpdateSoonestTime(k, priorTop) ==
  IF top'[k] # priorTop THEN task' = TaskAt("addPoll", k) ELSE task' = TaskIdle

-----------------------------------------------------------------------------
(***************************************************************************)
(* Client threads.                                                         *)
(***************************************************************************)

\* The body of LocTimer::start() for a timer that is not running: a new
\* delegate, whose constructor posts itself to the container.
StartDelegate(c, k, delay) ==
  /\ now + delay <= MaxTime
  /\ \E d \in Delegates \ allocated :
       /\ allocated'   = allocated \cup {d}
       /\ mTimer'      = [mTimer EXCEPT ![c] = d]
       /\ mClient'     = [mClient EXCEPT ![d] = c]
       /\ mContainer'  = [mContainer EXCEPT ![d] = k]
       /\ mFutureTime' = [mFutureTime EXCEPT ![d] = now + delay]
       /\ queue'       = Append(queue, Push(k, d))

\* The body of LocTimer::stop() for a running timer: destroyLocked() clears
\* the delegate's pointers and posts its removal.
\* Mutated form: mTimer is not reset.
StopDelegateTwice(c) ==
  LET d == mTimer[c] IN
    /\ mClient'    = [mClient EXCEPT ![d] = None]
    /\ queue'      = Append(queue, Remove(mContainer[d], d))
    /\ UNCHANGED <<mTimer, mContainer, allocated, mFutureTime>>

StopDelegate(c) ==
  LET d == mTimer[c] IN
    /\ mTimer'     = [mTimer EXCEPT ![c] = None]
    /\ mClient'    = [mClient EXCEPT ![d] = None]
    /\ mContainer' = [mContainer EXCEPT ![d] = None]
    /\ queue'      = Append(queue, Remove(mContainer[d], d))
    /\ UNCHANGED <<allocated, mFutureTime>>

\* LocTimer::start(timeOutInMs, wakeOnExpire); wakeOnExpire selects k.
Start(c, k, delay) ==
  /\ c \in alive \ Wrappers
  /\ mTimer[c] = None
  /\ StartDelegate(c, k, delay)
  /\ UNCHANGED <<now, alive, handles, heapVars, kernelVars, task, poll>>

\* LocTimer::stop() called by the client.
Stop(c) ==
  /\ c \in alive \ Wrappers
  /\ mTimer[c] # None
  /\ StopDelegate(c)
  /\ UNCHANGED <<now, alive, handles, heapVars, kernelVars, task, poll>>

\* loc_timer_start(): a new LocTimerWrapper, in free memory, started at once;
\* the client gets the pointer to it.
LocTimerStart(c, k, delay) ==
  /\ c \in Wrappers \ alive
  /\ handles[c] < MaxHandles
  /\ alive' = alive \cup {c}
  /\ handles' = [handles EXCEPT ![c] = @ + 1]
  /\ StartDelegate(c, k, delay)
  /\ UNCHANGED <<now, heapVars, kernelVars, task, poll>>

\* LocTimerWrapper::destroy(), under mMutex: when "NULL != mCb && this == mMe"
\* holds, ~LocTimer() stops the timer and the object is freed.  The test holds
\* of whatever wrapper is in this memory by now; in free memory it reads the
\* NULL that ~LocTimerWrapper() has left in both fields.
\* Mutated form: the destructor does not stop the timer.
DestroyRunning(c) ==
  /\ alive' = alive \ {c}
  /\ mTimer' = [mTimer EXCEPT ![c] = None]
  /\ UNCHANGED <<allocated, mClient, mContainer, mFutureTime, queue>>

DestroyWrapper(c) ==
  /\ alive' = alive \ {c}
  /\ IF c \in alive /\ mTimer[c] # None
     THEN StopDelegate(c)
     ELSE UNCHANGED <<mTimer, allocated, mClient, mContainer, mFutureTime, queue>>

\* loc_timer_stop(handle), which resets the handle.  Nothing tells the client
\* that its wrapper has destroyed itself in the meantime.
LocTimerStop(c) ==
  /\ c \in Wrappers
  /\ handles[c] > 0
  /\ handles' = [handles EXCEPT ![c] = @ - 1]
  /\ DestroyWrapper(c)
  /\ UNCHANGED <<now, heapVars, kernelVars, task, poll>>

-----------------------------------------------------------------------------
(***************************************************************************)
(* The MsgTask thread.                                                     *)
(***************************************************************************)
Receive(op) == /\ task.pc = "idle"
               /\ queue # <<>>
               /\ Head(queue).op = op
               /\ queue' = Tail(queue)

MsgTimerPush ==
  /\ Receive("Push")
  /\ LET m == Head(queue) IN
       /\ HeapPush(m.k, m.d)
       /\ UpdateSoonestTime(m.k, top[m.k])
  /\ UNCHANGED <<now, clientVars, kernelVars, poll>>

\* The delete that ends the handler of Remove.  (Nothing reads the fields of
\* a freed slot; its time is reset to 0.)
DeleteDelegate(k, d) ==
  /\ allocated'   = allocated \ {d}
  /\ mFutureTime' = [mFutureTime EXCEPT ![d] = 0]

\* "priorTop == remove(timer)": the removed delegate was the top, or both
\* are NULL (nothing removed from an empty heap).  The delete is part of
\* this step: nobody else has a pointer to the delegate.
MsgTimerRemove ==
  /\ Receive("Remove")
  /\ LET m       == Head(queue)
         removed == IF m.d \in heap[m.k] THEN m.d ELSE None
     IN /\ HeapRemove(m.k, m.d)
        /\ IF top[m.k] = removed
           THEN UpdateSoonestTime(m.k, None)
           ELSE task' = TaskIdle
        /\ DeleteDelegate(m.k, m.d)
  /\ UNCHANGED <<now, alive, handles, mTimer, mClient, mContainer, kernelVars, poll>>

\* pop() the top of k's heap and enter its expire(), which reads mClient
\* without taking the lock.
PopAndExpire(k, t) ==
  /\ HeapRemove(k, top[k])
  /\ task' = [pc |-> "expiring", k |-> k, d |-> top[k], c |-> mClient[top[k]], t |-> t]

\* The handler of Expire starts: its first pop() is unconditional.
MsgTimerExpire ==
  /\ Receive("Expire")
  /\ LET k == Head(queue).k IN
       IF heap[k] = {}
       THEN task' = TaskIdle /\ UNCHANGED heapVars
       ELSE PopAndExpire(k, now)
  /\ UNCHANGED <<now, clientVars, kernelVars, poll>>

\* LocTimerDelegate::expire() is over.
Loop == [task EXCEPT !.pc = "loop", !.d = None, !.c = None]

\* LocTimerDelegate::expire() calls client->stop().  When it returns true,
\* the callback comes next; otherwise the loop goes on.  The client may have
\* been deleted: while its destructor runs the call finds no timer, as here,
\* later its lock pointer is NULL and the program stops; in memory that holds
\* a new wrapper the call stops that one.
\* Mutated form: the result of stop() is ignored.
ExpireAnyway ==
  /\ task.pc = "expiring"
  /\ task.c # None
  /\ task' = [task EXCEPT !.pc = "callback", !.d = None]
  /\ IF mTimer[task.c] # None
     THEN StopDelegate(task.c)
     ELSE UNCHANGED <<mTimer, allocated, mClient, mContainer, mFutureTime, queue>>
  /\ UNCHANGED <<now, alive, handles, heapVars, kernelVars, poll>>

ExpireStop ==
  /\ task.pc = "expiring"
  /\ task.c # None
  /\ IF mTimer[task.c] # None
     THEN /\ StopDelegate(task.c)
          /\ task' = [task EXCEPT !.pc = "callback", !.d = None]
     ELSE /\ task' = Loop
          /\ UNCHANGED <<mTimer, allocated, mClient, mContainer, mFutureTime, queue>>
  /\ UNCHANGED <<now, alive, handles, heapVars, kernelVars, poll>>

\* expire() of a delegate whose client pointer was NULL.
ExpireSkip ==
  /\ task.pc = "expiring"
  /\ task.c = None
  /\ task' = Loop
  /\ UNCHANGED <<now, clientVars, heapVars, kernelVars, queue, poll>>

\* client->timeOutCallback(), which for a wrapper reads mCb without a lock and
\* calls it.  Deleted meanwhile, the client has no such method any more and
\* the program stops, unless a new wrapper is in its memory, whose callback
\* this is then.
TimeOutCallback ==
  /\ task.pc = "callback"
  /\ task.c \in alive
  /\ task' = IF task.c \in Wrappers THEN [task EXCEPT !.pc = "destroy"] ELSE Loop
  /\ UNCHANGED <<now, clientVars, heapVars, kernelVars, queue, poll>>

\* The client's callback returns and the wrapper destroys itself, unless a
\* loc_timer_stop() has done so while the callback ran.
\* Mutated form: the wrapper does not destroy itself.
CallbackReturnsOnly ==
  /\ task.pc = "destroy"
  /\ task' = Loop
  /\ UNCHANGED <<now, clientVars, heapVars, kernelVars, queue, poll>>

CallbackReturns ==
  /\ task.pc = "destroy"
  /\ DestroyWrapper(task.c)
  /\ task' = Loop
  /\ UNCHANGED <<now, handles, heapVars, kernelVars, poll>>

\* popIfOutRanks(timerOfNow), or, when nothing more is due, the handler's
\* final updateSoonestTime(NULL).
NextIteration ==
  /\ task.pc = "loop"
  /\ LET k == task.k IN
       IF heap[k] # {} /\ mFutureTime[top[k]] <= task.t
       THEN PopAndExpire(k, task.t)
       ELSE UNCHANGED heapVars /\ UpdateSoonestTime(k, None)
  /\ UNCHANGED <<now, clientVars, kernelVars, queue, poll>>

\* updateSoonestTime(): epoll_ctl(ADD), which fails harmlessly when the fd
\* is already there, and then timerfd_settime() with the new top.
AddPoll ==
  /\ task.pc = "addPoll"
  /\ polled' = polled \cup {task.k}
  /\ task' = TaskAt("setTime", task.k)
  /\ UNCHANGED <<now, clientVars, heapVars, fd, queue, poll>>

SetTime ==
  /\ task.pc = "setTime"
  /\ fd' = [fd EXCEPT ![task.k] = mFutureTime[top[task.k]]]
  /\ task' = TaskIdle
  /\ UNCHANGED <<now, clientVars, heapVars, polled, queue, poll>>

-----------------------------------------------------------------------------
(***************************************************************************)
(* The poll thread: LocTimerPollTask::run() and LocTimerContainer::expire().*)
(***************************************************************************)
Readable(k) == k \in polled /\ fd[k] # None /\ fd[k] <= now

\* epoll_wait() returns the events of every readable fd.
PollWake ==
  /\ poll = PollIdle
  /\ \E k \in Containers : Readable(k)
  /\ poll' = [poll EXCEPT !.todo = {k \in Containers : Readable(k)}]
  /\ UNCHANGED <<now, clientVars, heapVars, kernelVars, queue, task>>

PollDisarm(k) ==
  /\ poll.pc = "wait"
  /\ k \in poll.todo
  /\ fd' = [fd EXCEPT ![k] = None]
  /\ poll' = [pc |-> "removePoll", k |-> k, todo |-> poll.todo \ {k}]
  /\ UNCHANGED <<now, clientVars, heapVars, polled, queue, task>>

PollRemove ==
  /\ poll.pc = "removePoll"
  /\ polled' = polled \ {poll.k}
  /\ poll' = [poll EXCEPT !.pc = "send"]
  /\ UNCHANGED <<now, clientVars, heapVars, fd, queue, task>>

PollSend ==
  /\ poll.pc = "send"
  /\ queue' = Append(queue, Expire(poll.k))
  /\ poll' = [poll EXCEPT !.pc = "wait", !.k = None]
  /\ UNCHANGED <<now, clientVars, heapVars, kernelVars, task>>

-----------------------------------------------------------------------------
Tick == /\ now < MaxTime
        /\ now' = now + 1
        /\ UNCHANGED <<clientVars, heapVars, kernelVars, queue, task, poll>>

Init ==
  /\ now = 0
  /\ alive = Timers \ Wrappers
  /\ handles = [c \in Wrappers |-> 0]
  /\ mTimer = [c \in Timers |-> None]
  /\ allocated = {}
  /\ mClient = [d \in Delegates |-> None]
  /\ mContainer = [d \in Delegates |-> None]
  /\ mFutureTime = [d \in Delegates |-> 0]
  /\ heap = [k \in Containers |-> {}]
  /\ top = [k \in Containers |-> None]
  /\ fd = [k \in Containers |-> None]
  /\ polled = {}
  /\ queue = <<>>
  /\ task = TaskIdle
  /\ poll = PollIdle

ClientNext ==
  \E c \in Timers :
    \/ \E k \in Containers, delay \in Delays : Start(c, k, delay)
    \/ Stop(c)
    \/ \E k \in Containers, delay \in Delays : LocTimerStart(c, k, delay)
    \/ LocTimerStop(c)

TaskNext == \/ MsgTimerPush \/ MsgTimerRemove \/ MsgTimerExpire
            \/ ExpireStop \/ ExpireSkip \/ TimeOutCallback \/ CallbackReturns
            \/ NextIteration \/ AddPoll \/ SetTime

PollNext == \/ PollWake
            \/ \E k \in Containers : PollDisarm(k)
            \/ PollRemove
            \/ PollSend

Next == ClientNext \/ TaskNext \/ PollNext \/ Tick

Spec == Init /\ [][Next]_vars

\* The two service threads loop for ever and time passes; a client need not
\* call anything.
Fairness == WF_vars(TaskNext) /\ WF_vars(PollNext) /\ WF_vars(Tick)

FairSpec == Spec /\ Fairness

-----------------------------------------------------------------------------
(***************************************************************************)
(* Properties.                                                             *)
(***************************************************************************)
Queued(m) == \E i \in 1..Len(queue) : queue[i] = m

\* The poll thread holds an event of k that it has not yet turned into an
\* Expire message, or such a message waits for the MsgTask.
ExpireInFlight(k) == k \in poll.todo \/ poll.k = k \/ Queued(Expire(k))

\* Types of the variables: the pointers of a LocTimer, of a delegate and of a
\* heap, and the positions of the two threads (the class definitions of
\* LocTimer.cpp and LocTimer.h).
TypeOK ==
  /\ now \in Nat
  /\ alive \subseteq Timers
  /\ handles \in [Wrappers -> Nat]
  /\ mTimer \in [Timers -> Delegates \cup {None}]
  /\ allocated \subseteq Delegates
  /\ mClient \in [Delegates -> Timers \cup {None}]
  /\ mContainer \in [Delegates -> Containers \cup {None}]
  /\ mFutureTime \in [Delegates -> Nat]
  /\ heap \in [Containers -> SUBSET Delegates]
  /\ top \in [Containers -> Delegates \cup {None}]
  /\ fd \in [Containers -> Nat \cup {None}]
  /\ polled \subseteq Containers
  /\ queue \in Seq(Message)
  /\ task \in TaskState
  /\ poll \in PollState

\* "All timers are deleted here, and only here": a freed delegate is in no
\* heap, under no expire() call, behind no LocTimer, and named by no queued
\* message.  A second Remove of one delegate, or a Push overtaken by its
\* Remove, would break this.
FreedDelegateIsForgotten ==
  \A d \in Delegates \ allocated :
    /\ \A c \in Timers : mTimer[c] # d
    /\ \A k \in Containers : d \notin heap[k]
    /\ task.d # d
    /\ \A i \in 1..Len(queue) : queue[i].d # d

\* Where the delegate d of a running LocTimer c is: its Push is queued, or it
\* is in the heap of its container, or the Expire handler has just popped it
\* and read this client.
Tracked(c, d) ==
  /\ mClient[d] = c
  /\ \/ Queued(Push(mContainer[d], d))
     \/ d \in heap[mContainer[d]]
     \/ task.d = d /\ task.c = c

\* A LocTimer that start() reported running is on its way to expire: no
\* stop(), expiration or restart, of this timer or of another one, leaves it
\* without a delegate that the MsgTask still knows about.
RunningTimerIsTracked ==
  \A c \in Timers : mTimer[c] # None => Tracked(c, mTimer[c])

\* No wake-up is lost between the MsgTask, which arms the timerfd, and the
\* poll thread, which disarms it: whenever a container holds timers and the
\* MsgTask is not in the middle of a handler for it, the timerfd is armed no
\* later than the soonest timer and polled, or an Expire is in flight.
NoLostWakeup ==
  \A k \in Containers : heap[k] # {} /\ task.k # k =>
    \/ fd[k] # None /\ fd[k] <= mFutureTime[top[k]] /\ k \in polled
    \/ ExpireInFlight(k)

\* destroyLocked() detaches a delegate from its client before the client goes
\* away: no delegate points to a deleted LocTimer, whether loc_timer_stop() or
\* the wrapper itself deletes it, and whatever wrapper is in the memory of an
\* older one.  It does not speak of the copy of mClient that expire() has
\* taken: ExpireUsesLiveClient does.
NoDelegateOfDeadTimer ==
  \A d \in Delegates : mClient[d] # None => mClient[d] \in alive

\* No loc_timer_start() leaks its wrapper: one that exists is running, or the
\* MsgTask is on its way through the callback to its destroy().  Neither a
\* loc_timer_stop() that races the expiration, nor one with a pointer whose
\* memory holds another wrapper by now, leaves a wrapper that nothing deletes.
NoWrapperIsLeaked ==
  \A c \in Wrappers \cap alive :
    mTimer[c] # None \/ (task.c = c /\ task.pc \in {"callback", "destroy"})

-----------------------------------------------------------------------------
(***************************************************************************)
(* LocTimer implements the service that LocTimer.h describes.              *)
(***************************************************************************)
Service == INSTANCE TimerService WITH
  running <- {c \in Timers : mTimer[c] # None},
  calling <- IF task.pc = "callback" THEN task.c ELSE None

\* Every run of a timer ends exactly once, by a successful stop() or by one
\* callback; callbacks come one at a time; a timer that is left running does
\* expire.  (client->stop() in LocTimerDelegate::expire() is what decides.)
ImplementsTimerService == Service!Spec

-----------------------------------------------------------------------------
(***************************************************************************)
(* What the comments of LocTimer.cpp promise and the code does not keep.   *)
(***************************************************************************)

\* MsgTimerExpire::proc(): "pop everything in the heap that outRanks now,
\* i.e. has time older than now".
OnlyDueTimersArePopped ==
  task.pc = "expiring" => mFutureTime[task.d] <= task.t

\* updateSoonestTime(): "if tree is empty now, we remove poll and disarm
\* timer", once the service has nothing left to do.
EmptyContainerIsDisarmed ==
  queue = <<>> /\ task = TaskIdle /\ poll = PollIdle =>
    \A k \in Containers : heap[k] = {} => fd[k] = None

\* destroyLocked(): "Nulling this handle so that expire() won't call the
\* callback on the dead handle any more".  expire() has copied it before.
ExpireUsesLiveClient ==
  task.c # None => task.c \in alive

\* loc_timer.h: "handle becomes invalid upon the return of the callback", and
\* only then.  A loc_timer_stop() while the callback is due or runs deletes
\* the wrapper, and the MsgTask goes on with the deleted one.
DestroyedWrapperIsAlive ==
  task.pc \in {"callback", "destroy"} => task.c \in alive

\* LocTimerDelegate::expire(): client->stop() returns true only if "it hasn't
\* been stopped already", so what it stops is the delegate that expired.
ExpireStopsItsOwnDelegate ==
  task.pc = "expiring" /\ task.c # None =>
    mTimer[task.c] \in {task.d, None}
=============================================================================
