--------------------------- MODULE LocTimerProofs ---------------------------
(***************************************************************************)
(* Theorems about LocTimer, for every number of timers, delegates and      *)
(* containers, every delay and any bound on the clock: no delegate is used *)
(* after it is freed, no running timer is lost, no wake-up is lost.        *)
(*                                                                         *)
(* The three invariants are proved together, as one inductive invariant,   *)
(* IInv: what a step does to a delegate depends on who else points to it.  *)
(***************************************************************************)
EXTENDS LocTimer, TLAPS

-----------------------------------------------------------------------------
(***************************************************************************)
(* The inductive invariant.                                                *)
(***************************************************************************)

\* A LocTimer and its delegate point to each other, and the delegate knows
\* the container it was posted to; a deleted LocTimer has no delegate.
OwnerInv ==
  /\ \A c \in Timers : mTimer[c] # None =>
       /\ mTimer[c] \in allocated
       /\ mClient[mTimer[c]] = c
       /\ mContainer[mTimer[c]] # None
  /\ \A d \in Delegates : mClient[d] # None => mTimer[mClient[d]] = d
  /\ \A c \in Timers \ alive : mTimer[c] = None

\* The messages of one delegate: it is allocated; its Remove means that it
\* is detached; a Push comes before a Remove and names the same container,
\* and neither is there twice.
QueueInv ==
  /\ \A i \in 1..Len(queue) : queue[i].d # None =>
       /\ queue[i].d \in allocated
       /\ queue[i].op = "Remove" => mClient[queue[i].d] = None
       /\ mClient[queue[i].d] # None => mContainer[queue[i].d] = queue[i].k
  /\ \A i, j \in 1..Len(queue) :
       i < j /\ queue[i].d # None /\ queue[i].d = queue[j].d =>
         /\ queue[i].op = "Push"
         /\ queue[j].op = "Remove"
         /\ queue[i].k = queue[j].k

\* A delegate in a heap is allocated and no longer waits to be pushed, and
\* both its own pointer and its Remove message name this container.
HeapInv ==
  \A k \in Containers :
    /\ top[k] = None => heap[k] = {}
    /\ top[k] # None => top[k] \in heap[k]
    /\ \A d \in heap[k] :
         /\ d \in allocated
         /\ mClient[d] # None => mContainer[d] = k
         /\ \A i \in 1..Len(queue) : queue[i].d = d =>
              queue[i].op = "Remove" /\ queue[i].k = k

\* The handler that runs: updateSoonestTime() is past its test only when
\* there is a top to arm, and what expire() works on is still allocated.
TaskInv ==
  /\ task.pc \in {"addPoll", "setTime"} => top[task.k] # None
  /\ task.d # None => task.d \in allocated

\* While updateSoonestTime() is between its two system calls, the container
\* is polled, unless the poll thread has just taken an event of it.
WakeupInv ==
  task.pc = "setTime" => task.k \in polled \/ ExpireInFlight(task.k)

IInv == /\ TypeOK
        /\ OwnerInv
        /\ QueueInv
        /\ HeapInv
        /\ TaskInv
        /\ WakeupInv
        /\ RunningTimerIsTracked
        /\ NoLostWakeup
-----------------------------------------------------------------------------
(***************************************************************************)
(* The queue.                                                              *)
(***************************************************************************)

\* The messages that the code sends have the fields of a message.
LEMMA MessageFields ==
  ASSUME NEW k \in Containers, NEW d \in Delegates
  PROVE  /\ Push(k, d) \in Message
         /\ Remove(k, d) \in Message
         /\ Expire(k) \in Message
  BY DEF Message, Push, Remove, Expire

\* A message is about a delegate unless it is an Expire.
LEMMA MessageKinds ==
  ASSUME NEW m \in Message
  PROVE  /\ m.op \in {"Push", "Remove", "Expire"}
         /\ m.k \in Containers
         /\ m.op = "Expire" <=> m.d = None
         /\ m.op # "Expire" => m.d \in Delegates
         /\ m = [op |-> m.op, k |-> m.k, d |-> m.d]
  BY NoneAssumption DEF Message

\* sendMsg(): the messages that were queued keep their places.
LEMMA QueueGrows ==
  ASSUME queue \in Seq(Message), NEW m \in Message, queue' = Append(queue, m)
  PROVE  /\ queue' \in Seq(Message)
         /\ Len(queue') = Len(queue) + 1
         /\ \A i \in 1..Len(queue) : queue'[i] = queue[i]
         /\ queue'[Len(queue) + 1] = m
         /\ Queued(m)'
         /\ \A n : Queued(n) => Queued(n)'
<1>1. /\ queue' \in Seq(Message)
      /\ Len(queue') = Len(queue) + 1
      /\ \A i \in 1..Len(queue) : queue'[i] = queue[i]
      /\ queue'[Len(queue) + 1] = m
  OBVIOUS
<1>2. Len(queue) \in Nat
  OBVIOUS
<1>3. Queued(m)'
  BY <1>1, <1>2 DEF Queued
<1>4. \A n : Queued(n) => Queued(n)'
  BY <1>1, <1>2 DEF Queued
<1> QED BY <1>1, <1>3, <1>4

\* The MsgTask takes the first message: the others move up by one.
LEMMA QueueShrinks ==
  ASSUME queue \in Seq(Message), queue # <<>>, queue' = Tail(queue)
  PROVE  /\ queue' \in Seq(Message)
         /\ Len(queue) \in Nat \ {0}
         /\ Len(queue') = Len(queue) - 1
         /\ \A i \in 1..Len(queue') : i + 1 \in 1..Len(queue) /\ queue'[i] = queue[i + 1]
         /\ Head(queue) \in Message
         /\ Head(queue) = queue[1]
         /\ \A n : Queued(n) => n = Head(queue) \/ Queued(n)'
<1>1. /\ queue' \in Seq(Message)
      /\ Len(queue) \in Nat \ {0}
      /\ Len(queue') = Len(queue) - 1
      /\ \A i \in 1..Len(queue') : i + 1 \in 1..Len(queue) /\ queue'[i] = queue[i + 1]
      /\ Head(queue) \in Message
      /\ Head(queue) = queue[1]
  OBVIOUS
<1>2. ASSUME NEW n, Queued(n), n # Head(queue)
      PROVE  Queued(n)'
  <2>1. PICK i \in 1..Len(queue) : queue[i] = n
    BY <1>2 DEF Queued
  <2>2. i # 1
    BY <1>1, <1>2, <2>1
  <2>3. i - 1 \in 1..Len(queue') /\ queue'[i - 1] = n
    BY <1>1, <2>1, <2>2
  <2> QED BY <2>3 DEF Queued
<1> QED BY <1>1, <1>2

-----------------------------------------------------------------------------
(***************************************************************************)
(* Client threads: what start() and stop() do, whoever calls them.         *)
(***************************************************************************)

\* LocTimer::start(), from LocTimer::start() itself or loc_timer_start().
LEMMA StartStep ==
  ASSUME IInv, NEW c \in Timers, NEW k \in Containers, NEW delay \in Delays,
         mTimer[c] = None, StartDelegate(c, k, delay),
         alive \subseteq alive', alive' \subseteq Timers, c \in alive',
         handles' \in [Wrappers -> Nat],
         UNCHANGED <<now, heapVars, kernelVars, task, poll>>
  PROVE  IInv'
<1> USE DEF IInv, heapVars, kernelVars
<1> PICK d \in Delegates \ allocated :
      /\ allocated'   = allocated \cup {d}
      /\ mTimer'      = [mTimer EXCEPT ![c] = d]
      /\ mClient'     = [mClient EXCEPT ![d] = c]
      /\ mContainer'  = [mContainer EXCEPT ![d] = k]
      /\ mFutureTime' = [mFutureTime EXCEPT ![d] = now + delay]
      /\ queue'       = Append(queue, Push(k, d))
  BY DEF StartDelegate
<1>m. Push(k, d) \in Message /\ Push(k, d).d = d /\ Push(k, d).k = k /\ Push(k, d).op = "Push"
  BY MessageFields DEF Push
<1>n. None \notin Timers \cup Delegates \cup Containers
  BY NoneAssumption
<1>q. /\ queue' \in Seq(Message)
      /\ Len(queue) \in Nat
      /\ Len(queue') = Len(queue) + 1
      /\ \A i \in 1..Len(queue) : queue'[i] = queue[i]
      /\ queue'[Len(queue) + 1] = Push(k, d)
      /\ Queued(Push(k, d))'
      /\ \A n : Queued(n) => Queued(n)'
  BY <1>m, QueueGrows DEF TypeOK
<1>t. TypeOK'
  <2>1. now + delay \in Nat
    BY TimeAssumption DEF TypeOK
  <2> QED BY <1>q, <2>1 DEF TypeOK
\* The slot was free, so nothing refers to it yet.
<1>f. /\ \A e \in Timers : mTimer[e] # d
      /\ \A i \in 1..Len(queue) : queue[i].d # d
      /\ \A h \in Containers : d \notin heap[h] /\ top[h] # d
      /\ mClient[d] = None
  BY <1>n DEF TypeOK, OwnerInv, QueueInv, HeapInv
<1>1. OwnerInv'
  BY <1>f, <1>n DEF TypeOK, OwnerInv
<1>2. QueueInv'
  <2>1. ASSUME NEW i \in 1..Len(queue'), queue'[i].d # None
        PROVE  /\ queue'[i].d \in allocated'
               /\ queue'[i].op = "Remove" => mClient'[queue'[i].d] = None
               /\ mClient'[queue'[i].d] # None => mContainer'[queue'[i].d] = queue'[i].k
    <3>1. CASE i = Len(queue) + 1
      BY <1>m, <1>q, <3>1 DEF TypeOK
    <3>2. CASE i \in 1..Len(queue)
      BY <1>q, <1>f, <2>1, <3>2 DEF TypeOK, QueueInv
    <3> QED BY <1>q, <3>1, <3>2
  <2>2. ASSUME NEW i \in 1..Len(queue'), NEW j \in 1..Len(queue'),
               i < j, queue'[i].d # None, queue'[i].d = queue'[j].d
        PROVE  /\ queue'[i].op = "Push"
               /\ queue'[j].op = "Remove"
               /\ queue'[i].k = queue'[j].k
    <3>1. i \in 1..Len(queue)
      BY <1>q, <2>2
    <3>2. CASE j = Len(queue) + 1
      BY <1>m, <1>q, <1>f, <2>2, <3>1, <3>2
    <3>3. CASE j \in 1..Len(queue)
      BY <1>q, <2>2, <3>1, <3>3 DEF QueueInv
    <3> QED BY <1>q, <3>2, <3>3
  <2> QED BY <2>1, <2>2 DEF QueueInv
<1>3. HeapInv'
  <2>1. ASSUME NEW h \in Containers, NEW e \in heap[h]
        PROVE  /\ e \in allocated'
               /\ mClient'[e] # None => mContainer'[e] = h
               /\ \A i \in 1..Len(queue') : queue'[i].d = e =>
                    queue'[i].op = "Remove" /\ queue'[i].k = h
    <3>1. e \in Delegates /\ e # d
      BY <1>f DEF TypeOK
    <3>2. \A i \in 1..Len(queue') : queue'[i].d = e => i \in 1..Len(queue)
      BY <1>m, <1>q, <3>1
    <3> QED BY <1>q, <3>1, <3>2 DEF TypeOK, HeapInv
  <2> QED BY <2>1 DEF HeapInv
<1>4. TaskInv'
  BY DEF TaskInv
<1>5. WakeupInv'
  BY <1>q DEF WakeupInv, ExpireInFlight
<1>6. RunningTimerIsTracked'
  <2> SUFFICES ASSUME NEW e \in Timers, mTimer'[e] # None
               PROVE  Tracked(e, mTimer[e])'
    BY DEF RunningTimerIsTracked
  <2>1. CASE e = c
    <3>1. mTimer'[e] = d /\ mClient'[d] = c /\ mContainer'[d] = k
      BY <2>1 DEF TypeOK
    <3> QED BY <1>q, <2>1, <3>1 DEF Tracked, Queued
  <2>2. CASE e # c
    <3>1. mTimer'[e] = mTimer[e] /\ mTimer[e] \in Delegates /\ mTimer[e] # d
      BY <1>f, <2>2 DEF TypeOK
    <3>2. mContainer'[mTimer[e]] = mContainer[mTimer[e]] /\ mClient'[mTimer[e]] = mClient[mTimer[e]]
      BY <3>1 DEF TypeOK
    <3>3. Tracked(e, mTimer[e])
      BY <3>1 DEF RunningTimerIsTracked
    <3> QED BY <1>q, <3>1, <3>2, <3>3 DEF Tracked, Queued
  <2> QED BY <2>1, <2>2
<1>7. NoLostWakeup'
  <2>1. \A h \in Containers : heap[h] # {} => mFutureTime'[top[h]] = mFutureTime[top[h]]
    BY <1>f DEF TypeOK, HeapInv
  <2>2. \A h \in Containers : ExpireInFlight(h) => ExpireInFlight(h)'
    BY <1>q DEF ExpireInFlight
  <2> QED BY <2>1, <2>2 DEF NoLostWakeup
<1> QED BY <1>t, <1>1, <1>2, <1>3, <1>4, <1>5, <1>6, <1>7

\* LocTimer::stop() of a running timer, from a client, from ~LocTimer() or
\* from LocTimerDelegate::expire(): in the last two the object may go away,
\* and the handler leaves its expire() or its callback.
LEMMA StopStep ==
  ASSUME IInv, NEW c \in Timers,
         mTimer[c] # None, StopDelegate(c),
         alive' \subseteq alive, alive \ {c} \subseteq alive',
         handles' \in [Wrappers -> Nat],
         task' \in TaskState,
         \/ task' = task
         \/ /\ task'.k = task.k
            /\ task'.pc \in {"callback", "loop"}
            /\ task.d # None => task.c = c,
         UNCHANGED <<now, heapVars, kernelVars, poll>>
  PROVE  IInv'
<1> USE DEF IInv, heapVars, kernelVars
<1> DEFINE d == mTimer[c]
           k == mContainer[d]
<1>n. None \notin Timers \cup Delegates \cup Containers
  BY NoneAssumption
<1>d. /\ d \in Delegates /\ d \in allocated
      /\ k \in Containers
      /\ mClient[d] = c
      /\ mTimer'     = [mTimer EXCEPT ![c] = None]
      /\ mClient'    = [mClient EXCEPT ![d] = None]
      /\ mContainer' = [mContainer EXCEPT ![d] = None]
      /\ queue'      = Append(queue, Remove(k, d))
      /\ UNCHANGED <<allocated, mFutureTime>>
  BY DEF TypeOK, OwnerInv, StopDelegate
<1> HIDE DEF d, k
<1>m. Remove(k, d) \in Message /\ Remove(k, d).d = d /\ Remove(k, d).k = k /\ Remove(k, d).op = "Remove"
  BY <1>d, MessageFields DEF Remove
<1>q. /\ queue' \in Seq(Message)
      /\ Len(queue) \in Nat
      /\ Len(queue') = Len(queue) + 1
      /\ \A i \in 1..Len(queue) : queue'[i] = queue[i]
      /\ queue'[Len(queue) + 1] = Remove(k, d)
      /\ \A n : Queued(n) => Queued(n)'
  BY <1>m, <1>d, QueueGrows DEF TypeOK
<1>t. TypeOK'
  BY <1>d, <1>q DEF TypeOK
\* The handler's positions in which TaskInv says something are untouched.
<1>p. /\ task'.k = task.k
      /\ task'.d # None => task' = task
      /\ task'.pc \in {"addPoll", "setTime"} => task' = task
  BY <1>n DEF TaskState
\* No Remove of d is queued: d still has a client.
<1>r. \A i \in 1..Len(queue) : queue[i].d = d => queue[i].op = "Push" /\ queue[i].k = k
  <2> SUFFICES ASSUME NEW i \in 1..Len(queue), queue[i].d = d
               PROVE  queue[i].op = "Push" /\ queue[i].k = k
    OBVIOUS
  <2>1. queue[i] \in Message
    BY DEF TypeOK
  <2>2. queue[i].op # "Remove" /\ k = queue[i].k
    BY <1>d, <1>n DEF QueueInv, k
  <2> QED BY <1>d, <1>n, <2>1, <2>2, MessageKinds
<1>1. OwnerInv'
  BY <1>d, <1>n DEF TypeOK, OwnerInv
<1>2. QueueInv'
  <2>1. ASSUME NEW i \in 1..Len(queue'), queue'[i].d # None
        PROVE  /\ queue'[i].d \in allocated'
               /\ queue'[i].op = "Remove" => mClient'[queue'[i].d] = None
               /\ mClient'[queue'[i].d] # None => mContainer'[queue'[i].d] = queue'[i].k
    <3>1. CASE i = Len(queue) + 1
      BY <1>m, <1>q, <1>d, <3>1 DEF TypeOK
    <3>2. CASE i \in 1..Len(queue)
      BY <1>q, <1>d, <2>1, <3>2 DEF TypeOK, QueueInv
    <3> QED BY <1>q, <3>1, <3>2
  <2>2. ASSUME NEW i \in 1..Len(queue'), NEW j \in 1..Len(queue'),
               i < j, queue'[i].d # None, queue'[i].d = queue'[j].d
        PROVE  /\ queue'[i].op = "Push"
               /\ queue'[j].op = "Remove"
               /\ queue'[i].k = queue'[j].k
    <3>1. i \in 1..Len(queue)
      BY <1>q, <2>2
    <3>2. CASE j = Len(queue) + 1
      BY <1>m, <1>q, <1>r, <2>2, <3>1, <3>2
    <3>3. CASE j \in 1..Len(queue)
      BY <1>q, <2>2, <3>1, <3>3 DEF QueueInv
    <3> QED BY <1>q, <3>2, <3>3
  <2> QED BY <2>1, <2>2 DEF QueueInv
<1>3. HeapInv'
  <2>1. ASSUME NEW h \in Containers, NEW e \in heap[h]
        PROVE  /\ e \in allocated'
               /\ mClient'[e] # None => mContainer'[e] = h
               /\ \A i \in 1..Len(queue') : queue'[i].d = e =>
                    queue'[i].op = "Remove" /\ queue'[i].k = h
    <3>1. e \in Delegates
      BY DEF TypeOK
    <3>2. CASE e # d
      <4>1. \A i \in 1..Len(queue') : queue'[i].d = e => i \in 1..Len(queue)
        BY <1>m, <1>q, <3>2
      <4> QED BY <1>q, <1>d, <3>1, <3>2, <4>1 DEF TypeOK, HeapInv
    <3>3. CASE e = d
      <4>1. k = h
        BY <1>d, <1>n, <3>3 DEF HeapInv, k
      <4>2. \A i \in 1..Len(queue) : queue[i].d # d
        BY <1>r, <3>3 DEF HeapInv
      <4> QED BY <1>q, <1>m, <1>d, <3>3, <4>1, <4>2 DEF TypeOK
    <3> QED BY <3>2, <3>3
  <2> QED BY <2>1 DEF HeapInv
<1>4. TaskInv'
  BY <1>d, <1>p DEF TaskInv
<1>5. WakeupInv'
  BY <1>p, <1>q DEF WakeupInv, ExpireInFlight
<1>6. RunningTimerIsTracked'
  <2> SUFFICES ASSUME NEW e \in Timers, mTimer'[e] # None
               PROVE  Tracked(e, mTimer[e])'
    BY DEF RunningTimerIsTracked
  <2>1. e # c
    BY <1>d DEF TypeOK
  <2>2. mTimer'[e] = mTimer[e] /\ mTimer[e] \in Delegates /\ mTimer[e] # d
    BY <1>d, <2>1 DEF TypeOK, OwnerInv
  <2>3. mContainer'[mTimer[e]] = mContainer[mTimer[e]] /\ mClient'[mTimer[e]] = mClient[mTimer[e]]
    BY <1>d, <2>2 DEF TypeOK
  <2>4. Tracked(e, mTimer[e])
    BY <2>2, <1>n DEF RunningTimerIsTracked
  <2>5. task.d = mTimer[e] /\ task.c = e => task' = task
    BY <2>1, <2>2, <1>n
  <2> QED BY <1>q, <2>2, <2>3, <2>4, <2>5 DEF Tracked, Queued
<1>7. NoLostWakeup'
  <2>1. \A h \in Containers : ExpireInFlight(h) => ExpireInFlight(h)'
    BY <1>q DEF ExpireInFlight
  <2> QED BY <1>d, <1>p, <2>1 DEF NoLostWakeup
<1> QED BY <1>t, <1>1, <1>2, <1>3, <1>4, <1>5, <1>6, <1>7

\* expire() or the callback ends without a stop(): the object that ran out
\* may be deleted, and nothing else changes.
LEMMA LoopStep ==
  ASSUME IInv, task' = Loop, task.pc \in {"expiring", "callback", "destroy"},
         handles' \in [Wrappers -> Nat],
         task.d # None /\ task.c # None => mTimer[task.c] = None,
         alive' \subseteq alive, \A c \in alive \ alive' : mTimer[c] = None,
         UNCHANGED <<now, mTimer, allocated, mClient, mContainer, mFutureTime,
                     heapVars, kernelVars, queue, poll>>
  PROVE  IInv'
<1> USE DEF IInv, heapVars, kernelVars
<1>n. None \notin Timers \cup Delegates \cup Containers
  BY NoneAssumption
<1>p. /\ task' \in TaskState /\ task'.k = task.k /\ task'.d = None /\ task'.pc = "loop"
  BY DEF TypeOK, TaskState, Loop
<1>t. TypeOK'
  BY <1>p DEF TypeOK
<1>1. OwnerInv' /\ QueueInv' /\ HeapInv' /\ TaskInv' /\ WakeupInv'
  BY <1>p DEF OwnerInv, QueueInv, HeapInv, TaskInv, WakeupInv, TypeOK
<1>2. RunningTimerIsTracked'
  <2>1. \A e \in Timers : mTimer[e] # None => mTimer[e] \in Delegates
    BY DEF TypeOK
  <2> QED BY <1>n, <2>1 DEF RunningTimerIsTracked, Tracked, Queued
<1>3. NoLostWakeup'
  BY <1>p DEF NoLostWakeup, ExpireInFlight, Queued
<1> QED BY <1>t, <1>1, <1>2, <1>3

-----------------------------------------------------------------------------
(***************************************************************************)
(* The MsgTask thread.                                                     *)
(***************************************************************************)

\* The new top is one of the delegates that are left.
LEMMA SoonestLemma ==
  ASSUME NEW S, NEW new \in Soonest(S)
  PROVE  (S = {} /\ new = None) \/ new \in S
<1>1. CASE S = {}
  BY <1>1 DEF Soonest
<1>2. CASE S # {}
  <2>1. new \in {x \in S : \A e \in S : ~OutRanks(e, x)}
    BY <1>2 DEF Soonest
  <2> QED BY <2>1
<1> QED BY <1>1, <1>2

\* What remove() and pop() leave of a heap: its top is gone only when the
\* heap is empty.
LEMMA HeapRemoveLemma ==
  ASSUME TypeOK, HeapInv, NEW k \in Containers, NEW d, HeapRemove(k, d)
  PROVE  /\ heap' \in [Containers -> SUBSET Delegates]
         /\ top' \in [Containers -> Delegates \cup {None}]
         /\ heap'[k] = heap[k] \ {d}
         /\ \A h \in Containers \ {k} : heap'[h] = heap[h] /\ top'[h] = top[h]
         /\ top'[k] = None => heap'[k] = {}
         /\ top'[k] # None => top'[k] \in heap'[k]
         /\ d # top[k] => top'[k] = top[k]
<1>1. PICK new \in IF d = top[k] THEN Soonest(heap[k] \ {d}) ELSE {top[k]} :
        top' = [top EXCEPT ![k] = new]
  BY DEF HeapRemove
<1>2. heap' = [heap EXCEPT ![k] = @ \ {d}]
  BY DEF HeapRemove
<1>3. \/ heap[k] \ {d} = {} /\ new = None
      \/ new \in heap[k] \ {d}
      \/ d # top[k] /\ new = top[k]
  <2>1. CASE d # top[k]
    BY <1>1, <2>1
  <2>2. CASE d = top[k]
    <3>1. new \in Soonest(heap[k] \ {d})
      BY <1>1, <2>2
    <3> QED BY <3>1, SoonestLemma
  <2> QED BY <2>1, <2>2
<1>4. new \in Delegates \cup {None}
  BY <1>3 DEF TypeOK
<1>5. /\ new = None => heap[k] \ {d} = {}
      /\ new # None => new \in heap[k] \ {d}
  BY <1>3, NoneAssumption DEF TypeOK, HeapInv
<1> QED BY <1>1, <1>2, <1>4, <1>5 DEF TypeOK

\* Taking a message off the queue is always sound for the messages behind it.
LEMMA QueueInvShrinks ==
  ASSUME TypeOK, QueueInv, queue # <<>>, queue' = Tail(queue),
         UNCHANGED <<mClient, mContainer>>,
         \A d \in allocated \ allocated' :
           \A i \in 1..Len(queue') : queue'[i].d # d
  PROVE  QueueInv'
<1>q. /\ Len(queue) \in Nat \ {0}
      /\ Len(queue') = Len(queue) - 1
      /\ \A i \in 1..Len(queue') : i + 1 \in 1..Len(queue) /\ queue'[i] = queue[i + 1]
  BY QueueShrinks DEF TypeOK
<1>1. ASSUME NEW i \in 1..Len(queue'), queue'[i].d # None
      PROVE  /\ queue'[i].d \in allocated'
             /\ queue'[i].op = "Remove" => mClient'[queue'[i].d] = None
             /\ mClient'[queue'[i].d] # None => mContainer'[queue'[i].d] = queue'[i].k
  BY <1>q, <1>1 DEF QueueInv
<1>2. ASSUME NEW i \in 1..Len(queue'), NEW j \in 1..Len(queue'),
             i < j, queue'[i].d # None, queue'[i].d = queue'[j].d
      PROVE  /\ queue'[i].op = "Push"
             /\ queue'[j].op = "Remove"
             /\ queue'[i].k = queue'[j].k
  <2>1. i + 1 < j + 1 /\ i + 1 \in 1..Len(queue) /\ j + 1 \in 1..Len(queue)
    BY <1>q, <1>2
  <2> QED BY <1>q, <1>2, <2>1 DEF QueueInv
<1> QED BY <1>1, <1>2 DEF QueueInv

\* The handler's positions around updateSoonestTime().
LEMMA TaskAtType ==
  /\ TaskIdle \in TaskState
  /\ \A k \in Containers : TaskAt("addPoll", k) \in TaskState /\ TaskAt("setTime", k) \in TaskState
  BY DEF TaskState, TaskIdle, TaskAt

\* The handler of Push puts the delegate into the heap.
LEMMA PushStep == IInv /\ MsgTimerPush => IInv'
<1> SUFFICES ASSUME IInv, MsgTimerPush PROVE IInv'
  OBVIOUS
<1> USE DEF IInv, clientVars, kernelVars
<1> DEFINE m == Head(queue)
           k == m.k
           d == m.d
<1>n. None \notin Timers \cup Delegates \cup Containers
  BY NoneAssumption
<1>a. /\ task.pc = "idle" /\ queue # <<>> /\ m.op = "Push" /\ queue' = Tail(queue)
      /\ HeapPush(k, d)
      /\ UpdateSoonestTime(k, top[k])
      /\ UNCHANGED <<now, alive, handles, mTimer, allocated, mClient, mContainer, mFutureTime,
                     fd, polled, poll>>
  BY DEF MsgTimerPush, Receive
<1>q. /\ queue' \in Seq(Message)
      /\ Len(queue) \in Nat \ {0}
      /\ \A i \in 1..Len(queue') : i + 1 \in 1..Len(queue) /\ queue'[i] = queue[i + 1]
      /\ m \in Message
      /\ m = queue[1]
      /\ \A n : Queued(n) => n = m \/ Queued(n)'
  BY <1>a, QueueShrinks DEF TypeOK
<1>m. k \in Containers /\ d \in Delegates /\ d # None /\ m = Push(k, d)
  BY <1>a, <1>q, <1>n, MessageKinds DEF Push
<1>i. task.d = None /\ task.k = None
  BY <1>a DEF TypeOK, TaskState
<1> HIDE DEF m, k, d
<1>h. /\ heap' = [heap EXCEPT ![k] = @ \cup {d}]
      /\ top'  = [top EXCEPT ![k] = top'[k]]
      /\ top'[k] \in {d, top[k]}
      /\ top[k] = None => top'[k] = d
  BY <1>a, <1>m DEF HeapPush, TypeOK
<1>k. task' = IF top'[k] # top[k] THEN TaskAt("addPoll", k) ELSE TaskIdle
  BY <1>a DEF UpdateSoonestTime
<1>t. TypeOK'
  <2>1. task' \in TaskState
    BY <1>k, <1>m, TaskAtType
  <2>2. heap' \in [Containers -> SUBSET Delegates] /\ top' \in [Containers -> Delegates \cup {None}]
    BY <1>h, <1>m DEF TypeOK
  <2> QED BY <1>a, <1>q, <2>1, <2>2 DEF TypeOK
<1>1. OwnerInv'
  BY <1>a DEF OwnerInv
<1>2. QueueInv'
  BY <1>a, QueueInvShrinks
<1>3. HeapInv'
  <2> SUFFICES ASSUME NEW h \in Containers
               PROVE  /\ top'[h] = None => heap'[h] = {}
                      /\ top'[h] # None => top'[h] \in heap'[h]
                      /\ \A e \in heap'[h] :
                           /\ e \in allocated'
                           /\ mClient'[e] # None => mContainer'[e] = h
                           /\ \A i \in 1..Len(queue') : queue'[i].d = e =>
                                queue'[i].op = "Remove" /\ queue'[i].k = h
    BY DEF HeapInv
  <2>1. /\ top'[h] = None => heap'[h] = {}
        /\ top'[h] # None => top'[h] \in heap'[h]
    BY <1>h, <1>m DEF TypeOK, HeapInv
  <2>2. ASSUME NEW e \in heap[h]
        PROVE  /\ e \in allocated'
               /\ mClient'[e] # None => mContainer'[e] = h
               /\ \A i \in 1..Len(queue') : queue'[i].d = e =>
                    queue'[i].op = "Remove" /\ queue'[i].k = h
    BY <1>a, <1>q DEF HeapInv
  <2>3. /\ d \in allocated'
        /\ mClient'[d] # None => mContainer'[d] = k
        /\ \A i \in 1..Len(queue') : queue'[i].d = d =>
             queue'[i].op = "Remove" /\ queue'[i].k = k
    <3>1. 1 \in 1..Len(queue) /\ queue[1].d = d /\ queue[1].k = k
      BY <1>q DEF d, k
    <3>2. ASSUME NEW i \in 1..Len(queue'), queue'[i].d = d
          PROVE  queue'[i].op = "Remove" /\ queue'[i].k = k
      <4>1. 1 < i + 1 /\ i + 1 \in 1..Len(queue) /\ queue[i + 1] = queue'[i]
        BY <1>q
      <4> QED BY <1>m, <3>1, <3>2, <4>1 DEF QueueInv
    <3> QED BY <1>a, <1>m, <3>1, <3>2 DEF QueueInv
  <2>4. heap'[h] = IF h = k THEN heap[h] \cup {d} ELSE heap[h]
    BY <1>h DEF TypeOK
  <2> QED BY <2>1, <2>2, <2>3, <2>4
<1>4. TaskInv'
  BY <1>k, <1>h, <1>m DEF TaskInv, TaskAt, TaskIdle
<1>5. WakeupInv'
  BY <1>k DEF WakeupInv, TaskAt, TaskIdle
<1>6. RunningTimerIsTracked'
  <2> SUFFICES ASSUME NEW e \in Timers, mTimer[e] # None
               PROVE  Tracked(e, mTimer[e])'
    BY <1>a DEF RunningTimerIsTracked
  <2> DEFINE x == mTimer[e]
             h == mContainer[x]
  <2>1. x \in Delegates /\ h \in Containers /\ mClient[x] = e
    BY DEF OwnerInv, TypeOK
  <2>2. Queued(Push(h, x)) \/ x \in heap[h]
    BY <1>i, <1>n, <2>1 DEF RunningTimerIsTracked, Tracked
  <2>3. Queued(Push(h, x))' \/ x \in heap'[h]
    <3>1. CASE x \in heap[h]
      BY <1>h, <2>1, <3>1 DEF TypeOK
    <3>2. CASE Queued(Push(h, x)) /\ Push(h, x) # m
      BY <1>a, <1>q, <3>2 DEF Queued
    <3>3. CASE Push(h, x) = m
      BY <1>h, <1>m, <2>1, <3>3 DEF TypeOK, Push
    <3> QED BY <2>2, <3>1, <3>2, <3>3
  <2> QED BY <1>a, <2>1, <2>3 DEF Tracked, Queued
<1>7. NoLostWakeup'
  <2> SUFFICES ASSUME NEW h \in Containers, heap'[h] # {}, task'.k # h
               PROVE  \/ fd[h] # None /\ fd[h] <= mFutureTime[top'[h]] /\ h \in polled
                      \/ ExpireInFlight(h)'
    BY <1>a DEF NoLostWakeup
  <2>1. ExpireInFlight(h) => ExpireInFlight(h)'
    <3>1. Expire(h) # m
      BY <1>m DEF Expire, Push
    <3> QED BY <1>a, <1>q, <3>1 DEF ExpireInFlight
  <2>2. task.k # h
    BY <1>i, <1>n
  <2>3. heap[h] # {} /\ top'[h] = top[h]
    <3>1. CASE h # k
      BY <1>h, <3>1 DEF TypeOK
    <3>2. CASE h = k
      <4>1. top'[h] = top[h]
        BY <1>k, <3>2 DEF TaskAt
      <4>2. top[h] # None
        BY <1>h, <1>m, <4>1, <3>2
      <4> QED BY <4>1, <4>2 DEF HeapInv
    <3> QED BY <3>1, <3>2
  <2> QED BY <2>1, <2>2, <2>3 DEF NoLostWakeup
<1> QED BY <1>t, <1>1, <1>2, <1>3, <1>4, <1>5, <1>6, <1>7

\* The handler of Remove frees the delegate, which nothing names any more.
LEMMA RemoveStep == IInv /\ MsgTimerRemove => IInv'
<1> SUFFICES ASSUME IInv, MsgTimerRemove PROVE IInv'
  OBVIOUS
<1> USE DEF IInv, clientVars, kernelVars
<1> DEFINE m == Head(queue)
           k == m.k
           d == m.d
           removed == IF d \in heap[k] THEN d ELSE None
<1>n. None \notin Timers \cup Delegates \cup Containers
  BY NoneAssumption
<1>a. /\ task.pc = "idle" /\ queue # <<>> /\ m.op = "Remove" /\ queue' = Tail(queue)
      /\ HeapRemove(k, d)
      /\ IF top[k] = removed THEN UpdateSoonestTime(k, None) ELSE task' = TaskIdle
      /\ allocated' = allocated \ {d}
      /\ mFutureTime' = [mFutureTime EXCEPT ![d] = 0]
      /\ UNCHANGED <<now, alive, handles, mTimer, mClient, mContainer, fd, polled, poll>>
  BY DEF MsgTimerRemove, Receive, DeleteDelegate
<1>q. /\ queue' \in Seq(Message)
      /\ Len(queue) \in Nat \ {0}
      /\ \A i \in 1..Len(queue') : i + 1 \in 1..Len(queue) /\ queue'[i] = queue[i + 1]
      /\ m \in Message
      /\ m = queue[1]
      /\ \A n : Queued(n) => n = m \/ Queued(n)'
  BY <1>a, QueueShrinks DEF TypeOK
<1>m. k \in Containers /\ d \in Delegates /\ d # None
  BY <1>a, <1>q, <1>n, MessageKinds
<1>i. task.d = None /\ task.k = None
  BY <1>a DEF TypeOK, TaskState
<1>h. /\ heap' \in [Containers -> SUBSET Delegates]
      /\ top' \in [Containers -> Delegates \cup {None}]
      /\ heap'[k] = heap[k] \ {d}
      /\ \A h \in Containers \ {k} : heap'[h] = heap[h] /\ top'[h] = top[h]
      /\ top'[k] = None => heap'[k] = {}
      /\ top'[k] # None => top'[k] \in heap'[k]
      /\ d # top[k] => top'[k] = top[k]
  BY <1>a, <1>m, HeapRemoveLemma
<1>k. task' \in {TaskIdle, TaskAt("addPoll", k)} /\ (task' # TaskIdle => top'[k] # None)
  BY <1>a DEF UpdateSoonestTime
\* The removed delegate is detached, named by no other message, and in no
\* heap but this one.
<1>d. /\ mClient[d] = None
      /\ \A e \in Timers : mTimer[e] # d
      /\ \A i \in 1..Len(queue') : queue'[i].d # d
      /\ \A h \in Containers \ {k} : d \notin heap[h]
  <2>1. 1 \in 1..Len(queue) /\ queue[1].d = d /\ queue[1].k = k /\ queue[1].op = "Remove"
    BY <1>a, <1>q
  <2>2. mClient[d] = None
    BY <1>m, <2>1 DEF QueueInv
  <2>3. ASSUME NEW i \in 1..Len(queue'), queue'[i].d = d
        PROVE  FALSE
    <3>1. 1 < i + 1 /\ i + 1 \in 1..Len(queue) /\ queue[i + 1].d = d
      BY <1>q, <2>3
    <3> QED BY <1>m, <2>1, <3>1 DEF QueueInv
  <2>4. \A h \in Containers \ {k} : d \notin heap[h]
    BY <2>1 DEF HeapInv
  <2> QED BY <1>n, <1>m, <2>2, <2>3, <2>4 DEF OwnerInv
<1> HIDE DEF m, k, d, removed
<1>t. TypeOK'
  <2>1. task' \in TaskState
    BY <1>k, <1>m, TaskAtType
  <2> QED BY <1>a, <1>q, <1>h, <2>1 DEF TypeOK
<1>1. OwnerInv'
  BY <1>a, <1>d DEF OwnerInv
<1>2. QueueInv'
  <2>1. \A e \in allocated \ allocated' : \A i \in 1..Len(queue') : queue'[i].d # e
    BY <1>a, <1>d
  <2> QED BY <1>a, <2>1, QueueInvShrinks
<1>3. HeapInv'
  <2> SUFFICES ASSUME NEW h \in Containers
               PROVE  /\ top'[h] = None => heap'[h] = {}
                      /\ top'[h] # None => top'[h] \in heap'[h]
                      /\ \A e \in heap'[h] :
                           /\ e \in allocated'
                           /\ mClient'[e] # None => mContainer'[e] = h
                           /\ \A i \in 1..Len(queue') : queue'[i].d = e =>
                                queue'[i].op = "Remove" /\ queue'[i].k = h
    BY DEF HeapInv
  <2>1. /\ top'[h] = None => heap'[h] = {}
        /\ top'[h] # None => top'[h] \in heap'[h]
    BY <1>h DEF HeapInv
  <2>2. heap'[h] \subseteq heap[h] \ {d}
    BY <1>h, <1>d
  <2>3. ASSUME NEW e \in heap[h], e # d
        PROVE  /\ e \in allocated'
               /\ mClient'[e] # None => mContainer'[e] = h
               /\ \A i \in 1..Len(queue') : queue'[i].d = e =>
                    queue'[i].op = "Remove" /\ queue'[i].k = h
    BY <1>a, <1>q, <2>3 DEF HeapInv
  <2> QED BY <2>1, <2>2, <2>3
<1>4. TaskInv'
  BY <1>k, <1>n, <1>m DEF TaskInv, TaskAt, TaskIdle
<1>5. WakeupInv'
  BY <1>k DEF WakeupInv, TaskAt, TaskIdle
<1>6. RunningTimerIsTracked'
  <2> SUFFICES ASSUME NEW e \in Timers, mTimer[e] # None
               PROVE  Tracked(e, mTimer[e])'
    BY <1>a DEF RunningTimerIsTracked
  <2> DEFINE x == mTimer[e]
             h == mContainer[x]
  <2>1. x \in Delegates /\ x # d /\ h \in Containers /\ mClient[x] = e
    BY <1>d DEF OwnerInv, TypeOK
  <2>2. Queued(Push(h, x)) \/ x \in heap[h]
    BY <1>i, <1>n, <2>1 DEF RunningTimerIsTracked, Tracked
  <2>3. Queued(Push(h, x))' \/ x \in heap'[h]
    <3>1. CASE x \in heap[h]
      BY <1>h, <2>1, <3>1
    <3>2. CASE Queued(Push(h, x))
      <4>1. Push(h, x) # m
        BY <1>a DEF Push, m
      <4> QED BY <1>a, <1>q, <3>2, <4>1 DEF Queued
    <3> QED BY <2>2, <3>1, <3>2
  <2> QED BY <1>a, <2>1, <2>3 DEF Tracked, Queued
<1>7. NoLostWakeup'
  <2> SUFFICES ASSUME NEW h \in Containers, heap'[h] # {}, task'.k # h
               PROVE  \/ fd[h] # None /\ fd[h] <= mFutureTime'[top'[h]] /\ h \in polled
                      \/ ExpireInFlight(h)'
    BY <1>a DEF NoLostWakeup
  <2>1. ExpireInFlight(h) => ExpireInFlight(h)'
    <3>1. Expire(h) # m
      BY <1>a DEF Expire, m
    <3> QED BY <1>a, <1>q, <3>1 DEF ExpireInFlight
  <2>2. task.k # h
    BY <1>i, <1>n
  <2>3. heap[h] # {} /\ top'[h] = top[h] /\ top[h] # d /\ top[h] \in Delegates
    <3>1. CASE h # k
      BY <1>h, <1>d, <3>1 DEF TypeOK, HeapInv
    <3>2. CASE h = k
      <4>1. top'[k] # None
        BY <1>h, <3>2
      <4>2. top[k] # removed
        BY <1>a, <4>1, <3>2 DEF UpdateSoonestTime, TaskAt
      <4>3. top[k] # None
        BY <1>h, <3>2 DEF HeapInv
      <4>4. top[k] \in heap[k]
        BY <1>m, <4>3 DEF HeapInv
      <4>5. top[k] # d
        BY <4>2, <4>4 DEF removed
      <4> QED BY <1>h, <1>m, <3>2, <4>3, <4>4, <4>5 DEF TypeOK
    <3> QED BY <3>1, <3>2
  <2>4. mFutureTime'[top[h]] = mFutureTime[top[h]]
    BY <1>a, <2>3 DEF TypeOK
  <2> QED BY <2>1, <2>2, <2>3, <2>4 DEF NoLostWakeup
<1> QED BY <1>t, <1>1, <1>2, <1>3, <1>4, <1>5, <1>6, <1>7

\* pop() and the start of expire(), at the start of the handler of Expire and
\* in each iteration of its loop.
LEMMA PopStep ==
  ASSUME IInv, NEW k \in Containers, NEW t \in Nat,
         heap[k] # {}, PopAndExpire(k, t),
         task.d = None, task.k \in {None, k},
         \/ queue' = queue
         \/ queue # <<>> /\ Head(queue) = Expire(k) /\ queue' = Tail(queue),
         UNCHANGED <<now, clientVars, kernelVars, poll>>
  PROVE  IInv'
<1> USE DEF IInv, clientVars, kernelVars
<1> DEFINE d == top[k]
<1>n. None \notin Timers \cup Delegates \cup Containers
  BY NoneAssumption
<1>a. /\ HeapRemove(k, d)
      /\ task' = [pc |-> "expiring", k |-> k, d |-> d, c |-> mClient[d], t |-> t]
      /\ UNCHANGED <<now, alive, handles, mTimer, allocated, mClient, mContainer, mFutureTime,
                     fd, polled, poll>>
  BY DEF PopAndExpire
<1>d. d \in heap[k] /\ d \in Delegates /\ d # None /\ d \in allocated
  BY <1>n DEF HeapInv, TypeOK
<1> HIDE DEF d
<1>q. /\ queue' \in Seq(Message)
      /\ \A n : Queued(n) => n = Expire(k) \/ Queued(n)'
      /\ \A i \in 1..Len(queue') : \E j \in 1..Len(queue) : queue'[i] = queue[j]
  <2>1. CASE queue' = queue
    BY <2>1 DEF TypeOK, Queued
  <2>2. CASE queue # <<>> /\ Head(queue) = Expire(k) /\ queue' = Tail(queue)
    BY <2>2, QueueShrinks DEF TypeOK
  <2> QED BY <2>1, <2>2
<1>h. /\ heap' \in [Containers -> SUBSET Delegates]
      /\ top' \in [Containers -> Delegates \cup {None}]
      /\ heap'[k] = heap[k] \ {d}
      /\ \A h \in Containers \ {k} : heap'[h] = heap[h] /\ top'[h] = top[h]
      /\ top'[k] = None => heap'[k] = {}
      /\ top'[k] # None => top'[k] \in heap'[k]
  BY <1>a, HeapRemoveLemma
<1>t. TypeOK'
  <2>1. task' \in TaskState
    BY <1>a, <1>d DEF TypeOK, TaskState
  <2> QED BY <1>a, <1>q, <1>h, <2>1 DEF TypeOK
<1>1. OwnerInv'
  BY <1>a DEF OwnerInv
<1>2. QueueInv'
  <2>1. CASE queue' = queue
    BY <1>a, <2>1 DEF QueueInv
  <2>2. CASE queue # <<>> /\ queue' = Tail(queue)
    BY <1>a, <2>2, QueueInvShrinks
  <2> QED BY <2>1, <2>2
<1>3. HeapInv'
  <2> SUFFICES ASSUME NEW h \in Containers
               PROVE  /\ top'[h] = None => heap'[h] = {}
                      /\ top'[h] # None => top'[h] \in heap'[h]
                      /\ \A e \in heap'[h] :
                           /\ e \in allocated'
                           /\ mClient'[e] # None => mContainer'[e] = h
                           /\ \A i \in 1..Len(queue') : queue'[i].d = e =>
                                queue'[i].op = "Remove" /\ queue'[i].k = h
    BY DEF HeapInv
  <2>1. /\ top'[h] = None => heap'[h] = {}
        /\ top'[h] # None => top'[h] \in heap'[h]
    BY <1>h DEF HeapInv
  <2>2. heap'[h] \subseteq heap[h]
    BY <1>h
  <2>3. ASSUME NEW e \in heap[h]
        PROVE  /\ e \in allocated'
               /\ mClient'[e] # None => mContainer'[e] = h
    BY <1>a, <2>3 DEF HeapInv
  <2>4. ASSUME NEW e \in heap[h], NEW i \in 1..Len(queue'), queue'[i].d = e
        PROVE  queue'[i].op = "Remove" /\ queue'[i].k = h
    <3>1. PICK j \in 1..Len(queue) : queue'[i] = queue[j]
      BY <1>q
    <3> QED BY <2>4, <3>1 DEF HeapInv
  <2> QED BY <2>1, <2>2, <2>3, <2>4
<1>4. TaskInv'
  BY <1>a, <1>d DEF TaskInv
<1>5. WakeupInv'
  BY <1>a DEF WakeupInv
<1>6. RunningTimerIsTracked'
  <2> SUFFICES ASSUME NEW e \in Timers, mTimer[e] # None
               PROVE  Tracked(e, mTimer[e])'
    BY <1>a DEF RunningTimerIsTracked
  <2> DEFINE x == mTimer[e]
             h == mContainer[x]
  <2>1. x \in Delegates /\ h \in Containers /\ mClient[x] = e
    BY DEF OwnerInv, TypeOK
  <2>2. Queued(Push(h, x)) \/ x \in heap[h]
    BY <1>n, <2>1 DEF RunningTimerIsTracked, Tracked
  <2>3. CASE x = d
    <3>1. task'.d = x /\ task'.c = e
      BY <1>a, <2>1, <2>3
    <3> QED BY <1>a, <2>1, <3>1 DEF Tracked
  <2>4. CASE x # d /\ x \in heap[h]
    BY <1>a, <1>h, <2>1, <2>4 DEF Tracked
  <2>5. CASE Queued(Push(h, x))
    <3>1. Push(h, x) # Expire(k)
      BY DEF Push, Expire
    <3> QED BY <1>a, <1>q, <2>1, <2>5, <3>1 DEF Tracked, Queued
  <2> QED BY <2>2, <2>3, <2>4, <2>5
<1>7. NoLostWakeup'
  <2> SUFFICES ASSUME NEW h \in Containers, heap'[h] # {}, task'.k # h
               PROVE  \/ fd[h] # None /\ fd[h] <= mFutureTime[top'[h]] /\ h \in polled
                      \/ ExpireInFlight(h)'
    BY <1>a DEF NoLostWakeup
  <2>1. h # k /\ task.k # h
    BY <1>a, <1>n
  <2>2. ExpireInFlight(h) => ExpireInFlight(h)'
    <3>1. Expire(h) # Expire(k)
      BY <2>1 DEF Expire
    <3> QED BY <1>a, <1>q, <3>1 DEF ExpireInFlight
  <2> QED BY <1>h, <2>1, <2>2 DEF NoLostWakeup
<1> QED BY <1>t, <1>1, <1>2, <1>3, <1>4, <1>5, <1>6, <1>7

\* The handler of Expire is over: it found nothing to pop, or it is at its
\* final updateSoonestTime(NULL).
LEMMA EndStep ==
  ASSUME IInv, NEW k \in Containers,
         task.d = None, task.k \in {None, k},
         task' \in {TaskIdle, TaskAt("addPoll", k)},
         task' = TaskIdle <=> top[k] = None,
         \/ queue' = queue
         \/ queue # <<>> /\ Head(queue) = Expire(k) /\ queue' = Tail(queue),
         UNCHANGED <<now, clientVars, heapVars, kernelVars, poll>>
  PROVE  IInv'
<1> USE DEF IInv, clientVars, heapVars, kernelVars
<1>n. None \notin Timers \cup Delegates \cup Containers
  BY NoneAssumption
<1>q. /\ queue' \in Seq(Message)
      /\ \A n : Queued(n) => n = Expire(k) \/ Queued(n)'
      /\ \A i \in 1..Len(queue') : \E j \in 1..Len(queue) : queue'[i] = queue[j]
  <2>1. CASE queue' = queue
    BY <2>1 DEF TypeOK, Queued
  <2>2. CASE queue # <<>> /\ Head(queue) = Expire(k) /\ queue' = Tail(queue)
    BY <2>2, QueueShrinks DEF TypeOK
  <2> QED BY <2>1, <2>2
<1>k. task'.d = None /\ task'.pc # "setTime" /\ (task'.pc = "addPoll" => task'.k = k)
  BY DEF TaskIdle, TaskAt
<1>t. TypeOK'
  <2>1. task' \in TaskState
    BY TaskAtType
  <2> QED BY <1>q, <2>1 DEF TypeOK
<1>1. OwnerInv'
  BY DEF OwnerInv
<1>2. QueueInv'
  <2>1. CASE queue' = queue
    BY <2>1 DEF QueueInv
  <2>2. CASE queue # <<>> /\ queue' = Tail(queue)
    BY <2>2, QueueInvShrinks
  <2> QED BY <2>1, <2>2
<1>3. HeapInv'
  <2>1. ASSUME NEW h \in Containers, NEW e \in heap[h], NEW i \in 1..Len(queue'),
               queue'[i].d = e
        PROVE  queue'[i].op = "Remove" /\ queue'[i].k = h
    <3>1. PICK j \in 1..Len(queue) : queue'[i] = queue[j]
      BY <1>q
    <3> QED BY <2>1, <3>1 DEF HeapInv
  <2> QED BY <2>1 DEF HeapInv
<1>4. TaskInv'
  BY <1>k DEF TaskInv, TaskIdle
<1>5. WakeupInv'
  BY <1>k DEF WakeupInv
<1>6. RunningTimerIsTracked'
  <2> SUFFICES ASSUME NEW e \in Timers, mTimer[e] # None
               PROVE  Tracked(e, mTimer[e])'
    BY DEF RunningTimerIsTracked
  <2>1. Tracked(e, mTimer[e]) /\ mTimer[e] \in Delegates
    BY DEF RunningTimerIsTracked, TypeOK
  <2>2. Push(mContainer[mTimer[e]], mTimer[e]) # Expire(k)
    BY DEF Push, Expire
  <2> QED BY <1>n, <1>q, <2>1, <2>2 DEF Tracked, Queued
<1>7. NoLostWakeup'
  <2> SUFFICES ASSUME NEW h \in Containers, heap[h] # {}, task'.k # h
               PROVE  \/ fd[h] # None /\ fd[h] <= mFutureTime[top[h]] /\ h \in polled
                      \/ ExpireInFlight(h)'
    BY DEF NoLostWakeup
  <2>1. h # k
    <3>1. CASE task' = TaskIdle
      BY <3>1 DEF HeapInv
    <3>2. CASE task' = TaskAt("addPoll", k)
      BY <3>2 DEF TaskAt
    <3> QED BY <3>1, <3>2
  <2>2. task.k # h
    BY <1>n, <2>1
  <2>3. ExpireInFlight(h) => ExpireInFlight(h)'
    <3>1. Expire(h) # Expire(k)
      BY <2>1 DEF Expire
    <3> QED BY <1>q, <3>1 DEF ExpireInFlight
  <2> QED BY <2>2, <2>3 DEF NoLostWakeup
<1> QED BY <1>t, <1>1, <1>2, <1>3, <1>4, <1>5, <1>6, <1>7

\* The handler of Expire up to its first expire(), or to its end.
LEMMA ExpireStep == IInv /\ MsgTimerExpire => IInv'
<1> SUFFICES ASSUME IInv, MsgTimerExpire PROVE IInv'
  OBVIOUS
<1> DEFINE k == Head(queue).k
<1>1. /\ task.pc = "idle" /\ queue # <<>> /\ queue' = Tail(queue)
      /\ Head(queue).op = "Expire"
      /\ IF heap[k] = {}
         THEN task' = TaskIdle /\ UNCHANGED heapVars
         ELSE PopAndExpire(k, now)
      /\ UNCHANGED <<now, clientVars, kernelVars, poll>>
  BY DEF MsgTimerExpire, Receive
<1>2. Head(queue) \in Message
  BY <1>1, QueueShrinks DEF IInv, TypeOK
<1>3. k \in Containers /\ Head(queue) = Expire(k)
  BY <1>1, <1>2, MessageKinds DEF Expire
<1>4. task.d = None /\ task.k = None
  BY <1>1 DEF IInv, TypeOK, TaskState
<1> HIDE DEF k
<1>5. CASE heap[k] = {}
  <2>1. top[k] = None
    BY <1>3, <1>5 DEF IInv, HeapInv
  <2> QED BY <1>1, <1>3, <1>4, <1>5, <2>1, EndStep
<1>6. CASE heap[k] # {}
  <2>1. now \in Nat
    BY DEF IInv, TypeOK
  <2> QED BY <1>1, <1>3, <1>4, <1>6, <2>1, PopStep
<1> QED BY <1>5, <1>6

\* The handler's loop: the next delegate that is due, or the end.
LEMMA NextIterationStep == IInv /\ NextIteration => IInv'
<1> SUFFICES ASSUME IInv, NextIteration PROVE IInv'
  OBVIOUS
<1> DEFINE k == task.k
<1>1. /\ task.pc = "loop"
      /\ IF heap[k] # {} /\ mFutureTime[top[k]] <= task.t
         THEN PopAndExpire(k, task.t)
         ELSE UNCHANGED heapVars /\ UpdateSoonestTime(k, None)
      /\ UNCHANGED <<now, clientVars, kernelVars, queue, poll>>
  BY DEF NextIteration
<1>2. k \in Containers /\ task.d = None /\ task.t \in Nat /\ task.k \in {None, k}
  BY <1>1 DEF IInv, TypeOK, TaskState
<1> HIDE DEF k
<1>3. CASE heap[k] # {} /\ mFutureTime[top[k]] <= task.t
  BY <1>1, <1>2, <1>3, PopStep
<1>4. CASE ~(heap[k] # {} /\ mFutureTime[top[k]] <= task.t)
  <2>1. /\ UNCHANGED heapVars
        /\ task' \in {TaskIdle, TaskAt("addPoll", k)}
        /\ task' = TaskIdle <=> top[k] = None
    BY <1>1, <1>4 DEF UpdateSoonestTime, heapVars, TaskIdle, TaskAt
  <2> QED BY <1>1, <1>2, <2>1, EndStep
<1> QED BY <1>3, <1>4

\* LocTimerDelegate::expire().
LEMMA ExpireStopStep == IInv /\ ExpireStop => IInv'
<1> SUFFICES ASSUME IInv, ExpireStop PROVE IInv'
  OBVIOUS
<1> DEFINE c == task.c
<1>1. /\ task.pc = "expiring" /\ c # None
      /\ UNCHANGED <<now, alive, handles, heapVars, kernelVars, poll>>
  BY DEF ExpireStop
<1>2. /\ c \in Timers /\ task.t \in Nat /\ task.k \in Containers
      /\ handles' \in [Wrappers -> Nat]
  BY <1>1 DEF IInv, TypeOK, TaskState
<1>3. CASE mTimer[c] # None
  <2>1. /\ StopDelegate(c)
        /\ task' = [task EXCEPT !.pc = "callback", !.d = None]
    BY <1>3 DEF ExpireStop
  <2>2. task' \in TaskState /\ task'.k = task.k /\ task'.pc = "callback"
    BY <1>1, <1>2, <2>1 DEF IInv, TypeOK, TaskState
  <2> QED BY <1>1, <1>2, <1>3, <2>1, <2>2, StopStep
<1>4. CASE mTimer[c] = None
  <2>1. /\ task' = Loop
        /\ UNCHANGED <<mTimer, allocated, mClient, mContainer, mFutureTime, queue>>
    BY <1>4 DEF ExpireStop
  <2> QED BY <1>1, <1>2, <1>4, <2>1, LoopStep
<1> QED BY <1>3, <1>4

LEMMA ExpireSkipStep == IInv /\ ExpireSkip => IInv'
  BY LoopStep DEF ExpireSkip, clientVars, IInv, TypeOK

\* The callback starts: a wrapper's runs, another client's is over.
LEMMA CallbackStep == IInv /\ TimeOutCallback => IInv'
<1> SUFFICES ASSUME IInv, TimeOutCallback PROVE IInv'
  OBVIOUS
<1>1. /\ task.pc = "callback" /\ task.c \in Timers /\ task.k \in Containers
      /\ task.d = None /\ task.t \in Nat
      /\ UNCHANGED <<now, alive, handles, mTimer, allocated, mClient, mContainer, mFutureTime,
                     heapVars, kernelVars, queue, poll>>
  BY DEF TimeOutCallback, IInv, TypeOK, TaskState, clientVars
<1>2. CASE task.c \notin Wrappers
  BY <1>1, <1>2, LoopStep DEF TimeOutCallback, IInv, TypeOK
<1>3. CASE task.c \in Wrappers
  <2> USE DEF heapVars, kernelVars
  <2>1. task' = [task EXCEPT !.pc = "destroy"]
    BY <1>3 DEF TimeOutCallback
  <2>2. /\ task' \in TaskState /\ task'.k = task.k /\ task'.d = None
        /\ task'.pc = "destroy"
    BY <1>1, <1>3, <2>1 DEF TaskState, IInv, TypeOK
  <2>3. TypeOK'
    BY <1>1, <2>2 DEF IInv, TypeOK
  <2>4. OwnerInv' /\ QueueInv' /\ HeapInv' /\ TaskInv' /\ WakeupInv'
    BY <1>1, <2>2 DEF IInv, OwnerInv, QueueInv, HeapInv, TaskInv, WakeupInv, TypeOK
  <2>5. RunningTimerIsTracked'
    <3>1. \A e \in Timers : mTimer[e] # None => mTimer[e] \in Delegates
      BY DEF IInv, TypeOK
    <3> QED BY <1>1, <2>2, <3>1, NoneAssumption
            DEF IInv, RunningTimerIsTracked, Tracked, Queued
  <2>6. NoLostWakeup'
    BY <1>1, <2>2 DEF IInv, NoLostWakeup, ExpireInFlight, Queued
  <2> QED BY <2>3, <2>4, <2>5, <2>6 DEF IInv
<1> QED BY <1>2, <1>3

\* The callback of a wrapper returns and LocTimerWrapper::destroy() follows.
LEMMA ReturnStep == IInv /\ CallbackReturns => IInv'
<1> SUFFICES ASSUME IInv, CallbackReturns PROVE IInv'
  OBVIOUS
<1> DEFINE c == task.c
<1>1. /\ task.pc = "destroy" /\ task' = Loop
      /\ DestroyWrapper(c)
      /\ UNCHANGED <<now, handles, heapVars, kernelVars, poll>>
  BY DEF CallbackReturns
<1>2. /\ c \in Timers /\ task.d = None
      /\ task' \in TaskState /\ task'.k = task.k /\ task'.pc = "loop"
      /\ handles' \in [Wrappers -> Nat]
  BY <1>1, TimersAssumption DEF IInv, TypeOK, TaskState, Loop
<1> HIDE DEF c
<1>3. alive' = alive \ {c}
  BY <1>1 DEF DestroyWrapper
<1>4. CASE mTimer[c] # None
  <2>1. c \in alive
    BY <1>2, <1>4 DEF IInv, OwnerInv
  <2>2. StopDelegate(c)
    BY <1>1, <1>4, <2>1 DEF DestroyWrapper
  <2> QED BY <1>1, <1>2, <1>3, <1>4, <2>2, StopStep
<1>5. CASE mTimer[c] = None
  <2>1. UNCHANGED <<mTimer, allocated, mClient, mContainer, mFutureTime, queue>>
    BY <1>1, <1>5 DEF DestroyWrapper
  <2> QED BY <1>1, <1>2, <1>3, <1>5, <2>1, LoopStep
<1> QED BY <1>4, <1>5

\* updateSoonestTime(): addPoll().
LEMMA AddPollStep == IInv /\ AddPoll => IInv'
<1> SUFFICES ASSUME IInv, AddPoll PROVE IInv'
  OBVIOUS
<1> USE DEF IInv, clientVars, heapVars
<1>1. /\ task.pc = "addPoll" /\ task.k \in Containers /\ task.d = None
      /\ polled' = polled \cup {task.k}
      /\ task' = TaskAt("setTime", task.k)
      /\ UNCHANGED <<now, clientVars, heapVars, fd, queue, poll>>
  BY DEF AddPoll, TypeOK, TaskState
<1>t. TypeOK'
  BY <1>1, TaskAtType DEF TypeOK
<1>2. OwnerInv' /\ QueueInv' /\ HeapInv'
  BY <1>1 DEF OwnerInv, QueueInv, HeapInv
<1>3. TaskInv' /\ WakeupInv'
  BY <1>1 DEF TaskInv, WakeupInv, TaskAt
<1>4. RunningTimerIsTracked'
  <2>1. \A e \in Timers : mTimer[e] # None => mTimer[e] \in Delegates
    BY DEF TypeOK
  <2> QED BY <1>1, <2>1, NoneAssumption DEF RunningTimerIsTracked, Tracked, Queued
<1>5. NoLostWakeup'
  BY <1>1 DEF NoLostWakeup, ExpireInFlight, Queued, TaskAt
<1> QED BY <1>t, <1>2, <1>3, <1>4, <1>5

\* updateSoonestTime(): timerfd_settime().
LEMMA SetTimeStep == IInv /\ SetTime => IInv'
<1> SUFFICES ASSUME IInv, SetTime PROVE IInv'
  OBVIOUS
<1> USE DEF IInv, clientVars, heapVars
<1>1. /\ task.pc = "setTime" /\ task.k \in Containers /\ task.d = None
      /\ fd' = [fd EXCEPT ![task.k] = mFutureTime[top[task.k]]]
      /\ task' = TaskIdle
      /\ UNCHANGED <<now, clientVars, heapVars, polled, queue, poll>>
  BY DEF SetTime, TypeOK, TaskState
<1>2. top[task.k] \in Delegates /\ mFutureTime[top[task.k]] \in Nat
  BY <1>1 DEF TaskInv, TypeOK
<1>t. TypeOK'
  BY <1>1, <1>2, TaskAtType DEF TypeOK
<1>3. OwnerInv' /\ QueueInv' /\ HeapInv'
  BY <1>1 DEF OwnerInv, QueueInv, HeapInv
<1>4. TaskInv' /\ WakeupInv'
  BY <1>1 DEF TaskInv, WakeupInv, TaskIdle
<1>5. RunningTimerIsTracked'
  <2>1. \A e \in Timers : mTimer[e] # None => mTimer[e] \in Delegates
    BY DEF TypeOK
  <2> QED BY <1>1, <2>1, NoneAssumption DEF RunningTimerIsTracked, Tracked, Queued
<1>6. NoLostWakeup'
  <2> SUFFICES ASSUME NEW h \in Containers, heap[h] # {}
               PROVE  \/ fd'[h] # None /\ fd'[h] <= mFutureTime[top[h]] /\ h \in polled
                      \/ ExpireInFlight(h)
    BY <1>1 DEF NoLostWakeup, ExpireInFlight, Queued
  <2>1. CASE h = task.k
    BY <1>1, <1>2, <2>1, NoneAssumption DEF WakeupInv, TypeOK
  <2>2. CASE h # task.k
    BY <1>1, <2>2 DEF NoLostWakeup, TypeOK
  <2> QED BY <2>1, <2>2
<1> QED BY <1>t, <1>3, <1>4, <1>5, <1>6

-----------------------------------------------------------------------------
(***************************************************************************)
(* The poll thread, which touches the timerfds and the queue only.         *)
(***************************************************************************)

\* PollWake, PollDisarm and PollRemove: the queue stays; a container that
\* loses its timerfd or its place in the epoll set has an event in flight.
LEMMA PollStep ==
  ASSUME IInv, poll' \in PollState, fd' \in [Containers -> Nat \cup {None}],
         polled' \subseteq Containers,
         \A k \in Containers : ExpireInFlight(k) => ExpireInFlight(k)',
         \A k \in Containers : fd'[k] = fd[k] \/ ExpireInFlight(k)',
         \A k \in polled \ polled' : ExpireInFlight(k)',
         UNCHANGED <<now, clientVars, heapVars, queue, task>>
  PROVE  IInv'
<1> USE DEF IInv, clientVars, heapVars
<1>t. TypeOK'
  BY DEF TypeOK
<1>1. OwnerInv' /\ QueueInv' /\ HeapInv' /\ TaskInv'
  BY DEF OwnerInv, QueueInv, HeapInv, TaskInv
<1>2. WakeupInv'
  <2>1. task.pc = "setTime" => task.k \in Containers
    BY DEF TypeOK, TaskState
  <2> QED BY <2>1 DEF WakeupInv
<1>3. RunningTimerIsTracked'
  BY DEF RunningTimerIsTracked, Tracked, Queued
<1>4. NoLostWakeup'
  <2> SUFFICES ASSUME NEW h \in Containers, heap[h] # {}, task.k # h,
                      ~ExpireInFlight(h)'
               PROVE  fd'[h] # None /\ fd'[h] <= mFutureTime[top[h]] /\ h \in polled'
    BY DEF NoLostWakeup
  <2> QED BY DEF NoLostWakeup
<1> QED BY <1>t, <1>1, <1>2, <1>3, <1>4

LEMMA PollWakeStep == IInv /\ PollWake => IInv'
<1> SUFFICES ASSUME IInv, PollWake PROVE IInv'
  OBVIOUS
<1>1. /\ poll = PollIdle
      /\ poll' = [poll EXCEPT !.todo = {k \in Containers : Readable(k)}]
      /\ UNCHANGED <<now, clientVars, heapVars, kernelVars, queue, task>>
  BY DEF PollWake
<1>2. poll' \in PollState
  BY <1>1 DEF PollIdle, PollState
<1>3. \A k \in Containers : ExpireInFlight(k) => ExpireInFlight(k)'
  BY <1>1, NoneAssumption DEF ExpireInFlight, PollIdle, Queued
<1> QED BY <1>1, <1>2, <1>3, PollStep DEF kernelVars, IInv, TypeOK

LEMMA PollDisarmStep == ASSUME IInv, NEW k \in Containers, PollDisarm(k) PROVE IInv'
<1>1. /\ poll.pc = "wait" /\ poll.k = None /\ poll.todo \in SUBSET Containers
      /\ fd' = [fd EXCEPT ![k] = None]
      /\ poll' = [pc |-> "removePoll", k |-> k, todo |-> poll.todo \ {k}]
      /\ UNCHANGED <<now, clientVars, heapVars, polled, queue, task>>
  BY DEF PollDisarm, IInv, TypeOK, PollState
<1>2. poll' \in PollState /\ fd' \in [Containers -> Nat \cup {None}]
  BY <1>1 DEF PollState, IInv, TypeOK
<1>3. ExpireInFlight(k)'
  BY <1>1 DEF ExpireInFlight
<1>4. \A h \in Containers : ExpireInFlight(h) => ExpireInFlight(h)'
  BY <1>1, NoneAssumption DEF ExpireInFlight, Queued
<1>5. \A h \in Containers \ {k} : fd'[h] = fd[h]
  BY <1>1 DEF IInv, TypeOK
<1> QED BY <1>1, <1>2, <1>3, <1>4, <1>5, PollStep DEF IInv, TypeOK

LEMMA PollRemoveStep == IInv /\ PollRemove => IInv'
<1> SUFFICES ASSUME IInv, PollRemove PROVE IInv'
  OBVIOUS
<1>1. /\ poll.pc = "removePoll" /\ poll.k \in Containers /\ poll.todo \in SUBSET Containers
      /\ polled' = polled \ {poll.k}
      /\ poll' = [pc |-> "send", k |-> poll.k, todo |-> poll.todo]
      /\ UNCHANGED <<now, clientVars, heapVars, fd, queue, task>>
  BY DEF PollRemove, IInv, TypeOK, PollState
<1>2. poll' \in PollState
  BY <1>1 DEF PollState
<1>3. ExpireInFlight(poll.k)'
  BY <1>1 DEF ExpireInFlight
<1>4. \A h \in Containers : ExpireInFlight(h) => ExpireInFlight(h)'
  BY <1>1 DEF ExpireInFlight, Queued
<1> QED BY <1>1, <1>2, <1>3, <1>4, PollStep DEF IInv, TypeOK

LEMMA PollSendStep == IInv /\ PollSend => IInv'
<1> SUFFICES ASSUME IInv, PollSend PROVE IInv'
  OBVIOUS
<1> USE DEF IInv, clientVars, heapVars, kernelVars
<1> PICK k \in Containers : k = poll.k
  BY DEF PollSend, TypeOK, PollState
<1>1. /\ poll.pc = "send" /\ poll.k = k /\ poll.todo \in SUBSET Containers
      /\ queue' = Append(queue, Expire(k))
      /\ poll' = [pc |-> "wait", k |-> None, todo |-> poll.todo]
      /\ UNCHANGED <<now, clientVars, heapVars, kernelVars, task>>
  BY DEF PollSend, TypeOK, PollState
<1>m. Expire(k) \in Message /\ Expire(k).d = None
  BY <1>1 DEF Message, Expire
<1>q. /\ queue' \in Seq(Message)
      /\ Len(queue) \in Nat
      /\ Len(queue') = Len(queue) + 1
      /\ \A i \in 1..Len(queue) : queue'[i] = queue[i]
      /\ queue'[Len(queue) + 1] = Expire(k)
      /\ Queued(Expire(k))'
      /\ \A n : Queued(n) => Queued(n)'
  BY <1>m, <1>1, QueueGrows DEF TypeOK
<1>o. \A i \in 1..Len(queue') :
        queue'[i].d # None => i \in 1..Len(queue) /\ queue'[i] = queue[i]
  BY <1>q, <1>m
<1>f. \A h \in Containers : ExpireInFlight(h) => ExpireInFlight(h)'
  <2> SUFFICES ASSUME NEW h \in Containers, ExpireInFlight(h)
               PROVE  ExpireInFlight(h)'
    OBVIOUS
  <2>1. CASE h = k
    BY <1>q, <2>1 DEF ExpireInFlight, Queued
  <2>2. CASE h # k
    BY <1>1, <1>q, <2>2 DEF ExpireInFlight
  <2> QED BY <2>1, <2>2
<1>t. TypeOK'
  BY <1>1, <1>q DEF TypeOK, PollState
<1>2. OwnerInv' /\ TaskInv'
  BY <1>1 DEF OwnerInv, TaskInv
<1>3. QueueInv'
  BY <1>1, <1>o DEF QueueInv
<1>4. HeapInv'
  <2>1. \A h \in Containers : \A e \in heap[h] : e # None
    BY NoneAssumption DEF TypeOK
  <2> QED BY <1>1, <1>o, <2>1 DEF HeapInv
<1>5. WakeupInv'
  <2>1. task.pc = "setTime" => task.k \in Containers
    BY DEF TypeOK, TaskState
  <2> QED BY <1>1, <1>f, <2>1 DEF WakeupInv
<1>6. RunningTimerIsTracked'
  BY <1>1, <1>q DEF RunningTimerIsTracked, Tracked, Queued
<1>7. NoLostWakeup'
  BY <1>1, <1>f DEF NoLostWakeup
<1> QED BY <1>t, <1>2, <1>3, <1>4, <1>5, <1>6, <1>7

-----------------------------------------------------------------------------
(***************************************************************************)
(* The theorems.                                                           *)
(***************************************************************************)
\* Nothing but the clock, or nothing but the set of live objects, changes.
LEMMA IdleStep ==
  ASSUME IInv, now' \in Nat, alive' \subseteq alive, handles' \in [Wrappers -> Nat],
         \A c \in alive \ alive' : mTimer[c] = None,
         UNCHANGED <<mTimer, allocated, mClient, mContainer, mFutureTime,
                     heapVars, kernelVars, queue, task, poll>>
  PROVE  IInv'
<1> USE DEF IInv, heapVars, kernelVars
<1>1. TypeOK'
  BY DEF TypeOK
<1>2. OwnerInv' /\ QueueInv' /\ HeapInv' /\ TaskInv' /\ WakeupInv'
  BY DEF OwnerInv, QueueInv, HeapInv, TaskInv, WakeupInv, ExpireInFlight, Queued
<1>3. RunningTimerIsTracked' /\ NoLostWakeup'
  BY DEF RunningTimerIsTracked, Tracked, NoLostWakeup, ExpireInFlight, Queued
<1> QED BY <1>1, <1>2, <1>3

LEMMA InitIInv == Init => IInv
<1> SUFFICES ASSUME Init PROVE IInv
  OBVIOUS
<1> USE NoneAssumption DEF Init
<1>1. TypeOK
  <2>1. queue \in Seq(Message)
    OBVIOUS
  <2>2. task \in TaskState /\ poll \in PollState
    BY DEF TaskState, TaskIdle, PollState, PollIdle
  <2> QED BY <2>1, <2>2 DEF TypeOK
<1>2. OwnerInv
  BY DEF OwnerInv
<1>3. QueueInv
  BY DEF QueueInv
<1>4. HeapInv
  BY DEF HeapInv
<1>5. TaskInv /\ WakeupInv
  BY DEF TaskInv, WakeupInv, TaskIdle
<1>6. RunningTimerIsTracked /\ NoLostWakeup
  BY DEF RunningTimerIsTracked, NoLostWakeup
<1> QED BY <1>1, <1>2, <1>3, <1>4, <1>5, <1>6 DEF IInv

\* Every step preserves the inductive invariant.
LEMMA NextIInv == IInv /\ [Next]_vars => IInv'
<1> SUFFICES ASSUME IInv, [Next]_vars PROVE IInv'
  OBVIOUS
<1>1. ASSUME NEW c \in Timers, NEW k \in Containers, NEW delay \in Delays, Start(c, k, delay)
      PROVE  IInv'
  BY <1>1, StartStep DEF Start, IInv, TypeOK
<1>2. ASSUME NEW c \in Timers, Stop(c)
      PROVE  IInv'
  BY <1>2, StopStep DEF Stop, IInv, TypeOK
<1>3. ASSUME NEW c \in Timers, NEW k \in Containers, NEW delay \in Delays,
             LocTimerStart(c, k, delay)
      PROVE  IInv'
  <2>1. mTimer[c] = None /\ alive' = alive \cup {c}
    BY <1>3 DEF LocTimerStart, IInv, OwnerInv
  <2>2. handles' \in [Wrappers -> Nat]
    BY <1>3 DEF LocTimerStart, IInv, TypeOK
  <2> QED BY <1>3, <2>1, <2>2, StartStep DEF LocTimerStart, IInv, TypeOK
<1>4. ASSUME NEW c \in Timers, LocTimerStop(c)
      PROVE  IInv'
  <2>1. /\ handles' \in [Wrappers -> Nat]
        /\ DestroyWrapper(c) /\ alive' = alive \ {c}
        /\ UNCHANGED <<now, heapVars, kernelVars, task, poll>>
    <3>1. handles[c] \in Nat /\ handles[c] > 0 /\ handles' = [handles EXCEPT ![c] = @ - 1]
      BY <1>4 DEF LocTimerStop, IInv, TypeOK
    <3> QED BY <1>4, <3>1 DEF LocTimerStop, DestroyWrapper, IInv, TypeOK
  <2>2. CASE mTimer[c] # None
    <3>1. c \in alive
      BY <2>2 DEF IInv, OwnerInv
    <3>2. StopDelegate(c)
      BY <2>1, <2>2, <3>1 DEF DestroyWrapper
    <3> QED BY <2>1, <2>2, <3>2, StopStep DEF IInv, TypeOK
  <2>3. CASE mTimer[c] = None
    <3>1. UNCHANGED <<mTimer, allocated, mClient, mContainer, mFutureTime, queue>>
      BY <2>1, <2>3 DEF DestroyWrapper
    <3> QED BY <2>1, <2>3, <3>1, IdleStep DEF IInv, TypeOK
  <2> QED BY <2>2, <2>3
<1>5. ASSUME TaskNext PROVE IInv'
  BY <1>5, PushStep, RemoveStep, ExpireStep, ExpireStopStep, ExpireSkipStep,
     CallbackStep, ReturnStep, NextIterationStep, AddPollStep, SetTimeStep DEF TaskNext
<1>6. ASSUME PollNext PROVE IInv'
  BY <1>6, PollWakeStep, PollDisarmStep, PollRemoveStep, PollSendStep DEF PollNext
<1>7. ASSUME Tick PROVE IInv'
  BY <1>7, IdleStep DEF Tick, clientVars, IInv, TypeOK
<1>8. CASE UNCHANGED vars
  BY <1>8, IdleStep DEF vars, clientVars, IInv, TypeOK
<1> QED BY <1>1, <1>2, <1>3, <1>4, <1>5, <1>6, <1>7, <1>8 DEF Next, ClientNext

\* IInv holds in every reachable state.
THEOREM Invariance == Spec => []IInv
  BY InitIInv, NextIInv, PTL DEF Spec

\* Every variable of LocTimer keeps its type.
THEOREM TypeCorrect == Spec => []TypeOK
<1>1. IInv => TypeOK
  BY DEF IInv
<1> QED BY <1>1, Invariance, PTL

\* A freed delegate is in no heap, no message and no timer, and no handler
\* works on it.
THEOREM FreedForgotten == Spec => []FreedDelegateIsForgotten
<1>1. IInv => FreedDelegateIsForgotten
  <2> SUFFICES ASSUME IInv, NEW d \in Delegates \ allocated
               PROVE  /\ \A c \in Timers : mTimer[c] # d
                      /\ \A k \in Containers : d \notin heap[k]
                      /\ task.d # d
                      /\ \A i \in 1..Len(queue) : queue[i].d # d
    BY DEF FreedDelegateIsForgotten
  <2> QED BY NoneAssumption DEF IInv, OwnerInv, HeapInv, TaskInv, QueueInv
<1> QED BY <1>1, Invariance, PTL

\* A running timer is always on its way to expire.
THEOREM RunningTracked == Spec => []RunningTimerIsTracked
<1>1. IInv => RunningTimerIsTracked
  BY DEF IInv
<1> QED BY <1>1, Invariance, PTL

\* No wake-up of the MsgTask is lost.
THEOREM WakeupKept == Spec => []NoLostWakeup
<1>1. IInv => NoLostWakeup
  BY DEF IInv
<1> QED BY <1>1, Invariance, PTL

\* A deleted LocTimer is not the client of any delegate.
THEOREM DeadTimerDetached == Spec => []NoDelegateOfDeadTimer
<1>1. IInv => NoDelegateOfDeadTimer
  <2> SUFFICES ASSUME IInv, NEW d \in Delegates, mClient[d] # None
               PROVE  mClient[d] \in alive
    BY DEF NoDelegateOfDeadTimer
  <2>1. mClient[d] \in Timers /\ mTimer[mClient[d]] = d /\ d # None
    BY NoneAssumption DEF IInv, TypeOK, OwnerInv
  <2> QED BY <2>1 DEF IInv, OwnerInv
<1> QED BY <1>1, Invariance, PTL

\* The wrapper that a step deletes is the only one whose timer it stops,
\* except in expire(), whose callback comes next.
LEMMA LeakStep ==
  ASSUME IInv, NoWrapperIsLeaked, [Next]_vars
  PROVE  NoWrapperIsLeaked'
<1> USE DEF NoWrapperIsLeaked
<1>t. TypeOK
  BY DEF IInv
<1>1. ASSUME NEW c \in Timers, NEW k \in Containers, NEW delay \in Delays,
             Start(c, k, delay) \/ LocTimerStart(c, k, delay)
      PROVE  NoWrapperIsLeaked'
  <2>1. /\ alive' \subseteq alive \cup {c} /\ task' = task
        /\ StartDelegate(c, k, delay)
    BY <1>1 DEF Start, LocTimerStart
  <2>2. PICK d \in Delegates : mTimer' = [mTimer EXCEPT ![c] = d]
    BY <2>1 DEF StartDelegate
  <2>3. d # None /\ mTimer'[c] = d /\ \A e \in Timers \ {c} : mTimer'[e] = mTimer[e]
    BY <1>t, <2>2, NoneAssumption DEF TypeOK
  <2> QED BY <2>1, <2>3, TimersAssumption
<1>2. ASSUME NEW c \in Timers, alive' \subseteq alive, c \notin Wrappers \/ c \notin alive',
             \A e \in Timers \ {c} : mTimer'[e] = mTimer[e],
             \/ task' = task
             \/ task.pc = "destroy" /\ task.c = c
      PROVE  NoWrapperIsLeaked'
  BY <1>2, TimersAssumption
<1>3. ASSUME NEW c \in Timers, Stop(c) PROVE NoWrapperIsLeaked'
  <2>1. \A e \in Timers \ {c} : mTimer'[e] = mTimer[e]
    BY <1>3, <1>t DEF Stop, StopDelegate, TypeOK
  <2> QED BY <1>2, <1>3, <2>1 DEF Stop
<1>4. ASSUME NEW c \in Timers, DestroyWrapper(c)
      PROVE  alive' = alive \ {c} /\ \A e \in Timers \ {c} : mTimer'[e] = mTimer[e]
  BY <1>4, <1>t DEF DestroyWrapper, StopDelegate, TypeOK
<1>5. ASSUME NEW c \in Timers, LocTimerStop(c) PROVE NoWrapperIsLeaked'
  BY <1>2, <1>4, <1>5 DEF LocTimerStop
<1>6. CASE CallbackReturns
  <2>1. task.pc = "destroy" /\ task.c \in Timers /\ DestroyWrapper(task.c)
    BY <1>6, <1>t, TimersAssumption DEF CallbackReturns, TypeOK, TaskState
  <2> QED BY <1>2, <1>4, <2>1
<1>7. CASE TimeOutCallback
  <2>1. /\ UNCHANGED <<alive, mTimer>> /\ task.pc = "callback" /\ task.c # None
        /\ task.c \in Wrappers => task'.pc = "destroy" /\ task'.c = task.c
    BY <1>7, <1>t, NoneAssumption, TimersAssumption
    DEF TimeOutCallback, clientVars, TypeOK, TaskState
  <2> QED BY <2>1
<1>8. CASE ExpireStop
  <2>1. task.pc = "expiring" /\ task.c \in Timers /\ UNCHANGED alive
    BY <1>8, <1>t DEF ExpireStop, TypeOK, TaskState
  <2>2. CASE mTimer[task.c] # None
    <3>1. StopDelegate(task.c) /\ task' = [task EXCEPT !.pc = "callback", !.d = None]
      BY <1>8, <2>2 DEF ExpireStop
    <3>2. \A e \in Timers \ {task.c} : mTimer'[e] = mTimer[e]
      BY <1>t, <3>1 DEF StopDelegate, TypeOK
    <3>3. task'.pc = "callback" /\ task'.c = task.c
      BY <1>t, <2>1, <3>1 DEF TypeOK, TaskState
    <3> QED BY <2>1, <3>2, <3>3, TimersAssumption
  <2>3. CASE mTimer[task.c] = None
    BY <1>8, <2>1, <2>3 DEF ExpireStop
  <2> QED BY <2>2, <2>3
<1>9. ASSUME UNCHANGED <<alive, mTimer>>,
             task' = task \/ task.pc \notin {"callback", "destroy"}
      PROVE  NoWrapperIsLeaked'
  BY <1>9
<1>10. CASE MsgTimerPush \/ MsgTimerRemove \/ MsgTimerExpire
  BY <1>9, <1>10 DEF MsgTimerPush, MsgTimerRemove, MsgTimerExpire, Receive, clientVars
<1>11. CASE ExpireSkip \/ NextIteration \/ AddPoll \/ SetTime
  BY <1>9, <1>11 DEF ExpireSkip, NextIteration, AddPoll, SetTime, clientVars
<1>12. CASE PollNext \/ Tick \/ UNCHANGED vars
  BY <1>9, <1>12
  DEF PollNext, PollWake, PollDisarm, PollRemove, PollSend, Tick, vars, clientVars
<1> QED BY <1>1, <1>3, <1>5, <1>6, <1>7, <1>8, <1>10, <1>11, <1>12
        DEF Next, ClientNext, TaskNext

\* No wrapper is left that nothing deletes: each is running or on its way
\* through its callback, however loc_timer_stop() and expirations race.
THEOREM NoWrapperLeaked == Spec => []NoWrapperIsLeaked
<1>1. Init => NoWrapperIsLeaked
  BY DEF Init, NoWrapperIsLeaked
<1>2. IInv /\ NoWrapperIsLeaked /\ [Next]_vars => NoWrapperIsLeaked'
  BY LeakStep
<1> QED BY <1>1, <1>2, Invariance, PTL DEF Spec

-----------------------------------------------------------------------------
(***************************************************************************)
(* LocTimer implements the safety part of TimerService, when every client  *)
(* is a LocTimer object of its own.  (A loc_timer_start() handle can be    *)
(* deleted and its memory reused while its callback is due.)               *)
(***************************************************************************)
LEMMA ServiceInit == Init => Service!Init
  BY DEF Init, Service!Init, TaskIdle

\* start() and stop() of one timer, in terms of the service.
LEMMA ServiceStart ==
  ASSUME TypeOK, NEW c \in Timers, NEW k \in Containers, NEW delay \in Delays,
         mTimer[c] = None, StartDelegate(c, k, delay), UNCHANGED task
  PROVE  Service!Start(c)
<1>1. PICK d \in Delegates : mTimer' = [mTimer EXCEPT ![c] = d]
  BY DEF StartDelegate
<1>2. {e \in Timers : mTimer'[e] # None} = {e \in Timers : mTimer[e] # None} \cup {c}
  BY <1>1, NoneAssumption DEF TypeOK
<1> QED BY <1>2 DEF Service!Start

LEMMA ServiceStop ==
  ASSUME TypeOK, NEW c \in Timers, StopDelegate(c)
  PROVE  {e \in Timers : mTimer'[e] # None} = {e \in Timers : mTimer[e] # None} \ {c}
  BY DEF StopDelegate, TypeOK

\* Every step is a step of the service or leaves it alone.
LEMMA ServiceNext ==
  ASSUME Wrappers = {}, IInv, [Next]_vars
  PROVE  [Service!Next]_(Service!vars)
<1> USE DEF Service!vars, Service!Next
<1>t. TypeOK
  BY DEF IInv
<1>1. ASSUME NEW c \in Timers, NEW k \in Containers, NEW delay \in Delays, Start(c, k, delay)
      PROVE  Service!Next
  BY <1>t, <1>1, ServiceStart DEF Start
<1>2. ASSUME NEW c \in Timers, Stop(c)
      PROVE  Service!Next
  <2>1. Service!Stop(c)
    BY <1>t, <1>2, ServiceStop DEF Stop, Service!Stop
  <2> QED BY <2>1
<1>3. CASE ExpireStop
  <2> PICK c \in Timers : c = task.c
    BY <1>3, <1>t DEF ExpireStop, TypeOK, TaskState
  <2>1. task.pc = "expiring"
    BY <1>3 DEF ExpireStop
  <2>2. CASE mTimer[c] # None
    <3>1. /\ StopDelegate(task.c)
          /\ task' = [task EXCEPT !.pc = "callback", !.d = None]
      BY <1>3, <2>2 DEF ExpireStop
    <3>2. task'.pc = "callback" /\ task'.c = c
      BY <1>t, <2>1, <3>1 DEF TypeOK, TaskState
    <3>3. {e \in Timers : mTimer'[e] # None} = {e \in Timers : mTimer[e] # None} \ {c}
      BY <1>t, <3>1, ServiceStop
    <3>4. Service!Expired(c)
      BY <2>1, <2>2, <3>2, <3>3 DEF Service!Expired
    <3> QED BY <3>4
  <2>3. CASE mTimer[c] = None
    <3>1. UNCHANGED mTimer /\ task'.pc = "loop"
      BY <1>3, <1>t, <2>3 DEF ExpireStop, Loop, TypeOK, TaskState
    <3> QED BY <2>1, <3>1
  <2> QED BY <2>2, <2>3
<1>4. CASE TimeOutCallback
  <2>1. task.pc = "callback" /\ task.c \in Timers /\ UNCHANGED mTimer /\ task'.pc = "loop"
    BY <1>4, <1>t DEF TimeOutCallback, clientVars, Loop, TypeOK, TaskState
  <2>2. Service!Callback
    BY <2>1, NoneAssumption DEF Service!Callback
  <2> QED BY <2>2
<1>5. CASE /\ UNCHANGED mTimer
           /\ task.pc # "callback"
           /\ task'.pc # "callback"
  BY <1>5
<1>6. CASE MsgTimerPush \/ MsgTimerRemove \/ MsgTimerExpire \/ ExpireSkip \/ NextIteration
           \/ AddPoll \/ SetTime
  <2>1. /\ UNCHANGED mTimer
        /\ task.pc # "callback"
        /\ task'.pc # "callback"
    <3> USE <1>t DEF Receive, UpdateSoonestTime, PopAndExpire, TaskIdle, TaskAt, clientVars
    <3>1. CASE MsgTimerPush
      BY <3>1 DEF MsgTimerPush
    <3>2. CASE MsgTimerRemove
      BY <3>2 DEF MsgTimerRemove
    <3>3. CASE MsgTimerExpire
      BY <3>3 DEF MsgTimerExpire
    <3>4. CASE ExpireSkip
      BY <3>4 DEF ExpireSkip, Loop, TypeOK, TaskState
    <3>5. CASE NextIteration
      BY <3>5 DEF NextIteration
    <3>6. CASE AddPoll \/ SetTime
      BY <3>6 DEF AddPoll, SetTime
    <3> QED BY <1>6, <3>1, <3>2, <3>3, <3>4, <3>5, <3>6
  <2> QED BY <1>5, <2>1
<1>7. CASE PollNext \/ Tick \/ UNCHANGED vars
  BY <1>7 DEF PollNext, PollWake, PollDisarm, PollRemove, PollSend, Tick, vars, clientVars
<1>8. /\ \A c \in Timers : ~LocTimerStop(c)
      /\ \A c \in Timers, k \in Containers, delay \in Delays : ~LocTimerStart(c, k, delay)
      /\ ~CallbackReturns
  BY <1>t DEF LocTimerStop, LocTimerStart, CallbackReturns, TypeOK, TaskState
<1> QED BY <1>1, <1>2, <1>3, <1>4, <1>6, <1>7, <1>8 DEF Next, ClientNext, TaskNext

\* Every run of a timer ends exactly once, by stop() or by one callback, and
\* callbacks come one at a time.
THEOREM Refinement ==
  ASSUME Wrappers = {}
  PROVE  Spec => Service!SafeSpec
  BY ServiceInit, ServiceNext, Invariance, PTL DEF Spec, Service!SafeSpec

=============================================================================
