# Verification of the msm8996-common device tree: the GPS stack

This directory holds TLA+ modules that model the program parts of the
`lge_msm8996-common` device tree, the TLC configurations that check them on small
instances, and TLAPS proofs of the properties that matter most for every value of the
constants. All source paths below are relative to `src/`.

The repository is a device tree: most of it is configuration (audio, sensors, sepolicy,
overlays, init scripts). Nearly all of its program code, 40 000 of 42 000 lines, is the
GPS stack in `gps/`, so the models are of the GPS stack.

## 1. Inventory

### 1.1 How the parts interact

    Android framework          modem (QMI, vendor LocApi)         XTRA daemon
          | HIDL                      | calls and reports               | LocIpc
    gps/android/*  ----+              |                                 |
          |            |              |                                 |
    LocationAPI /      |        LocApiBase  ---- LocAdapterBase         |
    LocationAPIClientBase             |               |                 |
          |                           v               v                 |
          +-----------> GnssAdapter, BatchingAdapter, GeofenceAdapter   |
                          |     |        |                              |
                        Agps   NI/ODCPI  tracking       XtraSystemStatusObserver
                                                                        |
                                              SystemStatusOsObserver ---+
    gps/utils:  MsgTask (on msg_q and LocThread), LocTimer (on LocHeap), LocIpc

The pattern is the same everywhere. A public method, called on any thread, wraps its
arguments in a `LocMsg` and sends it to a `MsgTask`; the state of a component is only
touched by the handlers (`proc()`) on that task's thread, so handlers are atomic with
respect to each other and run in the order they were sent. What makes the system hard is
at the edges of the pattern: the pieces that implement it (threads, queue, timers), calls
that bypass the queue, answers that come back in a later message, and state that has
changed by then.

### 1.2 Components

| component | state | operations | correctness |
| --- | --- | --- | --- |
| `gps/utils/LocTimer.cpp` | per timer a delegate; per container a heap, a timerfd, its membership in an epoll set; a message queue | `start`, `stop`, `loc_timer_start`, `loc_timer_stop`, expiration | a started timer ends exactly once, by `stop()` or by one callback; no wake-up is lost between the two service threads; a delegate is freed once and after its last use |
| `gps/utils/LocHeap.cpp` | a binary tree of ranked elements | `push`, `pop`, `peek`, `remove` | `peek` is of the highest rank |
| `gps/utils/LocThread.cpp` | a delegate shared by the creator and the spawned thread | `start`, `stop`, destructor, `threadMain` | the delegate and the runnable are freed once, after their last use; `stop()` joins |
| `gps/utils/MsgTask.cpp`, `msg_q.c` | a bounded-by-memory list, `unblocked`, the thread | `sendMsg`, `run`, `destroy` | accepted messages are handled once, in order; `destroy()` ends the thread |
| `gps/gnss/Agps.cpp` | two state machines with lists of subscribers | ATL request and release, reports of the framework, events | the state agrees with the subscribers; requests are answered |
| `GnssAdapter` tracking | two maps of sessions, deferred messages, power state | start, update, stop, client removal, engine restart | the engine serves every session, and is off without sessions; each command is answered once |
| `GnssAdapter` ODCPI | `mOdcpiRequestActive`, a timer, the last request | request start and stop, timer expiration | requests are repeated while active and not spammed |
| `GnssAdapter` NI | two `NiSession`s, each with a waiting thread | notification, response, time-out | each request is answered once |
| `GnssAdapter` configuration and reports | copies of the configuration | update, get, aiding data, NMEA, SV, position reports | responses of several calls are collected into one |
| `SystemStatusOsObserver` | two maps (clients, data items), a cache, reference counts | `subscribe`, `updateSubscription`, `unsubscribe(All)`, `requestData`, `notify`, `turnOn/Off` | the maps are inverse; the framework is subscribed to what clients want |
| `SystemStatus` | bounded histories of reports | parse, get | histories are bounded, in order |
| `LocApiBase`, `LocAdapterBase` | the adapters of one modem proxy, a shared `MsgTask` with a count | add/remove adapter, open, close, engine restart, destroy | the task exists while it has users |
| `LocationAPI`, `LocationAPIClientBase` | a map of clients under a mutex; per client its sessions and pending requests | create, destroy, update callbacks, session commands | a client is destroyed after all adapters have let go of it |
| `BatchingAdapter`, `GeofenceAdapter` | sessions, trips; geofences under two keys | start/stop/update, restart | as for tracking |
| `LocIpc` | a listening thread and its receiver | send, receive, start/stop listening | a long message arrives whole |
| `gps/android/*` | callbacks and death recipients | HIDL methods | conversion only |
| `gnsspps`, doze, audio service, thermal, MAC address, recovery, shims | little or none | I/O | not candidates for a model |

### 1.3 What is hard

- **Interleavings** of a client with a spawned thread (`LocThread`), of two service threads
  over one descriptor (`LocTimer`), of senders with `destroy()` (`MsgTask`), of two threads
  over one `NiSession`.
- **Stale messages**: an `Expire` that speaks of a timer since removed; a report of the
  framework for a request since released; the response to a command whose session has been
  stopped in the meantime.
- **Reports without identity**: the AGPS reports name a type, not a request.
- **Calls past the queue**: a refused APN is closed on the framework's thread, while the task may
  be inside the same state machine; `loc_timer_stop()` meets the callback that it stops.
- **Reads of freed or foreign memory**: erased entries of a map, what is behind a full table.
- **Restart** of the modem with commands and responses under way.
- **Lifetime** of objects referenced by queued messages.

`PROJECT.json` lists each hazard at its line with the properties that would catch it.

## 2. Modules

| module | models | kind |
| --- | --- | --- |
| `LocTimer` | `gps/utils/LocTimer.cpp` | detailed specification |
| `TimerService` | the promise of `LocTimer.h` | abstract specification |
| `MCLocTimer` | | TLC instances |
| `LocTimerProofs` | | theorems |
| `LocThread` | `gps/utils/LocThread.cpp` | detailed specification, and the abstract one of a task's thread |
| `MsgTask` | `gps/utils/MsgTask.cpp` and `msg_q.c`, composed with `LocThread` | detailed specification |
| `Mailbox` | what users of a `MsgTask` rely on | abstract specification |
| `MCMsgTask` | | TLC instances |
| `MsgTaskProofs` | | theorems, of `LocThread` as well |
| `Agps` | `gps/gnss/Agps.cpp`, and the handlers of `GnssAdapter.cpp` that feed it | detailed specification |
| `MCAgps` | | TLC instances |
| `GnssTracking` | the tracking sessions of `gps/gnss/GnssAdapter.cpp` | detailed specification |
| `MCGnssTracking` | | TLC instances |
| `GnssTrackingProofs` | | theorems |
| `NiSession` | network-initiated requests of `gps/gnss/GnssAdapter.cpp` | detailed specification |
| `GnssAdapterProofs` | | theorems, of `Agps` and of `NiSession` |
| `SystemStatus` | the merging of network events in `gps/core/SystemStatus.cpp` | operators |
| `OsObserver` | `gps/core/SystemStatusOsObserver.cpp`, on `SystemStatus` | detailed specification |
| `MCOsObserver` | | TLC instances |
| `OsObserverProofs` | | theorems, of `XtraStatus` as well |
| `XtraStatus` | `gps/gnss/XtraSystemStatusObserver.cpp`, composed with `OsObserver` | detailed specification |
| `MCXtraStatus` | | TLC instances |
| `Geofence` | `gps/geofence/GeofenceAdapter.cpp` | detailed specification |
| `MCGeofence` | | TLC instances |
| `GeofenceProofs` | | theorems |
| `LocationApi` | clients of `gps/location/LocationAPI.cpp` and their registration in `gps/core/LocAdapterBase.cpp` | detailed specification |
| `MCLocationApi` | | TLC instances |
| `LocationApiProofs` | | theorems |
| `Batching` | the sessions and trips of `gps/batching/BatchingAdapter.cpp` | detailed specification |
| `MCBatching` | | TLC instances |
| `BatchingProofs` | | theorems |

`MsgTask` instantiates `LocThread` and drives its actions; `Mailbox` justifies the FIFO
queue of atomic handlers that all the modules from `Agps` on start from. `XtraStatus` extends
`OsObserver` with a client and the daemon behind it, and `OsObserver` uses the operators of
`SystemStatus`. `TimerService` is what a component that owns a timer may rely on.

### 2.1 LocTimer

Each `LocTimerDelegate` is a memory slot of `Delegates`, allocated by `start()` and freed
only by the `Remove` message. `mTimer`, `mClient`, `mContainer`, `mFutureTime` are the
fields of the same name. `heap[k]` is the set of delegates in container `k` and `top[k]`
its peek: `LocHeap` is modelled by what it promises, including the freedom to pick any of
several equally ranked delegates. `fd[k]` and `polled` are the kernel's state: the absolute
time of the timerfd and the epoll set.

`LocTimer::start` and `stop` hold the lock of the timer and are one action each. The MsgTask
thread's handlers are `MsgTimerPush`, `MsgTimerRemove`, `MsgTimerExpire`; since the poll
thread acts on the same descriptor, `epoll_ctl` and `timerfd_settime` are separate actions
(`AddPoll`, `SetTime`), as are the poll thread's (`PollWake`, `PollDisarm`, `PollRemove`,
`PollSend`). `expire()` reads `mClient` without the lock when it pops the delegate
(`PopAndExpire`) and uses it in later steps (`ExpireStop`, `TimeOutCallback`), between which
clients run. The C functions are `LocTimerStart` and `LocTimerStop`, on `Wrappers`: each is a
memory slot, which `handles` counts the clients' pointers to. A pointer outlives its wrapper:
the wrapper's callback and its own `destroy()` are two steps (`TimeOutCallback`,
`CallbackReturns`), a client may stop the handle before, between and after them, and by then
the memory may hold another wrapper. `DestroyWrapper` makes the code's test, `NULL != mCb` and
`this == mMe` under `mMutex`, on whatever is there; in free memory it deletes nothing, since
the destructor has reset these fields (free memory that is used for anything else than a wrapper
is not modelled).

### 2.2 LocThread

One life of a thread: `StartThread` or `StartFails` (`pthread_create` fails), the read of
`mRunnable` by `create()` (`CreateReturns`), `Stop`, `Bye` (the destructor) and `Join`; the
spawned thread's `threadMain` is `ThreadMain`, `Prerun`, `Loop`, `RunReturns`, `Postrun`,
`ClearRunnable`, `DeleteRunnable`. Both sides end with `destroy()`, three steps of one
operator `Destroy`. Every unlocked access of `mRunnable` is one step.

### 2.3 MsgTask and Mailbox

`MsgTask` adds to a `LocThread` the message list of `msg_q`, its `unblocked` flag, where the
receiver is in `run()` and `msg_q_rcv()` (including the wait on the condition variable and
spurious wake-ups), and where the owner is in the constructor and in `destroy()`, which is
called by the client or by a message of the task itself. `runnable` of `LocThread` is the
memory of the `MsgTask`. A critical section of `msg_q` is one step. `Mailbox` says what
remains for users: messages are accepted while it is open and handled once, in order.

### 2.4 Agps

`mState` and `mSubscriberList` are those of the two `AgpsStateMachine`s; `atlQueue` is the
adapter's FIFO of handlers, `toFramework` the callbacks the framework has not yet acted
upon, `framework` its connections and `atl` what the modem knows of each handle. The events
`Subscribe`, `Unsubscribe`, `Granted`, `DenyApn`, `Released` are `processAgpsEvent…`; the
actions `RequestATL`, `ReleaseATL`, `ReportAtl…` are `AgpsManager`'s methods as the adapter
calls them; `Modem…` and `Framework…` are the outside. A handler of the task is two steps:
`TaskBegins` reads the state its `switch` will use (`handling`), the handler does the work. For a
bad APN, `dataConnOpenCommand()` calls `reportAtlClosed()` at once on the framework's thread,
without a message or a lock: these are two steps as well, `FrameworkOpensBadApn` (`closing`) and
`FrameworkReportsClosed`, which come between those of the task. `raced` records that both threads
have been in one state machine, whose list and state they then change together: the behaviour is
undefined from there on, and the properties are of behaviours before that. A bad APN of one
type while the task is in the other state machine, or between two handlers, is in them.
`AGPS_STATE_RELEASING` and inactive
subscribers are absent because every subscriber is created with `mWaitForCloseComplete`
false, and `handleModemSSR()` because it has no caller.

### 2.5 GnssTracking

`mTimeBased` and `mDistanceBased` are the adapter's two maps of sessions, `mPendingMsgs` the
commands put off until the engine capabilities are known, `queue` the adapter's messages and
`toModem` the calls of `LocApiBase` under way, each with the continuation its
`LocApiResponse` will run. The actions `StartTracking`, `UpdateTracking`, `StopTracking` and
`RemoveClient` are the public commands; `Handle…` are the `proc()` of their messages and the
continuations (`HandleStarted`, `HandleUpdated`, `HandleThenStartTime`, …), which find the
maps as the messages in between have left them. `StartMultiplex`, `UpdateMultiplex` and
`StopMultiplex` are the three multiplexing functions, with the order in which their loops
meet the sessions (the id). `owed` counts the answers each client waits for, `ended` the
sessions whose client has stopped them.

Outside `src/`: the modem acts upon calls in the order they are made, may refuse them, and
may restart, after which it has no session; calls under way survive the restart, and it
answers nothing before it has come up for the first time. Left out: options are those that
remain after normalisation, those with a `minDistance` are one value, which the modem
supports; `mEngHubProxy` and `mPowerOn` only forward.

The adapter does not serialise commands on one session: a client that calls `update` or
`stop` before it has the answer to its last command may find its session revived, or the fix
left running. `hasty` holds those sessions; `NoSessionNoFix`, `DistanceSessionsAreServed` and
`StoppedSessionIsGone` are about the others. `disturbed` says that a call was refused or that
a client with time-based sessions was removed: from then on the maps no longer say what the
modem does (section 4), and only the answers are checked.

### 2.6 NiSession

The two sessions of `NiData` (emergency and other) with `rawRequest`, `reqID`, `respRecvd`
and `resp`; `reqIDCounter`; one thread for each request. `RequestNiNotifyEvent` is the call
of the modem, `HandleNotify` and `HandleReply` the `proc()` of its message and of the user's
answer, `HandleInform` of the message that hands the payload back. What a handler does under
a session's lock is `SignalSession`, one step for each session; the thread's own steps are
`NiThreadWaits`, `NiThreadAnswered`, `NiThreadTimesOut` (its wait, under the lock),
`NiThreadResets` (`reqID`, after the unlock) and `NiThreadSends`. The time-out may come at
any time; `pthread_create` may fail. `disposed` counts how often a payload has been handed
back or freed, `told` is what the modem has heard of it, `consented` whom a user has
accepted. `overtaken` says that an answer was stored in a session whose request had changed
in between, or that was no longer waiting.

### 2.7 SystemStatus, OsObserver and XtraStatus

`SystemStatus` has no state: `Collate` and its parts (`Connect`, `Disconnect`, `TypesLeft`)
are `SystemStatusNetworkInfo::collate()` on a table of `TableSize` entries and a mask of types
(a full table is left by copying the entry behind its end, which is any entry: `BehindLast`),
and `SetItemInReport` what a report makes of the cached item. `OsObserver` has the two maps
`mClientToDataItems` and `mDataItemToClients`, the cache, whether the framework has given its
subscription object, and the queue of the shared task; each public method is an action that
sends a message (`ClientCalls`, `Notify`, `SetSubscriptionObj`) and each message has its
handler (`HandleSubscribe`, `HandleUpdateSubscription`, `HandleUnsubscribe`,
`HandleUnsubscribeAll`, `HandleNotify`, …). `framework` is what the framework has been asked
for, `seen` what each client has been told. `LocUnorderedSetMap` reads entries it has erased,
and the model takes what it may find there: `Common` is what `removeAndReturnInterset()` returns
when it goes on from an erased entry (some of the common items, at least one), `Misreads` the
keys that `trimOrRemove()` returns for the entries that are gone (as many items, but any).
Three variables say what has gone wrong, and the properties what does not go wrong without it:
`misread`, that the framework was told of other items than those that are gone; `dropped`, the
networks that came when the table was full; and `mistaken`, the pairs of a client and an item it
had when it called `updateSubscription()`. That call leaves such a client with any of three
errors: an item it keeps is taken from `mDataItemToClients` (`LocUnorderedSetMap.h:182`), so it
is no longer notified, and the framework may be unsubscribed from the item; an item it leaves
stays there, so the framework's subscription stays too; and what is read through the erased
entry decides which. Nothing in `gps/` calls it. The observer of XTRA is the client `Xtra`, whose
`notify()` posts a copy of the items to the same task (`HandleItems`).

`XtraStatus` adds the observer's other fields (`mGpsLock`, `mXtraThrottle`,
`mReqStatusReceived`), the datagrams under way to the daemon (`toDaemon`) and the daemon,
which is outside `src/`: it starts and stops at any time, asks for the status when it starts
and when it hears "halinit", and misses what is sent while it is down. Left out:
`turnOn()`, `turnOff()` and the backhaul calls, which forward to the framework; the histories
of `$PQW` reports; the destruction of the XTRA observer.

### 2.8 Geofence

`mGeofences` (by hardware id) and `mGeofenceIds` (by client and id) are the adapter's maps. A
command names several geofences: `HandleCommand` is its `proc()`, which makes one call for each
(`HandleNullCommand` if an array of options or infos is NULL: nobody is answered then);
`HandleItem` the second message of an item that goes through the `LocApi`'s call queue;
`HandleAdded`, `HandleDone` and `HandleErased` the continuations of the modem's answers;
`Write` stores the result of an item in the command's array and answers the command with the
last one (`freed`). `HandleRemoveClient`, `HandleEngineUp` and `HandleRestored` are the removal
of a client and the restart; `HandleBreach` is a breach, which the modem reports under a
hardware id. `ModemActs`, `ModemRefuses`, `ModemRestarts` and `ModemBreach` are the modem,
outside `src/`: it answers calls in the order they were made and fails those unanswered when it
restarts. It may take calls between its restart and the adapter's knowing of it only with
`EarlyCalls`, and give out a free hardware id again only with `ReusesIds` or after a restart.
Left out: the geofence status event, where a geofence is and how large, and arrays of ids that
are NULL.

### 2.9 LocationApi

`clientData`, `destroyClientData`, `interfaces` and `loadFailed` are `gData` and its flags,
under `gDataMutex`, which is modelled as the messages a call has still to send before it
returns (`Send`, one at a time). `CreateInstance`, `UpdateCallbacks` and `Destroy` are the
clients' calls; `HandleAdd`, `HandleRemove`, `HandleRequest` and `HandleEngineUp` the
messages of `LocAdapterBase` on the task that the adapters share; `RemoveClientComplete` and
`CompleteDestroy` the callback with which an adapter reports that it has let go of a client,
which takes the mutex again. `object` is the memory of each client: `free` memory may be the
next object. `Narrowing` lets `updateCallbacks()` take a kind of callbacks away. Left out:
the session commands (each goes to one adapter) and `LocationControlAPI`.

### 2.10 Batching

`mBatchingSessions` holds all sessions and `mTripSessions` those that are trips; `mOngoing` is
the distance and the interval of the modem's one trip, `mDropped` the two flags that say that
their owner has gone, `batchFull` the bit of the event mask. The functions of the adapter
that call each other are operators on one record of this state (`Adapter`, applied by
`Becomes`): `StartBatching`, `StopBatching`, `StartTrip`, `StopTrip`, `RestartTripBatching`
and so on. `HandleCommand` is the `proc()` of the client's messages, and each continuation of
a modem call is a handler of its own: `HandleStarted`, `HandleStopped`, `HandleTripStarted`,
`HandleTripQueried`, `HandleTripRestarted`, `HandleTripStopped`, `HandleRemaining`,
`HandleMultiplexed`, `HandleTripResumed`. `HandleCompleted` is the report that the modem's
trip is complete, `HandleEngineUp` the restart. Distances are unsigned and wrap at `Width`,
as the code's do at 2^32. What is read through an erased iterator is any value (`Garbage`).
Outside `src/`: the modem (as in `Geofence`) and the device, which moves by one unit while
the modem has a trip. `went` and `early` record how far it has gone since each trip was asked
for, and which trips were reported complete too soon.

The adapter keeps its counts across calls without a guard against other handlers. The
properties therefore exclude: `crossed`, two calls about trips were under way at once or a
client was removed with trips; `refused`, sessions (or 0, the trip) about which a call other
than a start was refused; `starts > 1`, where a property does not survive a restart of the
modem. `OneInterval` splits off trips of different intervals, of which the faster one starts
the modem's trip anew, and `HaveIntervals` trips with interval 0, the default of the options, which
nothing rejects and the loops over the trips take for none found yet. Section 4 says what
happens then. Left out: the addition of clients, the
reports of locations and of the batching status, and the checks of the options' sizes.

## 3. Runs

Bounds are named in the `.cfg` files. Deadlock is checked unless the system may really
stop: a bounded clock, a thread that has ended and a task that has been destroyed are final.

| run | what it shows |
| --- | --- |
| `timer_safety` | a `LocTimer` and a self-deleting `loc_timer_start()` handle, three delegates (a stopped timer's delegate, its successor and the other timer's), delays 1 and 2: no use of a freed delegate, no wake-up lost, no delegate that points to a deleted timer, no handle left that nothing deletes, also when it is stopped before, while or after its callback runs |
| `timer_service` | two `LocTimer`s; under fairness, `LocTimer` implements `TimerService` |
| `thread_protocol` | a `stop()` that joins returns, and a thread that its client stops frees its delegate, in every interleaving of the two |
| `task_protocol` | three messages, any destroyer: `MsgTask` implements `Mailbox`, and neither side uses the delegate after the other has freed it; accepted messages are handled and `destroy()` returns |
| `agps_service` | two handles, two state machines, all faults, until both threads are in one state machine: lists and the modem's view agree; a request is answered unless its APN is bad, and a release is confirmed |
| `tracking_sessions` | three sessions of two clients, four commands (three once a client is hasty), two starts of the modem, refused fixes and removed clients: every command is answered once; when nothing is under way the fix is as frequent as every time-based session wants and off without one, the modem tracks every registered distance-based session, stopped sessions are gone |
| `ni_sessions` | two requests of any type, two answers, threads that time out or cannot be created: payloads are disposed of once, a held request has its own thread, an acceptance has a consent, a request shown to the user is settled |
| `observer_items` | the XTRA observer and two clients, a framework that registers and reports a value and three networks, for a table of two: the framework is subscribed to what clients have, clients have seen the cached values of their items, connected networks are in the table, with the exceptions that section 2.7 names |
| `xtra_daemon` | a daemon that starts before or after the HAL, stops and starts again: it is informed, and then knows the lock and the cached items |
| `geofence_restart` | commands of several geofences, refused calls, the removal of the client and a restart with all of these under way: the maps agree with each other and with the modem, geofences survive, breaches are of the geofence that is reported, commands without a NULL array are answered |
| `location_clients` | two objects created, changed and destroyed while the shared task adds and removes them: deleted memory is in no adapter, `destroy()` completes, a new client hears of the capabilities |
| `batching_sessions` | plain sessions and trips started, updated and stopped while the modem refuses calls and restarts, the device moves and the client goes: the modem runs what the adapter has, batch-full events come while somebody wants them, no trip ends early, accepted commands are answered |

Why the bounds are enough. In `LocTimer` the interesting conflicts are between a delegate and
its successor on the same timer, and between two timers at the top of one heap: two timers and
three slots contain them, two pointers to a wrapper are a stale one and that of the wrapper now
in its memory, and a clock of two ticks lets one expire before, with and after the
other. `MsgTask` needs one message being handled, one waiting and one sent during destruction.
`Agps` needs a release and a new request while the answer to the first request is still under
way (three messages; five for the leak), and two handles to share a connection. `NiSession`
needs a request that finds a session taken or just left, and an answer that comes late: two
requests and two answers. `OsObserver` needs clients that share an item and one that leaves it
(three calls), a table of two entries that three networks fill (the code's has ten), and a
network that goes from it between two others' reports (three reports), each handled before the
next (`MaxQueue` 1); the queue of `XtraStatus` holds two, so that a request
of the daemon and a change cross. `Geofence` needs a command of two items (the partial answer),
a second command or a removal of the client in between, and hardware ids given out again after
the restart: two of each. `LocationApi` needs an object and the one that takes its memory, two
adapters that finish in any order and two calls. `Batching` has eight kinds of behaviours
(`MCBatching`), each with the cases of one interplay: plain sessions with a restart, plain
sessions with a refused call, two trips of one interval and two of different ones with three
commands, two trips with a restart and a refused call, trips with and without an interval over a
restart, with and without a distance, and a session that is turned from one
kind into the other; distances have four bits, enough to wrap. `GnssTracking` needs two
sessions to multiplex with a third one that changes, a command between a call and its answer,
and a restart of the modem after its first start; four commands are two sessions started, one
of them updated and stopped; one call is refused in a behaviour. The theorems below remove
these bounds for the safety properties, except those that section 5 lists as only
model-checked. The type invariant is a theorem in seven modules; those of `OsObserver`,
`XtraStatus`, `Geofence` and `Batching` hold on the same instances.

Fairness. Weak fairness of each service thread as a whole (they are loops of real threads;
`run()` of a MsgTask returns because handlers terminate), of the clock, and of the framework in
`agps_service` (it answers the calls it gets and finishes its own; nothing is assumed of the
modem, nor of the outcome of the answer). Clients are never fair: nobody has to call `stop()`,
`destroy()` or `sendMsg()`. `apnsAreGood` of `MCAgps` splits the behaviours of `agps_service`
into those with and without a bad APN, whose consequence section 4 describes. `NiSession`: the
task and each thread that exists; no user has to answer. `XtraStatus`: the task, the HAL's
"halinit" and a running daemon. `Geofence`: the task, and that the modem answers, one way or
the other. `LocationApi`: the task, a thread inside the mutex, and engines that come up.
`Batching` and `GnssTracking` have no liveness properties: theirs speak of states in which
nothing is under way.

Symmetry is used only in runs without temporal properties, over sets whose elements the
module does not tell apart.

## 4. Where the code falls short

Properties that the code does not have, met while modelling, mostly because a comment says
otherwise or because a property of a passing run needs an exception for them. The models keep
the code's behaviour, and the passing runs hold in spite of it. The definitions are in the
modules; checking one in the configuration named, in place of its invariants or properties,
shows the counterexample. A configuration that no run of section 3 uses is there for its
definition.

| definition | configuration | source | behaviour |
| --- | --- | --- | --- |
| `OnlyDueTimersArePopped` | `LocTimer_early.cfg` | `LocTimer.cpp` | the first `pop()` of the Expire handler is unconditional and may fire a timer that is not due |
| `EmptyContainerIsDisarmed` | `LocTimer_early.cfg` | `LocTimer.cpp:344` | stopping the last timer leaves the timerfd armed and polled, against line 291 |
| `ExpireUsesLiveClient` | `LocTimer_safety.cfg` | `LocTimer.cpp:531` | `expire()` may call a client deleted after the unlocked read of `mClient`, against lines 492-494 |
| `DestroyedWrapperIsAlive` | `LocTimer_safety.cfg` | `LocTimer.cpp:614`, `642` | a `loc_timer_stop()` while the callback is due or runs deletes the wrapper, whose callback then calls `destroy()` on freed memory, or on the next wrapper in it: the handle is to become invalid only when the callback returns, says `loc_timer.h` |
| `ExpireStopsItsOwnDelegate` | `LocTimer_early.cfg` | `LocTimer.cpp:533` | a timer stopped and restarted in between has its new run ended by the old delegate, against lines 534-536 |
| `RefusedRunnableIsAlive` | `LocThread_refused.cfg` | `LocThread.cpp` | `start()` returns false although the thread ran and deleted the runnable, against `LocThread.h` |
| `StartedRunnableIsDeleted` | `LocThread_refused.cfg` | `LocThread.cpp:181` | a thread stopped before it read `mRunnable` ends without deleting the runnable, against `LocThread.h:75` |
| `DestroyHasTask` | `MsgTask_destroy.cfg` | `MsgTask.cpp` | `destroy()` writes to a task its thread may have deleted |
| `ReleasedConnectionIsClosed` | `Agps_leak.cfg` | `Agps.cpp` | the answer to an earlier request is taken for a later one, whose connection is never released |
| `AtlAlwaysAgrees` | `Agps_service.cfg` without its `CONSTRAINT` | `GnssAdapter.cpp:4383` | a refused APN is closed on the framework's thread while the task is inside the same state machine: the modem is told otherwise than the list says |
| `AtlRequestIsAnswered` | `Agps_service.cfg` | `GnssAdapter.cpp:4383` | a refused APN is reported as a close, which PENDING ignores: nothing is under way and the subscribers wait for ever, against line 4380 |
| `StopEndsSession` | `GnssTracking_stop.cfg` | `GnssAdapter.cpp` | a session stopped before its deferred start is started afterwards, and stays |
| `AnswersMatchCommands` | `GnssTracking_stop.cfg` with `Faults = {"stopRefused"}` | `GnssAdapter.cpp:2656` | an update of a distance-based session whose stop is refused is never answered |
| `AnswersMatchCommands` | `GnssTracking_stop.cfg` with `Listeners = {c1}` | `GnssAdapter.cpp:2408` | a start without a callback is never answered, against `LocationAPI.h:71` |
| `FixHasSmallestPowerMode` | `GnssTracking_stop.cfg` with three sessions and options (1, 3), (2, 2), (3, 1) | `GnssAdapter.cpp:2485` | the fix gets the power mode of the most frequent session, against line 2466 |
| `NoSessionNoFix`, `DistanceSessionsAreServed` without `hasty` | `GnssTracking_stop.cfg` | `GnssAdapter.cpp:2623`, `2772` | a response to an earlier command changes the maps after a later one, and not the modem |
| `AcceptAlwaysNeedsConsent` | `NiSession_sessions.cfg` | `GnssAdapter.cpp:3775` | an answer stored after the thread has reset the flag accepts the next request before the user has been heard |
| `PendingIsAnswerable` | `NiSession_sessions.cfg` | `GnssAdapter.cpp:3798` | `reqID` is reset after the unlock, when it may be the next request's: that one can only time out |
| `KeptItemsAreServed` | `OsObserver_items.cfg` | `LocUnorderedSetMap.h:182` | a client that keeps an item in `updateSubscription()` is taken from those that are notified of it, and the framework may be unsubscribed from it, against `SystemStatusOsObserver.cpp:153-163` |
| `RequestedItemsAreServed` | `OsObserver_items.cfg` | `SystemStatusOsObserver.cpp:104` | an item first asked for with `requestData()` gets no subscription, also when another client subscribes to it |
| `ErasedKeysAreRead` | `OsObserver_items.cfg` | `LocUnorderedSetMap.h:136` | the items that the framework is unsubscribed from are read through erased entries: others may lose their subscription |
| `ConnectedIsNeverDropped` | `OsObserver_items.cfg` | `SystemStatus.h` | networks that have gone stay in the table until it is full, and a network that comes then is in no entry |
| `ListedIsConnected` | `OsObserver_items.cfg` | `SystemStatus.cpp` | a network that has gone stays in the table when an earlier entry was free, and one first reported as gone enters it |
| `TypesMatchTable` | `OsObserver_items.cfg`; with `TableSize = 3`, `MaxReports = 4` without a full table | `SystemStatus.cpp` | a network that leaves a full table is replaced by what is behind the array, and the mask loses or keeps a type when one of two networks of it goes |
| `DaemonKnowsThrottle` | `XtraStatus_daemon.cfg` | `XtraSystemStatusObserver.cpp` | an update of the throttle before the daemon asks for the status is never sent |
| `AnswerIsComplete` | `Geofence_restart.cfg` | `GeofenceAdapter.cpp` | a command is answered with its last item although the modem still has another one, which then writes to freed memory |
| `NullIsAnswered` | `Geofence_restart.cfg` | `GeofenceAdapter.cpp:242`, `578` | `addGeofences` and `modifyGeofences` with a NULL array are never answered, and their arrays leak, against `LocationAPI.h:136-155` |
| `ResumeIsAnswered` | `Geofence_restart.cfg` | `GeofenceAdapter.cpp:505` | a resumption that fails is never answered |
| `RemovedClientHasNoGeofences`, `GoneGeofenceIsForgotten` | `Geofence_restart.cfg` | `GeofenceAdapter.cpp` | geofences of a client that has gone stay, or come back with the next restart |
| `PausedIsKnown` | `Geofence_restart.cfg` | `GeofenceAdapter.cpp` | a restart makes the adapter lose track of which geofences are paused |
| `MapsAgree` | `Geofence_restart.cfg` with `EarlyCalls = TRUE`, or with `ReusesIds = TRUE`, `MaxEvents = 3` and `MaxCount = 1` | `GeofenceAdapter.cpp` | a hardware id given out again is taken for that of the geofence before |
| `DeletedClientIsForgotten` | `LocationApi_clients.cfg` with `Narrowing = TRUE` | `LocationAPI.cpp` | an object that took away a kind of callbacks stays in that adapter after its deletion |
| `CapabilitiesReachAll` | `LocationApi_clients.cfg` | `LocationAPI.cpp` | a client that gets its first kind from `updateCallbacks()` is never told of the capabilities |
| `RestartedTripsAreServed` | `Batching_restart.cfg` | `BatchingAdapter.cpp` | the distances of the trips are reset in a copy, so after a restart of the modem a trip may be left behind, against the comment of `restartSessions()` |
| `IntervalsAreServed` | `Batching_interval.cfg` | `BatchingAdapter.cpp:227`, `958` | interval 0, the default, is taken for none found yet: after a restart of the modem, or when a trip stops, the modem's trip runs at the interval of whatever trip comes after |
| `DistanceSoFarIsRecorded` | `Batching_faster.cfg` | `BatchingAdapter.cpp:836` | a trip that wants positions more often starts the modem's trip anew without recording what the others have covered in it: they end late, or are left behind, against the comment above that loop |
| `NoTripEndsEarlyRefused` | `Batching_faster.cfg` | `BatchingAdapter.cpp:847` | when the modem refuses to start its trip anew, the counts are reset as if it had, and a trip is reported complete early |

What `updateSubscription()` does to the observer (`mistaken`) is in section 2.7.
`ClientsAreUpToDate` excepts the pairs of a client and an item that it may have spoiled, so other
clients of the item are still notified; `FrameworkServesClients` excepts the items of such pairs,
since the subscription to an item is shared. `RequestedItemsAreServed` is about behaviours without
that call and without misreads, to show the one fault.

The refused calls that `disturbed` of `GnssTracking` excludes: a failed start erases only the
session that made the call (line 2522), a failed update restores a session that may have been
stopped (2545), and `stopClientSessions()` leaves time-based sessions in their map (2032).

What the exclusions of `Batching` hide: with two calls about trips under way (`crossed`), a
continuation counts with the distances of a trip that another one has replaced, and a trip may
be started with no interval, with that of another trip, or not at all; `stopClientSessions()`
makes calls for several trips at once; it also stops a trip that is complete and no longer in
`mTripSessions`, by using `end()` (line 889). After a refused stop (`refused`), a session is
saved again without the registration for batch-full events (514), and a refused call about the
trip leaves `mOngoing…` with what the modem does not have. After a restart, the trip of the
modem is started with distances that are not those since the restart. With a trip of interval
0, the first of two trips in the map may be passed over for the second one
(`IntervalsAreServed`); the rest of the properties of `Batching` is checked of such trips, and
of trips of distance 0, as of others. Even without these, a second trip that restarts the
modem's one loses what had been counted, which makes the first end late or, if the second one
wants positions more often, be left behind by the modem's trip (against lines 836-837, excluded
by `OneInterval`); and a first trip, being in both maps, is counted twice, which leaves the
batch-full event registered.

Noticed while reading and not stated as a property: in `NiSession`, the handler of a reply
may overwrite an IGNORE that the thread has not yet read (2894, 3825), and a notification
without a client is forgotten (3814-3835). In `BatchingAdapter`, a rejected command is never
answered and an update may be answered twice, and a session started between a restart of the
modem and the engine-up message is started in the modem again or orphaned there. In
`GeofenceAdapter`, a geofence the modem does not take back after a restart is lost silently.
`LocationAPI::destroy()` without a callback never deletes the object.
`LocAdapterBase::generateSessionId()` counts in an unsynchronised static.

## 5. Proofs

TLAPS checks the theorems for every value of the constants, from the assumptions named in
the modules (`None` is distinct from everything, bounds are naturals, containers exist).

- `LocTimerProofs`. The inductive invariant strengthens the properties by the life cycle of a
  delegate: which messages of a delegate are queued and in which order (its `Push` comes before
  its `Remove`, at most one each), where it is relative to the heap, and how the position of
  the MsgTask thread relates to the container it works on. It needs nothing of the clients:
  they stop handles whose wrapper is gone or has been replaced. Theorems: `TypeCorrect`,
  `FreedForgotten`, `RunningTracked`, `WakeupKept`, `DeadTimerDetached`, `NoWrapperLeaked`
  (each wrapper is running, or the MsgTask is on the way to its `destroy()`, which nobody else
  can take from it without deleting it), and `Refinement`, the safety part of `TimerService`
  (for a service without self-deleting handles, whose callback removes its own timer).
- `MsgTaskProofs`. Of `LocThread`, the invariant counts references: `mRefCount` is the number
  of sides that have not yet decremented it, and the side at "delete" is the last. Theorems:
  `ThreadTypeCorrect`, `DelegateSafe`, `JoinedThreadEnds`. By the definitions of `MsgTask`,
  every step of a task is one of `LocThread` or leaves its variables alone, so that the task
  inherits this invariant (`TaskDelegateSafe`); to it are added the relation of the receiver to
  the thread's position, of the queue to the task's memory, and of the owner to the client side
  of the thread. Theorems: `TypeCorrect`, `QueueSafe`, `DeletedEmpty`, `JoinedTaskIsQuiet`,
  `MailboxRefinement`.
- `GnssAdapterProofs`. Of `Agps`, the invariant says, per handle, which request and release
  messages may be in the queue in each of the modem's states (at most one of each, the request
  first), and that only created state machines have subscribers. As long as the two threads have
  not met in a state machine, what the task has read of it (`handling`) is still so when the
  handler works on it, and a handle is in the same list. Theorems: `AtlTypeCorrect`,
  `SubscribersMatch`, `Agreement`. Of `NiSession`, it follows a payload from the notification
  to its session, to the thread, and to the message that hands it back, and says that being in
  one of these places excludes the others; the thread of a session's request is the only one
  awake on that session. `PayloadIsDisposedOnce` alone is not inductive because it does not say
  who may still dispose of a payload. Theorems: `TypeCorrect`, `DisposedOnceOnly`,
  `HeldAwaited`, `Consent`.
- `GnssTrackingProofs`. The modem acts upon calls in the order they are made, so the
  invariant is about the last call about the fix that is under way: its options serve every
  session of the map, or, without such a call, those of the fix do, or an engine-up message
  is still to be handled. `TimeSessionsAreServed` is not inductive by itself because it says
  nothing while calls are under way. The lemmas on the multiplexing functions say that each
  makes a call if and only if the options in force no longer serve the map. Theorems:
  `TypeCorrect`, `TimeServed`; the latter needs no assumption on clients (they may be hasty)
  but holds only until a call is refused or a client with time-based sessions is removed.
  The answers are counted: what the client still waits for is the number of messages, calls
  and responses that will report on the session (`Counted`), where `CallShapes` says which
  continuation each kind of call may have. Theorems: `NoAnswerTwice`, without assumption;
  `CommandsAreAnswered`, if every owner of a session has a callback and no
  `stopDistanceBasedTracking()` is refused, because otherwise the code answers nothing
  (section 4). For the clients that wait for their answers, one command of a session is under
  way at a time; `Placed` says for each stage of it in which map the session is, `Idle` that
  the calls under way end with the fix off if there is no session, and `Tracked` that the
  calls and the restart under way leave the modem with the registered distance-based session.
  Theorems: `StoppedIsGone`, `NoFixWithoutSessions`, `DistancesServed`.
- `OsObserverProofs`. The two maps change together in every handler, for the client the
  message names, except for the pairs in `mistaken`: those of a client and an item it had when it
  called `updateSubscription()`. For an item without such a pair, the framework's subscription
  follows the first client to come and the last one to go, until an erased key is read
  otherwise than it was (`misread`). Theorems, of `ObserverSpec`: `MapsInverse`,
  `FrameworkServed`. `ClientsUpToDate` follows
  from what each client was last told; for the XTRA observer, whose messages are queued, the
  last message under way about an item has the cached value, or there is none and its copy
  is current (`Leads`). `ConnectedListed` uses the same form: the last report under
  way about a connected network says so, or there is none and the network is in the table or
  has found it full (`ListedOK`); it holds for any number of reports and any table.
  `DaemonUpToDate`, of `XtraStatus`, adds which items the observer has subscribed to
  (`WantedOK`), what it has copied (`KnownOK`), and what the daemon knows or is about to be
  told (`LinkOK`, `HearingOK`), with `Leads` once more for the messages to the daemon.
- `GeofenceProofs`. An id of a geofence is carried by one command, call or object at a time;
  what is under way about a hardware id is about the geofence that has that id; and the modem
  has what the adapter will have once the messages under way are handled (`Good`). The maps
  then agree because no answer is about a geofence that has lost its hardware id to another.
  `Survive` follows a geofence from the success of its addition: it is in the adapter's map,
  or on its way back after a restart, or something has taken it away (a command to remove it,
  the modem that did not take it back). `mSessionIdCounter` bounds the ids in use, so that a
  new geofence has an id that nothing under way carries. Theorems: `TheMapsAgree`,
  `TheModemAgrees`, `TheGeofencesSurvive`, `BreachesAreTrue`, all without `EarlyCalls` and
  `ReusesIds`: with either, TLC finds counterexamples (section 4). With `ReusesIds`, one is to
  add a geofence, remove it, add a second one, which gets the hardware id of the first before
  the adapter has handled the removal, and have the late "erased" take the object of the
  second.
- `LocationApiProofs`. The invariant follows the messages: one that adds a client that is being
  destroyed is followed by the one that removes it, and an adapter that has yet to remove a
  client is one that `destroy()` waits for. Theorems: `TypeCorrect`, `DeletedForgotten` and
  `ClientRegistered`, the last two without `Narrowing`.
- `BatchingProofs`. Everything that may still answer a command, or make the call whose response
  will, is under way: `CommandsAreCarried` says of each accepted command that has no answer
  that a message, a call or a response carries it, so when nothing is under way it has been
  answered. For each handler, one lemma says what it makes of the adapter and another that it
  drops no command without an answer. The removal of a client works through its sessions one
  after the other (a recursive function): the lemma is that the least number of steps after
  which it could have lost a command does not exist (`Least`, `StepByStep`). Theorems:
  `CommandsCarried`, `AcceptedAnswered`.
  That the modem has the adapter's plain sessions when nothing is under way is not inductive:
  a handler erases a session before the modem has stopped it, saves one before it has started,
  and a restart starts again what responses still under way are about. `SessionsAgree` says
  what holds in between. The responses to come, read as the rest of the queue (`Behind`), are
  in turn: of a session one start at most, after it one stop at most, nothing about it after
  the restart's report, and one response about trips in all (`Ordered`, `OneTrip`). `Tokens`
  relates what is under way to the maps: a session that is being stopped is in none of them,
  one that is being started has the options of its start, a trip is changed only while it is
  the only one. `Served` says which difference between the modem's sessions and the map each
  of them accounts for. As with the property, sessions of which the modem has refused a stop or
  a restart (`refused`) are left out, and what follows a crossing of two calls about trips.
  Theorems: `SessionsKept`, `PlainServed`.
  That the batch full event is registered for is not inductive either. The start of a trip
  beside others registers for nothing, since the others have done it, and queries the modem;
  its response saves the trip later, and if the others had ended meanwhile and disabled the
  event, this trip would go without. `BatchCounted` adds to the property that such a query is
  under way only while there are trips; `SessionsAgree`, which allows one response about trips
  at a time, keeps the others from ending before it. It counts every session that is not
  `noAutoReport`, of which the property's routine sessions are a part. Theorems:
  `BatchFullKept`, `BatchFullReported`.

Properties that are theorems and in no run, because the proofs cover every instance:
`RunningTimerIsTracked` (`RunningTracked`), `StoppedThreadHasEnded` (`JoinedThreadEnds`),
`ReceiverHasQueue` (`QueueSafe`), `DeletedTaskIsEmpty` (`DeletedEmpty`), `NoMessageAfterJoin`
(`JoinedTaskIsQuiet`), `SubscribersMatchState` (`SubscribersMatch`), `MapsAreInverse`
(`MapsInverse`), `ClientIsRegistered` (`ClientRegistered`) and the type invariants (each
`TypeCorrect`).

Only model-checked: liveness under fairness (the liveness part of `ImplementsTimerService`,
`StoppedDelegateIsFreed`, `AcceptedIsHandled`, `DestroyReturns`, `GoodApnsRequestIsAnswered`,
`AtlReleaseIsConfirmed`, `HeldRequestIsSettled`, `DaemonIsInformed`, `CommandIsAnswered`,
`DestroyCompletes`, `CapabilitiesReachClient`), which the prover does not handle;
and two properties of `Batching` (`TripsAreServed`, `NoTripEndsEarly`): they are about minima
over the trips and unsigned differences, which the code computes again in each continuation,
with what it has read before.
Liveness of the commands of `GnssTracking` and
`Batching` is not checked: `AnswersMatchCommands` says that each answer is under way,
`AcceptedIsAnswered` that nothing is left to come without it.

## 6. Not modelled yet, and the plan

In this order:

1. `Odcpi`, on-demand position injection with its timer, on top of `TimerService`.
2. `LocationAPIClientBase`: the FIFOs that match responses to requests, under its mutex.
3. The configuration of `GnssAdapter`: answers of several modem calls collected into one.
4. `LocHeap` as recursive operators, checked against "the top is of the highest rank".
5. `LocIpc` composed with `LocThread`, and `LocApiBase` with its shared task.

Of the components that are partly modelled, section 2 says what is left out of each.

Left out for good: pure I/O and data (NMEA generation, configuration parsing, data items,
HIDL type conversion, gnsspps, thermal, audio service registration, MAC address, recovery,
shims), whose correctness is not about states and orders of events. Together with the
declarations of the data types they are most of the lines of `gps/`.

## 7. Running

    tlc -config LocTimer_safety.cfg MCLocTimer
    tlapm LocTimerProofs.tla

`PROJECT.json` maps every definition to its source lines, names the module and properties of
each run, and lists for each property a mutated form of a definition under which the run
fails.
