# K3-Core: a TLA+ model of its runtimes

K3 is a language for distributed, event-driven programs.  A program is a set of
*triggers* replicated over *peers*; a trigger handles one message at a time and may
send messages to triggers of any peer.  K3-Core runs such programs in two ways: an
interpreter with an engine in Haskell (`src/src/Language/K3/Runtime`), and generated C++
programs with a runtime of their own (`src/runtime/cpp`).  This directory holds TLA+
specifications of the parts of both that carry their own run-time logic, TLC
configurations that check them on small instances, and TLAPS proofs of what holds for
every instance.

Line numbers without a file refer to `src/src/Language/K3/Runtime/Engine.hs`; file names
alone are in `src/runtime/cpp`.

## 1. Inventory

The Haskell side:

| Component | State | Operations | Interaction |
|---|---|---|---|
| **Engine: workers, queues, termination** (192-300, 454-1016) | `queueConfig` (three MVars), `control` (seven MVars), worker threads | `runEngine`, `runMessages`, `enqueue`, `dequeue`, `waitForMessage`, `notifyMessage`, `notifyWorkers`, `terminateEngine`, `killEngine`, `cleanupEngine` | threads share MVars; an `MSampleVar` per worker is the wakeup signal |
| **Network listeners** (914-959) | listener thread, endpoint buffer, `networkDoneV`, `listeners` | `runNEndpoint`, register/deregister, internal and external processors | transport events in; `enqueue` and notifications out |
| **Endpoints and notifiers** (1043-1290, 1385-1395, 1472-1511) | two maps of endpoints, bindings | open, close, hasRead, doRead, hasWrite, doWrite, attach, detach | called by handlers and listeners; notifications are `send`s |
| **Endpoint buffers** (343-352, 1513-1672) | `Single` or bounded `Multiple`, exclusive or shared | append, take, flush, refresh, enqueue | between endpoints and handles or queues |
| **Connections** (381-388, 1403-1470) | anchor endpoint, cache of connections | add, remove, get, clear | used by socket endpoints; `send` retries five times |
| **Message processors** (Interpreter.hs 1300-1482) | per-peer interpreter state | `initialize`, `process`, `status`, `finalize` | called by `runMessages`; handlers call `send` |
| **Dispatch, program builder, type system, transformations, parser, code generation, utilities** | lists, trees, constraint sets | traversals | sequential |

The C++ side:

| Component | State | Operations | Interaction |
|---|---|---|---|
| **Endpoint buffers and bindings** (Endpoint.hpp 61-566) | a value or a list of values, a mutex in the MT classes; lists of subscribers | append, flush, refresh, enqueue, doRead, doWrite, attach, detach | between handles, queues and programs |
| **Message queues** (Queue.hpp) | lock-free queues in one of three containers | enqueue, dequeue, nonEmptyQueue, size | listeners and triggers in, the message loop out |
| **Listeners** (Listener.hpp) | the endpoint, a flag, the list of connections | accept, receive, register and deregister connections, terminate, two processors | the I/O service or a thread of the listener; signal the engine |
| **Execution loop, message processor** (Engine.hpp 55-123, 318-372; MessageProcessor.hpp) | `EngineControl`, the dispatch table | runMessages, processMessage, waitForMessage, messageAvailable | a condition variable |
| **Channel methods, send, endpoint and connection state** (Engine.hpp 126-317, 388-640; Endpoint.hpp 569-890) | two maps of endpoints, two of connections, each map under a lock | open, close, poll, read, write; send with retries; the methods of EndpointState and ConnectionState | called by triggers of any thread |
| **Handles and Nanomsg sockets** (IOHandle.hpp, Network.hpp) | a stream or a descriptor | hasRead, doRead, hasWrite, doWrite, close | descriptors are numbers that nanomsg uses again |
| **Collections** (Collections.hpp) | a list | insert, delete, update, split, combine, map, filter, fold, group_by, ext | generated programs |
| **Asio networking, worker pools, common types** (Network.hpp, Common.hpp) | | | not selected, or no state of their own |

What makes each correct, and what is hard about it:

* *Engine.* No message is lost or reordered within a queue; no worker sleeps while it
  has messages; the engine stops when, and only when, it was asked to or nothing can
  produce work any more; the thread that waits for it is released.  Hard, because the
  decision to stop is taken from seven separately locked variables by threads that
  start, sleep, wake and die concurrently.
* *Listeners.* What is received reaches a queue once and in order; a listener that is
  stopped stops; a connection is served by one handler at a time.  Hard: the handlers of
  several connections share one buffer, and receiving, appending and transferring are
  separate steps.
* *Endpoints, connections, sockets.* What was opened is found and what was closed is
  not; a message that was sent is in a buffer; a descriptor belongs to one handle.  Hard:
  asking and doing are separate calls, and closing races with use.
* *Buffers.* First in, first out, bounded, each value delivered once.  Hard: boundary
  cases of batching and refilling.
* *Collections.* Splitting loses nothing; grouping does not depend on how it is done,
  although `group_by` turns the arguments of its function round after the first call.

## 2. Plan

Done, in order of importance:

1. `EngineWorkers`, `Quiescence`, `MCEngineWorkers`: the Haskell message loop at the
   grain of MVar accesses, and the abstract loop that one worker implements.
2. `EngineWorkersProofs`, `EngineCountersProofs`, `EngineDrainProofs`: types, FinishOne,
   wakeups, counters, the last worker, draining and the refinement.
3. `EndpointBuffers`, `EndpointObject`, `BoundedFifo`, `EndpointProofs`: the C++ buffers,
   and that the containers implement a bounded queue.
4. `MessageQueues`, `ListenerRuntime`, `MCListenerRuntime`, `ListenerProofs`,
   `ListenerOrderProofs`: from the C++ listeners through their buffers and the queues to
   the message loop.
5. `Channels`, `ChannelProofs`: endpoints, sockets, connections and send of the C++
   engine under concurrent calls.
6. `Collections`, `CollectionProofs`: the methods of C++ collections.

`EndpointObject`, `ListenerRuntime` and `Channels` use the same `EndpointBuffers`;
`ListenerRuntime` composes it with `MessageQueues`.

Left: the Haskell endpoints, buffers and connections (the hazards of `PROJECT.json`
name their lines), the steps of the Haskell `genericClose` up to the removal, the virtualized message
processor, and constraint closure on small trees.

## 3. Modules

### EngineWorkers

One action is one access to an MVar (or `MSampleVar`) that another thread can write
differently in between.  `Dequeue` and `DequeueNothing` read the worker map, which does
not change once it is in place, together with their access to the queues.  With GHC's
MVars `readMVar` is one atomic step that waits while the variable is empty; a
`modifyMVar_` whose variable is only ever read and modified is one step as well.  Where
emptiness can be *observed*, taking and putting back are separate steps: the worker map
(`TakeMap`, `PutMap`; `isEmptyMVar` sees it) and the map of MSampleVars while
`notifyWorkers` writes them one by one (`TakeReady`, `WakeOne`, `PutReady`).

| Variable | In the code |
|---|---|
| `queue` | `queueIdToQueue`, with `Route` for `messageToQueueId` |
| `workerMap` | the MVar `workerIdToQueueIds`: empty before `configWorkers`, then full or taken; its contents are `Group` |
| `readyMap`, `sv` | the MVar `messageReadyMap` and the MSampleVars in it |
| `terminateV`, `waitV`, `outOfWorkV`, `awakeWorkersV`, `liveWorkersV` | the same names in `EngineControl` |
| `open` | the registered listeners; `networkDoneV` is their number |
| `wire` | messages still to come from the network |
| `pc`, `out`, `current`, `seen`, `todo`, `status0` | where each thread is and its local variables |
| `extra` | history: messages a worker took since `FinishOne` was set |

| Actions | Code |
|---|---|
| `Enqueue`, `ClearOutOfWork`, `IsEmptyMVar`, `TakeMap`, `PutMap`, `NotifyMessage` | `enqueue`, `lookupWorker`, `notifyMessage` |
| `TakeReady`, `WakeOne`, `PutReady` | `notifyWorkers` |
| `Initialize` ... `Return` | `runEngine`, `forkWorker`, `configWorkers`, `waitForEngine` |
| `IncLive`, `IncAwake`, `Dequeue`, `DequeueNothing`, `Processed`, `Crash` | start of a worker, `processMessage` |
| `ReadTerminate`, `ReadNetwork`, `ReadOutOfWork` | `terminate`, and with `ReadQueued`, `ReadAwake` also `isShutdownTime`; `seen[w].check` says which |
| `DecAwake`, `SetOutOfWork`, `WaitForMessage`, `ReadSV`, `Wakeup` | the `MessagesDone` branch |
| `DieWithError`, `DecLive`, `ReadLive`, `Finalized`, `CleanupEngine`, `Signal` | how a worker dies; `shutdownEngine` |
| `Receive`, `Received`, `EndpointError`, `EndPointClosed` | `runNEndpoint` |
| `CloseEndpoint`, in `EndpointError` and `CleanupEngine` | `genericClose` |
| `TerminateEngine` | `terminateEngine` |

What a handler computes is abstracted to the lists of messages it may send (`Sends`)
and how it may end (`Outcomes`): a result, an `Error` status, or a Haskell exception
(the calls of `error` in `send` and elsewhere), which ends the thread on the spot.
`InitSends` and `FinalSends` are what the program's initialization and its atExit trigger
send, and `CloseSends` what the subscribers of a listener's endpoint are sent when it is
closed.

`genericClose` deregisters a listener and removes its endpoint *before* it notifies the
subscribers (1124-1127), and the notifications are messages like any other.
`CloseEndpoint` does the same: the listener is gone from `open`, and the thread that
closed it, the listener itself after an error of an external endpoint or the worker in
`cleanupEngine`, has the notifications still to enqueue, step by step.  Another thread may
find the network done in between.  `cleanupEngine` closes one endpoint after another, the
internal ones first, and sends the notifications of each before it goes on.  Only external
endpoints can have subscribers (`SubscriberAssumption`): no function attaches one to an
internal endpoint, and `genericOpenSocket` makes them with none (1107, 1114).

The section *Faults* defines variants of single actions with a plausible bug (a dropped
notification, an off-by-one, an inverted test).  They occur in no specification; each
property of a passing run is known to fail when one of them replaces its action.

Left out: `killEngine` (asynchronous exceptions), `Multiprocess` mode (an `error` in
the code), listeners opened while the engine runs, the network send path (a send to
another engine does not touch this one's queues), the steps of `genericClose` up to the
removal, which are one step, the bounded buffer between a listener and its processor,
messages for which no queue exists (`mDie`), and logging.  `waitForNetwork` is a constant
`FALSE`: no configuration in the repository sets it.

### Quiescence

The promise behind the loop: messages wait in order, one is handled at a time, and a
worker retires only after a request to stop, after a failure, or when nothing can
produce work any more.  Nobody waits for *farewells*, the messages that tell of something
that has ended: they may be sent at any time, and may be left in a queue.
`EngineWorkers!ImplementsQuiescence` is the refinement: a worker is retired once it has
left the loop; the sources are the listeners that are registered or still delivering and
the main thread during initialization; the farewells are `LastWords`, the messages of the
kinds that the closing of endpoints and finalization send.  That a farewell may be missed
is what the code does: the worker may retire, and the engine signal its end, between
the deregistration of a listener and the notification of its close.

### MCEngineWorkers

The instances: the queue configurations `peerQSingleW` (one worker, a queue per peer)
and `peerQPeerW` (a worker per peer), and small programs that send to their own peer
and to the others.

### EndpointBuffers, EndpointObject, BoundedFifo

`EndpointBuffers` has the operations of the four buffer classes (Endpoint.hpp 61-450) as
operators on a record of class, maximum and contents: `Put` (append), `Drained` (enqueue),
`Written` and `Flushed` (flush), `Oldest` and `Refreshed` (refresh).  What the classes
share is written once; the mutex of the MT classes covers a whole call.

`EndpointObject` is one endpoint under any sequence of calls.

| Variable | In the code | Actions |
|---|---|---|
| `buf` | `buffer_` | `DoWrite`, `DoRead`, `Enqueue`, `Flush` |
| `isFile` | what the handle is | |
| `subs` | `eventSubscriptions` of `EndpointBindings` | `AttachNotifier`, `DetachNotifier` |
| `told` | to whom the last `notifyEvent` sent | `DoRead` |
| `accepted`, `delivered`, `attached` | history | |

`BoundedFifo` is what a container promises: values leave in the order in which they came,
once each, and no more than the bound are inside.

### MessageQueues, ListenerRuntime, MCListenerRuntime

`MessageQueues` models the three containers as functions from keys to sequences.  They
have no lock, so that `dequeue` is two steps, `NonEmptyQueue` and `Popped`.

`ListenerRuntime` has a thread for each Nanomsg listener, the threads of the I/O service
that run the handlers of Asio listeners, and the thread in `runMessages`.

| Variable | In the code |
|---|---|
| `queues` | the engine's `MessageQueues` |
| `buffer`, `holder` | the buffer of a listener's endpoint and its mutex |
| `msgAvailable` | the flag of `ListenerControl` |
| `terminated`, `connections` | `NanomsgListener::terminated_`, `AsioListener::connections_` |
| `cstate` | what the I/O service has pending for a connection |
| `tpc`, `local`, `wpc`, `wkey`, `wmsg` | where the threads are, and their variables |
| `crashed` | an exception left a thread, or a stack overflowed |
| `serial`, `got`, `taken`, `late` | history |

| Actions | Code |
|---|---|
| `AppendValue`, then `LockBuffer`, `TransferNext`, `ClearBuffer` or `TellSubscriber`, `ToldSubscribers`, then `MessageAvailable` | receiving a message: append, the internal or external processor, `messageAvailable` |
| `Test`, `Receive`, `ReceiveNothing`, `ReceiveError`, `Terminate` | the loop of `NanomsgListener` |
| `PostAccept`, `OverflowStack`, `Accepted`, `AcceptFailed`, `RegisterConnection`, `Announce`, `ReceiveMessages`, `ReadMessage`, `ReadError`, `DeregisterConnection` | `AsioListener` |
| `ChooseQueue`, `PopMessage`, `PopNothing`, `RunTrigger`, `UnknownTrigger`, `WaitForMessage`, `SpuriousWakeup` | `runMessages`, `processMessage`, `EngineControl` |
| `UnpackThrows` | `unpack` of a malformed message |

`acceptConnection` calls itself without end, so the thread that opens an Asio listener
never gets further than that; the handlers run on whatever threads the I/O service has.
`terminateV` is never set and no listener is ever registered with the counter, so they
are constants.

### Channels

Any number of threads call the channel methods, `send` and the methods of
`ConnectionState`.  What one lock protects is one step: looking an endpoint up (`Get`),
one method of it (`DoRead`, `DoHasWrite`, `DoWrite`), adding (`Open`, `Add`),
closing (`CloseHandle`, `Remove`).  `Endpoint::hasRead` asks the handle and then the buffer
with no lock over both, so it is two steps (`HasReadHandle`, `HasBuffered`).  A send is `ShortCircuit`, or `Send` followed by up to
`Retries` rounds of `Get`, `TrySend`, and `AppendSent` or `Reopen` and `Add`.  The calls on
connections are one step each (`AddConnection`, `RemoveConnection`, `RemoveConnectionFrom`,
`ClearConnections`, `ClearConnectionsOf`, `AskConnections`).

| Variable | In the code |
|---|---|
| `internalEndpoints`, `externalEndpoints` | `EndpointState` |
| `internalConnections`, `externalConnections` | `ConnectionState` |
| `owner` | which handle opened each descriptor that is in use |
| `queued` | messages that send put into the queues |
| `simulation` | how the engine was constructed; `Simulation` is what `simulation()` answers, its negation |
| `pc`, `call` | where the threads are, and their variables |
| `crashed` | a null pointer was dereferenced |
| `calls`, `handles`, `returned`, `written`, `overtaken`, `closedTwice` | history |

### Collections

The methods of `Collection` as operators on sequences, and a program that calls them on
two collections; functions that modify the collection they are applied to are left out.
`filter`, `fold`, `group_by` and `ext` are one `Loop` each, a recursive function over the
positions of the list; `GroupBy` is the loop that fills the `std::map` (`Groups`) and the one
that empties it in the order of its keys (`InKeyOrder`).

### How the headers are read

Some of the C++ headers do not compile as they stand.  They are read like this:
`Endpoint` has no `close`, which `genericClose` calls: it closes the handle.
`MultiPeerQueue::pop()` is `pop(entry)`, and `x.second.empty()` asks the queue behind the
pointer.  `Net` is Nanomsg (Network.hpp:347), though Engine.hpp includes the Asio headers.
The placeholders in the names of connection and endpoint classes stand for those of `Net`,
`refresh()` without an argument is given the endpoint's handle, an `IOMode` passed as a
string is the mode of that name, `LoopStatus` is the status of the message processor, and
a queue holds what its key does not say of a message.  `notifyEvent`, which passes the
address and the trigger of a subscriber in the wrong order (Endpoint.hpp:499), sends to
that subscriber.  The thread of a Nanomsg listener runs the listener itself and not a copy,
though `create_thread(*this)` would copy it.  `capacity` of the MT container returns a
`bool`; nothing uses it.  `send` calls `simulation()` as it is written, which says the
opposite of its name (Engine.hpp:393).

### The proof modules

See section 6.

## 4. Runs

`seq_*`, `par_*` use `MCEngineWorkers`.  Deadlock is not checked where a system that has
finished stops.

| Run | Instance | Shows |
|---|---|---|
| `seq_sim` | Uniprocess, two queues, console | `TypeOK`; `ImplementsQuiescence`; `DrainedAtEnd`, `FinishAllDrains`: nothing is left in a queue at the signal, unless FinishOne was asked (the program of this run ends silently, and has no listeners); `Terminates`; `EveryMessageTaken` |
| `seq_net` | Uniprocess, two external sources, one with a subscriber to its close, console | `NoLostWakeup` between listeners and worker; `ImplementsQuiescence`: no retirement while a source can bring anything but the notification of its close; `DrainedAtEnd`: only such notifications are left at the signal; `StopTakesEffect` |
| `par_console` | two workers, atExit sends, console | `CountersAgree`, `NoLostWakeup`, `LastWorkerSignals`, `FinishOneBound`, `StopTakesEffect` |
| `par_error` | two workers, all outcomes, an internal listener, console | `CountersAgree` on the error and exception paths |
| `cpp_buffer` | `EndpointObject`: four classes, maxima 0, 1 and 2, a stream or a socket | `ContainerIsFifo`, `Bounded`, `ScalarLosesNothing`, `SubscribersMatch`, `ImplementsFifo`, `TypeOK` |
| `cpp_messaging` | `MCListenerRuntime`: an Asio listener with two connections on two threads, internal or external, or two Nanomsg listeners, with each kind of queues | `ExactlyOnce`, `SourceOrder`, `BufferBound`, `StopBound`, `ConnectionsServed`, `HandlersFinish`, `TypeOK` |
| `cpp_channels` | `Channels`: two threads, two descriptors, simulation or not | `LossBound`, `PollNeverReads`, `SocketsApart`, `GivesUpWhenFull`, `TypeOK` |
| `cpp_collections` | `Collections`: all pairs of at most five elements | `SplitIsWhole`, `FirstOccurrence`, `GroupsAreFolds`, `ExtSubsumes`, `TypeOK` |

Four runs show where the code does not do what its comments say.

| Run | Comment | What happens |
|---|---|---|
| `v_quiet_par` | 233-234, "all workers are waiting ... out of work" | two workers; `isShutdownTime` combines reads of different moments, one worker dies early and stays counted as awake; the other waits with all queues empty and `runEngine` does not return |
| `v_wakeup` | 219-220, "the worker's SV will be populated" | three workers; a sender finds the worker map empty because another sender is inside `withMVar`, skips the notification, and the owner of the message sleeps |
| `cpp_v_wait` | Engine.hpp:355, "Otherwise, wait for a message and continue." | the predicate that `runMessages` gives to `waitForMessage` (Engine.hpp:363) always holds and is waited on while it holds, so the loop never takes a message after its first wait |
| `cpp_v_close` | Engine.hpp:544, "Remove the endpoint" | `removeEndpoint` (Endpoint.hpp:610) erases from the map of the other kind, so a closed endpoint is still found |

**Bounds.** *Engine.*  Two workers meet in every pair of steps; the third in `v_wakeup` is
needed because a lost notification takes two concurrent senders and a sleeper (with two
workers and no listener there is one sender besides the sleeper, which is why
`NoLostWakeup` holds in `par_console`).  Four messages let a queue hold two and a handler
send two, to its own queue and the other's.  The programs send finitely often, so the
state spaces are finite without a constraint; starvation of a later queue by an endless
sender (`mkDequeue` always starts at the first) is therefore outside the runs.
In `seq_net` one message comes from the network and its handler sends another, which
lets it reach the worker at any point of its checks, and the notification
of the close is a fourth kind of message, so that what is left behind can be told apart;
it is left behind in states that the run reaches.
*Buffers.*  `MaxHistory` 4 is two more than the largest maximum, so that a buffer fills,
is flushed and fills again; maximum 0 stands for an unbounded one.  `MaxAttached` 2 is
what a duplicate subscription takes.
*Messaging.*  Each setup names how many messages arrive or are sent: three where two
threads share a buffer and one of them overtakes with a second message, two elsewhere.
*Channels.*  `MaxCalls` 3 lets two threads race and one of them call once more before or
after; one place in the buffer and two descriptors make both full; two tries are what a
send takes to open a connection and find it (the code has five, Engine.hpp:34).
*Collections.*  Three elements and five places give splits of every parity and groups of
several elements.

**Fairness.** `EngineWorkers!FairSpec` assumes weak fairness of each thread's own next
step: GHC's scheduler is fair to runnable threads and MVars wake waiters in order.
`ListenerRuntime!FairSpec` assumes it of a handler that has a message, of the test of a
Nanomsg listener's flag, and of the message loop: threads of the operating system, and
mutexes that are held for a bounded time.  Nothing is assumed of the environment: messages
need not arrive, endpoints need not fail, and nobody need stop anything.  The other
specifications state no fairness and no liveness.

## 5. What the checks say

*Haskell.*  A Uniprocess engine does what it should, but for the end of its connections:
since `genericClose` deregisters a listener before it notifies, and `cleanupEngine` closes
endpoints when no worker is left, the messages that tell of a close may be enqueued when
nobody takes them any more, and the engine signals its end with them in a queue.
`DrainedAtEnd`, `FinishAllDrains` and `ImplementsQuiescence` allow these and no others.
With several workers the wait and
notify protocol and both counters are right step by step, and a request to stop always
takes effect; what is not right is the distributed decision to shut down without such a
request (`isShutdownTime`, marked "TODO: verify thread safety" in the code) and the test of
`isEmptyMVar` in `lookupWorker`.  The model shows more of this than the runs state.  With
two workers, `outOfWorkV` may be set under a worker that has messages, which then retires
after its next one (239, "Off -> Continue Processing Messages"); after `terminateEngine
False` a worker that is done dies, and may signal, while another queue is full (241, "Drain
all queues, then die"); and workers that end in the `Error` branch (750) never check whether
they were last, so nobody signals (214-215).  `DrainedAtEnd` and `FinishAllDrains` are
therefore about one worker, and `LastWorkerSignals` about workers that do not fail.

*C++.*  Buffers, listeners, the sharing of sockets and collections hold what they promise;
what a full buffer or a race of two senders loses is bounded, in an engine constructed as a
simulation (`LossBound`).  In network mode nothing bounds the loss: `simulation()` says the
opposite of its name (Engine.hpp:393), so a send to a remote peer goes to the queues,
which drop it, and returns normally.  The message loop does not come back from its first
wait, and closing an endpoint does not remove it.  Whoever polls before reading never reads,
unless something was written to the endpoint or another thread reads it between the poll's
look at the handle and its look at the buffer (`PollNeverReads`).  With a queue per peer or per trigger
`nonEmptyQueue` looks for an *empty* queue (Queue.hpp:221; Engine.hpp:332 wants a message
from it), so `dequeue` finds nothing while messages wait; `QueuedIsTaken` is run on a single
queue to show the wait by itself.

## 6. Proofs

All theorems hold for every value of the constants that satisfies the named assumptions
of the modules; further assumptions stand in the theorem.

**EngineWorkersProofs**, from `ThreadAssumption`, `QueueAssumption`, `MessageAssumption` and
`SubscriberAssumption` (threads are distinct and finite in number, every queue has exactly
one worker, Uniprocess means one worker, routes and sends are over the declared messages,
no internal endpoint has subscribers):

* `TypeCorrect`: `Spec => []TypeOK`.  `TypeOK` is inductive.  Its one clause that is
  not about types, that a thread inside `enqueue` still has the message at the head of
  its list, is what makes `Head(out[t])` in `NotifyMessage` meaningful.
* `FinishOneHolds`: `Spec => []FinishOneBound`.  `FinishOneInv` adds where a worker that
  took its message can be: handling it, on its way out, or in `terminate True` with
  `terminateV` not read yet or read as `FinishOne`; from none of these is there a way
  back to `dequeue`.  It also needs that the console has not called `terminateEngine`
  twice, since a later `FinishAll` would overwrite the request.
* `OneWorkerNoLostWakeup`: with one worker, `Spec => []NoLostWakeup`, for any number of
  listeners.  `TwoWorkersNoLostWakeup`: with two workers and no listener as well.
  `WakeupInv` says that from the moment a worker has found its queues empty (`Unaware`)
  any message in them is `Covered` by a full MSampleVar or a thread that will fill it, and
  that a taken worker map has a holder inside `enqueue`.  `WakeupStep` shows it inductive
  for *any* engine, from one hypothesis: that a sender that finds the map taken, and skips
  its notification, leaves it to somebody else (`SkipIsSafe`).  With one worker the holder is
  notifying that same worker.  With two, the only other sender is the worker that the
  message is for, and it is awake; that the main thread is out of `enqueue` by then is
  `MapInPlace`.  With a third sender, a worker or a listener, the hypothesis fails, and the
  property with it (`v_wakeup`).

These rest on locality lemmas (`SendLocal`, `NotifyLocal`, `WorkerLocal`,
`ListenerLocal`, `MainLocal`, `ConsoleLocal`): a step of one thread leaves the local
state of the others alone, but for the main thread, which starts workers.

**EngineCountersProofs**

* `CountersExact`: `Spec => []CountersAgree`, for any number of workers and all
  outcomes.  `CounterInv` adds `Idle`, that a worker that has a message is inside
  `enqueue`; it tells a handler's sends, which end in a status, from those of the atExit
  trigger, which end in the cleanup.  `OneMore`, `OneLess` and `AsMany` turn a step of one
  worker into arithmetic.
* `LastOneSignals`: if the only outcome is a result, `Spec => []LastWorkerSignals`.  The
  invariant is `NoFailure` and `SomebodyLeft`; by the exact counter, a worker that reads a
  number other than zero leaves somebody behind who will read it later.

**EngineDrainProofs**, for one worker:

* `OneWorkerDrains`: `Spec => []DrainedAtEnd`, with any listeners.
* `OneWorkerFinishesAll`: `Spec => []FinishAllDrains`, without listeners.
* `OneWorkerImplementsQuiescence`: `Spec => ImplementsQuiescence`, with any listeners,
  if there is no outcome `error`.  A worker is retired once it has left the loop; every step
  is one of `Quiescence` or changes nothing that it sees.

What is left at the signal are `LastWords` at most.  The properties say nothing of how the
worker concluded that it may retire.  `DrainInv` does: what it has read of the queues and of
the network is still true, but for last words, when it uses it (`FoundNone`,
`NetworkIsDone`), because there is no other worker to overtake it and a listener that was
closed has nothing to bring but the notification of its close; outside the handler of a
message the worker sends last words only (`SendsLast`); that it is out of work
(`SaysOutOfWork`) is concluded from such reads only; and from there to the signal nothing
else is left (`LeavesNothing`).  With two workers `FoundNone` is what breaks.

**EndpointProofs**, from `ValueAssumption`:  `ContainersAreFifo`, `BuffersAreBounded`,
`ScalarsLoseNothing` and the types of the data are one inductive invariant, `Safe`;
`ContainersImplementFifo` shows every call to be a step of `BoundedFifo` or a stutter, for
every maximum.  `SubscriptionsAgree` is about the bindings; `detachNotifier` is `Without`,
which names the n-th element left by its rank among those kept, and `Ranks` shows that the
ranks are a bijection (the recursive `SelectSeq` could not be reasoned about).
`EndpointTypes` takes both together.

**ChannelProofs**, from `ChannelAssumption` (finitely many threads, disjoint identifiers,
at least two tries):

* `ChannelTypes`: `Typed` adds to `TypeOK` what each step of a call carries (`CallsFit`).
* `LossIsBounded`: `Counted` counts the threads that have been told there is room and have
  not appended yet (`Late`); whoever fills the buffer ends the growth.  It holds of an engine
  constructed as a simulation, whose send goes to connections.
* `SendGivesUpWhenFull`: `Retried` says that a send past its first try has a connection,
  which it then finds full; with one try this would not hold.
* `PollsAreInVain`: an endpoint nobody wrote to has an empty buffer or a handle that has
  nothing more to give (`SilentUntilWritten`), and a thread between the two questions of
  `hasRead` has an empty buffer before it unless another thread has read since (`PollSafe`).
* `SocketsStayApart`: `OwnSocket` is about all places a handle can be in, the maps and the
  variables of threads that are about to add it.

**ListenerProofs**, from `ListenerAssumption` and the assumption on the queues:

* `ListenerTypes`: `Typed` adds what the threads rely on.  That `dequeue` chooses one of
  the container's queues needs a least index, which is derived from the well-foundedness
  of the subset ordering on finite sets (`LeastIndex`), since induction is out of reach.
* `StopIsBounded`: a listener that has received a message since it was stopped is not
  waiting for another (`Stopped`).
* `BuffersStaySmall`: `BufferBound` is inductive; each append adds a carrier to the count,
  and a carrier leaves only by clearing the buffer.
* `ConnectionsAreServed`: `Served` says that a handler has its connection to itself.
  `ServedHandOver` is the one lemma for all steps by which a thread takes up or gives up
  a connection.

**ListenerOrderProofs** extends it: `ReceivedExactlyOnce` and `SourcesInOrder`, under
`RoomForAll`, that a bounded buffer has room for one message of each service thread.  The
hypothesis is needed, since `append` drops the value when the buffer is full and the
processor does not look at its result (Listener.hpp:116).  The code satisfies it: the
default buffer holds 100 values (Engine.hpp:33), and an Asio listener makes one service
thread (Listener.hpp:223), so it holds for up to 100 of them.  One inductive invariant,
`FollowedInv`, implies both.

* `Followed(s, i)` says where the `i`-th message of a source can be: with the one thread
  that handles a message of that source, in the buffer of its listener, at one position of
  the queue, or at one of what the engine has taken.  It follows a message through
  `append`, through a transfer by a thread that need not be its own, and through the queue.
* Part of it is that only the *newest* message of a source can be outside the queues: a
  handler reads its connection again only after `enqueue`, which has emptied the buffer.
  That, and not any order in the buffer, is why messages do not overtake each other, and
  `InOrder(s)` follows step by step.
* `HandlerInv` and `Locking` say whose message a thread has and that the holder of a
  buffer's mutex is carrying it over; `StepKinds` reduces every step of the system to one
  of five kinds (a calm step, an arrival, an append, a transfer, a pop), and there is one
  lemma for each.

**CollectionProofs**, from `ElementAssumption`, for lists of every length: the bound
`MaxSize` keeps the state space finite and is used in no proof.

* Induction over lists is not available as a rule here, but an induction over *sets* of lists
  is a lemma: a set of lists that has the empty one and is closed under `Append` has them all
  (`ListInduction`, from `LeastPosition` and so from the well-foundedness of the subset
  ordering).
* A loop is a recursive function chosen by its equation.  `RunExists` and `RunUnique` show
  that there is exactly one for `Fold`; `FilterIsFold`, `ExtIsFold` and `GroupsIsFold` reduce
  the other loops to it.  What they give for the empty list and for one element more
  (`FilterLaws`, `ExtLaws`, `GroupsLaws`) is all that the theorems use of them.
* `CollectionTypes`: the two collections hold elements (`Typed`, which is inductive).  The
  others follow from `Typed` by induction over the lists: `SplitKeepsAll` (`FoldConcat`),
  `SameOccurrence`, `ExtIsGeneral` and `GroupingIsFolding`.
* `SameOccurrence` needs that there is a first occurrence (`FirstIs`) and where the others
  are after it is deleted (`DeleteShifts`, a bijection of places).
* `GroupIsFold` shows what the calls of `f` with the element first ask of `f`: that it
  commutes.  It need not be associative.

All inductive invariants, or the properties they strengthen, were checked by TLC on the
instances of the runs first.  Only model-checked are the liveness properties (`Terminates`,
`EveryMessageTaken`, `StopTakesEffect`, `HandlersFinish`), which depend on fairness.

## 7. Not modelled

* *Haskell.*  Endpoints, buffers, connections and notifiers; `killEngine`; the steps
  of `genericClose` up to the removal; the message processors beyond how a handler ends; K3 programs.
  The C++ runtime has counterparts of most of these, which are modelled; the hazards in
  `PROJECT.json` name the Haskell lines.
* *Sequential code over trees.*  Evaluation of expressions, the parser, code generation,
  transformations and the type system: a model would repeat the code.
* *C++.*  The bytes that devices move and how values are packed; the Asio half of
  Network.hpp, which is not selected; the worker pools, which nothing in the engine
  calls; exceptions thrown by triggers and by sends to unknown schemes; functions that
  modify the collection they are applied to; `LockingMsgQueue`, `ListenerControl::waitForMessage`,
  `ListenerCounter`'s register and deregister, which have no caller; methods with empty bodies
  (`refreshSenders`, `forkEngine`, `terminateEngine`, `cleanupEngine`).
