# Verification of Arras and of MoonRay's render driver

TLA+ models of the distributed part of OpenMoonRay and of the driver of its
renderer, TLC configurations that model-check them, and TLAPS proofs of their
main theorems. Paths below are relative to `src/source/`.

Contents: 1 the system, 2 the modules, 3 correspondence with the code,
4 runs and bounds, 5 fairness, 6 proofs, 7 findings, 8 what is not modelled,
9 plan.

## 1. The system

OpenMoonRay renders a frame on several machines. Arras is the layer that
distributes it: a *Coordinator* receives a client's wish for a *session*,
allocates the session's *computations* on *nodes*, and asks each node's
service (HTTP) to run them. A node runs every computation in a process of its
own, and a router passes messages between computations, nodes and clients.
The processes that render are computations among others; inside one, MoonRay's
render driver starts and stops frames and shares their tiles among threads.

```
 client --- HTTP ---> Coordinator --- HTTP requests ---> node service
    \                     ^  events                       | ArrasSessions, Session
     \                    +-------------------------------| ArrasController
      \  socket                                           | ProcessManager --- fork/kill/waitpid
       +----------------> node router <---- IPC socket ---+
                              ^                           v
                              +------- IPC socket ---> execComp: MessageDispatcher
                                                                 + the computation
```

| component (code) | state it keeps | operations | what is hard about it |
|---|---|---|---|
| Processes (`arras/arras4_core/arras4_core_impl/lib/execute`) | per process: state, pid, exit status, reserved and borrowed memory; the tables of processes and pids; the memory ledger | addProcess, spawn, terminate, removeProcess; threads for termination, exits and out-of-memory | two mutexes taken in both orders, exits that race with fork, time-outs that race with exits, a ledger used in several steps |
| Node sessions (`arras/distributed/arras4_node/lib/session`) | per session: Free/Busy/Defunct, shutting down, its operation and expiration threads, its computations; the map of sessions and `mClosed` | create, modify, delete, signal, client connected, expire, shutdownAll, destruction | requests, operations, the expiration and the shutdown of the node overlap; threads joined under mutexes; failures in the middle |
| Message dispatcher (`arras4_core_impl/lib/shared_impl`, `lib/message_impl`) | state, exit reason, two queues, four threads, the endpoint | send, startQueueing, startDispatching, postQuit, postError, waitForExit | errors in three threads at once, shutting down what other threads wait on |
| Computation host (`arras4_core_impl/cmd/execComp`, `lib/computation_impl`) | how far the computation is configured, `mGo`, the performance monitor | load, initialize, wait for go, start, dispatch, stop, exit code | a stop, a loss of the connection or an error at any point of it |
| Node router (`arras4_node/cmd/node/router`) | the tables of endpoints, routing data, stashed messages; per endpoint a queue, a connection and two threads | accept, route, kick, connect to another node, flag and destroy endpoints | messages before their client, clients that come as their session ends, two nodes that connect to each other, connections that fail, endpoints destroyed by whichever thread lets go last |
| Coordinator (`arras/distributed/minicoord`) | nodes with their free resources, sessions with their allocation and the count of ready computations | create, terminate, register, unregister, ready events; calls to nodes within each | requests that fail half-way, nodes that call while they are called, nodes that are busy, stop or crash |
| Chunking, addressing (`arras4_core_impl/lib/chunking`, `lib/routing`) | partial messages; who hears what | split, join; resolve | order and limits |
| Client (`arras4_core/arras4_client`) | connection and session state | connect, send, shutdown, callbacks | callbacks on threads of their own |
| Render driver (`moonray/moonray/lib/rendering/rndr`) | the frame's flags, the render thread, the threads of `renderPasses`, the tile work queue with two atomics | start, stop (at once, when displayable, at a pass boundary), render passes, snapshot, checkpoints | a barrier and a cancellation that may meet, a work queue without a lock, a stop at any moment |
| Distributed rendering (`moonray/moonray_arras`) | progressive frames per machine | merge, complete | frames that arrive partly and out of order |
| Rendering algorithms, scene description, shaders, GUI | numbers and attributes | - | floating point and SIMD code |

What makes them correct:

* **Processes.** A process reported as terminated has no child; no child is
  ever lost; a process has one exit status; memory is given back once and not
  before the child is gone; the two mutexes cannot deadlock; terminate and
  removeProcess come to an end.
* **Sessions.** One operation at a time per session; nothing runs for a session
  that is Defunct; no computation is out of reach of a later delete; threads
  do not outlive their session; a welcomed client's session does not expire;
  every request is answered and the node's shutdown returns.
* **Dispatcher and host.** The computation is called in the promised order and
  by one thread at a time; messages are handled and written in order, once;
  the exit code tells why the process ended; nothing is used after it is gone;
  the process ends when it was told to.
* **Router.** A client gets the messages of a source in order and once, those
  from before it came included; no thread uses an endpoint that is destroyed;
  a session that is ended lets its client go; two nodes end up with one
  connection, whichever calls first, and it carries what was queued before;
  nothing arrives twice, and until a connection fails everything arrives in order;
  endpoints are destroyed without anybody waiting for ever.
* **Coordinator.** No memory is given away twice or given back twice; nothing
  of a session runs before all of it is ready; a request or an event never
  waits for ever; what runs on a node fits there.
* **Render driver.** Each sample of a frame is taken once and none after the
  frame's end; the two atomics of the queue cut the same groups; a frame that
  is shown or called complete is that; every frame ends.

The remaining components, and why some of them are not modelled, are listed
in `PROJECT.json` and in section 8.

## 2. The modules

| module | what it is |
|---|---|
| `MemoryTracking` | the memory ledger as operators, with the width of its counters |
| `ProcessManager` | `Process` and `ProcessManager` with all their threads |
| `ProcessLifecycle` | what a caller may rely on of a process (abstract specification) |
| `ProcessManagerProofs` | theorems about `ProcessManager` |
| `NodeSessions` | `ArrasSessions`, `Session`, `Computation` and the handlers that use them |
| `SessionLifecycle` | what the Coordinator is promised of a session (abstract specification) |
| `NodeSessionsProofs` | theorems about `NodeSessions` |
| `ThreadsafeQueue` | the queue as operators |
| `MessageDispatcher` | `MessageDispatcher` over a `PeerMessageEndpoint`; extended by its owner |
| `ComputationHost` | `ExecComp::run` and `CompEnvironmentImpl` around the dispatcher |
| `ComputationLifecycle` | what a computation may rely on (abstract specification) |
| `ComputationHostProofs` | theorems about `ComputationHost` |
| `RouterClients` | the router of a session's entry node, its clients, and what `ArrasController` says to it |
| `RouterClientsProofs` | theorems about `RouterClients` |
| `NodeLink` | the routers of two nodes and the connection between them |
| `MessageLink` | what two nodes expect of the routers between them (abstract specification) |
| `NodeLinkControlProofs` | theorems about `NodeLink`: endpoints, threads and connections |
| `NodeLinkProofs` | theorems about `NodeLink`: the messages |
| `Coordinator` | minicoord, with what it sees of its nodes |
| `SessionStartup` | what the Coordinator promises of a session's start (abstract specification) |
| `CoordinatorProofs` | theorems about `Coordinator` |
| `TileWorkQueue` | the tile work queue: how a frame is cut into passes and groups, as operators |
| `RenderDriver` | `RenderDriver` and the calls of `RenderContext`, over `TileWorkQueue` |
| `RenderedFrame` | what a frame promises the application (abstract specification) |
| `RenderDriverProofs` | theorems about `RenderDriver` and `TileWorkQueue` |
| `MC...` | the modules TLC is started on, with their `.cfg` files |

`MessageDispatcher` has no `Next` of its own: its owner decides who sends, who
stops it and what the handler does, so `ComputationHost` composes the two.
`NodeSessions` stands on `ProcessLifecycle`: a computation's process there has
exactly the lifecycle that `ProcessManager` is shown to implement, and the
fairness it assumes of a process being terminated is the run-checked property
`TerminationCompletes`. `ComputationHost` models what happens inside a child of
`ProcessManager`; being killed from outside is `ChildExits` there.
`Coordinator` is the other end of `NodeSessions`: of a node it keeps whether a
session there is Busy, Free, failed or gone, which is the state `SessionLifecycle`
lets another component see. `RouterClients` contains the notices between
the router and `ArrasController`, of which `NodeSessions` sees the client's
connection.

A step of a model is what a thread does between two points where another
thread can get in. Where several such points are merged into one step, the
module says so, and the merged parts touch nothing that another thread can
tell apart.

## 3. Correspondence with the code

`PROJECT.json`, "map", gives the lines of every definition. In outline:

**ProcessManager.** Variables keep the names of the members (`mState`, `mPid`,
`mReservedMb`...); `spawner`, `terminator`, `remover`, `monitor` and `oom` are
the program counters of the threads; `os` is the kernel's view of the child;
`signalled` and `told` record calls of `kill` and of the observer. `spawn` is
`Spawn`, `ReserveMemory` with the loop over borrowers (`FindBiggestBorrower`,
`KillBorrower`, `ReserveAgain`...), `Fork` or `ForkFails`, and `PostFork`, all
of them under the state mutex (`StateLocked`). `terminationProc` is
`RequestStop`, `SendTerm`, `SendKill`, `GiveUp`, and a wait may end because the
exit was seen or because it timed out. The exit monitor is `ReapChild`,
`HandleChildExit`, `MarkTerminated`; it holds `mProcessesMutex` between the last
two (`ProcessesLocked`). The ledger's counters are `% WORD`.
Abstractions: `Process::reset` has no caller, so a process is forked once and
is its own pid; the observer is called in the step that changes the state; the
out-of-memory monitor looks at one group at a time; sizes are small numbers.

**NodeSessions.** `request[r]` is what an HTTP worker thread does for request
`r`, `operation[r]` the thread that request started (`updateProc`,
`deleteProc`), `operation[Main]` the `deleteProc` that `syncShutdown` runs
in the main thread; `handler` is the message handler thread, `expirer` the
expiration threads. `SessionsLocked` and `ComputationsLocked` say which thread holds
`mSessionsMutex` or `mComputationsMutex` across steps. The refusal of a
request, a failed update, a router that does not acknowledge and a wait that
times out are disjuncts of the steps in which they occur.
`DestroySession` to `SessionDestroyed` are `~Session`, run once the last
`Session::Ptr` is gone (`Referenced`). Abstractions: an id is created once, as
the Coordinator does; stopping several computations is one step, since each
stop commutes with everything else; a client connects only after its create
was answered; waits may time out at any time.

**MessageDispatcher and ComputationHost.** `master`, `incoming`, `handler`,
`outgoing`, `main` and `monitor` are the six threads. `StateLocked` is the
master's hold of `mStateMutex` while it shuts queues and endpoint down.
`mShutdown` (the endpoint's flag) and `socket`, the ends at which it is closed,
are separate, because their order decides which exception a reading thread gets.
Only an orderly close that a read meets is a `PeerDisconnectException`, which
`PeerMessageEndpoint` makes a `ShutdownException` if its flag is set and which
otherwise ends the run as a lost connection (`ReadEnds`). A read that
is reset (`ReadIsReset`) and a write to a socket that is closed at either
end (`PutFails`) throw a plain `PeerException` (`SocketPeer.cc:490-498, 561-569`), which
nobody converts: the dispatcher posts `MessageError`, the process ends
with INTERNAL_ERROR. So a lost connection is reported as one only if a read meets it
and nothing else fails, although `DispatcherExitReason.h:16` explains `Disconnected`
as "Socket disconnected". `stream` is what the
socket holds; an item is a message with its number, a malformed message, or a
control message. `causes` is a history variable: what has happened that may
end the run. It is set where a thread meets a failure, before and apart from the
step in which the failure is posted to the dispatcher. Abstractions: a thread's loop test is made in the step that ends
a pass; the two queues are shut in one step and
the three joins are one, no thread waiting for two of them; the contents of
messages, heartbeats and configurations are left out.

**RouterClients.** `at[t]` and `hold[t]` say where a thread of the router is and
which endpoint it holds a shared pointer to; `mClients` is `PeerManager`'s
pointer; `mEndpointsToDelete` holds bare ones. `Release` is the end of the scope
of such a pointer: the last one to let go runs `~RemoteEndpoint`
(`Stopped`, then `Destroyed` once both threads of the endpoint have ended).
`sendToLocalClient` is `FindClient` and then `QueueToClient` or `StashEnvelope`,
with the second look of `stashEnvelope` under the mutex in `Stash`; `kickClient` is
`KickClient` to `ReleaseKicked` or `ClearStashedEnvelopes`. `mMutex` of `PeerManager` is held over
several steps in one place only: `eraseIfFound` destroys what it erases
under it, so the router keeps it until both threads of the endpoint have ended
(`Locked`). Every other look into the tables is one step and waits for it: that of a
source, of a kick, and of a receive thread that routes what its client has sent
(`ReceiveEnvelope`, then `RouteReceived`). A session's end in `Session::deleteProc` takes
three steps: the kick (`EndSession`), the message that deletes its routing data
(`ShutdownSession`), and only then Defunct (`BecomeDefunct`). Until then
`isActive` is true, and a "connected" that the node service handles is answered by
`stopExpiration`; after it, by a kick (`HandleNotice`, `MustGo`). `toService` is the queue of
these notices, in turn. Abstractions: one
session; what a client sends is not followed beyond the tables; endpoints of computations, whose
receive threads wait for the mutex just as well, are left out; the wait for the
queue to drain before a kicked client is flagged may end at any time, being timed.

**NodeLink.** A connection is named by the endpoint that made it
(`wire`), because an endpoint makes at most one. `Route` is `routeMessage` for
another node, in the thread of an endpoint; `Router` is the loop of
`NodeRouter::threadProc`: accept, call back (`MustCallBack`, `Reciprocate`), give
the connection to the endpoint that waits for it (`SetPeer`), destroy what is
flagged. `Sender` and `Receiver` are the two threads of an endpoint, including
their waits for a peer. `AwaitPeer` tests and begins to wait in two
steps, as the condition variable does. `delivered` is what was read from a connection:
the receive thread then routes it, for which it needs the mutex of the tables
(`RouteReceived`), and a router that destroys an endpoint holds this mutex
(`Locked`). Abstractions: the lesser node's connection
carries no message, so it is only what it makes the greater do; a router that deletes
a peer its own threads use may crash (`ReplacePeer`).

**Coordinator.** `request` is the request the single thread works on, with the calls to
nodes it still has to make (`InOrder`); an HTTP call is one step in which the
node answers, refuses or cannot be reached (`Answers`, `CallFails`). `free` and
`perSession` are `NodeResources`; `Satisfies`, `Cores`, `AllocateOne` and the two
passes of `AllocateAll` are the allocation. `events` is a node's event queue, whose head is taken when the
answer to the one before is there (`TakeEvent`). Abstractions: of a node's session only
Busy, failed, Free, Defunct or none; cores and memory are small numbers.

**RenderDriver.** `app` is the thread of the application, `at` the place of the render
thread, `worker[t]` that of each thread that `renderPasses` starts; the flags keep
the members' names. `mGlobalGroupIdx` and `mOffset` are the two atomics of
the queue: `LetThrough` is the first, `ReadOffset` and `ReserveNextTileGroup` the load
and the compare-and-swap of the second, with other threads in between. `TilesPerGroup` to
`PassInfos` are the cut of a frame into groups. A step is what a thread does
between two accesses to what another thread writes. Abstractions: a pass takes its samples
of a tile at once; `CancelCheck` is made once per tile; `film` counts
how often a tile was rendered in a pass.

## 4. Runs and bounds

| run | configuration | shows |
|---|---|---|
| `process` | 2 processes that fit, fair threads | the properties of the process manager: safety, action, refinement and liveness |
| `process_loans` | 2 processes that do not fit together, loans, out-of-memory monitor, controller; 1.2 million states | a spawn that kills a borrower never waits for another spawn |
| `sessions` | 1 session, 1 computation, 3 requests of any kind; 1.9 million states | the safety properties of sessions and the promised lifecycle |
| `sessions_live` | the same with 2 requests, fair threads; 51 thousand states | operations end, requests are answered, deletes take effect, shutdown returns |
| `host` | 2 messages, 1 message sent, each control message and a malformed one once, the connection closed or reset at any time; 951 thousand states | calls in order, exit codes, order of messages, lifetime, termination |
| `router` | 2 clients, of which the first also sends, 1 source of 2 messages, the session ends at any time or never; 632 thousand states | order and completeness of what a client gets, no use of a destroyed endpoint, a client that was tracked before the kick is handled or announced when the session is Defunct is closed |
| `link` | 2 nodes that send 2 messages and 1, 3 endpoints each, 1 fault; 142 thousand states | one connection; a link over which nothing is read twice, left out until the fault or out of order, at the greater node until the fault; arrival of all that was sent |
| `coordinator` | 2 sessions (2 computations and 1) that do not fit on 2 nodes together, 1 fault; 195 thousand states | accounts, the promised startup, requests and events come to an end |
| `render` | 2 frames of 3 tiles in up to 3 passes on 2 threads: BATCH, PROGRESSIVE with and without display filters, and PROGRESSIVE on one of two machines, but no BATCH frame that machines share; 735 thousand states | the work queue, the promises of a frame, every frame ends |
| `process_group`, `sessions_handle`, `coordinator_fit` | | violations, section 7 |

Why these bounds are enough for what the runs ask:

* Two processes let a spawn meet every phase of another process's life; every
  property of `ProcessManager` speaks about one process, or about one that
  acts on another, except the ledger's sum, for which
  `MCProcessManagerShort.cfg` takes three. The proofs of section 6 remove the
  bound where it matters most.
* Three requests on one session allow an operation under way, a second one that is
  accepted as it ends, and a third that races with both, besides the four
  threads that need no request. Sessions share only the map and its mutex,
  which the main thread and the requests on one session already contend for.
* Two messages show an order; one message left to send after "ready" lets a heartbeat or a
  computation's own message meet the shutdown of the queue. An item of each
  kind that ends a run, once, is all that can change the exit reason, since
  the first that is noticed makes the dispatcher Exiting and the second
  meets it there.
* The second client of `router` connects before the first endpoint is
  destroyed or after it, and finds the stash of the first or its own; messages
  of different sources share nothing but the queue, whose order is each
  source's. No property relates more than two endpoints. That only the first client sends
  (`Talkers`) is for time; one is enough for a receive thread that waits for the mutex.
* In `link` the node that must be called back sends two messages, so that one can
  be queued before the connection and one sent over it. One fault makes both nodes
  replace their endpoints; the third endpoint is for the connection
  that the other node asks for meanwhile. A connection is either reset, or refused,
  or dropped with the session. That order is lost at the greater node takes a second
  message each way (`MCNodeLinkOrder.cfg`, section 7); the theorem of section 6 says
  what holds for any number.
* In `coordinator`, one session has a part on each node, or both on one,
  according to the order in which nodes registered; the other needs what
  the first has. A second fault would leave no node.
* `render` cuts a pass of three tiles into groups of two, so that the last
  group of a pass is short, and a pass of many samples into groups of one. Two
  threads are enough for all the pairs of a thread that waits, takes, or leaves with
  one that does another of these.
* `WORD` is 16 in the runs, so that a counter that is lowered too often wraps
  around within reach; it is 2^32 in the code.

Bounds in guards: `MaxMessages`, `MaxAccepted`, `MaxUnread` of
`ComputationHost`, `MaxClients`, `Talkers` and `MaxMessages` of `RouterClients`,
`MaxMessages`, `MaxEndpoints` and `MaxFaults` of `NodeLink`, `MaxFaults` of
`Coordinator`, `MaxFrames` of `RenderDriver`, named where they are used; the
node also sends nothing that only a dispatcher that is already Exiting could read.

`CHECK_DEADLOCK FALSE` is given where the system may really stop: a host
process that has ended, a spawn that waits for ever (the
run in which memory is short), routers, a Coordinator and an application that
have nothing more to do within the bounds. In the other runs the states in which
everything has come to rest are named (`AllRemoved`, `AllQuiet`) and allowed to
stutter, and any other stop is an error.

Every property of a passing run is shown to be able to fail: for each there is
a plausible mistake in a mapped definition (a dropped guard, a swapped order, a
missing join), kept next to the definition as "Mutant of ...", with which TLC
finds the property violated.

## 5. Fairness

Fairness is weak, and per thread: a thread that can run does run, a timed wait
eventually times out, and a call of a computation returns or throws. Nothing
is assumed of callers, of clients, of the other end of a socket, of children
that nobody kills, nor of a child that was sent SIGKILL. `NodeSessions` assumes
that a process being terminated eventually is Terminated: `TerminationCompletes`
of `ProcessManager` (a part of `EveryWaitEnds`), which holds
there even for children that never die, because the termination thread gives
up. Mutex acquisition is modelled as a guard, so weak fairness of a waiting
thread is the assumption that a mutex that stays free is taken. A thread that holds a
mutex for ever is not excluded: the router does in
`MCRouterClientsJoin.cfg` (section 7), and the liveness properties of the run `router` hold in spite of
it.

* `RouterClients`: the router thread, the thread that serves the node service,
  the threads of each endpoint, a source once it has begun to route a message, and the node
  service's handling of notices and its deletion of a session once it has begun, each by
  itself. Clients connect, send and leave as they please, and the session need not end.
* `NodeLink`: the threads of a router that has not crashed. No router is
  assumed to learn of the session or to have a message to route.
* `Coordinator`: its one thread, and that it takes a request or event that
  waits. Nodes and clients do as they please.
* `RenderDriver`: the render thread and the threads of `renderPasses`. The
  application may never ask for anything again: a frame ends of its own accord.


## 6. Proofs

TLC looks at the small instances of section 4. The theorems below hold for
every value of the constants that satisfies the named assumptions, which TLC
evaluates in every run of the module that declares them.

**`ProcessManagerProofs`**, for any set of processes, any sizes, any amount of
memory, any width of the counters and any setting of the options
(`ProcsAssumption`, `MemoryAssumption`, `OptionAssumption`, `WordAssumption`):

| theorem | property |
|---|---|
| `TypeCorrect` | `TypeOK` |
| `TerminatedProcessIsGone` | `TerminatedIsGone` |
| `NoChildIsLost` | `ChildIsWatched` |
| `StatusIsUnique` | `OneExitStatus` |
| `LocksCannotCycle` | `NoLockCycle` |
| `ReservationsOutliveChildren` | `ReservationOutlivesChild` |
| `BorrowersAreOutOfSpawn` | `BorrowerIsNotSpawning` |
| `LedgerBalancesWithEnoughMemory` | `LedgerBalances`, if `EnoughMemory` |
| `LedgerBalancesUnlessOvertaken` | `LedgerBalances`, if `SmallNumbers` and nobody overtakes |
| `NodeIsNotOverbooked` | none: on the same conditions, processes hold no more than the node has |
| `NobodyStartsShort` | none: if `EnoughMemory`, no request is refused |
| `CollectorNeverReturns` | none: a spawn that kills a borrower waits for ever |
| `ZeroMeansReserved`, `WhatIsLeftFits` | none: what `reserve()` answers |
| `ManagerImplementsLifecycle` | `ImplementsLifecycle` |

None of the safety properties is inductive as it stands. That a terminated
process has no child is only preserved because the exit monitor hands over a
process after its child was reaped, and that in turn because it looks up
pids in a table that says exactly who has a child. `IInv` is the conjunction
of these steps: a process whose spawn is under way has not been spawned
(`SpawningIsBeforeSpawned`), only a process that was spawned has a child
(`ChildIsKnown`), the monitor's table holds children whose spawn is over and
whose exit is not handled yet (`TableIsExact`), and the monitor handles a
child it has reaped (`MonitorIsExact`); with these, `TerminatedIsGone`,
`ChildIsWatched` and `OneExitStatus` are preserved. `NoLockCycle` follows from
`MonitorIsExact`: the process the monitor handles is not being spawned, so
nobody holds its state mutex and wants the monitor's. The refinement needs
one more, that `mPid` and the signals sent are what the state says
(`PidIsExact`), to know that SIGKILL went to the process that is written off.
Loans have an invariant of their own, `LoanIsAfterSpawn`: only a process whose
spawn is over (`SpawnIsOver`) borrows memory, is looked at by the out-of-memory
monitor or is chosen as a victim. It is preserved because a spawn that is
over stays over, which follows from the order of `mState`.

The ledger. `LedgerBalances` does not hold of every node: `MCProcessManagerShort.cfg`
refutes it (section 7). The theorems say when it does. `LedgerStep` sorts the steps
into a few kinds: they leave the ledger and the processes' accounts alone, or
reserve, refuse a second request, release, or do one half of a loan. A reservation is
made for a process that has none (`NotReservedYet`, from `IInv`), so
each kind changes the ledger as it changes one process's account, and
`HeldMb`, which counts the megabytes the processes hold, changes by as much
(`HeldChanges`, from the library's facts about cardinalities). A release does
not wrap below zero because a process holds no more than all do (`HeldBound`).
Two conditions make the rest go through:

* `EnoughMemory`: all that is assigned fits together and nothing is lent. That is what
  the run `process` has. Then no first request is refused (`AssignmentFits`), so
  there is no second one, and the balance needs no condition on what threads do.
* `SmallNumbers` and `NobodyOvertakes`, for nodes that are short of memory or lend it.
  `SmallNumbers` says that adding a request to the available memory does not wrap,
  which is true of megabytes in 32 bits; where the sum wraps, `reserve` grants what
  does not fit. `NobodyOvertakes` says of a step that, if it leaves a thread between its
  refused request and its second one, it takes no memory. The invariant is
  `WhatIsLeftIsKnown`: what the deficit left is still free, so the second request,
  whose answer nobody reads, is granted (`RestIsGranted`). This is the condition that
  the counterexample violates; with amounts that do not wrap it is the only way to
  lose the balance.
  TLC checked `LInv` on a small instance with two processes and loans before it was
  proved; threads between their two requests and collecting threads are reachable
  in it.

On these conditions an account never wraps, so nothing lowers what was lent
(`LentStaysLent`); the thread that killed a borrower and polls its `mBorrowedMb`
(`CollectsFromBorrower`) is therefore there for good. So the counterexample of
`MCProcessManagerReap.cfg` is not an unlucky schedule: no such wait ends.

**`ComputationHostProofs`**, for any number of messages in either direction
and whether or not the monitor's thread is prompt (`HostAssumption`):

| theorem | property |
|---|---|
| `TypeCorrect` | `TypeOK` |
| `EndpointOutlivesThreads` | `SourceOutlivesThreads` |
| `ExitCodeIsTrue` | `ExitCodeTellsTheCause` |
| `MessagesAreSentInOrder` | `SentInOrder` |
| `HostImplementsComputation` | `ImplementsComputation` |

The inductive invariant `IInv` has four parts. A thread of the
dispatcher is alive only while the master serves it (`ThreadsAreServed`), so
nothing is posted to a dispatcher that has ended and the endpoint outlives its
users. Queues, the endpoint's flag and the socket are shut in this order
(`ShutInOrder`), so a thread that meets a closed queue, or a read that meets an
orderly close, judges rightly whether it was closed from this side. The exit reason
is that of the last error posted, or Quit if there was none. What the theorem needs is therefore that
Quit does not stay over a failure: whoever met one has posted it or is still about to, a
thread that is about to is joined before anybody reads the reason, and Quit is not posted over
anything; nor without a stop that was read or an exception of `start`
(`ReasonIsKnown`). The exit code is then
derived from that reason (`ExitCodeTellsTheCause`). An internal error is only shown to be
met by some thread; it may be a write that met the process's own shutdown
(`MCComputationHostStop.cfg`, section 7). Order is a second invariant (`OutgoingInOrder`,
`IncomingInOrder`): queue, the item in a thread's hand and the
socket count on from what was written or handled. The refinement adds
`CallsAreExact`: the handler's thread is inside the computation only between a
successful start and the end of the last call.

**`RouterClientsProofs`**, for any number of clients and of messages and any set
of threads that route messages to them (`ClientsAssumption`):

| theorem | property |
|---|---|
| `TypeCorrect` | `TypeOK` |
| `EndpointsAreAlive` | `UsedIsAlive` |
| `MessagesAreDeliveredInOrder` | `DeliveredInOrder` |

The first question is whether the router's shared and bare pointers to an endpoint
can dangle. The inductive invariant says where a reference may be: only the
router's own thread creates endpoints, and none is tracked while it does
(`OnlyRouterCreates`); a connection still in the backlog has no endpoint
(`NotAcceptedYet`); an endpoint is in `mEndpointsToDelete` at most once and still
tracked while it is there, and a live one that is no longer tracked has been
flagged (`FlaggedOnce`); and the thread that destroys an
endpoint holds the last reference to it (`LastOwner`). `Sane` ties together
the parts of one endpoint (its queue is shut exactly when `mShutdown` is set,
its threads have ended once it is gone).

The second is the order of messages, for which a further invariant `OInv`
looks at the line a message stands in: what the client has got, what its endpoint
is sending, what is in the endpoint's queue; and, in front of all lines, the
stash. Every line and the stash are in order and hold nothing that was not
routed (`OrderIsKept`), so the next message of a source may be put at any end.
That the stash may be put into a line needs `NewHasNothing`: the line of an endpoint not
tracked yet is empty, and the router's thread alone knows of it. That nothing is left
out is `FirstIsServed`: while the session lives and its first client stays, all
that was routed is in the stash until the client is tracked and in the
client's line from then on; it is preserved because nobody kicks, clears the
stash or destroys an endpoint in that time (`LiveIsQuiet`, `ClosedHasNothing`).

**`NodeSessionsProofs`**, for any number of sessions, computations and
configurations, any number of requests and any setting of the options
(`ConfigsAssumption`, `OptionsAssumption`, `NamesAssumption`):

| theorem | property |
|---|---|
| `TypeCorrect` | `TypeOK` |
| `OneOperationAtATime` | `OneOperation` |
| `DefunctStaysStopped` | `DefunctIsStopped` |
| `NothingIsLeftBehind` | `NothingOutlivesSession` |
| `GoComesFirst` | `GoThenUpdates` |
| `PointersAreSafe` | none: nothing is done with a session object that is destroyed |
| `WelcomedIsKept` | `WelcomedNeverExpires` |
| `NodeImplementsLifecycle` | `ImplementsLifecycle` |

All of them follow from one invariant `IInv`, which says who may act on a
session and what they may rely on. A session is claimed by at most one
request, operation thread or the main thread (`OneClaim`): the test-and-set
of `Busy` is what decides, so `Busy` is set exactly while somebody holds the claim
(`ClaimIsBusy`, `BusyIsClaimed`). Whoever refers to a session object keeps it
alive, and an object is created once (`ReferencedIsAlive`, `ActiveIsAlive`,
`CreatedOnce`). The thread handle stands for the operation that runs, as long
as the program has not been aborted for a second one (`HandleIsKept`): this is
why `OneOperation` holds in spite of the finding of `sessions_handle`. A
delete has told every computation before the session goes (`DeletedIsStopped`).
`mSentGo` and the updates are decided under `mComputationsMutex`, whose one
holder keeps what it has read true (`OneSignals`, `SentGoIsRight`). A client is
welcomed only after its create was answered (`ClientsAreExpected`,
`WelcomedIsStopped`), and the expirer is joined before anything else
touches the expiration (`ExpirerIsJoined`). In the refinement `Register` is the
abstract creation, `Accept` the start of an operation, `UpdateEnds`, `Retire` and
`SessionDestroyed` its three ends, and a computation that is started or lost is
seen at `StartNewComputation`, and at `Shutdown` or the end of its process;
every other step stutters.

**`NodeLinkControlProofs` and `NodeLinkProofs`**, for any number of messages each
way, of endpoints and of faults (`LinkAssumption`):

| theorem | property |
|---|---|
| `TypeCorrect` | `TypeOK` |
| `ConnectionIsUnique` | `OneConnection` |
| `LinkIsImplemented` | `ImplementsLink` |

The first module shows what does not depend on the messages (`Controlled`). A
connection is open at both ends only if it is that of the endpoint which the
greater node tracks (`OpenIsTracked`); to preserve this one needs that a flagged
endpoint of the greater node has lost its connection (`FlaggedIsClosed`), that it tracks
whatever still connects (`ConnectingIsNew`), and what fits together in endpoints
and tables. Until something fails (`NothingFailed`) each node has one endpoint,
its connection is open, and the lesser node has at most one connection to accept,
for an endpoint without one. Every action is then shown to be one of a few moves
of messages (`Moves`): the sender takes a message, drops it or writes it, the
receiver takes one off the connection, a new endpoint is tracked or an old one no
longer, a connection is emptied, or nothing happens to messages.

The second module follows the messages through these moves, up to the point where
they are read from the connection: of each there is
at most one copy, in a queue, a sender's hand, a connection or at its destination
(`OneCopy`); on the way to the lesser node, made of what it got, the open
connection, the sender's hand and the queue, they are in order (`OrderIsKept`);
and until something fails no number is missing on either way (`NoGap`). The
refinement maps `RouteQueue` to `Send`, `ReceiveEnvelope` to `Deliver` and the first
fault to `Fail`. The order of the way to the greater node is not
preserved by a fault: the proof that was tried failed there, and `MCNodeLinkOrder.cfg`
shows why.

**`RenderDriverProofs`**, for any number of threads, tiles, passes and samples, any
group size and any number of frames (`QueueAssumption`, `RenderAssumption`: a frame
has 1 to 64 passes that take samples, as `initPasses` makes them):

| theorem | property |
|---|---|
| `TypeCorrect` | `TypeOK` |
| `ClampAlwaysHolds` | `ClampHolds` |
| `FrameIsImplemented` | `ImplementsFrame` |

The two atomics of the queue are changed by different steps, perhaps of different
threads. What ties them together is a count (`QueueAgrees`): the groups cut before
`mOffset` and the threads that were let through and have not cut theirs are as many
as `mGlobalGroupIdx`. It is kept because `init` and `reserveNextTileGroup`, which
divide differently, agree: an even share of the tiles that are left is cut, and that
leaves one group less (`CutIsOneGroup`, `CuttingCountsOne`). As fewer groups than
the clamp allows were cut when somebody still reserves, the group he gets is of a pass up to
the clamped one (`WithinClamp`), and when all of them were cut, the offset is where
that pass ends (`ClampReached`). The groups of the passes are added up by recursion, in
the code a loop; that the recursion has a solution (`EndIsDefined`), that it counts
groups (`PassInfosAreGood`) and grows (`StartsGrow`) is proved with a least
counterexample each time (`LeastNumber`), since induction theorems are out of the
provers' reach. The rest of the invariant says when the render thread may
change the queue: threads run only within a call of `renderPasses`
(`ThreadsAgree`), the queue was initialised for the frame (`InfosAreKnown`), and when
the passes left are rendered one by one there is one left (`CoarseIsKnown`).

The refinement rests on a second invariant, `FrameInv` (`FilmInvariant`), about the
samples, which are pairs of a pass and a tile. A sample that lies behind `mOffset`
was cut: a group is cut from exactly the tiles between the old offset and the new
one (`CutCovers`), so two threads never hold the same sample (`GroupsAreOwned`) and
none is rendered twice (`FilmIsExact`). A sample that was cut and is not rendered is
in the group of a thread that renders, unless a thread gave up after it saw the
request to stop, and that is never so in the first pass (`NothingIsMissed`,
`CancellationIsKept`). Groups are not left lying either: as long as the counter is
below its clamp some thread is at work, because a thread leaves only when it sees the
counter at the clamp or gives up (`WorkIsLeft`). So when all threads have returned
the counter is at the clamp; by the first invariant the offset is then at the
end of the clamped pass, and by the second every sample before it was rendered: the
frame may be shown, or be called complete. A thread of several machines that
shows its share counted tiles it or others had rendered (`CountedIsTaken`). Every
action is then one of the promised frame's, or a stutter.

The hypothesis of both theorems, `BatchOnOneMachine`, is what the run `render`
has too: a BATCH frame is not shared with other machines. It was not
planned. The proof failed without it, at the step in which a thread shows its
machine's share, and TLC then showed why (`MCRenderDriverShare.cfg`, section 7).

**`CoordinatorProofs`**, for any number of nodes, sessions and computations, any
requirements and totals (`CoordinatorAssumption`: memory and fixed cores are not
negative, the most cores may be `'*'`):

| theorem | property |
|---|---|
| `TypeCorrect` | `TypeOK` |
| `MemoryIsBookedOnce` | `BookedOnce` |
| `StartupIsImplemented` | `ImplementsStartup` |

The accounts are sums over sets of sessions and of computations, by recursion; what
is used of them, that a number may be taken out in any order (`SumWith`), that more of more
is more (`SumGrows`), is proved from the recursion, with a smallest set that would
violate it. `Allocation` is a recursion over the computations. Each of its steps keeps what an
allocation must be (`IsAllocation`): on every node free and booked memory make the
total, and the session's account there has what its computations there need. It holds after a
step that fails as well, and that is all a failed allocation leaves behind. With it go
`AccountsBalance` and `MemoryIsBooked`, which a release keeps because it takes back
what it gives, and by which no memory is booked twice.

For the startup, every report is of another computation that has become ready: the
reports that were counted and those that wait in the queues of nodes are no more than
those computations (`ReportsAreTrue`). So when the count is complete, all are ready
(`SignalIsTrue`). A node whose session runs was asked to launch it
(`RunningIsLaunched`), what is ready has a node (`ReadyIsAssigned`), and while "run" goes from
node to node those not told are still to be called (`RequestIsSound`), so that the
signal for the client comes after the last. `CreateSession` is the promised `Allocate`,
`LaunchOn`, `ComputationReady`, `RunOn` and `SignalEngineReady` are the other steps;
requests that fail, nodes that come and go and accounts stutter.

**Only model-checked.** Liveness is outside the prover's reach:
`EveryWaitEnds` of the process manager, `EverythingEnds` of the sessions,
`HostProgresses` of the host, `KickedClientIsClosed` and `MessagesReachClient`
of the router, `MessagesArrive`, `CallsReturn` and `FrameEnds`.
What the theorems about `LedgerBalances` leave out, behaviours in which somebody does
overtake, is where it fails. Every other safety property of the passing runs has a theorem.

## 7. Findings

Each is a run that fails, on one property that a comment in the code states.

| run | property | what the run shows |
|---|---|---|
| `process_group` | `SignalsStayInGroup` | A timed wait that ends as the exit is recorded goes on with `mPid` 0: `kill(-0, SIGTERM)` signals the node's own process group. |
| `sessions_handle` | `OperationThreadIsProtected` | A short operation frees the session before its thread object is stored; the next request stores its own first, and the late store assigns to a joinable thread. |
| `coordinator_fit` | `NodesFit` | A session that is still Busy refuses to be deleted; the Coordinator does not look at the answer, gives the session's resources back and puts the next session on the same memory. |

Lines are in `PROJECT.json`, "findings". The following configurations also end
in a counterexample. They are kept beside the runs, to be started by hand
(`tlc -config X.cfg M`, with the module that precedes the suffix):

| configuration | property | what the counterexample shows |
|---|---|---|
| `MCProcessManagerReap.cfg` | `SpawnReturns` | `ProcessManager::reserveMemory` waits for the killed borrower's `mBorrowedMb` to become 0 (`ProcessManager.cc:514`), and nothing ever lowers it: the spawn does not return and keeps its state mutex. |
| `MCProcessManagerShort.cfg` | `LedgerBalances` | The answer to the second request for memory is ignored (`ProcessManager.cc:533`); with a third process in between, the process records a reservation that was never granted and the counter wraps below zero on release. |
| `MCNodeSessionsClose.cfg` | `ShutdownIsComplete` | A create that tested `mClosed` before the shutdown (`ArrasSessions.cc:139`) registers its session after it, and nobody shuts that session down. |
| `MCComputationHostGo.cfg` | `TimeoutIsReported` | When "go" does not come, `runComputation` returns (`CompEnvironmentImpl.cc:241`) while its monitor thread is joinable: the process aborts instead of reporting the time-out. |
| `MCComputationHostMonitor.cfg` | `RunEnds` | A monitor thread that first runs after `stop()` sets `mRun` again (`PerformanceMonitor.cc:88`), and is joined for ever. The run `host` excludes this (`MonitorIsPrompt`), to ask about the rest. |
| `MCComputationHostStop.cfg` | `StopIsNoError` | "threadSafeShutdown will force all blocked reads and writes on the peer to throw PeerDisconnectedException, which we modify to ShutdownException above" (`PeerMessageEndpoint.cc:66-68`): a write does not. `SocketPeer::send` throws a plain `PeerException` (`SocketPeer.cc:490-498`), so an ordinary stop that meets the outgoing thread behind the test of `mShutdown` (`PeerMessageEndpoint.cc:46`) is posted as `MessageError` over Quit, and the process ends with INTERNAL_ERROR. |
| `MCRouterClientsEnd.cfg` | `EndedSessionLetsClientGo` | `kickClient` (`ArrasController.cc:326`) says of a client that connects while its session is deleted that it will see "much the same as deletion just after connection". The kick of `shutdownSession` finds no client yet; the client is tracked, its notice is handled before `deleteProc` sets Defunct (`Session.cc:336-345`) and so stops the expiration instead of kicking (`ArrasController.cc:196-199`). Nobody closes the connection any more. |
| `MCRouterClientsJoin.cfg` | `DestructionEnds` | `eraseIfFound` (`PeerManager.cc:175-190`) drops the last pointer to an endpoint under `mMutex`; `~RemoteEndpoint` joins the receive thread (`RemoteEndpoint.cc:448-449`), which has read a message before the connection was lost and waits for `mMutex` to find its destination (`PeerManager.cc:84-110`). Both wait for ever, and everybody else who looks into the tables with them. |
| `MCNodeLinkTurn.cfg` | `LesserRoutesInTurn` | The lesser node reads in order also after a reset, but a thread of the old endpoint may still be routing its last message while the new endpoint's routes the next: behind the router, no order is promised at either node once a connection failed. As with `MCNodeLinkOrder.cfg`, nothing in the repository promises it. |
| `MCNodeLinkStop.cfg` | `DestructionEnds` | The destructor of an endpoint wakes whoever waits for a peer ("make sure no-one is still waiting for the peer to be set", `RemoteEndpoint.cc:439`); a thread that has not begun to wait then (`:192`, whose condition looks at the peer only) waits for ever, and the router thread joins it. (The joins under `mMutex` can also block it as in `MCRouterClientsJoin.cfg`.) |
| `MCNodeLinkOrder.cfg` | `ArrivesInOrder` | Between `findNodePeer` and `queueEnvelope` (`RouteMessage.cc:147-169`) a thread holds an endpoint that `destroyEndpoints` has already untracked (`ThreadedNodeRouter.cc:80`). It is not destroyed and its receiver reads on, while the next endpoint's does: the greater node gets messages out of order. Nothing in the repository promises the order, so this is no finding; `MessageLink` leaves it open. |
| `MCRenderDriverShare.cfg` | `CompleteIsEverySample` | On one of several machines (`mNumRenderNodes > 1`) a BATCH frame is asked to stop: the thread that stops in the middle of its group is `CANCELED`, counts the whole group all the same (`RenderFramePasses.cc:305`), and if that reaches the machine's share calls `enableCancellation(true)` (`:309`), which takes the `CANCELED` back (`PbrTLState.cc:1547-1556`). Nobody learns of the stop; `isFrameComplete`, "completed rendering fully" (`RenderContext.h:419`), is true with tiles that were never rendered. |
| `MCRenderDriverCoarse.cfg` | `CoarseIsEveryPixel` | `areCoarsePassesComplete` says "something rendered at each pixel" (`RenderContext.h:404`), but it is set when the first pass is over, before the other coarse passes. |

The first needs `mLoanMemory` and the out-of-memory monitor, the second and
`process_group` only processes that end by themselves; the two about sessions,
those about the router and the stop of the host, `MCComputationHostMonitor` and `MCNodeLinkStop` need a thread that is not scheduled for a while.

Further hazards that were met while modelling and that no property covers:

* Processes: a loan that is granted while the borrower ends
  (`ProcessManager.cc:457`); SIGSTOP to pid 0 (`Computation.cc:132`).
* Sessions: an expiration after a delete (`Session.cc:313`); computations that
  were removed stay in the table (`Session.cc:410`); heartbeats wait for a mutex that
  a delete keeps (`ArrasController.cc:227`).
* Host: the wait for "go" is not ended by the loss of the connection; messages
  still queued at the stop are dropped (`MessageDispatcher.cc:146`).
* Node: `drainEvents` returns before the last event it popped is sent
  (`NodeService.cc:514`).
* Router: a stash is never cleared while a client is connected, so that a second client
  of the session gets again what the first had; a client whose routing data
  is deleted between `AcceptClient` and `ConstructEndpoint` is closed without a
  status; an exception ends the router's loop (`NodeRouter.cc:495-508`); a
  peer is replaced while its threads use it (`RemoteEndpoint.cc:549-556`, the
  `crashed` of `NodeLink`).
* Coordinator: an allocation that fails keeps what it had taken
  (`allocate.py:81`); a terminate that is repeated fails on the node that was
  released before (`allocate.py:131`); a run that a Busy node
  refuses is not repeated.

## 8. What is not modelled, and why

* Of `Process`: `reset`, which has no caller; the destructor; the control group
  files, which the kernel keeps; `groupCleanupProc`, a detached thread that signals
  what is left of a group and shares no state with the manager; `Process::signal`, which
  only the client's `LocalSession` calls, to pause and resume.
* Of the sessions: status and statistics (read-only), heartbeats, the contents
  of configurations.
* Of the host: the "update" message, chunking, `waitUntilEmpty`, the observer
  and the counters, and everything inside a computation.
* Of the router: endpoints of computations and of the node service, the splitting of
  an address list by node, routing updates, node connections
  shared by several sessions, the start and stop of the router process.
* Of the Coordinator: its own shutdown, test nodes, pinned host names,
  arrays and message filters, status. No configuration sets `exit_kills_session`, so
  the exit of a computation has no consequence there.
* Of the render driver: the real-time and checkpoint modes, adaptive sampling,
  the queues of vectorized and XPU execution, snapshots, display filters and the
  preparation of the scene.
* The rest of rendering, shaders and geometry: floating point and SIMD code, whose
  correctness is numerical. This is most of the repository's lines, with
  vendored code (Dear ImGui, tables of textures, `sse2neon`), so the share of
  lines that the modules map stays small however much of the protocols is modelled.
* Scene description, GUI, viewers and adapters: single-threaded, or bound to
  external frameworks.
* HTTP, sockets, serialisation, logging: wrappers and byte layouts, over which
  the protocols are modelled as channels and calls.
* Build scripts, packaging, tests and test computations.

Planned components are listed as such in section 9 and in `PROJECT.json`.

## 9. Plan

In this order, the most consequential first:

1. The node itself: the event queue and its drain, `stopRunning` before
   `run`, `mRunMutex` held during `shutdownAll` (`ArrasNode.cc`), with
   `ThreadsafeQueue`'s condition variables and `waitUntilEmpty` under it.
2. The composition of `Coordinator` with `NodeSessions` in one module, over the
   requests and events between them.
3. The merge of progressive frames of several machines (`moonray_arras`).
4. `Chunking` and the `Addresser`: pure operators against a reference
   definition.
5. Client: `Client` and `LocalSession` over `MessageDispatcher`.
6. The render driver's checkpoint and real-time modes.
