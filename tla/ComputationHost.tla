---------------------------- MODULE ComputationHost ----------------------------
(***************************************************************************)
(* The process that hosts one computation: ExecComp::run (cmd/execComp),   *)
(* CompEnvironmentImpl, ControlMessageEndpoint and PerformanceMonitor      *)
(* (computation_impl), around a MessageDispatcher.                         *)
(*                                                                         *)
(*   main      configures the computation, waits for the node's "go", runs *)
(*             the dispatcher until it exits, and returns the exit code    *)
(*   incoming  also obeys the control messages, where it reads them        *)
(*   handler   calls the computation's onMessage and onIdle                *)
(*   monitor   sends heartbeats until the main thread stops it             *)
(*                                                                         *)
(* The node at the other end of the socket sends what it likes, when it    *)
(* likes, and may close the socket.  A computation may send from threads   *)
(* of its own.  Calls of the computation return or throw.                  *)
(*                                                                         *)
(* The "update" control message only exchanges the addressing under a      *)
(* mutex of its own, and is left out.                                      *)
(***************************************************************************)
EXTENDS MessageDispatcher

CONSTANTS
    MaxMessages,        \* bound: messages the node sends
    MaxAccepted,        \* bound: messages sent, heartbeats included
    MaxUnread,          \* bound: items in the socket at a time
    MonitorIsPrompt     \* the monitor thread runs before it is stopped

ASSUME HostAssumption ==
    /\ MaxMessages \in Nat
    /\ MaxAccepted \in Nat
    /\ MaxUnread \in Nat
    /\ MonitorIsPrompt \in BOOLEAN

VARIABLES
    main,               \* where the main thread is
    mGo,                \* "go" was received
    monitor,            \* where the performance monitor's thread is
    mRun,               \* the performance monitor's flag
    exitCode,           \* "running", or what the process ended with
    causes,             \* history: what there was to end the run
    node                \* what the node has sent

hostVars == <<main, mGo, monitor, mRun, exitCode, causes, node>>
vars == <<dispatcherVars, hostVars>>

Running == exitCode = "running"

ExitCode == {"NORMAL", "INVALID_CONFIG_DATA", "COMPUTATION_LOAD_ERROR",
             "INITIALIZATION_FAILED", "COMPUTATION_GO_TIMEOUT",
             "EXCEPTION_CAUGHT", "DISCONNECTED", "INTERNAL_ERROR", "SIGABRT"}

\* What goes wrong in a thread of the dispatcher: an item that cannot be
\* deserialised, or serialised; a read or a write that fails; a call that throws.
Failure == {"Malformed", "Unserializable", "BrokenSocket", "HandlerError"}

\* "Quit" is a stop that was read, "Disconnected" a node that closed the socket.
Cause == Failure \cup {"Quit", "Disconnected", "StartException", "StopException"}

MainState == {"load", "initialize", "initializing", "connect", "run",
              "startQueueing", "ready", "waitForGo", "waiting", "start",
              "starting", "quit", "dispatch", "waitForExit", "stopping",
              "stopMonitor", "joinMonitor", "over"}

Unconnected == {"load", "initialize", "initializing", "connect"}

\* Besides the types: the dispatcher is started by its owner and exited when
\* its master thread is done, and not before.
TypeOK ==
    /\ DispatcherTypeOK
    /\ main \in MainState
    /\ mGo \in BOOLEAN
    /\ monitor \in {"none", "start", "wait", "done"}
    /\ mRun \in BOOLEAN
    /\ exitCode \in ExitCode \cup {"running"}
    /\ causes \in SUBSET Cause
    /\ node \in [messages : Nat, controls : SUBSET {"malformed", "go", "stop"}]
    /\ mState = "NotStarted" <=> master = "none"
    /\ mState = "Exited" <=> master = "done"

Init ==
    /\ DispatcherInit
    /\ main = "load"
    /\ mGo = FALSE
    /\ monitor = "none"
    /\ mRun = FALSE
    /\ exitCode = "running"
    /\ causes = {}
    /\ node = [messages |-> 0, controls |-> {}]

-----------------------------------------------------------------------------
(* The main thread, up to the dispatcher's start.                          *)

Goto(here, there) == main = here /\ main' = there

\* The process ends: whatever its threads were doing, they do no more.
Exit(codes) ==
    /\ exitCode' \in codes
    /\ main' = "over"
    /\ UNCHANGED <<dispatcherVars, mGo, monitor, mRun, node>>

Load ==
    /\ Goto("load", "initialize")
    /\ UNCHANGED <<dispatcherVars, mGo, monitor, mRun, exitCode, causes, node>>

LoadFails ==
    /\ main = "load"
    /\ Exit({"INVALID_CONFIG_DATA", "COMPUTATION_LOAD_ERROR"})
    /\ UNCHANGED causes

Initialize ==
    /\ \/ Goto("initialize", "initializing")
       \/ Goto("initializing", "connect")
    /\ UNCHANGED <<dispatcherVars, mGo, monitor, mRun, exitCode, causes, node>>

\* configure("initialize") returns Invalid, or throws.
InitializeFails ==
    /\ main = "initializing"
    /\ Exit({"INITIALIZATION_FAILED", "EXCEPTION_CAUGHT"})
    /\ UNCHANGED causes

Connect ==
    /\ Goto("connect", "run")
    /\ UNCHANGED <<dispatcherVars, mGo, monitor, mRun, exitCode, causes, node>>

ConnectFails ==
    /\ main = "connect"
    /\ Exit({"EXCEPTION_CAUGHT"})
    /\ UNCHANGED causes

StartMonitor ==
    /\ Goto("run", "startQueueing")
    /\ mGo' = FALSE
    /\ monitor' = "start"
    /\ UNCHANGED <<dispatcherVars, mRun, exitCode, causes, node>>

BeginQueueing ==
    /\ Goto("startQueueing", "ready")
    /\ StartQueueing
    /\ UNCHANGED <<mGo, monitor, mRun, exitCode, causes, node>>

SendReady ==
    /\ Goto("ready", "waitForGo")
    /\ Send
    /\ UNCHANGED <<mGo, monitor, mRun, exitCode, causes, node>>

WaitForGo ==
    /\ \/ ~mGo /\ Goto("waitForGo", "waiting")
       \/ mGo /\ main \in {"waitForGo", "waiting"} /\ main' = "start"
    /\ UNCHANGED <<dispatcherVars, mGo, monitor, mRun, exitCode, causes, node>>

\* wait_for reports the time-out whatever mGo has become meanwhile.  Returning
\* from runComputation destroys monitorThread, which nobody has joined: the
\* destructor of std::thread calls std::terminate.
GoTimesOut ==
    /\ main = "waiting"
    /\ Exit({"SIGABRT"})
    /\ UNCHANGED causes

-----------------------------------------------------------------------------
(* The main thread, from the dispatcher's start to the end.                *)

Start ==
    /\ Goto("start", "starting")
    /\ UNCHANGED <<dispatcherVars, mGo, monitor, mRun, exitCode, causes, node>>

Started ==
    /\ \/ Goto("starting", "dispatch") /\ UNCHANGED causes
       \/ Goto("starting", "quit") /\ causes' = causes \cup {"StartException"}
    /\ UNCHANGED <<dispatcherVars, mGo, monitor, mRun, exitCode, node>>

QuitAfterException ==
    /\ Goto("quit", "waitForExit")
    /\ PostQuit
    /\ UNCHANGED <<queues, master, receiving, handlerVars, outgoingVars,
                   accepted, endpoint>>
    /\ UNCHANGED <<mGo, monitor, mRun, exitCode, causes, node>>

BeginDispatching ==
    /\ Goto("dispatch", "waitForExit")
    /\ StartDispatching
    /\ UNCHANGED <<mGo, monitor, mRun, exitCode, causes, node>>

WaitForExit ==
    /\ main = "waitForExit"
    /\ master = "done"
    /\ main' = IF "StartException" \in causes THEN "stopMonitor" ELSE "stopping"
    /\ UNCHANGED <<dispatcherVars, mGo, monitor, mRun, exitCode, causes, node>>

\* configure("stop") returns, or throws.
Stopped ==
    /\ Goto("stopping", "stopMonitor")
    /\ causes' \in {causes, causes \cup {"StopException"}}
    /\ UNCHANGED <<dispatcherVars, mGo, monitor, mRun, exitCode, node>>

StopMonitor ==
    /\ MonitorIsPrompt => monitor # "start"
    /\ Goto("stopMonitor", "joinMonitor")
    /\ mRun' = FALSE
    /\ UNCHANGED <<dispatcherVars, mGo, monitor, exitCode, causes, node>>

\* computationExitReason, and the exit code ExecComp::run makes of it.
ReasonCode ==
    CASE causes \cap {"StartException", "StopException"} # {} -> "EXCEPTION_CAUGHT"
      [] OTHER -> CASE mExitReason \in {"None", "Quit"} -> "NORMAL"
                    [] mExitReason = "Disconnected" -> "DISCONNECTED"
                    [] OTHER -> "INTERNAL_ERROR"

JoinMonitor ==
    /\ main = "joinMonitor"
    /\ monitor = "done"
    /\ Exit({ReasonCode})
    /\ UNCHANGED causes

Main ==
    \/ Load \/ LoadFails
    \/ Initialize \/ InitializeFails
    \/ Connect \/ ConnectFails
    \/ StartMonitor \/ BeginQueueing \/ SendReady
    \/ WaitForGo \/ GoTimesOut
    \/ Start \/ Started
    \/ QuitAfterException \/ BeginDispatching
    \/ WaitForExit \/ Stopped
    \/ StopMonitor \/ JoinMonitor

-----------------------------------------------------------------------------
(* The performance monitor's thread.                                       *)

\* Once around the loop of run.  Bound: no heartbeat after MaxAccepted
\* messages, but for the first.
MonitorBeats ==
    /\ \/ monitor = "start" /\ mRun' = TRUE
       \/ monitor = "wait" /\ mRun /\ accepted < MaxAccepted /\ UNCHANGED mRun
    /\ monitor' = "wait"
    /\ Send
    /\ UNCHANGED <<main, mGo, exitCode, causes, node>>

MonitorEnds ==
    /\ monitor = "wait"
    /\ ~mRun
    /\ monitor' = "done"
    /\ UNCHANGED <<dispatcherVars, main, mGo, mRun, exitCode, causes, node>>

Monitor == MonitorBeats \/ MonitorEnds

-----------------------------------------------------------------------------
(* The dispatcher's threads, with what the host adds to them.              *)

\* Control messages are obeyed in the incoming thread, which then reads on.
SignalGo ==
    /\ incoming = "read"
    /\ stream # <<>>
    /\ Head(stream).kind \in {"go", "stop"}
    /\ mGo' = TRUE
    /\ stream' = Tail(stream)
    /\ incoming' = IF Head(stream).kind = "stop" THEN "quit" ELSE "read"
    /\ causes' = IF Head(stream).kind = "stop" THEN causes \cup {"Quit"} ELSE causes
    /\ UNCHANGED <<mState, mExitReason, mIncomingQueue, received>>
    /\ IncomingUnchanged
    /\ UNCHANGED <<main, monitor, mRun, exitCode, node>>

SignalStop ==
    /\ incoming = "quit"
    /\ PostQuit
    /\ incoming' = "read"
    /\ UNCHANGED <<mIncomingQueue, received, stream>>
    /\ IncomingUnchanged
    /\ UNCHANGED hostVars

Notes(failure) ==
    /\ causes' = causes \cup {failure}
    /\ UNCHANGED <<main, mGo, monitor, mRun, exitCode, node>>

IncomingThread ==
    \/ ReadMessage /\ UNCHANGED hostVars
    \/ ReadMalformed /\ Notes("Malformed")
    \/ ReadEnds /\ UNCHANGED hostVars
    \/ ReadIsReset /\ Notes("BrokenSocket")
    \/ PushReceived /\ UNCHANGED hostVars
    \/ IncomingFails /\ UNCHANGED hostVars
    \/ SignalGo
    \/ SignalStop

HandlerThread ==
    \/ HandlerPops /\ UNCHANGED hostVars
    \/ HandlerWaits /\ UNCHANGED hostVars
    \/ HandlerIdles /\ UNCHANGED hostVars
    \/ HandlerIsShutDown /\ UNCHANGED hostVars
    \/ HandlerReturns /\ UNCHANGED hostVars
    \/ HandlerThrows /\ Notes("HandlerError")
    \/ HandlerFails /\ UNCHANGED hostVars

OutgoingThread ==
    \/ OutgoingPops /\ UNCHANGED hostVars
    \/ OutgoingIsShutDown /\ UNCHANGED hostVars
    \/ PutSending /\ UNCHANGED hostVars
    \/ PutFails /\ Notes("BrokenSocket")
    \/ SerializeFails /\ Notes("Unserializable")
    \/ OutgoingFails /\ UNCHANGED hostVars

MasterThread == Master /\ UNCHANGED hostVars

-----------------------------------------------------------------------------
(* The surroundings.                                                       *)

\* Bound: no message after MaxAccepted.
ComputationSends ==
    /\ main # "load"
    /\ accepted < MaxAccepted
    /\ Send
    /\ UNCHANGED hostVars

Connected == main \notin Unconnected /\ "there" \notin socket

\* Bounds: MaxUnread, and that the node sends nothing that could only be read
\* by a dispatcher that is exiting: it might as well have sent it before.
CanSend == Connected /\ Len(stream) < MaxUnread /\ ~Exiting

NodeSendsMessage ==
    /\ CanSend
    /\ node.messages < MaxMessages
    /\ node' = [node EXCEPT !.messages = @ + 1]
    /\ stream' = Append(stream, [kind |-> "message", id |-> node.messages + 1])

\* Bound: each of these at most once.
NodeSendsControl ==
    /\ CanSend
    /\ \E kind \in {"malformed", "go", "stop"} \ node.controls :
         /\ node' = [node EXCEPT !.controls = @ \cup {kind}]
         /\ stream' = Append(stream, [kind |-> kind, id |-> 0])

NodeSends ==
    /\ NodeSendsMessage \/ NodeSendsControl
    /\ UNCHANGED <<mState, mExitReason, queues, master, receiving, handlerVars,
                   outgoingVars, accepted, mShutdown, socket>>
    /\ UNCHANGED <<main, mGo, monitor, mRun, exitCode, causes>>

NodeCloses ==
    /\ Connected
    /\ socket' = socket \cup {"there"}
    /\ causes' = causes \cup {"Disconnected"}
    /\ UNCHANGED <<mState, mExitReason, queues, master, receiving, handlerVars,
                   outgoingVars, accepted, mShutdown, stream>>
    /\ UNCHANGED <<main, mGo, monitor, mRun, exitCode, node>>

-----------------------------------------------------------------------------

Next ==
    /\ Running
    /\ \/ Main
       \/ Monitor
       \/ MasterThread
       \/ IncomingThread
       \/ HandlerThread
       \/ OutgoingThread
       \/ ComputationSends
       \/ NodeSends
       \/ NodeCloses

Spec == Init /\ [][Next]_vars

\* Threads run, and the calls of the computation return; the node and the
\* threads of the computation owe nothing.
FairSpec ==
    /\ Spec
    /\ WF_vars(Running /\ Main)
    /\ WF_vars(Running /\ Monitor)
    /\ WF_vars(Running /\ MasterThread)
    /\ WF_vars(Running /\ IncomingThread)
    /\ WF_vars(Running /\ HandlerThread)
    /\ WF_vars(Running /\ OutgoingThread)

-----------------------------------------------------------------------------
(* Safety.                                                                 *)

\* The endpoint, a reference to an object of the main thread's stack, is used
\* by nobody when the main thread goes on after waitForExit.
SourceOutlivesThreads ==
    main \in {"stopping", "stopMonitor", "joinMonitor", "over"} /\ master # "none" =>
        exitCode = "SIGABRT" \/ /\ incoming \in {"none", "done"}
                                /\ outgoing \in {"none", "done"}
                                /\ handler \in {"none", "done"}

\* What send accepted is written in that order, nothing twice and nothing left
\* out: a message that could not be written is the last one tried.
SentInOrder == [][written' # written => written' = written + 1]_vars

\* The exit code the node reports to the client has a cause.  No failure of a
\* thread is lost over a stop, and a stop is not taken for a lost connection;
\* an error was met by some thread.
ExitCodeTellsTheCause ==
    /\ exitCode = "NORMAL" => "Quit" \in causes /\ causes \cap Failure = {}
    /\ exitCode = "DISCONNECTED" => "Disconnected" \in causes
    /\ exitCode = "INTERNAL_ERROR" => causes \cap Failure # {}

\* PeerMessageEndpoint.cc: what the shutdown does to a read or a write under way
\* is made a ShutdownException, so that a stop is no error.  Expected to fail: a
\* write fails with another exception than the one that is looked for.
StopIsNoError ==
    exitCode = "INTERNAL_ERROR" => causes \cap Failure # {"BrokenSocket"}
                                       \/ "Disconnected" \in causes

\* ProcessExitCodes.h: the exit code COMPUTATION_GO_TIMEOUT is for "Computation
\* timed out waiting for go".  Expected to fail: the process aborts instead.
TimeoutIsReported == exitCode # "SIGABRT"

\* The inductive invariant behind the safety properties.  The dispatcher's
\* threads run while the master serves them, and the main thread knows whether
\* there is a dispatcher, and whether it has exited.
Alive(thread) == thread \notin {"none", "done"}

Serving == {"dispatching", "shutQueues", "shutEndpoint", "shutSocket", "join"}

ThreadsAreServed ==
    /\ Alive(incoming) => master \in Serving \cup {"queueing"}
    /\ Alive(handler) \/ Alive(outgoing) => master \in Serving
    /\ master \in {"none", "start", "queueing"} => handler = "none" /\ outgoing = "none"
    /\ main \in Unconnected \cup {"run", "startQueueing"} => master = "none"
    /\ main \notin Unconnected \cup {"run", "startQueueing", "over"} => master # "none"
    /\ main \in {"stopping", "stopMonitor", "joinMonitor"} => master = "done"
    /\ Running <=> main # "over"
    /\ ~Running => master \in {"none", "done"} \/ exitCode = "SIGABRT"

\* Once ordered to exit, the master shuts the queues, the endpoint and the
\* socket down, in this order.
ShutInOrder ==
    /\ master \in {"shutQueues", "shutEndpoint", "shutSocket", "join"} =>
           mState = "Exiting"
    /\ "here" \in socket => mShutdown
    /\ mShutdown <=> master \in {"shutSocket", "join", "done"}
    /\ master \in {"shutEndpoint", "shutSocket", "join", "done"} =>
           mIncomingQueue.mShutdown /\ mOutgoingQueue.mShutdown

\* The exit reason was posted, by a thread that had met its cause, and whoever
\* has met a failure has posted it or is about to.
Failing == "failed" \in {incoming, handler, outgoing}

ReasonIsKnown ==
    /\ Exiting <=> mExitReason # "None"
    /\ mExitReason \in {"MessageError", "HandlerError"} \/ Failing =>
           causes \cap Failure # {}
    /\ mExitReason \in {"None", "Quit"} /\ causes \cap Failure # {} => Failing
    /\ mExitReason = "Quit" => causes \cap {"Quit", "StartException"} # {}
    /\ incoming = "quit" => "Quit" \in causes
    /\ main = "quit" => "StartException" \in causes
    /\ mExitReason = "Disconnected" \/ incoming = "disconnected"
           \/ "there" \in socket => "Disconnected" \in causes

IInv == ThreadsAreServed /\ ShutInOrder /\ ReasonIsKnown /\ ExitCodeTellsTheCause

\* s is <<n + 1, n + 2, ...>>.
CountsFrom(n, s) == \A i \in DOMAIN s : s[i] = n + i

\* The number of messages that have left the outgoing queue.
popped == accepted - Len(mOutgoingQueue.items)

\* What is left to write are the last messages that were accepted, and the
\* outgoing thread goes on only after it has written what it took.
OutgoingInOrder ==
    /\ popped \in Nat
    /\ CountsFrom(popped, mOutgoingQueue.items)
    /\ outgoing = "put" => sending = popped /\ sending = written + 1
    /\ outgoing \in {"none", "pop"} /\ Accepts(mOutgoingQueue) => written = popped

\* The number of messages that were read, while the incoming queue takes them.
taken == handling + Len(mIncomingQueue.items) + (IF incoming = "push" THEN 1 ELSE 0)

\* The messages among the items of s are n + 1 to m, in this order.
Holds(s, n, m) ==
    /\ n <= m
    /\ \A i \in DOMAIN s : s[i].kind = "message" => s[i].id \in n + 1 .. m
    /\ \A i, j \in DOMAIN s :
           i < j /\ s[i].kind = "message" /\ s[j].kind = "message" => s[i].id < s[j].id
    /\ \A k \in n + 1 .. m : \E i \in DOMAIN s : s[i].kind = "message" /\ s[i].id = k

\* What is in the queue, in the hands of the incoming thread and in the socket
\* are the messages the node has sent since the last one handled, in order.
IncomingInOrder ==
    Accepts(mIncomingQueue) =>
        /\ CountsFrom(handling, mIncomingQueue.items)
        /\ incoming = "push" => received = taken
        /\ Holds(stream, taken, node.messages)

\* The handler runs only after a start that succeeded, and not after an error.
CallsAreExact ==
    /\ mState = "Dispatching" \/ handler # "none" =>
           /\ "StartException" \notin causes
           /\ main \in {"waitForExit", "stopping", "stopMonitor", "joinMonitor", "over"}
    /\ "HandlerError" \in causes => handler \in {"failed", "done"}
    /\ "StartException" \in causes =>
           main \in {"quit", "waitForExit", "stopMonitor", "joinMonitor", "over"}

phaseBar ==
    CASE ~Running -> "over"
      [] Running /\ main \in {"load", "initialize", "initializing"} -> "loaded"
      [] Running /\ main \in {"connect", "run", "startQueueing", "ready", "waitForGo",
                              "waiting", "start", "starting"} -> "initialized"
      [] OTHER -> IF "StartException" \in causes THEN "failed"
                  ELSE IF main \in {"stopMonitor", "joinMonitor"} THEN "stopped"
                  ELSE IF "HandlerError" \in causes THEN "broken" ELSE "started"

callBar ==
    CASE Running /\ main = "initializing" -> "initialize"
      [] Running /\ main = "starting" -> "start"
      [] Running /\ main = "stopping" -> "stop"
      [] Running /\ main \notin {"initializing", "starting", "stopping"}
                 /\ handler \in {"onMessage", "onIdle"} -> handler
      [] OTHER -> "none"

Lifecycle == INSTANCE ComputationLifecycle
                 WITH phase <- phaseBar, call <- callBar, message <- handling

\* The computation is called as ComputationLifecycle promises.
ImplementsComputation == Lifecycle!Spec

-----------------------------------------------------------------------------
(* Liveness.                                                               *)

\* A stop that was read, or a socket that was closed, ends the process.
RunEnds == causes \cap {"Quit", "Disconnected"} # {} ~> ~Running

\* A message that was sent is handled, unless something ends the run.
MessagesAreHandled ==
    \A n \in 1 .. MaxMessages :
        node.messages >= n /\ mGo ~> handling >= n \/ causes # {} \/ ~Running

\* The process neither hangs on a message nor at its end.
HostProgresses == RunEnds /\ MessagesAreHandled
================================================================================
