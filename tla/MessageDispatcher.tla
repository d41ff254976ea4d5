--------------------------- MODULE MessageDispatcher ---------------------------
(***************************************************************************)
(* class MessageDispatcher (shared_impl) over a PeerMessageEndpoint        *)
(* (message_impl): four threads that move messages between a socket, two   *)
(* queues and a MessageHandler.                                            *)
(*                                                                         *)
(*   master    starts the others, waits for the order to exit, unblocks    *)
(*             and joins them, and lets the endpoint go                    *)
(*   incoming  endpoint to mIncomingQueue                                  *)
(*   handler   mIncomingQueue to the handler, or onIdle                    *)
(*   outgoing  mOutgoingQueue to endpoint                                  *)
(*                                                                         *)
(* mStateMutex is held across steps only by the master, while it shuts the *)
(* queues and the endpoint down (StateLocked).  The threads' loops read    *)
(* mState, an atomic, without it.  The dispatcher's owner, and what the    *)
(* handler does, are left to the module that extends this one.             *)
(*                                                                         *)
(* What is in the socket is a sequence of items.  An item is a message,    *)
(* numbered by its sender, or one that cannot be deserialised; the owner   *)
(* may read further kinds.  What is sent is numbered by send.              *)
(***************************************************************************)
EXTENDS Naturals, ThreadsafeQueue

VARIABLES
    mState,             \* DispatcherState
    mExitReason,        \* DispatcherExitReason
    mIncomingQueue,     \* of message numbers
    mOutgoingQueue,     \* of message numbers
    master,             \* where the master thread is
    incoming,           \* where the incoming thread is
    received,           \* the message it has read and not pushed, or 0
    handler,            \* where the handler thread is
    mReceivedCount,     \* number of messages taken by it
    handling,           \* the last message taken by it
    outgoing,           \* where the outgoing thread is
    sending,            \* the message it is putting, or 0
    accepted,           \* number of messages accepted by send
    written,            \* the last message written to the socket
    mShutdown,          \* the endpoint's flag
    socket,             \* the ends that closed it: "here", "there"
    stream              \* items in the socket, not yet read

queues == <<mIncomingQueue, mOutgoingQueue>>
receiving == <<incoming, received>>
handlerVars == <<handler, mReceivedCount, handling>>
outgoingVars == <<outgoing, sending, written>>
endpoint == <<mShutdown, socket, stream>>
dispatcherVars == <<mState, mExitReason, queues, master, receiving,
                    handlerVars, outgoingVars, accepted, endpoint>>

DispatcherState == {"NotStarted", "Queueing", "Dispatching", "Exiting", "Exited"}

DispatcherExitReason == {"None", "Quit", "Disconnected", "MessageError",
                         "HandlerError"}

Item == [kind : {"message", "malformed", "go", "stop"}, id : Nat]

MasterState == {"none", "start", "queueing", "dispatching", "shutQueues",
                "shutEndpoint", "shutSocket", "join", "done"}

\* "quit" is the owner's: the incoming thread is about to call postQuit.
\* "disconnected" and "failed": it has caught a PeerDisconnectException, or any
\* other but a ShutdownException, and is about to call postError.
IncomingState == {"none", "read", "push", "disconnected", "failed", "quit", "done"}

HandlerState == {"none", "pop", "wait", "onMessage", "onIdle", "failed", "done"}

OutgoingState == {"none", "pop", "put", "failed", "done"}

DispatcherTypeOK ==
    /\ mState \in DispatcherState
    /\ mExitReason \in DispatcherExitReason
    /\ mIncomingQueue \in Queue(Nat)
    /\ mOutgoingQueue \in Queue(Nat)
    /\ master \in MasterState
    /\ incoming \in IncomingState
    /\ received \in Nat
    /\ handler \in HandlerState
    /\ mReceivedCount \in Nat
    /\ handling \in Nat
    /\ outgoing \in OutgoingState
    /\ sending \in Nat
    /\ accepted \in Nat
    /\ written \in Nat
    /\ mShutdown \in BOOLEAN
    /\ socket \in SUBSET {"here", "there"}
    /\ stream \in Seq(Item)

DispatcherInit ==
    /\ mState = "NotStarted"
    /\ mExitReason = "None"
    /\ mIncomingQueue = NewQueue
    /\ mOutgoingQueue = NewQueue
    /\ master = "none"
    /\ incoming = "none"
    /\ received = 0
    /\ handler = "none"
    /\ mReceivedCount = 0
    /\ handling = 0
    /\ outgoing = "none"
    /\ sending = 0
    /\ accepted = 0
    /\ written = 0
    /\ mShutdown = FALSE
    /\ socket = {}
    /\ stream = <<>>

Exiting == mState \in {"Exiting", "Exited"}

StateLocked == master \in {"shutQueues", "shutEndpoint", "shutSocket"}

\* The threads loop while mState is not Exiting.  Their loop's test is made by
\* the step that starts them or ends a pass, and the next pass takes it as it
\* was then.
Again(first) == IF mState' = "Exiting" THEN "done" ELSE first

-----------------------------------------------------------------------------
(* Calls of the owner.                                                     *)

\* send: false, and nothing else, once the queue was shut down.
Send ==
    /\ IF Accepts(mOutgoingQueue)
       THEN /\ accepted' = accepted + 1
            /\ mOutgoingQueue' = Push(mOutgoingQueue, accepted + 1)
       ELSE UNCHANGED <<accepted, mOutgoingQueue>>
    /\ UNCHANGED <<mState, mExitReason, mIncomingQueue, master, receiving,
                   handlerVars, outgoingVars, endpoint>>

StartQueueing ==
    /\ mState = "NotStarted"
    /\ mState' = "Queueing"
    /\ master' = "start"
    /\ UNCHANGED <<mExitReason, queues, receiving, handlerVars, outgoingVars,
                   accepted, endpoint>>

\* startDispatching throws a logic_error, and does nothing, in other states.
StartDispatching ==
    /\ ~StateLocked
    /\ mState' = IF mState = "Queueing" THEN "Dispatching" ELSE mState
    /\ UNCHANGED <<mExitReason, queues, master, receiving, handlerVars,
                   outgoingVars, accepted, endpoint>>

\* Mutant of PostQuit: without the test for the states after the order to exit.
PostQuitAnyway ==
    /\ ~StateLocked
    /\ mState' = "Exiting"
    /\ mExitReason' = "Quit"

PostQuit ==
    /\ ~StateLocked
    /\ IF Exiting
       THEN UNCHANGED <<mState, mExitReason>>
       ELSE mState' = "Exiting" /\ mExitReason' = "Quit"

\* Mutant of PostError: the first reason stays.
PostErrorFirst(reason) ==
    /\ ~StateLocked
    /\ mState' = "Exiting"
    /\ mExitReason' = IF mExitReason = "None" THEN reason ELSE mExitReason

\* postError keeps no record of an earlier reason.
PostError(reason) ==
    /\ ~StateLocked
    /\ mState' = "Exiting"
    /\ mExitReason' = reason

-----------------------------------------------------------------------------
(* The master thread.                                                      *)

StartIncoming ==
    /\ master = "start"
    /\ master' = "queueing"
    /\ UNCHANGED <<mState, mExitReason, queues, received, handlerVars,
                   outgoingVars, accepted, endpoint>>
    /\ incoming' = Again("read")

StartDispatchingThreads ==
    /\ master = "queueing"
    /\ mState = "Dispatching"
    /\ master' = "dispatching"
    /\ UNCHANGED <<mState, mExitReason, queues, receiving, mReceivedCount,
                   handling, sending, written, accepted, endpoint>>
    /\ outgoing' = Again("pop")
    /\ handler' = Again("pop")

\* Mutant of BeginExit: the wait for startDispatching wakes up for nothing else.
BeginExitDispatching ==
    /\ master = "dispatching"
    /\ mState = "Exiting"
    /\ master' = "shutQueues"
    /\ UNCHANGED <<mState, mExitReason, queues, receiving, handlerVars,
                   outgoingVars, accepted, endpoint>>

BeginExit ==
    /\ master \in {"queueing", "dispatching"}
    /\ mState = "Exiting"
    /\ master' = "shutQueues"
    /\ UNCHANGED <<mState, mExitReason, queues, receiving, handlerVars,
                   outgoingVars, accepted, endpoint>>

\* One step for the two queues: no thread waits for both.
ShutQueues ==
    /\ master = "shutQueues"
    /\ master' = "shutEndpoint"
    /\ mIncomingQueue' = Shut(mIncomingQueue)
    /\ mOutgoingQueue' = Shut(mOutgoingQueue)
    /\ UNCHANGED <<mState, mExitReason, receiving, handlerVars, outgoingVars,
                   accepted, endpoint>>

\* PeerMessageEndpoint::shutdown: the flag first, then the socket, so that
\* who is thrown out of the socket can tell why.
ShutEndpoint ==
    /\ master = "shutEndpoint"
    /\ master' = "shutSocket"
    /\ mShutdown' = TRUE
    /\ UNCHANGED <<mState, mExitReason, queues, receiving, handlerVars,
                   outgoingVars, accepted, socket, stream>>

ShutSocket ==
    /\ master = "shutSocket"
    /\ master' = "join"
    /\ socket' = socket \cup {"here"}
    /\ UNCHANGED <<mState, mExitReason, queues, receiving, handlerVars,
                   outgoingVars, accepted, mShutdown, stream>>

\* Mutants of Join: one of the threads is not joined.
JoinWithoutOutgoing ==
    /\ master = "join"
    /\ incoming \in {"none", "done"}
    /\ handler \in {"none", "done"}
    /\ master' = "done"
    /\ mState' = "Exited"
    /\ UNCHANGED <<mExitReason, queues, receiving, handlerVars, outgoingVars,
                   accepted, endpoint>>

JoinWithoutHandler ==
    /\ master = "join"
    /\ incoming \in {"none", "done"}
    /\ outgoing \in {"none", "done"}
    /\ master' = "done"
    /\ mState' = "Exited"
    /\ UNCHANGED <<mExitReason, queues, receiving, handlerVars, outgoingVars,
                   accepted, endpoint>>

\* The three joins, then mSource.reset().
Join ==
    /\ master = "join"
    /\ incoming \in {"none", "done"}
    /\ outgoing \in {"none", "done"}
    /\ handler \in {"none", "done"}
    /\ master' = "done"
    /\ mState' = "Exited"
    /\ UNCHANGED <<mExitReason, queues, receiving, handlerVars, outgoingVars,
                   accepted, endpoint>>

Master ==
    \/ StartIncoming
    \/ StartDispatchingThreads
    \/ BeginExit
    \/ ShutQueues
    \/ ShutEndpoint
    \/ ShutSocket
    \/ Join

-----------------------------------------------------------------------------
(* The incoming thread.                                                    *)

IncomingUnchanged == UNCHANGED <<mOutgoingQueue, master, handlerVars,
                                 outgoingVars, accepted, mShutdown, socket>>

ReadMessage ==
    /\ incoming = "read"
    /\ stream # <<>>
    /\ Head(stream).kind = "message"
    /\ stream' = Tail(stream)
    /\ incoming' = "push"
    /\ received' = Head(stream).id
    /\ UNCHANGED <<mState, mExitReason, mIncomingQueue>>
    /\ IncomingUnchanged

ReadMalformed ==
    /\ incoming = "read"
    /\ stream # <<>>
    /\ Head(stream).kind = "malformed"
    /\ stream' = Tail(stream)
    /\ incoming' = "failed"
    /\ UNCHANGED <<mState, mExitReason, mIncomingQueue, received>>
    /\ IncomingUnchanged

\* Mutant of ReadEnds: an exception of the socket is always a disconnection.
ReadEndsDisconnected ==
    /\ incoming = "read"
    /\ mShutdown \/ (stream = <<>> /\ socket # {})
    /\ UNCHANGED <<mState, mExitReason, mIncomingQueue, received, stream>>
    /\ IncomingUnchanged
    /\ incoming' = "disconnected"

\* The flag is found set, or nothing is left to receive: an exception, and
\* which one depends on the flag, which is only set when mState is Exiting.
ReadEnds ==
    /\ incoming = "read"
    /\ mShutdown \/ (stream = <<>> /\ socket # {})
    /\ UNCHANGED <<mState, mExitReason, mIncomingQueue, received, stream>>
    /\ IncomingUnchanged
    /\ incoming' = IF mShutdown THEN Again("read") ELSE "disconnected"

\* The peer did not read all it was sent: the receive fails, with a plain
\* PeerException, which is no disconnection and is kept whatever the flag.
ReadIsReset ==
    /\ incoming = "read"
    /\ stream = <<>>
    /\ "there" \in socket
    /\ incoming' = "failed"
    /\ UNCHANGED <<mState, mExitReason, mIncomingQueue, received, stream>>
    /\ IncomingUnchanged

PushReceived ==
    /\ incoming = "push"
    /\ mIncomingQueue' = IF Accepts(mIncomingQueue)
                         THEN Push(mIncomingQueue, received)
                         ELSE mIncomingQueue
    /\ received' = 0
    /\ UNCHANGED <<mState, mExitReason, stream>>
    /\ IncomingUnchanged
    /\ incoming' = Again("read")

IncomingFails ==
    /\ \/ incoming = "disconnected" /\ PostError("Disconnected")
       \/ incoming = "failed" /\ PostError("MessageError")
    /\ UNCHANGED <<mIncomingQueue, received, stream>>
    /\ IncomingUnchanged
    /\ incoming' = Again("read")

-----------------------------------------------------------------------------
(* The handler thread.                                                     *)

HandlerUnchanged == UNCHANGED <<mOutgoingQueue, master, receiving, outgoingVars,
                                accepted, endpoint>>

HandlerPops ==
    /\ handler \in {"pop", "wait"}
    /\ Poppable(mIncomingQueue)
    /\ handler' = "onMessage"
    /\ handling' = First(mIncomingQueue)
    /\ mIncomingQueue' = Pop(mIncomingQueue)
    /\ mReceivedCount' = mReceivedCount + 1
    /\ UNCHANGED <<mState, mExitReason>>
    /\ HandlerUnchanged

HandlerWaits ==
    /\ handler = "pop"
    /\ Accepts(mIncomingQueue)
    /\ mIncomingQueue.items = <<>>
    /\ handler' = "wait"
    /\ UNCHANGED <<mState, mExitReason, mIncomingQueue, mReceivedCount, handling>>
    /\ HandlerUnchanged

\* The wait times out, even when a message or the shutdown came meanwhile.
HandlerIdles ==
    /\ handler = "wait"
    /\ handler' = "onIdle"
    /\ UNCHANGED <<mState, mExitReason, mIncomingQueue, mReceivedCount, handling>>
    /\ HandlerUnchanged

HandlerIsShutDown ==
    /\ handler \in {"pop", "wait"}
    /\ mIncomingQueue.mShutdown
    /\ UNCHANGED <<mState, mExitReason, mIncomingQueue, mReceivedCount, handling>>
    /\ HandlerUnchanged
    /\ handler' = Again("pop")

\* handleMessage or onIdle returns.
HandlerReturns ==
    /\ handler \in {"onMessage", "onIdle"}
    /\ UNCHANGED <<mState, mExitReason, mIncomingQueue, mReceivedCount, handling>>
    /\ HandlerUnchanged
    /\ handler' = Again("pop")

HandlerThrows ==
    /\ handler \in {"onMessage", "onIdle"}
    /\ handler' = "failed"
    /\ UNCHANGED <<mState, mExitReason, mIncomingQueue, mReceivedCount, handling>>
    /\ HandlerUnchanged

HandlerFails ==
    /\ handler = "failed"
    /\ PostError("HandlerError")
    /\ UNCHANGED <<mIncomingQueue, mReceivedCount, handling>>
    /\ HandlerUnchanged
    /\ handler' = Again("pop")

-----------------------------------------------------------------------------
(* The outgoing thread.                                                    *)

OutgoingUnchanged == UNCHANGED <<mIncomingQueue, master, receiving, handlerVars,
                                 accepted, endpoint>>

OutgoingPops ==
    /\ outgoing = "pop"
    /\ Poppable(mOutgoingQueue)
    /\ outgoing' = "put"
    /\ sending' = First(mOutgoingQueue)
    /\ mOutgoingQueue' = Pop(mOutgoingQueue)
    /\ UNCHANGED <<mState, mExitReason, written>>
    /\ OutgoingUnchanged

\* The test of the endpoint's flag in putEnvelope belongs to the step that
\* follows.  The flag was not set when the message was popped, so that it may
\* have been tested before all that has happened since, or after.
OutgoingIsShutDown ==
    /\ \/ outgoing = "pop" /\ mOutgoingQueue.mShutdown
       \/ outgoing = "put" /\ mShutdown
    /\ sending' = 0
    /\ UNCHANGED <<mState, mExitReason, mOutgoingQueue, written>>
    /\ OutgoingUnchanged
    /\ outgoing' = Again("pop")

\* A write to a socket that the peer has closed may still succeed.
PutSending ==
    /\ outgoing = "put"
    /\ "here" \notin socket
    /\ written' = sending
    /\ sending' = 0
    /\ UNCHANGED <<mState, mExitReason, mOutgoingQueue>>
    /\ OutgoingUnchanged
    /\ outgoing' = Again("pop")

PutThrows ==
    /\ outgoing = "put"
    /\ outgoing' = "failed"
    /\ sending' = 0
    /\ UNCHANGED <<mState, mExitReason, mOutgoingQueue, written>>
    /\ OutgoingUnchanged

\* A send on a socket closed at either end throws a plain PeerException, which
\* putEnvelope passes on: it only looks at the flag for a disconnection.
PutFails == socket # {} /\ PutThrows

SerializeFails == PutThrows

\* Mutant of OutgoingFails: the error is swallowed.
OutgoingFailsSilently ==
    /\ outgoing = "failed"
    /\ UNCHANGED <<mState, mExitReason, mOutgoingQueue, sending, written>>
    /\ OutgoingUnchanged
    /\ outgoing' = Again("pop")

OutgoingFails ==
    /\ outgoing = "failed"
    /\ PostError("MessageError")
    /\ UNCHANGED <<mOutgoingQueue, sending, written>>
    /\ OutgoingUnchanged
    /\ outgoing' = Again("pop")
================================================================================
