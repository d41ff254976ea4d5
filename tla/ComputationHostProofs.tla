------------------------ MODULE ComputationHostProofs ------------------------
(***************************************************************************)
(* Proofs about ComputationHost, for every value of its bounds: the types, *)
(* the safety invariants from the inductive invariant IInv, the order of   *)
(* the messages on both sides, and the refinement of ComputationLifecycle. *)
(***************************************************************************)
EXTENDS ComputationHost, SequenceTheorems, TLAPS

(* Types.                                                                  *)

\* A sequence and what the actions do to it.
LEMMA AppendIs ==
    ASSUME NEW S, NEW s \in Seq(S), NEW e \in S
    PROVE  /\ Append(s, e) \in Seq(S)
           /\ Len(Append(s, e)) = Len(s) + 1
           /\ \A i \in 1 .. Len(s) : Append(s, e)[i] = s[i]
           /\ Append(s, e)[Len(s) + 1] = e
OBVIOUS

LEMMA TailIs ==
    ASSUME NEW S, NEW s \in Seq(S), s # <<>>
    PROVE  /\ Head(s) \in S /\ Head(s) = s[1] /\ Len(s) >= 1
           /\ Tail(s) \in Seq(S)
           /\ Len(Tail(s)) = Len(s) - 1
           /\ \A i \in 1 .. Len(Tail(s)) : Tail(s)[i] = s[i + 1]
BY HeadTailProperties, EmptySeq

\* A queue keeps its type.
LEMMA NewQueueType == NewQueue \in Queue(Nat)
<1>1. <<>> \in Seq(Nat)
  BY EmptySeq
<1> QED BY <1>1 DEF Queue, NewQueue

LEMMA QueueType ==
    ASSUME NEW q \in Queue(Nat), NEW n \in Nat
    PROVE  /\ Push(q, n) \in Queue(Nat)
           /\ Shut(q) \in Queue(Nat)
           /\ Poppable(q) => First(q) \in Nat /\ Pop(q) \in Queue(Nat)
<1>1. q.items \in Seq(Nat) /\ q.mShutdown \in BOOLEAN
  BY DEF Queue
<1>2. Append(q.items, n) \in Seq(Nat)
  BY <1>1, AppendIs
<1>3. q.items # <<>> => Head(q.items) \in Nat /\ Tail(q.items) \in Seq(Nat)
  BY <1>1, TailIs
<1> QED BY <1>1, <1>2, <1>3 DEF Queue, Push, Shut, Poppable, First, Pop

LEMMA TypeInit == Init => TypeOK
<1> SUFFICES ASSUME Init PROVE TypeOK
  OBVIOUS
<1>1. DispatcherTypeOK
  <2>1. <<>> \in Seq(Item)
    BY EmptySeq
  <2> QED BY <2>1, NewQueueType
             DEF Init, DispatcherInit, DispatcherTypeOK, DispatcherState,
                 DispatcherExitReason, MasterState, IncomingState, HandlerState,
                 OutgoingState
<1> QED BY <1>1 DEF Init, DispatcherInit, TypeOK, MainState, ExitCode, Cause, Failure

\* The dispatcher's threads are served by a master that has started and is not
\* done; with it, an error is never posted to a dispatcher that has exited.
LEMMA ServedInit == Init => ThreadsAreServed
BY DEF Init, DispatcherInit, ThreadsAreServed, Alive, Serving, Unconnected, Running

\* What leaves the dispatcher as it is.
LEMMA HostFrame ==
    DispatcherTypeOK /\ UNCHANGED dispatcherVars =>
        /\ DispatcherTypeOK' /\ mState' = mState /\ master' = master
BY DEF DispatcherTypeOK, dispatcherVars, queues, receiving, handlerVars,
       outgoingVars, endpoint

\* What leaves the rest of the host as it is.
LEMMA DispatcherFrame ==
    ASSUME TypeOK, DispatcherTypeOK', UNCHANGED hostVars,
           mState' = "NotStarted" <=> master' = "none",
           mState' = "Exited" <=> master' = "done"
    PROVE  TypeOK'
BY DEF TypeOK, hostVars

LEMMA SendType ==
    ASSUME DispatcherTypeOK, Send
    PROVE  DispatcherTypeOK' /\ mState' = mState /\ master' = master
<1>1. mOutgoingQueue' \in Queue(Nat) /\ accepted' \in Nat
  <2>1. mOutgoingQueue \in Queue(Nat) /\ accepted \in Nat /\ accepted + 1 \in Nat
    BY DEF DispatcherTypeOK
  <2>2. Push(mOutgoingQueue, accepted + 1) \in Queue(Nat)
    BY <2>1, QueueType
  <2> QED BY <2>1, <2>2 DEF Send
<1> QED BY <1>1 DEF Send, DispatcherTypeOK, receiving, handlerVars, outgoingVars, endpoint

LEMMA MainType == TypeOK /\ ThreadsAreServed /\ Running /\ Main => TypeOK'
<1> SUFFICES ASSUME TypeOK, ThreadsAreServed, Running, Main PROVE TypeOK'
  OBVIOUS
<1> USE DEF Goto, MainState
<1>0. DispatcherTypeOK
  BY DEF TypeOK
<1>1. CASE Load \/ Initialize \/ Connect \/ StartMonitor \/ WaitForGo \/ Start
  BY <1>0, <1>1, HostFrame
     DEF TypeOK, Load, Initialize, Connect, StartMonitor, WaitForGo, Start
<1>2. CASE LoadFails \/ InitializeFails \/ ConnectFails \/ GoTimesOut
  BY <1>0, <1>2, HostFrame
     DEF TypeOK, LoadFails, InitializeFails, ConnectFails, GoTimesOut, Exit, ExitCode
<1>3. CASE Started \/ WaitForExit \/ Stopped \/ StopMonitor
  BY <1>0, <1>3, HostFrame DEF TypeOK, Started, WaitForExit, Stopped, StopMonitor, Cause
<1>4. CASE JoinMonitor
  BY <1>0, <1>4, HostFrame DEF TypeOK, JoinMonitor, Exit, ReasonCode, ExitCode
<1>5. CASE SendReady
  BY <1>0, <1>5, SendType DEF TypeOK, SendReady
<1>6. CASE BeginQueueing
  <2>1. DispatcherTypeOK'
    BY <1>0, <1>6 DEF BeginQueueing, StartQueueing, DispatcherTypeOK, DispatcherState,
       MasterState, queues, receiving, handlerVars, outgoingVars, endpoint
  <2> QED BY <2>1, <1>6 DEF TypeOK, BeginQueueing, StartQueueing
<1>7. CASE BeginDispatching
  <2>1. DispatcherTypeOK'
    BY <1>0, <1>7 DEF BeginDispatching, StartDispatching, DispatcherTypeOK,
       DispatcherState, queues, receiving, handlerVars, outgoingVars, endpoint
  <2> QED BY <2>1, <1>7 DEF TypeOK, BeginDispatching, StartDispatching
<1>8. CASE QuitAfterException
  <2>1. DispatcherTypeOK'
    BY <1>0, <1>8 DEF QuitAfterException, PostQuit, DispatcherTypeOK, DispatcherState,
       DispatcherExitReason, queues, receiving, handlerVars, outgoingVars, endpoint
  <2> QED BY <2>1, <1>8 DEF TypeOK, QuitAfterException, PostQuit, Exiting,
                            ThreadsAreServed, Unconnected
<1> QED BY <1>1, <1>2, <1>3, <1>4, <1>5, <1>6, <1>7, <1>8 DEF Main

LEMMA MonitorType == TypeOK /\ Monitor => TypeOK'
<1> SUFFICES ASSUME TypeOK, Monitor PROVE TypeOK'
  OBVIOUS
<1>0. DispatcherTypeOK
  BY DEF TypeOK
<1>1. CASE MonitorBeats
  BY <1>0, <1>1, SendType DEF TypeOK, MonitorBeats
<1>2. CASE MonitorEnds
  BY <1>0, <1>2, HostFrame DEF TypeOK, MonitorEnds
<1> QED BY <1>1, <1>2 DEF Monitor

LEMMA MasterType == TypeOK /\ MasterThread => TypeOK'
<1> SUFFICES ASSUME TypeOK, MasterThread PROVE TypeOK'
  OBVIOUS
<1> USE DEF queues, receiving, handlerVars, outgoingVars, endpoint
<1>0. DispatcherTypeOK /\ Master /\ UNCHANGED hostVars
  BY DEF TypeOK, MasterThread
<1>1. CASE StartIncoming \/ StartDispatchingThreads
  <2>1. DispatcherTypeOK'
    BY <1>0, <1>1 DEF StartIncoming, StartDispatchingThreads, Again, DispatcherTypeOK,
                      MasterState, IncomingState, HandlerState, OutgoingState
  <2> QED BY <1>0, <1>1, <2>1, DispatcherFrame
             DEF StartIncoming, StartDispatchingThreads, TypeOK
<1>2. CASE BeginExit \/ ShutEndpoint \/ ShutSocket \/ Join
  <2>1. DispatcherTypeOK'
    BY <1>0, <1>2 DEF BeginExit, ShutEndpoint, ShutSocket, Join, DispatcherTypeOK,
                      DispatcherState, MasterState
  <2> QED BY <1>0, <1>2, <2>1, DispatcherFrame
             DEF BeginExit, ShutEndpoint, ShutSocket, Join, TypeOK
<1>3. CASE ShutQueues
  <2>1. mIncomingQueue' \in Queue(Nat) /\ mOutgoingQueue' \in Queue(Nat)
    BY <1>0, <1>3, QueueType DEF ShutQueues, DispatcherTypeOK
  <2>2. DispatcherTypeOK'
    BY <1>0, <1>3, <2>1 DEF ShutQueues, DispatcherTypeOK, MasterState
  <2> QED BY <1>0, <1>3, <2>2, DispatcherFrame DEF ShutQueues, TypeOK
<1> QED BY <1>0, <1>1, <1>2, <1>3 DEF Master

\* Where a thread that is served runs, errors can be posted.
LEMMA ServedIsRunning ==
    ASSUME TypeOK, ThreadsAreServed,
           Alive(incoming) \/ Alive(handler) \/ Alive(outgoing)
    PROVE  mState # "NotStarted" /\ mState # "Exited" /\ master \notin {"none", "done"}
BY DEF TypeOK, ThreadsAreServed, Serving

LEMMA HeadIsItem ==
    ASSUME TypeOK, stream # <<>>
    PROVE  Head(stream) \in Item /\ Tail(stream) \in Seq(Item)
BY TailIs DEF TypeOK, DispatcherTypeOK

\* A thread of the dispatcher notes no more than a failure.
LEMMA NotesType ==
    ASSUME TypeOK, DispatcherTypeOK', master' = master, mState' \in {mState, "Exiting"},
           mState # "NotStarted", mState # "Exited", master \notin {"none", "done"},
           UNCHANGED hostVars \/ \E failure \in Failure : Notes(failure)
    PROVE  TypeOK'
BY DEF TypeOK, hostVars, Notes, Cause

LEMMA IncomingType == TypeOK /\ ThreadsAreServed /\ IncomingThread => TypeOK'
<1> SUFFICES ASSUME TypeOK, ThreadsAreServed, IncomingThread PROVE TypeOK'
  OBVIOUS
<1> USE DEF queues, receiving, handlerVars, outgoingVars, endpoint, IncomingUnchanged
<1>0. DispatcherTypeOK
  BY DEF TypeOK
<1>1. CASE ~SignalGo /\ ~SignalStop
  <2>1. DispatcherTypeOK' /\ master' = master
          /\ mState' \in {mState, "Exiting"}
    <3>1. CASE ReadMessage
      BY <1>0, <3>1, HeadIsItem DEF ReadMessage, DispatcherTypeOK, IncomingState, Item
    <3>2. CASE ReadMalformed
      BY <1>0, <3>2, HeadIsItem DEF ReadMalformed, DispatcherTypeOK, IncomingState
    <3>3. CASE ReadEnds \/ ReadIsReset
      BY <1>0, <3>3 DEF ReadEnds, ReadIsReset, Again, DispatcherTypeOK, IncomingState
    <3>4. CASE PushReceived
      <4>1. Push(mIncomingQueue, received) \in Queue(Nat)
        BY <1>0, QueueType DEF DispatcherTypeOK
      <4> QED BY <1>0, <3>4, <4>1 DEF PushReceived, Again, DispatcherTypeOK, IncomingState
    <3>5. CASE IncomingFails
      BY <1>0, <3>5 DEF IncomingFails, PostError, Again, DispatcherTypeOK,
                 IncomingState, DispatcherState, DispatcherExitReason
    <3> QED BY <1>1, <3>1, <3>2, <3>3, <3>4, <3>5 DEF IncomingThread
  <2>2. Alive(incoming)
    BY <1>1 DEF IncomingThread, ReadMessage, ReadMalformed, ReadEnds, ReadIsReset,
                PushReceived, IncomingFails, Alive
  <2>3. \/ UNCHANGED hostVars
        \/ \E failure \in Failure : Notes(failure)
    BY <1>1 DEF IncomingThread, Failure
  <2> QED BY <2>1, <2>2, <2>3, ServedIsRunning, NotesType
<1>2. CASE SignalGo
  <2>1. DispatcherTypeOK'
    BY <1>0, <1>2, HeadIsItem DEF SignalGo, DispatcherTypeOK, IncomingState
  <2> QED BY <1>2, <2>1 DEF TypeOK, SignalGo, Cause
<1>3. CASE SignalStop
  <2>1. DispatcherTypeOK' /\ master' = master
          /\ mState' \in {mState, "Exiting"}
    BY <1>0, <1>3 DEF SignalStop, PostQuit, DispatcherTypeOK, DispatcherState,
                      DispatcherExitReason, IncomingState
  <2>2. Alive(incoming)
    BY <1>3 DEF SignalStop, Alive
  <2> QED BY <1>3, <2>1, <2>2, ServedIsRunning, DispatcherFrame DEF SignalStop, TypeOK
<1> QED BY <1>1, <1>2, <1>3 DEF IncomingThread

LEMMA HandlerType == TypeOK /\ ThreadsAreServed /\ HandlerThread => TypeOK'
<1> SUFFICES ASSUME TypeOK, ThreadsAreServed, HandlerThread PROVE TypeOK'
  OBVIOUS
<1> USE DEF queues, receiving, outgoingVars, endpoint, HandlerUnchanged
<1>0. DispatcherTypeOK
  BY DEF TypeOK
<1>1. DispatcherTypeOK' /\ master' = master /\ mState' \in {mState, "Exiting"}
  <2>1. CASE HandlerPops
    <3>1. First(mIncomingQueue) \in Nat /\ Pop(mIncomingQueue) \in Queue(Nat)
      BY <1>0, <2>1, QueueType DEF HandlerPops, DispatcherTypeOK
    <3> QED BY <1>0, <2>1, <3>1 DEF HandlerPops, DispatcherTypeOK, HandlerState
  <2>2. CASE HandlerWaits \/ HandlerIdles \/ HandlerIsShutDown \/ HandlerReturns
                \/ HandlerThrows
    BY <1>0, <2>2 DEF HandlerWaits, HandlerIdles, HandlerIsShutDown, HandlerReturns,
               HandlerThrows, Again, DispatcherTypeOK, HandlerState
  <2>3. CASE HandlerFails
    BY <1>0, <2>3 DEF HandlerFails, PostError, Again, DispatcherTypeOK,
               HandlerState, DispatcherState, DispatcherExitReason
  <2> QED BY <2>1, <2>2, <2>3 DEF HandlerThread
<1>2. Alive(handler)
  BY DEF HandlerThread, HandlerPops, HandlerWaits, HandlerIdles, HandlerIsShutDown,
         HandlerReturns, HandlerThrows, HandlerFails, Alive
<1>3. UNCHANGED hostVars \/ \E failure \in Failure : Notes(failure)
  BY DEF HandlerThread, Failure
<1> QED BY <1>1, <1>2, <1>3, ServedIsRunning, NotesType

LEMMA OutgoingType == TypeOK /\ ThreadsAreServed /\ OutgoingThread => TypeOK'
<1> SUFFICES ASSUME TypeOK, ThreadsAreServed, OutgoingThread PROVE TypeOK'
  OBVIOUS
<1> USE DEF queues, receiving, handlerVars, endpoint, OutgoingUnchanged
<1>0. DispatcherTypeOK
  BY DEF TypeOK
<1>1. DispatcherTypeOK' /\ master' = master /\ mState' \in {mState, "Exiting"}
  <2>1. CASE OutgoingPops
    <3>1. First(mOutgoingQueue) \in Nat /\ Pop(mOutgoingQueue) \in Queue(Nat)
      BY <1>0, <2>1, QueueType DEF OutgoingPops, DispatcherTypeOK
    <3> QED BY <1>0, <2>1, <3>1 DEF OutgoingPops, DispatcherTypeOK, OutgoingState
  <2>2. CASE OutgoingIsShutDown
    BY <1>0, <2>2 DEF OutgoingIsShutDown, Again, DispatcherTypeOK, OutgoingState
  <2>5. CASE PutSending
    BY <1>0, <2>5 DEF PutSending, Again, DispatcherTypeOK, OutgoingState
  <2>4. CASE PutThrows
    BY <1>0, <2>4 DEF PutThrows, DispatcherTypeOK, OutgoingState
  <2>3. CASE OutgoingFails
    BY <1>0, <2>3 DEF OutgoingFails, PostError, Again, DispatcherTypeOK,
               OutgoingState, DispatcherState, DispatcherExitReason
  <2> QED BY <2>1, <2>2, <2>3, <2>4, <2>5
          DEF OutgoingThread, PutFails, SerializeFails
<1>2. Alive(outgoing)
  BY DEF OutgoingThread, OutgoingPops, OutgoingIsShutDown, PutSending, PutFails,
         SerializeFails, PutThrows, OutgoingFails, Alive
<1>3. UNCHANGED hostVars \/ \E failure \in Failure : Notes(failure)
  BY DEF OutgoingThread, Failure
<1> QED BY <1>1, <1>2, <1>3, ServedIsRunning, NotesType

LEMMA OutsideType ==
    TypeOK /\ (ComputationSends \/ NodeSends \/ NodeCloses) => TypeOK'
<1> SUFFICES ASSUME TypeOK, ComputationSends \/ NodeSends \/ NodeCloses PROVE TypeOK'
  OBVIOUS
<1> USE DEF queues, receiving, handlerVars, outgoingVars
<1>0. DispatcherTypeOK
  BY DEF TypeOK
<1>1. CASE ComputationSends
  BY <1>0, <1>1, SendType, DispatcherFrame DEF ComputationSends, TypeOK
<1>2. CASE NodeSends
  <2> DEFINE Node == [messages : Nat, controls : SUBSET {"malformed", "go", "stop"}]
  <2>0. node \in Node
    BY DEF TypeOK
  <2>1. node' \in Node /\ \E i \in Item : stream' = Append(stream, i)
    <3>1. CASE NodeSendsMessage
      <4> DEFINE item == [kind |-> "message", id |-> node.messages + 1]
      <4>1. item \in Item
        BY <2>0 DEF Item
      <4>2. stream' = Append(stream, item)
        BY <3>1 DEF NodeSendsMessage
      <4>3. node' \in Node
        BY <2>0, <3>1 DEF NodeSendsMessage
      <4> QED BY <4>1, <4>2, <4>3
    <3>2. CASE NodeSendsControl
      <4>1. PICK kind \in {"malformed", "go", "stop"} :
               /\ node' = [node EXCEPT !.controls = @ \cup {kind}]
               /\ stream' = Append(stream, [kind |-> kind, id |-> 0])
        BY <3>2 DEF NodeSendsControl
      <4>2. [kind |-> kind, id |-> 0] \in Item
        BY DEF Item
      <4>3. node' \in Node
        BY <2>0, <4>1
      <4> QED BY <4>1, <4>2, <4>3
    <3> QED BY <1>2, <3>1, <3>2 DEF NodeSends
  <2>3. stream' \in Seq(Item)
    BY <1>0, <2>1, AppendIs DEF DispatcherTypeOK
  <2>4. DispatcherTypeOK'
    BY <1>0, <1>2, <2>3 DEF NodeSends, DispatcherTypeOK
  <2> QED BY <1>2, <2>1, <2>4 DEF NodeSends, TypeOK
<1>3. CASE NodeCloses
  <2>1. DispatcherTypeOK'
    BY <1>0, <1>3 DEF NodeCloses, DispatcherTypeOK
  <2> QED BY <1>3, <2>1 DEF NodeCloses, TypeOK, Cause
<1> QED BY <1>1, <1>2, <1>3

LEMMA TypeStep == TypeOK /\ ThreadsAreServed /\ [Next]_vars => TypeOK'
<1> SUFFICES ASSUME TypeOK, ThreadsAreServed, [Next]_vars PROVE TypeOK'
  OBVIOUS
<1>1. CASE UNCHANGED vars
  BY <1>1, HostFrame DEF vars, hostVars, TypeOK
<1> QED BY <1>1, MainType, MonitorType, MasterType, IncomingType, HandlerType,
           OutgoingType, OutsideType DEF Next

-----------------------------------------------------------------------------
(* The inductive invariant.                                                *)

\* A queue that was shut stays so, and no operation but Shut does it.
LEMMA QueueFlag ==
    ASSUME NEW q \in Queue(Nat), NEW n \in Nat
    PROVE  /\ Push(q, n).mShutdown = q.mShutdown
           /\ Pop(q).mShutdown = q.mShutdown
           /\ Shut(q).mShutdown
           /\ Push(q, n).items = Append(q.items, n)
           /\ Pop(q).items = Tail(q.items)
           /\ Shut(q).items = q.items
BY DEF Queue, Push, Pop, Shut

LEMMA InvInit == Init => IInv
BY DEF Init, DispatcherInit, IInv, ThreadsAreServed, ShutInOrder, ReasonIsKnown,
       Failing, ExitCodeTellsTheCause, Alive, Serving, Unconnected, Running, Exiting,
       NewQueue

\* What the owner's threads and the outside do, to the dispatcher's threads.
LEMMA ServedStep == TypeOK /\ ThreadsAreServed /\ Next => ThreadsAreServed'
<1> SUFFICES ASSUME TypeOK, ThreadsAreServed, Next PROVE ThreadsAreServed'
  OBVIOUS
<1> USE DEF queues, receiving, handlerVars, outgoingVars, endpoint, dispatcherVars,
            Alive, Serving, Unconnected, Running, ThreadsAreServed
<1>1. CASE Main
  <2> USE DEF Goto, Exit
  <2>1. CASE Load \/ LoadFails \/ Initialize \/ InitializeFails \/ Connect
                \/ ConnectFails \/ StartMonitor
    BY <2>1 DEF Load, LoadFails, Initialize, InitializeFails, Connect, ConnectFails,
                StartMonitor
  <2>2. CASE BeginQueueing \/ SendReady
    BY <2>2 DEF BeginQueueing, StartQueueing, SendReady, Send
  <2>3. CASE WaitForGo \/ GoTimesOut \/ Start \/ Started
    BY <2>3 DEF WaitForGo, GoTimesOut, Start, Started
  <2>4. CASE QuitAfterException \/ BeginDispatching
    BY <2>4 DEF QuitAfterException, BeginDispatching, StartDispatching
  <2>5. CASE WaitForExit \/ Stopped \/ StopMonitor
    BY <2>5 DEF WaitForExit, Stopped, StopMonitor
  <2>6. CASE JoinMonitor
    BY <2>6 DEF JoinMonitor, ReasonCode
  <2> QED BY <1>1, <2>1, <2>2, <2>3, <2>4, <2>5, <2>6 DEF Main
<1>2. CASE Monitor
  BY <1>2 DEF Monitor, MonitorBeats, MonitorEnds, Send
<1>3. CASE MasterThread
  <2>1. CASE StartIncoming \/ StartDispatchingThreads
    BY <1>3, <2>1 DEF MasterThread, StartIncoming, StartDispatchingThreads, Again, hostVars
  <2>2. CASE BeginExit \/ ShutQueues \/ ShutEndpoint \/ ShutSocket
    BY <1>3, <2>2 DEF MasterThread, BeginExit, ShutQueues, ShutEndpoint, ShutSocket, hostVars
  <2>3. CASE Join
    BY <1>3, <2>3 DEF MasterThread, Join, hostVars
  <2> QED BY <1>3, <2>1, <2>2, <2>3 DEF MasterThread, Master
<1>4. CASE IncomingThread
  <2> USE DEF IncomingUnchanged, Again
  <2>1. CASE ~SignalGo /\ ~SignalStop
    BY <1>4, <2>1 DEF IncomingThread, ReadMessage, ReadMalformed, ReadEnds, ReadIsReset,
                PushReceived, IncomingFails, Notes, hostVars
  <2>2. CASE SignalGo \/ SignalStop
    BY <2>2 DEF SignalGo, SignalStop, hostVars
  <2> QED BY <1>4, <2>1, <2>2 DEF IncomingThread
<1>5. CASE HandlerThread
  BY <1>5 DEF HandlerThread, HandlerPops, HandlerWaits, HandlerIdles,
              HandlerIsShutDown, HandlerReturns, HandlerThrows, HandlerFails, Notes,
              hostVars, HandlerUnchanged, Again
<1>6. CASE OutgoingThread
  BY <1>6 DEF OutgoingThread, OutgoingPops, OutgoingIsShutDown, PutSending,
              PutFails, SerializeFails, PutThrows, OutgoingFails, Notes, hostVars,
              OutgoingUnchanged, Again
<1>7. CASE ComputationSends \/ NodeSends \/ NodeCloses
  BY <1>7 DEF ComputationSends, Send, NodeSends, NodeCloses, hostVars
<1> QED BY <1>1, <1>2, <1>3, <1>4, <1>5, <1>6, <1>7 DEF Next

LEMMA ShutStep == TypeOK /\ ThreadsAreServed /\ ShutInOrder /\ Next => ShutInOrder'
<1> SUFFICES ASSUME TypeOK, ThreadsAreServed, ShutInOrder, Next PROVE ShutInOrder'
  OBVIOUS
<1> USE DEF queues, receiving, handlerVars, outgoingVars, endpoint, dispatcherVars
<1>q. /\ mIncomingQueue \in Queue(Nat) /\ mOutgoingQueue \in Queue(Nat)
      /\ received \in Nat /\ accepted + 1 \in Nat
  BY DEF TypeOK, DispatcherTypeOK
<1>0. ASSUME mOutgoingQueue' = Push(mOutgoingQueue, accepted + 1)
      PROVE  mOutgoingQueue'.mShutdown = mOutgoingQueue.mShutdown
  BY <1>q, <1>0, QueueFlag
<1>1. CASE Main
  <2>1. CASE UNCHANGED dispatcherVars
    BY <2>1 DEF ShutInOrder
  <2>2. CASE BeginQueueing
    BY <2>2 DEF BeginQueueing, StartQueueing, ShutInOrder, TypeOK
  <2>3. CASE SendReady
    BY <1>0, <2>3 DEF SendReady, Send, ShutInOrder
  <2>4. CASE QuitAfterException \/ BeginDispatching
    BY <2>4 DEF QuitAfterException, PostQuit, Exiting, BeginDispatching, StartDispatching,
                ShutInOrder
  <2> QED BY <1>1, <2>1, <2>2, <2>3, <2>4
          DEF Main, Load, LoadFails, Initialize, InitializeFails, Connect, ConnectFails,
              StartMonitor, WaitForGo, GoTimesOut, Start, Started, WaitForExit, Stopped,
              StopMonitor, JoinMonitor, Exit
<1>2. CASE Monitor
  BY <1>0, <1>2 DEF Monitor, MonitorBeats, MonitorEnds, Send, ShutInOrder
<1>3. CASE MasterThread
  <2>1. CASE StartIncoming \/ StartDispatchingThreads \/ BeginExit
    BY <2>1 DEF StartIncoming, StartDispatchingThreads, BeginExit, ShutInOrder
  <2>2. CASE ShutQueues
    BY <1>q, <2>2, QueueFlag DEF ShutQueues, ShutInOrder
  <2>3. CASE ShutEndpoint \/ ShutSocket \/ Join
    BY <2>3 DEF ShutEndpoint, ShutSocket, Join, ShutInOrder
  <2> QED BY <1>3, <2>1, <2>2, <2>3 DEF MasterThread, Master
<1>4. CASE IncomingThread
  <2> USE DEF IncomingUnchanged
  <2>1. CASE ReadMessage \/ ReadMalformed \/ ReadEnds \/ ReadIsReset \/ IncomingFails
    BY <2>1 DEF ReadMessage, ReadMalformed, ReadEnds, ReadIsReset, IncomingFails, PostError,
                ShutInOrder
  <2>2. CASE PushReceived
    <3>1. mIncomingQueue'.mShutdown = mIncomingQueue.mShutdown
      BY <1>q, <2>2, QueueFlag DEF PushReceived
    <3> QED BY <2>2, <3>1 DEF PushReceived, ShutInOrder
  <2>3. CASE SignalGo \/ SignalStop
    BY <2>3 DEF SignalGo, SignalStop, PostQuit, ShutInOrder
  <2> QED BY <1>4, <2>1, <2>2, <2>3 DEF IncomingThread
<1>5. CASE HandlerThread
  <2> USE DEF HandlerUnchanged
  <2>1. CASE HandlerPops
    <3>1. mIncomingQueue'.mShutdown = mIncomingQueue.mShutdown
      BY <1>q, <2>1, QueueFlag DEF HandlerPops
    <3> QED BY <2>1, <3>1 DEF HandlerPops, ShutInOrder
  <2>2. CASE HandlerWaits \/ HandlerIdles \/ HandlerIsShutDown \/ HandlerReturns
                \/ HandlerThrows \/ HandlerFails
    BY <2>2 DEF HandlerWaits, HandlerIdles, HandlerIsShutDown, HandlerReturns, HandlerThrows,
                HandlerFails, PostError, ShutInOrder
  <2> QED BY <1>5, <2>1, <2>2 DEF HandlerThread
<1>6. CASE OutgoingThread
  <2> USE DEF OutgoingUnchanged
  <2>1. CASE OutgoingPops
    <3>1. mOutgoingQueue'.mShutdown = mOutgoingQueue.mShutdown
      BY <1>q, <2>1, QueueFlag DEF OutgoingPops
    <3> QED BY <2>1, <3>1 DEF OutgoingPops, ShutInOrder
  <2>2. CASE OutgoingIsShutDown \/ PutSending \/ PutThrows \/ OutgoingFails
    BY <2>2 DEF OutgoingIsShutDown, PutSending, PutThrows, OutgoingFails, PostError, ShutInOrder
  <2> QED BY <1>6, <2>1, <2>2 DEF OutgoingThread, PutFails, SerializeFails
<1>7. CASE ComputationSends \/ NodeSends \/ NodeCloses
  BY <1>0, <1>7 DEF ComputationSends, Send, NodeSends, NodeCloses, Connected, ShutInOrder
<1> QED BY <1>1, <1>2, <1>3, <1>4, <1>5, <1>6, <1>7 DEF Next

\* Causes are never forgotten, and each reason is posted where its cause is known.
LEMMA ReasonStep ==
    TypeOK /\ ThreadsAreServed /\ ShutInOrder /\ ReasonIsKnown /\ Next => ReasonIsKnown'
<1> SUFFICES ASSUME TypeOK, ThreadsAreServed, ShutInOrder, ReasonIsKnown, Next
             PROVE ReasonIsKnown'
  OBVIOUS
<1> USE DEF queues, receiving, handlerVars, outgoingVars, endpoint, dispatcherVars,
            ReasonIsKnown, Failing, Exiting
<1>0. mState \in DispatcherState /\ mExitReason \in DispatcherExitReason
  BY DEF TypeOK, DispatcherTypeOK
<1>1. CASE Main
  <2> USE DEF Goto, Exit
  <2>1. CASE Load \/ LoadFails \/ Initialize \/ InitializeFails \/ Connect \/ ConnectFails
                \/ StartMonitor \/ WaitForGo \/ GoTimesOut
    BY <2>1 DEF Load, LoadFails, Initialize, InitializeFails, Connect, ConnectFails,
                StartMonitor, WaitForGo, GoTimesOut
  <2>2. CASE BeginQueueing \/ SendReady \/ BeginDispatching
    BY <1>0, <2>2 DEF BeginQueueing, StartQueueing, SendReady, Send, BeginDispatching,
                StartDispatching
  <2>3. CASE Start \/ Started \/ WaitForExit \/ Stopped \/ StopMonitor \/ JoinMonitor
    BY <2>3 DEF Start, Started, WaitForExit, Stopped, StopMonitor, JoinMonitor, Failure
  <2>4. CASE QuitAfterException
    BY <1>0, <2>4 DEF QuitAfterException, PostQuit, DispatcherExitReason
  <2> QED BY <1>1, <2>1, <2>2, <2>3, <2>4 DEF Main
<1>2. CASE Monitor
  BY <1>2 DEF Monitor, MonitorBeats, MonitorEnds, Send
<1>3. CASE MasterThread
  <2>1. CASE StartIncoming \/ StartDispatchingThreads
    <3>1. StartIncoming => incoming # "failed"
      BY DEF StartIncoming, ThreadsAreServed, Alive, Serving
    <3>2. StartDispatchingThreads => handler # "failed" /\ outgoing # "failed"
      BY DEF StartDispatchingThreads, ThreadsAreServed
    <3> QED BY <1>3, <2>1, <3>1, <3>2
            DEF MasterThread, StartIncoming, StartDispatchingThreads, Again, hostVars
  <2>2. CASE BeginExit \/ ShutQueues \/ ShutEndpoint
    BY <1>3, <2>2 DEF MasterThread, BeginExit, ShutQueues, ShutEndpoint, hostVars
  <2>3. CASE ShutSocket
    BY <1>3, <2>3 DEF MasterThread, ShutSocket, hostVars
  <2>4. CASE Join
    BY <1>3, <2>4 DEF MasterThread, Join, hostVars, ShutInOrder
  <2> QED BY <1>3, <2>1, <2>2, <2>3, <2>4 DEF MasterThread, Master
<1>4. CASE IncomingThread
  <2> USE DEF IncomingUnchanged, Again
  <2>1. CASE (ReadMessage \/ PushReceived) /\ UNCHANGED hostVars
    BY <2>1 DEF ReadMessage, PushReceived, hostVars
  <2>2. CASE \/ ReadMalformed /\ Notes("Malformed")
             \/ ReadIsReset /\ Notes("BrokenSocket")
    BY <2>2 DEF ReadMalformed, ReadIsReset, Notes, Failure
  <2>3. CASE ReadEnds /\ UNCHANGED hostVars
    <3>1. ~mShutdown => "there" \in socket
      BY <2>3 DEF ReadEnds, ShutInOrder, TypeOK, DispatcherTypeOK
    <3> QED BY <2>3, <3>1 DEF ReadEnds, hostVars
  <2>4. CASE IncomingFails /\ UNCHANGED hostVars
    BY <2>4 DEF IncomingFails, PostError, hostVars
  <2>5. CASE SignalGo
    BY <2>5 DEF SignalGo, Failure
  <2>6. CASE SignalStop
    BY <1>0, <2>6 DEF SignalStop, PostQuit, DispatcherExitReason, hostVars
  <2> QED BY <1>4, <2>1, <2>2, <2>3, <2>4, <2>5, <2>6 DEF IncomingThread
<1>5. CASE HandlerThread
  <2> USE DEF HandlerUnchanged, Again
  <2>1. CASE (HandlerPops \/ HandlerWaits \/ HandlerIdles \/ HandlerIsShutDown
                \/ HandlerReturns) /\ UNCHANGED hostVars
    BY <2>1 DEF HandlerPops, HandlerWaits, HandlerIdles, HandlerIsShutDown, HandlerReturns,
                hostVars
  <2>2. CASE HandlerThrows /\ Notes("HandlerError")
    BY <2>2 DEF HandlerThrows, Notes, Failure
  <2>3. CASE HandlerFails /\ UNCHANGED hostVars
    BY <2>3 DEF HandlerFails, PostError, hostVars
  <2> QED BY <1>5, <2>1, <2>2, <2>3 DEF HandlerThread
<1>6. CASE OutgoingThread
  <2> USE DEF OutgoingUnchanged, Again
  <2>1. CASE (OutgoingPops \/ OutgoingIsShutDown \/ PutSending) /\ UNCHANGED hostVars
    BY <2>1 DEF OutgoingPops, OutgoingIsShutDown, PutSending, hostVars
  <2>2. CASE PutThrows /\ (Notes("BrokenSocket") \/ Notes("Unserializable"))
    BY <2>2 DEF PutThrows, Notes, Failure
  <2>3. CASE OutgoingFails /\ UNCHANGED hostVars
    BY <2>3 DEF OutgoingFails, PostError, hostVars
  <2> QED BY <1>6, <2>1, <2>2, <2>3 DEF OutgoingThread, PutFails, SerializeFails
<1>7. CASE ComputationSends \/ NodeSends \/ NodeCloses
  BY <1>7 DEF ComputationSends, Send, NodeSends, NodeCloses, Failure, hostVars
<1> QED BY <1>1, <1>2, <1>3, <1>4, <1>5, <1>6, <1>7 DEF Next

\* The exit code is made of the reason, when the dispatcher has exited.
LEMMA ExitCodeStep ==
    TypeOK /\ ThreadsAreServed /\ ReasonIsKnown /\ ExitCodeTellsTheCause /\ Next
        => ExitCodeTellsTheCause'
<1> SUFFICES ASSUME TypeOK, ThreadsAreServed, ReasonIsKnown, ExitCodeTellsTheCause, Next
             PROVE ExitCodeTellsTheCause'
  OBVIOUS
<1>1. CASE exitCode' = exitCode
  BY <1>1 DEF Next, Running, ExitCodeTellsTheCause
<1>2. CASE LoadFails \/ InitializeFails \/ ConnectFails \/ GoTimesOut
  BY <1>2 DEF LoadFails, InitializeFails, ConnectFails, GoTimesOut, Exit,
              ExitCodeTellsTheCause
<1>3. CASE JoinMonitor
  <2>1. Exiting
    BY <1>3 DEF JoinMonitor, Exiting, ThreadsAreServed, TypeOK
  <2>2. mExitReason \in DispatcherExitReason /\ mExitReason # "None"
    BY <2>1 DEF TypeOK, DispatcherTypeOK, ReasonIsKnown
  <2>3. ~Failing
    BY <1>3 DEF JoinMonitor, ThreadsAreServed, Failing, Alive, Serving
  <2> QED BY <1>3, <2>2, <2>3 DEF JoinMonitor, Exit, ReasonCode, ReasonIsKnown,
              ExitCodeTellsTheCause, DispatcherExitReason
<1>4. exitCode' = exitCode \/ LoadFails \/ InitializeFails \/ ConnectFails \/ GoTimesOut
        \/ JoinMonitor
  <2>1. CASE Main
    BY <2>1 DEF Main, Load, Initialize, Connect, StartMonitor, BeginQueueing, SendReady,
       WaitForGo, Start, Started, QuitAfterException, BeginDispatching, WaitForExit,
       Stopped, StopMonitor
  <2>2. CASE ~Main
    BY <2>2 DEF Next, Monitor, MonitorBeats, MonitorEnds, MasterThread, IncomingThread,
       SignalGo, SignalStop, HandlerThread, OutgoingThread, Notes, ComputationSends,
       NodeSends, NodeCloses, hostVars
  <2> QED BY <2>1, <2>2
<1> QED BY <1>1, <1>2, <1>3, <1>4

LEMMA InvStep == TypeOK /\ IInv /\ [Next]_vars => IInv'
<1> SUFFICES ASSUME TypeOK, IInv, [Next]_vars PROVE IInv'
  OBVIOUS
<1>1. CASE Next
  BY <1>1, ServedStep, ShutStep, ReasonStep, ExitCodeStep DEF IInv
<1>2. CASE UNCHANGED vars
  BY <1>2 DEF vars, hostVars, dispatcherVars, queues, receiving, handlerVars, outgoingVars,
              endpoint, IInv, ThreadsAreServed, ShutInOrder, ReasonIsKnown,
              Failing, ExitCodeTellsTheCause, Alive, Serving, Unconnected, Running, Exiting
<1> QED BY <1>1, <1>2

\* Every variable of the host process always has a value of its type, for any
\* number of messages (CompEnvironmentImpl, MessageDispatcher).
THEOREM TypeCorrect == Spec => []TypeOK
<1>1. Init => TypeOK /\ IInv
  BY TypeInit, InvInit
<1>2. TypeOK /\ IInv /\ [Next]_vars => (TypeOK /\ IInv)'
  BY TypeStep, InvStep DEF IInv
<1> QED BY <1>1, <1>2, PTL DEF Spec

\* The inductive invariant holds always: the dispatcher's threads live only while
\* its master serves them, it shuts down in the code's order, and whatever
\* reason or exit code was chosen has its cause (MessageDispatcher::masterThread).
THEOREM Invariance == Spec => []IInv
<1>1. Init => TypeOK /\ IInv
  BY TypeInit, InvInit
<1>2. TypeOK /\ IInv /\ [Next]_vars => (TypeOK /\ IInv)'
  BY TypeStep, InvStep DEF IInv
<1> QED BY <1>1, <1>2, PTL DEF Spec

\* For any number of messages: when the main thread goes on after waitForExit,
\* no thread of the dispatcher is left that could use the endpoint, which is an
\* object on the main thread's stack (CompEnvironmentImpl::runComputation).
THEOREM EndpointOutlivesThreads == Spec => []SourceOutlivesThreads
<1>1. TypeOK /\ IInv => SourceOutlivesThreads
  BY DEF TypeOK, IInv, ThreadsAreServed, SourceOutlivesThreads, Alive, Serving, Running
<1> QED BY <1>1, TypeCorrect, Invariance, PTL

\* For any number of messages: no failure that a thread of the dispatcher has met
\* is lost from the exit code the node reads, a disconnection is one the node made,
\* and an error is one a thread has met (ExecComp::run, MessageDispatcher::postError).
THEOREM ExitCodeIsTrue == Spec => []ExitCodeTellsTheCause
<1>1. IInv => ExitCodeTellsTheCause
  BY DEF IInv
<1> QED BY <1>1, Invariance, PTL

-----------------------------------------------------------------------------
(* What is sent.                                                           *)

\* A sequence that counts goes on counting when it grows and when it shrinks.
LEMMA CountsAppend ==
    ASSUME NEW s \in Seq(Nat), NEW n \in Nat, CountsFrom(n, s)
    PROVE  CountsFrom(n, Append(s, n + Len(s) + 1))
<1> DEFINE e == n + Len(s) + 1
<1>1. Len(s) \in Nat
  BY LenProperties
<1>2. e \in Nat
  BY <1>1
<1> HIDE DEF e
<1>3. /\ Append(s, e) \in Seq(Nat) /\ Len(Append(s, e)) = Len(s) + 1
      /\ \A i \in 1 .. Len(s) : Append(s, e)[i] = s[i]
      /\ Append(s, e)[Len(s) + 1] = e
  BY <1>2, AppendIs
<1>4. DOMAIN Append(s, e) = 1 .. Len(s) + 1 /\ DOMAIN s = 1 .. Len(s)
  BY <1>3, LenProperties
<1>5. ASSUME NEW i \in 1 .. Len(s) + 1 PROVE Append(s, e)[i] = n + i
  <2>1. CASE i = Len(s) + 1
    <3>1. e = n + i
      BY <1>1, <2>1 DEF e
    <3> QED BY <1>3, <2>1, <3>1
  <2>2. CASE i # Len(s) + 1
    <3>1. i \in 1 .. Len(s)
      BY <1>1, <2>2
    <3> QED BY <1>3, <1>4, <3>1 DEF CountsFrom
  <2> QED BY <2>1, <2>2
<1>6. CountsFrom(n, Append(s, e))
  BY <1>4, <1>5 DEF CountsFrom
<1> QED BY <1>6 DEF e

LEMMA CountsTail ==
    ASSUME NEW s \in Seq(Nat), NEW n \in Nat, s # <<>>, CountsFrom(n, s)
    PROVE  Head(s) = n + 1 /\ CountsFrom(n + 1, Tail(s))
<1>1. /\ Head(s) = s[1] /\ Tail(s) \in Seq(Nat)
      /\ Len(s) >= 1 /\ Len(Tail(s)) = Len(s) - 1
      /\ \A i \in 1 .. Len(Tail(s)) : Tail(s)[i] = s[i + 1]
  BY TailIs
<1>2. /\ Len(s) \in Nat /\ DOMAIN s = 1 .. Len(s)
      /\ DOMAIN Tail(s) = 1 .. Len(Tail(s))
  BY <1>1, LenProperties
<1>3. 1 \in DOMAIN s
  BY <1>1, <1>2
<1>4. ASSUME NEW i \in DOMAIN Tail(s) PROVE Tail(s)[i] = n + 1 + i
  <2>1. i \in Nat /\ i + 1 \in DOMAIN s /\ Tail(s)[i] = s[i + 1]
    BY <1>1, <1>2
  <2>2. s[i + 1] = n + (i + 1)
    BY <2>1 DEF CountsFrom
  <2>3. n + (i + 1) = n + 1 + i
    BY <2>1
  <2> QED BY <2>1, <2>2, <2>3
<1> QED BY <1>1, <1>3, <1>4 DEF CountsFrom

LEMMA OutgoingInit == Init => OutgoingInOrder
<1> SUFFICES ASSUME Init PROVE OutgoingInOrder
  OBVIOUS
<1>1. Len(mOutgoingQueue.items) = 0 /\ accepted = 0
  BY DEF Init, DispatcherInit, NewQueue
<1>2. popped = 0
  BY <1>1 DEF popped
<1>3. CountsFrom(popped, mOutgoingQueue.items)
  BY DEF Init, DispatcherInit, NewQueue, CountsFrom
<1> QED BY <1>2, <1>3 DEF Init, DispatcherInit, OutgoingInOrder

\* The invariant holds on as long as nothing of it changes.
LEMMA OutgoingFrame ==
    ASSUME OutgoingInOrder, UNCHANGED <<mOutgoingQueue, accepted, outgoingVars>>
    PROVE  OutgoingInOrder'
BY DEF OutgoingInOrder, popped, CountsFrom, outgoingVars, Accepts

\* While the queue is the same, so is what has left it.
LEMMA PoppedFrame ==
    ASSUME UNCHANGED accepted, mOutgoingQueue'.items = mOutgoingQueue.items
    PROVE  popped' = popped
BY DEF popped

LEMMA SendInOrder ==
    ASSUME TypeOK, OutgoingInOrder, Send
    PROVE  OutgoingInOrder'
<1> DEFINE q == mOutgoingQueue.items
           m == accepted + 1
<1>0. /\ mOutgoingQueue \in Queue(Nat) /\ q \in Seq(Nat)
      /\ accepted \in Nat /\ m \in Nat /\ popped \in Nat
      /\ Len(q) \in Nat
  BY LenProperties DEF TypeOK, DispatcherTypeOK, Queue, OutgoingInOrder
<1>1. CASE ~Accepts(mOutgoingQueue)
  BY <1>1, OutgoingFrame DEF Send
<1>2. CASE Accepts(mOutgoingQueue)
  <2>1. /\ mOutgoingQueue' = Push(mOutgoingQueue, m) /\ accepted' = m
        /\ UNCHANGED <<outgoing, sending, written>>
    BY <1>2 DEF Send, outgoingVars
  <2>2. mOutgoingQueue'.items = Append(q, m) /\ Accepts(mOutgoingQueue')
    BY <1>0, <1>2, <2>1, QueueFlag DEF Accepts
  <2>3. m = popped + Len(q) + 1
    BY <1>0 DEF popped
  <2>4. CountsFrom(popped, Append(q, m))
    BY <1>0, <2>3, CountsAppend DEF OutgoingInOrder
  <2>5. Len(Append(q, m)) = Len(q) + 1
    BY <1>0, AppendIs
  <2>6. popped' = popped
    <3>1. popped' = (accepted + 1) - (Len(q) + 1)
      BY <2>1, <2>2, <2>5 DEF popped
    <3>2. popped = accepted - Len(q)
      BY DEF popped
    <3> QED BY <1>0, <3>1, <3>2
  <2> QED BY <1>0, <1>2, <2>1, <2>2, <2>4, <2>6 DEF OutgoingInOrder
<1> QED BY <1>1, <1>2

LEMMA OutgoingStep ==
    TypeOK /\ IInv /\ OutgoingInOrder /\ [Next]_vars => OutgoingInOrder'
<1> SUFFICES ASSUME TypeOK, IInv, OutgoingInOrder, [Next]_vars PROVE OutgoingInOrder'
  OBVIOUS
<1> USE DEF queues
<1>0. /\ mOutgoingQueue \in Queue(Nat) /\ mOutgoingQueue.items \in Seq(Nat)
      /\ accepted \in Nat /\ written \in Nat /\ sending \in Nat
  BY DEF TypeOK, DispatcherTypeOK, Queue
<1>1. CASE UNCHANGED <<mOutgoingQueue, accepted, outgoingVars>>
  BY <1>1, OutgoingFrame
<1>2. CASE Send
  BY <1>2, SendInOrder
<1>3. CASE MasterThread
  <2>1. CASE StartDispatchingThreads
    BY <2>1, PoppedFrame
       DEF StartDispatchingThreads, Again, OutgoingInOrder, IInv, ThreadsAreServed, Accepts
  <2>2. CASE ShutQueues
    <3>1. mOutgoingQueue'.items = mOutgoingQueue.items /\ ~Accepts(mOutgoingQueue')
      BY <1>0, <2>2, QueueFlag DEF ShutQueues, Accepts
    <3> QED BY <2>2, <3>1, PoppedFrame DEF ShutQueues, outgoingVars, OutgoingInOrder
  <2> QED BY <1>1, <1>3, <2>1, <2>2 DEF MasterThread, Master, StartIncoming, BeginExit,
                ShutEndpoint, ShutSocket, Join
<1>4. CASE OutgoingThread
  <2> USE DEF OutgoingUnchanged
  <2>1. CASE OutgoingPops
    <3> DEFINE q == mOutgoingQueue.items
    <3>1. q # <<>> /\ Accepts(mOutgoingQueue) /\ outgoing = "pop"
      BY <2>1 DEF OutgoingPops, Poppable, Accepts
    <3>2. /\ sending' = Head(q) /\ mOutgoingQueue'.items = Tail(q) /\ outgoing' = "put"
          /\ UNCHANGED <<accepted, written>>
      BY <1>0, <2>1, QueueFlag DEF OutgoingPops, First
    <3>3. popped \in Nat /\ CountsFrom(popped, q) /\ written = popped
      BY <3>1 DEF OutgoingInOrder
    <3>4. Head(q) = popped + 1 /\ CountsFrom(popped + 1, Tail(q))
      BY <1>0, <3>1, <3>3, CountsTail
    <3>5. Len(q) \in Nat /\ Len(Tail(q)) = Len(q) - 1
      BY <1>0, <3>1, TailIs, LenProperties
    <3>6. popped' = popped + 1
      <4>1. popped' = accepted - (Len(q) - 1)
        BY <3>2, <3>5 DEF popped
      <4>2. popped = accepted - Len(q)
        BY DEF popped
      <4> QED BY <1>0, <3>5, <4>1, <4>2
    <3> QED BY <3>2, <3>3, <3>4, <3>6 DEF OutgoingInOrder
  <2>2. CASE OutgoingIsShutDown
    <3>1. ~Accepts(mOutgoingQueue)
      BY <2>2 DEF OutgoingIsShutDown, IInv, ShutInOrder, Accepts
    <3> QED BY <2>2, <3>1, PoppedFrame
            DEF OutgoingIsShutDown, Again, OutgoingInOrder, Accepts
  <2>3. CASE PutSending \/ PutThrows
    BY <2>3, PoppedFrame DEF PutSending, PutThrows, Again, OutgoingInOrder, Accepts
  <2>4. CASE OutgoingFails
    BY <2>4, PoppedFrame DEF OutgoingFails, PostError, Again, OutgoingInOrder
  <2> QED BY <1>4, <2>1, <2>2, <2>3, <2>4
          DEF OutgoingThread, PutFails, SerializeFails
<1>5. CASE Main
  BY <1>1, <1>2, <1>5 DEF Main, Load, LoadFails, Initialize, InitializeFails, Connect,
     ConnectFails, StartMonitor, BeginQueueing, StartQueueing, SendReady, WaitForGo,
     GoTimesOut, Start, Started, QuitAfterException, BeginDispatching, StartDispatching,
     WaitForExit, Stopped, StopMonitor, JoinMonitor, Exit, dispatcherVars
<1>6. CASE Monitor \/ ComputationSends \/ NodeSends \/ NodeCloses
  BY <1>1, <1>2, <1>6 DEF Monitor, MonitorBeats, MonitorEnds, ComputationSends, NodeSends,
     NodeCloses, dispatcherVars
<1>7. CASE IncomingThread \/ HandlerThread
  BY <1>1, <1>7 DEF IncomingThread, ReadMessage, ReadMalformed, ReadEnds, ReadIsReset,
     PushReceived, IncomingFails, SignalGo, SignalStop, HandlerThread, HandlerPops,
     HandlerWaits, HandlerIdles, HandlerIsShutDown, HandlerReturns, HandlerThrows,
     HandlerFails, IncomingUnchanged, HandlerUnchanged
<1>8. CASE UNCHANGED vars
  BY <1>1, <1>8 DEF vars, dispatcherVars
<1> QED BY <1>3, <1>4, <1>5, <1>6, <1>7, <1>8 DEF Next

\* For any number of messages: what send accepted is written in its order,
\* nothing twice and nothing left out (MessageDispatcher::outgoingThread).
THEOREM MessagesAreSentInOrder == Spec => SentInOrder
<1>1. Init => TypeOK /\ IInv /\ OutgoingInOrder
  BY TypeInit, InvInit, OutgoingInit
<1>2. TypeOK /\ IInv /\ OutgoingInOrder /\ [Next]_vars => (TypeOK /\ IInv /\ OutgoingInOrder)'
  BY TypeStep, InvStep, OutgoingStep DEF IInv
<1>3. TypeOK /\ IInv /\ OutgoingInOrder /\ [Next]_vars
          => [written' # written => written' = written + 1]_vars
  <2> SUFFICES ASSUME OutgoingInOrder, Next PROVE written' # written => written' = written + 1
    BY DEF vars, dispatcherVars, outgoingVars
  <2> USE DEF outgoingVars
  <2>1. CASE Main
    BY <2>1 DEF Main, Load, LoadFails, Initialize, InitializeFails, Connect,
     ConnectFails, StartMonitor, BeginQueueing, StartQueueing, SendReady, Send, WaitForGo,
     GoTimesOut, Start, Started, QuitAfterException, BeginDispatching, StartDispatching,
     WaitForExit, Stopped, StopMonitor, JoinMonitor, Exit, dispatcherVars
  <2>2. CASE Monitor \/ ComputationSends \/ NodeSends \/ NodeCloses
    BY <2>2 DEF Monitor, MonitorBeats, MonitorEnds, ComputationSends, Send, NodeSends,
       NodeCloses, dispatcherVars
  <2>3. CASE MasterThread
    BY <2>3 DEF MasterThread, Master, StartIncoming, StartDispatchingThreads, BeginExit,
       ShutQueues, ShutEndpoint, ShutSocket, Join
  <2>4. CASE IncomingThread \/ HandlerThread
    BY <2>4 DEF IncomingThread, ReadMessage, ReadMalformed, ReadEnds, ReadIsReset,
       PushReceived, IncomingFails, SignalGo, SignalStop, HandlerThread, HandlerPops,
       HandlerWaits, HandlerIdles, HandlerIsShutDown, HandlerReturns, HandlerThrows,
       HandlerFails, IncomingUnchanged, HandlerUnchanged
  <2>5. CASE OutgoingThread
    BY <2>5 DEF OutgoingThread, OutgoingPops, OutgoingIsShutDown, PutSending, PutFails,
       SerializeFails, PutThrows, OutgoingFails, OutgoingInOrder
  <2> QED BY <2>1, <2>2, <2>3, <2>4, <2>5 DEF Next
<1> QED BY <1>1, <1>2, <1>3, PTL DEF Spec, SentInOrder

-----------------------------------------------------------------------------
(* What is received.                                                       *)

\* Reading a message, and anything else, from the socket.
LEMMA HoldsTail ==
    ASSUME NEW s \in Seq(Item), NEW n \in Nat, NEW m \in Nat, s # <<>>, Holds(s, n, m)
    PROVE  IF Head(s).kind = "message"
           THEN Head(s).id = n + 1 /\ Holds(Tail(s), n + 1, m)
           ELSE Holds(Tail(s), n, m)
<1> DEFINE t == Tail(s)
<1>1. /\ Head(s) = s[1] /\ t \in Seq(Item) /\ Head(s) \in Item
      /\ Len(s) >= 1 /\ Len(t) = Len(s) - 1
      /\ \A i \in 1 .. Len(t) : t[i] = s[i + 1]
  BY TailIs
<1>2. Len(s) \in Nat /\ DOMAIN s = 1 .. Len(s) /\ DOMAIN t = 1 .. Len(t)
  BY <1>1, LenProperties
<1> HIDE DEF t
<1>3. 1 \in DOMAIN s
  BY <1>1, <1>2
<1>4. ASSUME NEW i \in DOMAIN t
      PROVE  i \in Nat /\ i + 1 \in DOMAIN s /\ t[i] = s[i + 1]
  BY <1>1, <1>2
<1>5. ASSUME NEW i \in DOMAIN s, i # 1
      PROVE  i - 1 \in DOMAIN t /\ t[i - 1] = s[i] /\ i > 1
  <2>1. i - 1 \in 1 .. Len(t) /\ i > 1 /\ i - 1 + 1 = i
    BY <1>1, <1>2, <1>5
  <2> QED BY <1>1, <1>2, <2>1
<1>6. \A i \in DOMAIN s : s[i].kind = "message" => s[i].id \in n + 1 .. m
  BY DEF Holds
<1>7. \A i, j \in DOMAIN s :
        i < j /\ s[i].kind = "message" /\ s[j].kind = "message" => s[i].id < s[j].id
  BY DEF Holds
<1>8. \A k \in n + 1 .. m : \E i \in DOMAIN s : s[i].kind = "message" /\ s[i].id = k
  BY DEF Holds
<1>9. \A i, j \in DOMAIN t :
         i < j /\ t[i].kind = "message" /\ t[j].kind = "message" => t[i].id < t[j].id
  <2> SUFFICES ASSUME NEW i \in DOMAIN t, NEW j \in DOMAIN t, i < j,
                      t[i].kind = "message", t[j].kind = "message"
               PROVE  t[i].id < t[j].id
    OBVIOUS
  <2>1. i + 1 < j + 1
    BY <1>4
  <2> QED BY <1>4, <1>7, <2>1
<1>10. CASE Head(s).kind = "message"
  <2>1. s[1].id \in n + 1 .. m
    BY <1>1, <1>3, <1>6, <1>10
  <2>2. n + 1 \in n + 1 .. m
    BY <2>1
  <2>3. PICK i \in DOMAIN s : s[i].kind = "message" /\ s[i].id = n + 1
    BY <1>8, <2>2
  <2>4. s[1].id = n + 1
    <3>1. CASE i = 1
      BY <2>3, <3>1
    <3>2. CASE i # 1
      <4>1. s[1].id < s[i].id
        BY <1>1, <1>3, <1>5, <1>7, <1>10, <2>3, <3>2
      <4> QED BY <2>1, <2>3, <4>1
    <3> QED BY <3>1, <3>2
  <2>5. ASSUME NEW k \in DOMAIN t, t[k].kind = "message"
        PROVE  t[k].id \in n + 1 + 1 .. m
    <3>1. k + 1 \in DOMAIN s /\ t[k] = s[k + 1] /\ 1 < k + 1
      BY <1>2, <1>4
    <3>2. s[1].id < s[k + 1].id
      BY <1>1, <1>3, <1>7, <1>10, <2>5, <3>1
    <3>3. s[k + 1].id \in n + 1 .. m
      BY <1>6, <2>5, <3>1
    <3> QED BY <2>4, <3>1, <3>2, <3>3
  <2>6. ASSUME NEW k \in n + 1 + 1 .. m
        PROVE  \E l \in DOMAIN t : t[l].kind = "message" /\ t[l].id = k
    <3>1. k \in n + 1 .. m /\ k # n + 1
      OBVIOUS
    <3>2. PICK l \in DOMAIN s : s[l].kind = "message" /\ s[l].id = k
      BY <1>8, <3>1
    <3>3. l # 1
      BY <2>4, <3>1, <3>2
    <3> QED BY <1>5, <3>2, <3>3
  <2>7. n + 1 <= m
    BY <2>1
  <2>8. Holds(t, n + 1, m)
    BY <1>9, <2>5, <2>6, <2>7 DEF Holds
  <2> QED BY <1>1, <1>10, <2>4, <2>8 DEF t
<1>11. CASE Head(s).kind # "message"
  <2>1. ASSUME NEW k \in DOMAIN t, t[k].kind = "message"
        PROVE  t[k].id \in n + 1 .. m
    BY <1>4, <1>6, <2>1
  <2>2. ASSUME NEW k \in n + 1 .. m
        PROVE  \E l \in DOMAIN t : t[l].kind = "message" /\ t[l].id = k
    <3>1. PICK l \in DOMAIN s : s[l].kind = "message" /\ s[l].id = k
      BY <1>8
    <3>2. l # 1
      BY <1>1, <1>11, <3>1
    <3> QED BY <1>5, <3>1, <3>2
  <2>3. Holds(t, n, m)
    BY <1>9, <2>1, <2>2 DEF Holds
  <2> QED BY <1>11, <2>3 DEF t
<1> QED BY <1>10, <1>11

\* The node sends a message, or anything else.
LEMMA HoldsAppend ==
    ASSUME NEW s \in Seq(Item), NEW n \in Nat, NEW m \in Nat, NEW e \in Item,
           Holds(s, n, m)
    PROVE  /\ e.kind = "message" /\ e.id = m + 1 => Holds(Append(s, e), n, m + 1)
           /\ e.kind # "message" => Holds(Append(s, e), n, m)
<1> DEFINE t == Append(s, e)
<1>1. /\ t \in Seq(Item) /\ Len(t) = Len(s) + 1
      /\ \A i \in 1 .. Len(s) : t[i] = s[i]
      /\ t[Len(s) + 1] = e
  BY AppendIs
<1>2. Len(s) \in Nat /\ DOMAIN s = 1 .. Len(s) /\ DOMAIN t = 1 .. Len(s) + 1
  BY <1>1, LenProperties
<1> HIDE DEF t
<1>3. ASSUME NEW i \in DOMAIN t
      PROVE  \/ i \in DOMAIN s /\ t[i] = s[i] /\ i < Len(s) + 1
             \/ i = Len(s) + 1 /\ t[i] = e
  <2>1. (i \in 1 .. Len(s) /\ i < Len(s) + 1) \/ i = Len(s) + 1
    BY <1>2
  <2> QED BY <1>1, <1>2, <2>1
<1>4. ASSUME NEW i \in DOMAIN s PROVE i \in DOMAIN t /\ t[i] = s[i]
  BY <1>1, <1>2
<1>5. Len(s) + 1 \in DOMAIN t /\ t[Len(s) + 1] = e
  BY <1>1, <1>2
<1>6. /\ n <= m
      /\ \A i \in DOMAIN s : s[i].kind = "message" => s[i].id \in n + 1 .. m
      /\ \A i, j \in DOMAIN s :
             i < j /\ s[i].kind = "message" /\ s[j].kind = "message" => s[i].id < s[j].id
      /\ \A k \in n + 1 .. m : \E i \in DOMAIN s : s[i].kind = "message" /\ s[i].id = k
  BY DEF Holds
<1>7. CASE e.kind = "message" /\ e.id = m + 1
  <2>1. ASSUME NEW i \in DOMAIN t, t[i].kind = "message"
        PROVE  t[i].id \in n + 1 .. m + 1
    <3>1. CASE i \in DOMAIN s /\ t[i] = s[i]
      <4>1. s[i].id \in n + 1 .. m
        BY <1>6, <2>1, <3>1
      <4> QED BY <3>1, <4>1
    <3>2. CASE t[i] = e
      BY <1>6, <1>7, <3>2
    <3> QED BY <1>3, <3>1, <3>2
  <2>2. ASSUME NEW i \in DOMAIN t, NEW j \in DOMAIN t, i < j,
               t[i].kind = "message", t[j].kind = "message"
        PROVE  t[i].id < t[j].id
    <3>0. i \in 1 .. Len(s) + 1 /\ j \in 1 .. Len(s) + 1
      BY <1>2
    <3>1. i \in DOMAIN s /\ t[i] = s[i]
      BY <1>2, <1>3, <2>2, <3>0
    <3>2. CASE j \in DOMAIN s /\ t[j] = s[j]
      BY <1>6, <2>2, <3>1, <3>2
    <3>3. CASE t[j] = e
      <4>1. s[i].id \in n + 1 .. m
        BY <1>6, <2>2, <3>1
      <4> QED BY <1>7, <3>1, <3>3, <4>1
    <3> QED BY <1>3, <3>2, <3>3
  <2>3. ASSUME NEW k \in n + 1 .. m + 1
        PROVE  \E i \in DOMAIN t : t[i].kind = "message" /\ t[i].id = k
    <3>1. CASE k = m + 1
      BY <1>5, <1>7, <3>1
    <3>2. CASE k # m + 1
      <4>1. k \in n + 1 .. m
        BY <3>2
      <4>2. PICK i \in DOMAIN s : s[i].kind = "message" /\ s[i].id = k
        BY <1>6, <4>1
      <4> QED BY <1>4, <4>2
    <3> QED BY <3>1, <3>2
  <2>4. n <= m + 1
    BY <1>6
  <2>5. Holds(t, n, m + 1)
    BY <2>1, <2>2, <2>3, <2>4 DEF Holds
  <2> QED BY <1>7, <2>5 DEF t
<1>8. CASE e.kind # "message"
  <2>1. ASSUME NEW i \in DOMAIN t, t[i].kind = "message"
        PROVE  i \in DOMAIN s /\ t[i] = s[i]
    BY <1>3, <1>8, <2>1
  <2>2. \A k \in n + 1 .. m : \E i \in DOMAIN t : t[i].kind = "message" /\ t[i].id = k
    <3> TAKE k \in n + 1 .. m
    <3>1. PICK i \in DOMAIN s : s[i].kind = "message" /\ s[i].id = k
      BY <1>6
    <3> QED BY <1>4, <3>1
  <2>3. \A i \in DOMAIN t : t[i].kind = "message" => t[i].id \in n + 1 .. m
    BY <1>6, <2>1
  <2>4. \A i, j \in DOMAIN t :
           i < j /\ t[i].kind = "message" /\ t[j].kind = "message" => t[i].id < t[j].id
    BY <1>6, <2>1
  <2>5. Holds(t, n, m)
    BY <1>6, <2>2, <2>3, <2>4 DEF Holds
  <2> QED BY <1>8, <2>5 DEF t
<1> QED BY <1>7, <1>8

\* With the same queue, and the same at hand, the same was taken.
LEMMA TakenFrame ==
    ASSUME UNCHANGED handling, mIncomingQueue'.items = mIncomingQueue.items,
           incoming' = "push" <=> incoming = "push"
    PROVE  taken' = taken
BY DEF taken

LEMMA TakenType == TypeOK => taken \in Nat /\ Len(mIncomingQueue.items) \in Nat
<1> SUFFICES ASSUME TypeOK PROVE taken \in Nat /\ Len(mIncomingQueue.items) \in Nat
  OBVIOUS
<1>1. handling \in Nat /\ mIncomingQueue.items \in Seq(Nat)
  BY DEF TypeOK, DispatcherTypeOK, Queue
<1>2. Len(mIncomingQueue.items) \in Nat
  BY <1>1, LenProperties
<1>3. CASE incoming = "push"
  BY <1>1, <1>2, <1>3 DEF taken
<1>4. CASE incoming # "push"
  BY <1>1, <1>2, <1>4 DEF taken
<1> QED BY <1>3, <1>4

LEMMA IncomingInit == Init => IncomingInOrder
<1> SUFFICES ASSUME Init PROVE IncomingInOrder
  OBVIOUS
<1>1. Len(mIncomingQueue.items) = 0 /\ handling = 0 /\ incoming = "none"
  BY DEF Init, DispatcherInit, NewQueue
<1>2. taken = 0
  BY <1>1 DEF taken
<1>3. CountsFrom(handling, mIncomingQueue.items)
  BY DEF Init, DispatcherInit, NewQueue, CountsFrom
<1>4. Holds(stream, 0, node.messages)
  BY DEF Init, DispatcherInit, Holds
<1> QED BY <1>1, <1>2, <1>3, <1>4 DEF IncomingInOrder

\* What the other threads do is of no consequence for the messages.
LEMMA IncomingFrame ==
    ASSUME IncomingInOrder,
           UNCHANGED <<mIncomingQueue, handling, received, stream, node>>,
           incoming' = "push" <=> incoming = "push"
    PROVE  IncomingInOrder'
BY TakenFrame DEF IncomingInOrder, Accepts

LEMMA IncomingStep == TypeOK /\ IInv /\ IncomingInOrder /\ [Next]_vars => IncomingInOrder'
<1> SUFFICES ASSUME TypeOK, IInv, IncomingInOrder, [Next]_vars PROVE IncomingInOrder'
  OBVIOUS
<1> DEFINE q == mIncomingQueue.items
<1>0. /\ mIncomingQueue \in Queue(Nat) /\ q \in Seq(Nat) /\ Len(q) \in Nat
      /\ handling \in Nat /\ received \in Nat /\ taken \in Nat
      /\ stream \in Seq(Item) /\ node.messages \in Nat
  BY TakenType DEF TypeOK, DispatcherTypeOK, Queue
<1>1. CASE /\ UNCHANGED <<mIncomingQueue, handling, received, stream, node>>
           /\ incoming' = "push" <=> incoming = "push"
  BY <1>1, IncomingFrame
<1>2. CASE MasterThread
  <2>1. CASE StartIncoming
    <3>1. incoming # "push" /\ incoming' # "push"
      BY <2>1 DEF StartIncoming, Again, IInv, ThreadsAreServed, Alive, Serving
    <3> QED BY <1>1, <1>2, <2>1, <3>1
            DEF StartIncoming, queues, handlerVars, endpoint, hostVars, MasterThread
  <2>2. CASE ShutQueues
    <3>1. ~Accepts(mIncomingQueue')
      BY <1>0, <2>2, QueueFlag DEF ShutQueues, Accepts
    <3> QED BY <3>1 DEF IncomingInOrder
  <2>3. CASE StartDispatchingThreads \/ BeginExit \/ ShutEndpoint \/ ShutSocket \/ Join
    BY <1>1, <1>2, <2>3 DEF StartDispatchingThreads, BeginExit, ShutEndpoint, ShutSocket, Join,
       queues, receiving, handlerVars, endpoint, hostVars, MasterThread
  <2> QED BY <1>2, <2>1, <2>2, <2>3 DEF MasterThread, Master
<1>3. CASE IncomingThread /\ ~SignalGo /\ ~SignalStop
  <2> USE DEF IncomingUnchanged, handlerVars
  <2>0. UNCHANGED node
    BY <1>3 DEF IncomingThread, Notes, hostVars
  <2>1. CASE ReadMessage
    <3> SUFFICES ASSUME Accepts(mIncomingQueue) PROVE IncomingInOrder'
      BY <2>1 DEF ReadMessage, IncomingInOrder, Accepts
    <3>1. /\ CountsFrom(handling, q) /\ Holds(stream, taken, node.messages)
          /\ stream # <<>> /\ Head(stream).kind = "message"
          /\ incoming = "read" /\ incoming' = "push"
          /\ received' = Head(stream).id /\ stream' = Tail(stream)
          /\ UNCHANGED <<mIncomingQueue, handling, node>>
      BY <2>0, <2>1 DEF ReadMessage, IncomingInOrder
    <3>2. Head(stream).id = taken + 1 /\ Holds(Tail(stream), taken + 1, node.messages)
      BY <1>0, <3>1, HoldsTail
    <3>3. taken' = taken + 1
      BY <1>0, <3>1 DEF taken
    <3> QED BY <3>1, <3>2, <3>3 DEF IncomingInOrder
  <2>2. CASE ReadMalformed
    <3>1. /\ stream # <<>> /\ Head(stream).kind # "message"
          /\ incoming # "push" /\ incoming' # "push"
          /\ stream' = Tail(stream)
          /\ UNCHANGED <<mIncomingQueue, handling, node, received>>
      BY <2>0, <2>2 DEF ReadMalformed
    <3>2. taken' = taken
      BY <3>1, TakenFrame
    <3>3. Holds(stream, taken, node.messages) => Holds(Tail(stream), taken, node.messages)
      BY <1>0, <3>1, HoldsTail
    <3> QED BY <3>1, <3>2, <3>3 DEF IncomingInOrder
  <2>3. CASE ReadEnds \/ ReadIsReset \/ IncomingFails
    BY <1>1, <2>0, <2>3 DEF ReadEnds, ReadIsReset, IncomingFails, Again
  <2>4. CASE PushReceived
    <3> DEFINE r == received
    <3>1. CASE ~Accepts(mIncomingQueue)
      BY <2>4, <3>1 DEF PushReceived, IncomingInOrder
    <3>2. CASE Accepts(mIncomingQueue)
      <4>1. /\ CountsFrom(handling, q) /\ r = taken
            /\ Holds(stream, taken, node.messages)
            /\ mIncomingQueue' = Push(mIncomingQueue, r)
            /\ incoming = "push" /\ incoming' # "push"
            /\ UNCHANGED <<stream, handling, node>>
        BY <2>0, <2>4, <3>2 DEF PushReceived, IncomingInOrder, Again
      <4>2. mIncomingQueue'.items = Append(q, r)
        BY <1>0, <4>1, QueueFlag
      <4>3. taken = handling + Len(q) + 1
        BY <4>1 DEF taken
      <4>4. CountsFrom(handling, Append(q, r)) /\ Len(Append(q, r)) = Len(q) + 1
        <5>1. CountsFrom(handling, Append(q, handling + Len(q) + 1))
          BY <1>0, <4>1, CountsAppend
        <5>2. Len(Append(q, r)) = Len(q) + 1
          BY <1>0, AppendIs
        <5> QED BY <4>1, <4>3, <5>1, <5>2
      <4>5. taken' = handling + (Len(q) + 1)  + 0
        BY <4>1, <4>2, <4>4 DEF taken
      <4>6. taken' = taken
        BY <1>0, <4>3, <4>5
      <4> QED BY <4>1, <4>2, <4>4, <4>6 DEF IncomingInOrder
    <3> QED BY <3>1, <3>2
  <2> QED BY <1>3, <2>1, <2>2, <2>3, <2>4 DEF IncomingThread
<1>4. CASE SignalGo
  <2>1. /\ stream # <<>> /\ Head(stream).kind # "message"
        /\ incoming # "push" /\ incoming' # "push"
        /\ stream' = Tail(stream)
        /\ UNCHANGED <<mIncomingQueue, handling, node, received>>
    BY <1>4 DEF SignalGo, IncomingUnchanged, handlerVars
  <2>2. taken' = taken
    BY <2>1, TakenFrame
  <2>3. Holds(stream, taken, node.messages) => Holds(Tail(stream), taken, node.messages)
    BY <1>0, <2>1, HoldsTail
  <2> QED BY <2>1, <2>2, <2>3 DEF IncomingInOrder
<1>5. CASE SignalStop
  BY <1>1, <1>5 DEF SignalStop, IncomingUnchanged, handlerVars, hostVars
<1>6. CASE HandlerThread
  <2> USE DEF HandlerUnchanged, receiving, endpoint
  <2>0. UNCHANGED node
    BY <1>6 DEF HandlerThread, Notes, hostVars
  <2>1. CASE HandlerPops
    <3>1. /\ Accepts(mIncomingQueue) /\ q # <<>>
          /\ handling' = Head(q) /\ mIncomingQueue' = Pop(mIncomingQueue)
          /\ UNCHANGED <<incoming, received, stream, node>>
      BY <2>0, <2>1 DEF HandlerPops, Poppable, First, Accepts
    <3>2. mIncomingQueue'.items = Tail(q)
      BY <1>0, <3>1, QueueFlag
    <3>3. CountsFrom(handling, q) /\ (incoming = "push" => received = taken)
            /\ Holds(stream, taken, node.messages)
      BY <3>1 DEF IncomingInOrder
    <3>4. Head(q) = handling + 1 /\ CountsFrom(handling + 1, Tail(q))
      BY <1>0, <3>1, <3>3, CountsTail
    <3>5. Len(Tail(q)) = Len(q) - 1
      BY <1>0, <3>1, TailIs
    <3>6. taken' = taken
      <4>1. \A a, b \in Nat : (a + 1) + (b - 1) = a + b
        OBVIOUS
      <4>2. handling' + Len(mIncomingQueue'.items) = handling + Len(q)
        BY <1>0, <3>1, <3>2, <3>4, <3>5, <4>1
      <4> QED BY <3>1, <4>2 DEF taken
    <3> QED BY <3>1, <3>2, <3>3, <3>4, <3>6 DEF IncomingInOrder
  <2>2. CASE HandlerWaits \/ HandlerIdles \/ HandlerIsShutDown \/ HandlerReturns
                \/ HandlerThrows \/ HandlerFails
    BY <1>1, <2>0, <2>2 DEF HandlerWaits, HandlerIdles, HandlerIsShutDown,
       HandlerReturns, HandlerThrows, HandlerFails
  <2> QED BY <1>6, <2>1, <2>2 DEF HandlerThread
<1>7. CASE NodeSends
  <2>1. /\ UNCHANGED <<mIncomingQueue, handling, received, incoming>>
    BY <1>7 DEF NodeSends, queues, receiving, handlerVars
  <2>2. taken' = taken
    BY <2>1, TakenFrame
  <2>3. CASE NodeSendsMessage
    <3> DEFINE e == [kind |-> "message", id |-> node.messages + 1]
    <3>1. e \in Item /\ e.kind = "message" /\ e.id = node.messages + 1
      BY <1>0 DEF Item
    <3>2. stream' = Append(stream, e) /\ node'.messages = node.messages + 1
      BY <2>3 DEF NodeSendsMessage, TypeOK
    <3> HIDE DEF e
    <3>3. Holds(stream, taken, node.messages) => Holds(stream', taken, node'.messages)
      BY <1>0, <3>1, <3>2, HoldsAppend
    <3> QED BY <2>1, <2>2, <3>3 DEF IncomingInOrder
  <2>4. CASE NodeSendsControl
    <3>1. PICK kind \in {"malformed", "go", "stop"} :
             /\ node' = [node EXCEPT !.controls = @ \cup {kind}]
             /\ stream' = Append(stream, [kind |-> kind, id |-> 0])
      BY <2>4 DEF NodeSendsControl
    <3> DEFINE e == [kind |-> kind, id |-> 0]
    <3>2. e \in Item /\ e.kind # "message"
      BY DEF Item
    <3>3. node'.messages = node.messages
      BY <3>1 DEF TypeOK
    <3>4. stream' = Append(stream, e)
      BY <3>1
    <3> HIDE DEF e
    <3>5. Holds(stream, taken, node.messages) => Holds(stream', taken, node'.messages)
      BY <1>0, <3>2, <3>3, <3>4, HoldsAppend
    <3> QED BY <2>1, <2>2, <3>5 DEF IncomingInOrder
  <2> QED BY <1>7, <2>3, <2>4 DEF NodeSends
<1>8. CASE Main
  BY <1>1, <1>8 DEF Main, Load, LoadFails, Initialize, InitializeFails, Connect,
     ConnectFails, StartMonitor, BeginQueueing, StartQueueing, SendReady, Send, WaitForGo,
     GoTimesOut, Start, Started, QuitAfterException, BeginDispatching, StartDispatching,
     WaitForExit, Stopped, StopMonitor, JoinMonitor, Exit, dispatcherVars, queues, receiving,
     handlerVars, endpoint
<1>9. CASE Monitor \/ ComputationSends \/ NodeCloses \/ UNCHANGED vars
  BY <1>1, <1>9 DEF Monitor, MonitorBeats, MonitorEnds, ComputationSends, Send, NodeCloses,
     vars, hostVars, dispatcherVars, queues, receiving, handlerVars, endpoint
<1>10. CASE OutgoingThread
  BY <1>1, <1>10 DEF OutgoingThread, OutgoingPops, OutgoingIsShutDown, PutSending,
     PutFails, SerializeFails, PutThrows, OutgoingFails, OutgoingUnchanged, Notes, hostVars,
     receiving, handlerVars, endpoint
<1> QED BY <1>2, <1>3, <1>4, <1>5, <1>6, <1>7, <1>8, <1>9, <1>10 DEF Next

-----------------------------------------------------------------------------
(* The calls of the computation.                                           *)

LEMMA CallsInit == Init => CallsAreExact
BY DEF Init, DispatcherInit, CallsAreExact

\* What the other threads note leaves the calls as they are.
OtherNotes ==
    UNCHANGED hostVars \/ \E failure \in Failure \ {"HandlerError"} : Notes(failure)

LEMMA ErrorsNoted ==
    ASSUME OtherNotes
    PROVE  /\ "HandlerError" \in causes' <=> "HandlerError" \in causes
           /\ "StartException" \in causes' <=> "StartException" \in causes
           /\ UNCHANGED <<main, exitCode>>
BY DEF OtherNotes, Notes, hostVars, Failure

\* The incoming and the outgoing thread do not touch the handler.
LEMMA IncomingNotes ==
    ASSUME IncomingThread, ~SignalGo, ~SignalStop
    PROVE  OtherNotes /\ UNCHANGED <<handler, handling>> /\ mState' \in {mState, "Exiting"}
<1>1. OtherNotes
  BY DEF IncomingThread, OtherNotes, Failure
<1>2. UNCHANGED <<handler, handling>> /\ mState' \in {mState, "Exiting"}
  BY DEF IncomingThread, ReadMessage, ReadMalformed, ReadEnds, ReadIsReset, PushReceived,
     IncomingFails, PostError, IncomingUnchanged, handlerVars
<1> QED BY <1>1, <1>2

LEMMA OutgoingNotes ==
    ASSUME OutgoingThread
    PROVE  OtherNotes /\ UNCHANGED <<handler, handling>> /\ mState' \in {mState, "Exiting"}
<1>1. OtherNotes
  BY DEF OutgoingThread, OtherNotes, Failure
<1>2. UNCHANGED <<handler, handling>> /\ mState' \in {mState, "Exiting"}
  BY DEF OutgoingThread, OutgoingPops, OutgoingIsShutDown, PutSending, PutFails,
     SerializeFails, PutThrows, OutgoingFails, PostError, OutgoingUnchanged, handlerVars
<1> QED BY <1>1, <1>2

LEMMA CallsStep == TypeOK /\ IInv /\ CallsAreExact /\ [Next]_vars => CallsAreExact'
<1> SUFFICES ASSUME TypeOK, IInv, CallsAreExact, [Next]_vars PROVE CallsAreExact'
  OBVIOUS
<1> USE DEF CallsAreExact, handlerVars
<1>1. CASE Main
  <2> USE DEF Goto, Exit
  <2>1. CASE Load \/ LoadFails \/ Initialize \/ InitializeFails \/ Connect \/ ConnectFails
                \/ StartMonitor \/ WaitForGo \/ GoTimesOut
    BY <2>1 DEF Load, LoadFails, Initialize, InitializeFails, Connect, ConnectFails,
                StartMonitor, WaitForGo, GoTimesOut, dispatcherVars
  <2>2. CASE BeginQueueing \/ SendReady \/ BeginDispatching
    BY <2>2 DEF BeginQueueing, StartQueueing, SendReady, Send, BeginDispatching,
                StartDispatching
  <2>3. CASE Start \/ Started \/ WaitForExit \/ Stopped \/ StopMonitor \/ JoinMonitor
    BY <2>3 DEF Start, Started, WaitForExit, Stopped, StopMonitor, JoinMonitor, dispatcherVars
  <2>4. CASE QuitAfterException
    BY <2>4 DEF QuitAfterException, PostQuit
  <2> QED BY <1>1, <2>1, <2>2, <2>3, <2>4 DEF Main
<1>2. CASE Monitor \/ ComputationSends \/ NodeSends \/ NodeCloses \/ UNCHANGED vars
  BY <1>2 DEF Monitor, MonitorBeats, MonitorEnds, ComputationSends, Send, NodeSends,
     NodeCloses, vars, hostVars, dispatcherVars
<1>3. CASE MasterThread
  <2>1. CASE StartDispatchingThreads
    BY <1>3, <2>1 DEF MasterThread, StartDispatchingThreads, Again, hostVars, IInv,
                      ThreadsAreServed
  <2>2. CASE StartIncoming \/ BeginExit \/ ShutQueues \/ ShutEndpoint \/ ShutSocket \/ Join
    BY <1>3, <2>2 DEF MasterThread, StartIncoming, BeginExit, ShutQueues, ShutEndpoint,
                      ShutSocket, Join, hostVars
  <2> QED BY <1>3, <2>1, <2>2 DEF MasterThread, Master
<1>4. CASE IncomingThread /\ ~SignalGo /\ ~SignalStop
  BY <1>4, IncomingNotes, ErrorsNoted
<1>5. CASE SignalGo \/ SignalStop
  BY <1>5 DEF SignalGo, SignalStop, PostQuit, IncomingUnchanged, hostVars
<1>6. CASE OutgoingThread
  BY <1>6, OutgoingNotes, ErrorsNoted
<1>7. CASE HandlerThread
  <2>1. CASE HandlerThrows /\ Notes("HandlerError")
    BY <2>1 DEF HandlerThrows, Notes
  <2>2. CASE HandlerFails /\ UNCHANGED hostVars
    BY <2>2 DEF HandlerFails, PostError, Again, hostVars
  <2>3. CASE (HandlerPops \/ HandlerWaits \/ HandlerIdles \/ HandlerIsShutDown
                \/ HandlerReturns) /\ UNCHANGED hostVars
    BY <2>3 DEF HandlerPops, HandlerWaits, HandlerIdles, HandlerIsShutDown, HandlerReturns,
                hostVars
  <2> QED BY <1>7, <2>1, <2>2, <2>3 DEF HandlerThread
<1> QED BY <1>1, <1>2, <1>3, <1>4, <1>5, <1>6, <1>7 DEF Next

LEMMA RefineInit == Init => Lifecycle!Init
BY DEF Init, DispatcherInit, Lifecycle!Init, phaseBar, callBar, Running

\* A step that neither moves the main thread nor calls the computation.
LEMMA RefineStutter ==
    ASSUME UNCHANGED <<main, exitCode, handling>>,
           "HandlerError" \in causes' <=> "HandlerError" \in causes,
           "StartException" \in causes' <=> "StartException" \in causes,
           handler' = handler \/ {handler, handler'} \cap {"onMessage", "onIdle"} = {}
    PROVE  UNCHANGED Lifecycle!vars
<1>1. phaseBar' = phaseBar
  BY DEF phaseBar, Running
<1>2. callBar' = callBar
  BY DEF callBar, Running
<1> QED BY <1>1, <1>2 DEF Lifecycle!vars

\* The refinement mapping, where the invariants hold.
MappingIs ==
    /\ phaseBar =
          CASE main \in {"load", "initialize", "initializing"} -> "loaded"
            [] main \in {"connect", "run", "startQueueing", "ready", "waitForGo",
                         "waiting", "start", "starting"} -> "initialized"
            [] main \in {"quit", "dispatch", "waitForExit", "stopping"} ->
                  IF "StartException" \in causes THEN "failed"
                  ELSE IF "HandlerError" \in causes THEN "broken" ELSE "started"
            [] main \in {"stopMonitor", "joinMonitor"} ->
                  IF "StartException" \in causes THEN "failed" ELSE "stopped"
            [] OTHER -> "over"
    /\ callBar =
          CASE main = "initializing" -> "initialize"
            [] main = "starting" -> "start"
            [] main = "stopping" -> "stop"
            [] main = "waitForExit" ->
                  IF handler \in {"onMessage", "onIdle"} THEN handler ELSE "none"
            [] OTHER -> "none"

LEMMA Mapping == TypeOK /\ IInv /\ CallsAreExact => MappingIs
<1> SUFFICES ASSUME TypeOK, IInv, CallsAreExact PROVE MappingIs
  OBVIOUS
<1>1. main \in MainState /\ (Running <=> main # "over")
  BY DEF TypeOK, IInv, ThreadsAreServed
<1>2. main # "waitForExit" /\ main # "over" => handler \notin {"onMessage", "onIdle"}
  BY <1>1 DEF IInv, ThreadsAreServed, CallsAreExact, MainState, Alive, Serving
<1>3. CASE main \in {"load", "initialize", "initializing", "over"}
  BY <1>1, <1>2, <1>3 DEF phaseBar, callBar, MappingIs
<1>4. CASE main \in {"connect", "run", "startQueueing", "ready", "waitForGo",
                     "waiting", "start", "starting"}
  BY <1>1, <1>2, <1>4 DEF phaseBar, callBar, MappingIs
<1>5. CASE main \in {"quit", "dispatch", "waitForExit", "stopping"}
  BY <1>1, <1>2, <1>5 DEF phaseBar, callBar, MappingIs
<1>6. CASE main \in {"stopMonitor", "joinMonitor"}
  BY <1>1, <1>2, <1>6 DEF phaseBar, callBar, MappingIs
<1> QED BY <1>1, <1>3, <1>4, <1>5, <1>6 DEF MainState

LEMMA MappingNext == TypeOK' /\ IInv' /\ CallsAreExact' => MappingIs'
BY Mapping, PTL

LEMMA RefineMain ==
    ASSUME TypeOK, IInv, CallsAreExact, MappingIs, MappingIs', Main
    PROVE  [Lifecycle!Next]_(Lifecycle!vars)
<1> USE DEF Goto, Exit, dispatcherVars, handlerVars, MappingIs
<1>1. CASE Load \/ Connect \/ StartMonitor \/ WaitForGo \/ StopMonitor
  BY <1>1 DEF Load, Connect, StartMonitor, WaitForGo, StopMonitor, Lifecycle!vars
<1>2. CASE BeginQueueing \/ SendReady \/ QuitAfterException \/ BeginDispatching
  BY <1>2 DEF BeginQueueing, StartQueueing, SendReady, Send, QuitAfterException,
     BeginDispatching, StartDispatching, CallsAreExact, Lifecycle!vars
<1>3. CASE LoadFails \/ ConnectFails \/ GoTimesOut \/ JoinMonitor
  <2>1. Lifecycle!End
    BY <1>3 DEF LoadFails, ConnectFails, GoTimesOut, JoinMonitor, Lifecycle!End
  <2> QED BY <2>1 DEF Lifecycle!Next
<1>4. CASE Initialize \/ InitializeFails
  <2>1. Lifecycle!Initialize
    BY <1>4 DEF Initialize, InitializeFails, Lifecycle!Initialize, Lifecycle!Call,
                Lifecycle!Returned
  <2> QED BY <2>1 DEF Lifecycle!Next
<1>5. CASE Start \/ Started
  <2>1. Lifecycle!Start
    BY <1>5 DEF Start, Started, CallsAreExact, Lifecycle!Start, Lifecycle!Call,
                Lifecycle!Returned
  <2> QED BY <2>1 DEF Lifecycle!Next
<1>6. CASE WaitForExit
  <2>1. handler \notin {"onMessage", "onIdle"}
    BY <1>6 DEF WaitForExit, IInv, ThreadsAreServed, Alive, Serving
  <2>2. CASE "StartException" \in causes
    BY <1>6, <2>1, <2>2 DEF WaitForExit, Lifecycle!vars
  <2>3. CASE "StartException" \notin causes
    <3>1. Lifecycle!Stop
      BY <1>6, <2>1, <2>3 DEF WaitForExit, Lifecycle!Stop, Lifecycle!Call
    <3> QED BY <3>1 DEF Lifecycle!Next
  <2> QED BY <2>2, <2>3
<1>7. CASE Stopped
  <2>1. Lifecycle!Stop
    BY <1>7 DEF Stopped, CallsAreExact, Lifecycle!Stop, Lifecycle!Returned
  <2> QED BY <2>1 DEF Lifecycle!Next
<1> QED BY <1>1, <1>2, <1>3, <1>4, <1>5, <1>6, <1>7 DEF Main

\* The handler calls the computation while the main thread waits for the exit.
LEMMA RefineHandler ==
    ASSUME TypeOK, IInv, IncomingInOrder, CallsAreExact, MappingIs, MappingIs',
           HandlerThread, Running
    PROVE  [Lifecycle!Next]_(Lifecycle!vars)
<1>1. /\ main = "waitForExit" /\ "StartException" \notin causes
      /\ handler # "failed" => "HandlerError" \notin causes
      /\ main' = main
  <2>1. handler # "none" /\ handler # "done" /\ main' = main
    BY DEF HandlerThread, HandlerPops, HandlerWaits, HandlerIdles, HandlerIsShutDown,
       HandlerReturns, HandlerThrows, HandlerFails, Notes, hostVars
  <2>2. master # "done" /\ main # "over"
    BY <2>1 DEF IInv, ThreadsAreServed, Alive, Serving
  <2> QED BY <2>1, <2>2 DEF CallsAreExact, IInv, ThreadsAreServed
<1> USE <1>1 DEF MappingIs
<1>2. CASE HandlerThrows /\ Notes("HandlerError")
  <2>1. /\ handler \in {"onMessage", "onIdle"} /\ handler' = "failed"
        /\ causes' = causes \cup {"HandlerError"} /\ handling' = handling
    BY <1>2 DEF HandlerThrows, Notes
  <2>2. Lifecycle!Returned(handler, "broken")
    BY <2>1 DEF Lifecycle!Returned
  <2>3. Lifecycle!Handle
    BY <2>1, <2>2 DEF Lifecycle!Handle
  <2> QED BY <2>3 DEF Lifecycle!Next
<1>3. CASE HandlerFails /\ UNCHANGED hostVars
  BY <1>3, RefineStutter DEF HandlerFails, Again, hostVars
<1>4. CASE UNCHANGED hostVars /\ ~HandlerFails
  <2>0. UNCHANGED causes
    BY <1>4 DEF hostVars
  <2>1. CASE HandlerPops
    <3>1. /\ handler \in {"pop", "wait"} /\ handler' = "onMessage"
          /\ Accepts(mIncomingQueue) /\ mIncomingQueue.items # <<>>
          /\ handling' = Head(mIncomingQueue.items)
      BY <2>1 DEF HandlerPops, Poppable, First, Accepts
    <3>2. handling' = handling + 1
      <4>1. mIncomingQueue.items \in Seq(Nat) /\ handling \in Nat
        BY DEF TypeOK, DispatcherTypeOK, Queue
      <4>2. CountsFrom(handling, mIncomingQueue.items)
        BY <3>1 DEF IncomingInOrder
      <4> QED BY <3>1, <4>1, <4>2, CountsTail
    <3>3. Lifecycle!OnMessage
      BY <2>0, <3>1, <3>2 DEF Lifecycle!OnMessage
    <3> QED BY <3>3 DEF Lifecycle!Next, Lifecycle!Handle
  <2>2. CASE HandlerIdles
    <3>1. Lifecycle!Call("started", "onIdle")
      BY <2>0, <2>2 DEF HandlerIdles, Lifecycle!Call
    <3> QED BY <3>1 DEF Lifecycle!Next, Lifecycle!Handle
  <2>3. CASE HandlerReturns
    <3>1. handler \in {"onMessage", "onIdle"} /\ handler' \in {"pop", "done"}
            /\ handling' = handling
      BY <2>3 DEF HandlerReturns, Again
    <3>2. Lifecycle!Returned(handler, "started")
      BY <2>0, <3>1 DEF Lifecycle!Returned
    <3>3. Lifecycle!Handle
      BY <3>1, <3>2 DEF Lifecycle!Handle
    <3> QED BY <3>3 DEF Lifecycle!Next
  <2>4. CASE HandlerWaits \/ HandlerIsShutDown
    BY <2>0, <2>4 DEF HandlerWaits, HandlerIsShutDown, Again, Lifecycle!vars
  <2>5. CASE HandlerThrows /\ Notes("HandlerError")
    BY <1>2, <2>5
  <2> QED BY <1>4, <2>1, <2>2, <2>3, <2>4, <2>5 DEF HandlerThread
<1> QED BY <1>2, <1>3, <1>4 DEF HandlerThread

LEMMA RefineStep ==
    ASSUME TypeOK, IInv, IncomingInOrder, CallsAreExact, MappingIs, MappingIs', [Next]_vars
    PROVE  [Lifecycle!Next]_(Lifecycle!vars)
<1> USE DEF handlerVars, hostVars
<1>1. CASE Running /\ Main
  BY <1>1, RefineMain
<1>2. CASE Running /\ HandlerThread
  BY <1>2, RefineHandler
<1>3. CASE Monitor \/ ComputationSends \/ NodeSends \/ NodeCloses \/ UNCHANGED vars
  BY <1>3, RefineStutter DEF Monitor, MonitorBeats, MonitorEnds, ComputationSends, Send,
     NodeSends, NodeCloses, vars, dispatcherVars
<1>4. CASE MasterThread
  <2>1. CASE StartDispatchingThreads
    BY <1>4, <2>1, RefineStutter DEF MasterThread, StartDispatchingThreads, Again, IInv,
       ThreadsAreServed
  <2>2. CASE StartIncoming \/ BeginExit \/ ShutQueues \/ ShutEndpoint \/ ShutSocket \/ Join
    BY <1>4, <2>2, RefineStutter DEF MasterThread, StartIncoming, BeginExit, ShutQueues,
       ShutEndpoint, ShutSocket, Join
  <2> QED BY <1>4, <2>1, <2>2 DEF MasterThread, Master
<1>5. CASE IncomingThread /\ ~SignalGo /\ ~SignalStop
  BY <1>5, IncomingNotes, ErrorsNoted, RefineStutter
<1>6. CASE SignalGo \/ SignalStop
  BY <1>6, RefineStutter DEF SignalGo, SignalStop, IncomingUnchanged
<1>7. CASE OutgoingThread
  BY <1>7, OutgoingNotes, ErrorsNoted, RefineStutter
<1> QED BY <1>1, <1>2, <1>3, <1>4, <1>5, <1>6, <1>7 DEF Next

\* For any number of messages: the computation is configured, given messages
\* and stopped as ComputationLifecycle promises, whatever else goes on
\* (CompEnvironmentImpl::runComputation, MessageDispatcher::handlerThread).
THEOREM HostImplementsComputation == Spec => ImplementsComputation
<1> DEFINE Inv == TypeOK /\ IInv /\ IncomingInOrder /\ CallsAreExact
<1>1. Init => Inv
  BY TypeInit, InvInit, IncomingInit, CallsInit
<1>2. Inv /\ [Next]_vars => Inv'
  BY TypeStep, InvStep, IncomingStep, CallsStep DEF IInv
<1>3. Inv /\ [Next]_vars => [Lifecycle!Next]_(Lifecycle!vars)
  <2> SUFFICES ASSUME Inv, [Next]_vars PROVE [Lifecycle!Next]_(Lifecycle!vars)
    OBVIOUS
  <2>1. Inv'
    BY <1>2
  <2>2. MappingIs /\ MappingIs'
    BY <2>1, Mapping, MappingNext
  <2> QED BY <2>2, RefineStep
<1>4. Init => Lifecycle!Init
  BY RefineInit
<1> QED BY <1>1, <1>2, <1>3, <1>4, PTL DEF Spec, ImplementsComputation, Lifecycle!Spec
================================================================================
