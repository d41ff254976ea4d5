---------------------------- MODULE Coordinator ----------------------------
(***************************************************************************)
(* The Coordinator (minicoord) and the nodes it allocates: sessions that   *)
(* clients ask for, the resources of nodes, the start of a session once    *)
(* all of its computations are ready, and its termination; and of a node   *)
(* what the Coordinator sees of it: whether a session is Busy, the events  *)
(* it sends, one at a time and in order, and that it may stop or crash.    *)
(*                                                                         *)
(* The Coordinator has one thread.  Each request runs to its end, with the *)
(* HTTP calls to nodes it makes, before the next is looked at; an error    *)
(* ends the request where it is and is answered with a status that the     *)
(* node does not act upon.                                                 *)
(***************************************************************************)
EXTENDS Integers, FiniteSets, Sequences, SequencesExt, FiniteSetsExt, Functions

CONSTANTS
    N,                      \* nodes
    Definition,             \* [session -> sequence of its computations' requirements]
    Total,                  \* [node -> [cores, memory]]
    MaxFaults               \* bound: nodes that stop or crash

Nodes == 1 .. N
None == 0
Sessions == DOMAIN Definition
CompsOf(s) == DOMAIN Definition[s]
All == -1                   \* maxCores '*'

\* RequiredResources; a session's entry may be any of its computations.
Requirement == [minCores : Nat, maxCores : Nat \cup {All}, memory : Nat, entry : BOOLEAN]

ASSUME CoordinatorAssumption ==
    /\ N \in Nat \ {0}
    /\ None \notin Sessions
    /\ \A s \in Sessions : Definition[s] \in Seq(Requirement)
    /\ Total \in [1 .. N -> [cores : Nat, memory : Nat]]
    /\ MaxFaults \in Nat

VARIABLES
    nodes,                  \* Coord.nodes, in the order they registered
    free,                   \* [Nodes -> NodeResources.free]
    perSession,             \* [Nodes -> NodeResources.per_session]
    sessions,               \* Coord.sessions
    nodeId,                 \* [Sessions -> [computation -> its node]]
    readyCount,             \* [Sessions -> ready_count]
    request,                \* the request that is being handled
    requested,              \* sessions that were asked for
    node,                   \* [Nodes -> "new", "up", "stopping" or "down"]
    state,                  \* [Nodes -> [Sessions -> its Session there]]
    ready,                  \* [Sessions -> computations that have become ready]
    left,                   \* sessions whose client has disconnected
    events,                 \* [Nodes -> mEventQueue]
    launched, told, engineReady, \* history: what nodes were told, see SessionStartup
    faults

resources == <<free, perSession>>
coordVars == <<nodes, resources, sessions, nodeId, readyCount, requested>>
nodeVars == <<node, state, ready, left>>
history == <<launched, told, engineReady>>
vars == <<coordVars, request, nodeVars, events, history, faults>>

Resources == [cores : Int, memory : Int]
Request == [op : {"launch", "run", "engineReady", "terminate", "none"},
            s : Sessions \cup {None}, todo : Seq(Nodes), from : Nodes \cup {None}]
NoRequest == [op |-> "none", s |-> None, todo |-> <<>>, from |-> None]
\* "failed": still Busy, the event of the failure is on its way.  "Defunct": or
\* being deleted, which refuses requests as well.
SessionState == {"absent", "Busy", "failed", "Free", "Defunct"}

Init ==
    /\ nodes = <<>>
    /\ free = Total
    /\ perSession = [n \in Nodes |-> <<>>]
    /\ sessions = {}
    /\ nodeId = [s \in Sessions |-> [i \in CompsOf(s) |-> None]]
    /\ readyCount = [s \in Sessions |-> 0]
    /\ request = NoRequest
    /\ requested = {}
    /\ node = [n \in Nodes |-> "new"]
    /\ state = [n \in Nodes |-> [s \in Sessions |-> "absent"]]
    /\ ready = [s \in Sessions |-> {}]
    /\ left = {}
    /\ events = [n \in Nodes |-> <<>>]
    /\ launched = [s \in Sessions |-> {}]
    /\ told = [s \in Sessions |-> {}]
    /\ engineReady = {}
    /\ faults = 0

Idle == request = NoRequest
Listed(n) == n \in Range(nodes)
HostsOf(s) == {nodeId[s][i] : i \in CompsOf(s)} \ {None}

-----------------------------------------------------------------------------
(* allocate.py.  An allocation works on copies of the NodeResources that   *)
(* share free and per_session with them: what was assigned stays assigned  *)
(* when the allocation fails.                                              *)

Variable(req) == req.minCores # req.maxCores

\* Mutant of Satisfies: only cores are compared.
SatisfiesCores(f, req) == req.minCores <= f.cores
Satisfies(f, req) == req.minCores <= f.cores /\ req.memory <= f.memory

Cores(f, req) == IF req.maxCores = All THEN f.cores ELSE req.maxCores
Plus(r, q) == [cores |-> r.cores + q.cores, memory |-> r.memory + q.memory]
Minus(r, q) == [cores |-> r.cores - q.cores, memory |-> r.memory - q.memory]
Set(f, x, y) == [z \in DOMAIN f \cup {x} |-> IF z = x THEN y ELSE f[z]]

\* The first node, in their order, that has what the computation needs.
AllocateOne(s, alloc, i) ==
    LET req == Definition[s][i]
        fits == {k \in DOMAIN nodes : Satisfies(alloc.free[nodes[k]], req)}
    IN  IF ~alloc.ok \/ fits = {} THEN [alloc EXCEPT !.ok = FALSE]
        ELSE LET n == nodes[Min(fits)]
                 take == [cores |-> Cores(alloc.free[n], req), memory |-> req.memory]
                 per == alloc.perSession[n]
             IN  [ok |-> TRUE,
                  free |-> [alloc.free EXCEPT ![n] = Minus(@, take)],
                  perSession |-> [alloc.perSession EXCEPT ![n] =
                                     Set(@, s, IF s \in DOMAIN per THEN Plus(per[s], take) ELSE take)],
                  comps |-> [alloc.comps EXCEPT ![i] = n]]

\* One pass over the computations, for the fixed or for the variable requirements.
AllocateAll(s, alloc, variable) ==
    LET after[i \in 0 .. Len(Definition[s])] ==
            IF i = 0 THEN alloc
            ELSE IF Variable(Definition[s][i]) = variable THEN AllocateOne(s, after[i - 1], i)
            ELSE after[i - 1]
    IN  after[Len(Definition[s])]

\* Fixed requirements first.
Allocation(s) ==
    AllocateAll(s, AllocateAll(s, [ok |-> TRUE, free |-> free, perSession |-> perSession,
                                   comps |-> nodeId[s]], FALSE), TRUE)

\* Mutant of Release: given back, but still on the session's account.
ReleaseOnce(n, s) ==
    /\ free' = [free EXCEPT ![n] = Plus(@, perSession[n][s])]
    /\ UNCHANGED perSession

Release(n, s) ==
    /\ free' = [free EXCEPT ![n] = Plus(@, perSession[n][s])]
    /\ perSession' = [perSession EXCEPT ![n] = [x \in DOMAIN @ \ {s} |-> @[x]]]

-----------------------------------------------------------------------------
(* Requests to the Coordinator.                                            *)

\* The nodes of a session in the order of its computations.
InOrder(h) ==
    LET first[k \in 0 .. Len(h)] ==
            IF k = 0 THEN <<>>
            ELSE IF h[k] \in Range(first[k - 1]) THEN first[k - 1]
            ELSE Append(first[k - 1], h[k])
    IN  first[Len(h)]

Handle(op, s, todo, from) == request' = [op |-> op, s |-> s, todo |-> todo, from |-> from]

\* Of a session that cannot be allocated only its entry in sessions is left.
CreateSession(s) ==
    /\ Idle
    /\ s \notin requested
    /\ requested' = requested \cup {s}
    /\ sessions' = sessions \cup {s}
    /\ LET alloc == Allocation(s)
       IN  /\ free' = alloc.free
           /\ perSession' = alloc.perSession
           /\ IF alloc.ok
              THEN /\ nodeId' = [nodeId EXCEPT ![s] = alloc.comps]
                   /\ Handle("launch", s, InOrder(alloc.comps), None)
              ELSE UNCHANGED <<nodeId, request>>
    /\ UNCHANGED <<nodes, readyCount, nodeVars, events, history, faults>>

\* Nodes are numbered as they register.
Register(n) ==
    /\ Idle
    /\ node[n] = "new" /\ \A m \in 1 .. n - 1 : node[m] # "new"
    /\ node' = [node EXCEPT ![n] = "up"]
    /\ nodes' = Append(nodes, n)
    /\ UNCHANGED <<resources, sessions, nodeId, readyCount, requested, request, state, ready, left,
                   events, history, faults>>

\* The last a node does; what its event queue still holds is not sent.
Unregister(n) ==
    /\ Idle
    /\ node[n] = "stopping"
    /\ node' = [node EXCEPT ![n] = "down"]
    /\ nodes' = RemoveFirst(nodes, n)
    /\ events' = [events EXCEPT ![n] = <<>>]
    /\ UNCHANGED <<resources, sessions, nodeId, readyCount, requested, request, state, ready, left,
                   history, faults>>

TakeEvent(n) ==
    /\ Idle
    /\ node[n] \in {"up", "stopping"}
    /\ events[n] # <<>>
    /\ events' = [events EXCEPT ![n] = Tail(@)]
    /\ UNCHANGED <<nodes, resources, sessions, nodeId, requested, nodeVars, history, faults>>

\* Mutant of AllReady: the client is counted among the computations twice.
AllButOneReady(s, count) == count = Len(Definition[s]) - 1
AllReady(s, count) == count = Len(Definition[s])

\* computation_ready_signal; with the last of them go, if it finds the nodes.
ReadySignal(n) ==
    /\ TakeEvent(n)
    /\ Head(events[n]).type = "ready"
    /\ LET s == Head(events[n]).s
       IN  IF s \notin sessions THEN UNCHANGED <<readyCount, request>>
           ELSE /\ readyCount' = [readyCount EXCEPT ![s] = @ + 1]
                /\ IF AllReady(s, readyCount'[s]) /\ \A h \in HostsOf(s) : Listed(h)
                   THEN Handle("run", s, InOrder(nodeId[s]), n)
                   ELSE UNCHANGED request

\* terminate_session_request; get_nodes throws if a node is no longer listed.
TerminateRequest(n) ==
    /\ TakeEvent(n)
    /\ Head(events[n]).type = "terminate"
    /\ LET s == Head(events[n]).s
       IN  IF s \notin sessions \/ \E h \in HostsOf(s) : ~Listed(h)
           THEN UNCHANGED request
           ELSE \E todo \in SetToSeqs(HostsOf(s)) : Handle("terminate", s, todo, n)
    /\ UNCHANGED readyCount

-----------------------------------------------------------------------------
(* The calls to nodes while a request is handled.                          *)

\* Mutant of Answers: the thread that sends events also answers requests.
AnswersUnlessSending(n) == node[n] \in {"up", "stopping"} /\ request.from # n
Answers(n) == node[n] \in {"up", "stopping"}

Calling(op, n) ==
    /\ request.op = op
    /\ request.todo # <<>>
    /\ n = Head(request.todo)

Called == request' = [request EXCEPT !.todo = Tail(@)]
Fail == request' = NoRequest
SetState(n, s, st) == state' = [state EXCEPT ![n][s] = st]

\* raise_for_status: the session is on some of its nodes then.
LaunchOn(n) ==
    /\ Calling("launch", n)
    /\ Answers(n)
    /\ \/ /\ node[n] = "up"
          /\ SetState(n, request.s, "Busy")
          /\ launched' = [launched EXCEPT ![request.s] = @ \cup {n}]
          /\ Called
       \/ Fail /\ UNCHANGED <<state, launched>>
    /\ UNCHANGED <<coordVars, node, ready, left, events, told, engineReady, faults>>

\* Refused by a session that is Busy: "run" reaches some of the nodes.
RunOn(n) ==
    /\ Calling("run", n)
    /\ Answers(n)
    /\ IF state[n][request.s] = "Free"
       THEN told' = [told EXCEPT ![request.s] = @ \cup {n}] /\ Called
       ELSE Fail /\ UNCHANGED told
    /\ UNCHANGED <<coordVars, nodeVars, events, launched, engineReady, faults>>

\* The last computation that asks to be the entry, or the first of all.
EntryOf(s) ==
    LET asks == {i \in CompsOf(s) : Definition[s][i].entry}
    IN  nodeId[s][IF asks = {} THEN 1 ELSE Max(asks)]

SignalEngineReady(n) ==
    /\ request.op = "run" /\ request.todo = <<>>
    /\ n = EntryOf(request.s)
    /\ Answers(n)
    /\ engineReady' = IF state[n][request.s] = "Free" THEN engineReady \cup {request.s} ELSE engineReady
    /\ request' = NoRequest
    /\ UNCHANGED <<coordVars, nodeVars, events, launched, told, faults>>

\* Whatever the node answers, its resources are released; a second attempt
\* finds nothing to release and throws.
DeleteOn(n) ==
    /\ Calling("terminate", n)
    /\ Answers(n)
    /\ IF state[n][request.s] = "Free" THEN SetState(n, request.s, "Defunct") ELSE UNCHANGED state
    /\ IF request.s \in DOMAIN perSession[n] THEN Release(n, request.s) /\ Called
       ELSE Fail /\ UNCHANGED resources
    /\ UNCHANGED <<nodes, sessions, nodeId, readyCount, requested, node, ready, left, events,
                   history, faults>>

\* A node that has crashed does not answer: the call throws.
CallFails(n) ==
    /\ request.op # "none"
    /\ n = IF request.todo = <<>> THEN EntryOf(request.s) ELSE Head(request.todo)
    /\ node[n] = "down"
    /\ Fail
    /\ UNCHANGED <<coordVars, nodeVars, events, history, faults>>

Launched ==
    /\ request.op = "launch" /\ request.todo = <<>>
    /\ request' = NoRequest
    /\ UNCHANGED <<coordVars, nodeVars, events, history, faults>>

Terminated ==
    /\ request.op = "terminate" /\ request.todo = <<>>
    /\ sessions' = sessions \ {request.s}
    /\ request' = NoRequest
    /\ UNCHANGED <<nodes, resources, nodeId, readyCount, requested, nodeVars, events, history, faults>>

HandleRequest ==
    \/ Launched \/ Terminated
    \/ \E n \in Nodes : LaunchOn(n) \/ RunOn(n) \/ SignalEngineReady(n) \/ DeleteOn(n) \/ CallFails(n)

-----------------------------------------------------------------------------
(* Nodes.                                                                  *)

Send(n, type, s) == events' = [events EXCEPT ![n] = Append(@, [type |-> type, s |-> s])]

\* A computation reports ready while its node may still be starting others.
ComputationReady(n, s, i) ==
    /\ node[n] = "up"
    /\ state[n][s] \in {"Busy", "failed", "Free"}
    /\ nodeId[s][i] = n
    /\ i \notin ready[s]
    /\ ready' = [ready EXCEPT ![s] = @ \cup {i}]
    /\ Send(n, "ready", s)
    /\ UNCHANGED <<coordVars, request, node, state, left, history, faults>>

\* updateProc; a failure is reported before the session is free again.
UpdateFails(n, s) ==
    /\ state[n][s] = "Busy"
    /\ faults < MaxFaults
    /\ faults' = faults + 1
    /\ SetState(n, s, "failed")
    /\ Send(n, "terminate", s)
    /\ UNCHANGED <<coordVars, request, node, ready, left, history>>

OperationEnds(n, s) ==
    /\ state[n][s] \in {"Busy", "failed"}
    /\ SetState(n, s, "Free")
    /\ UNCHANGED <<coordVars, request, node, ready, left, events, history, faults>>

\* Or the session expires, if the client never connected.
ClientLeaves(n, s) ==
    /\ node[n] = "up"
    /\ s \notin left
    /\ state[n][s] \in {"Busy", "Free"}
    /\ n = EntryOf(s)
    /\ left' = left \cup {s}
    /\ Send(n, "terminate", s)
    /\ UNCHANGED <<coordVars, request, node, state, ready, history, faults>>

\* stopRunning, shutdownAll.
StopNode(n) ==
    /\ node[n] = "up"
    /\ faults < MaxFaults
    /\ faults' = faults + 1
    /\ node' = [node EXCEPT ![n] = "stopping"]
    /\ state' = [state EXCEPT ![n] = [s \in Sessions |-> "Defunct"]]
    /\ UNCHANGED <<coordVars, request, ready, left, events, history>>

Crash(n) ==
    /\ node[n] = "up"
    /\ faults < MaxFaults
    /\ faults' = faults + 1
    /\ node' = [node EXCEPT ![n] = "down"]
    /\ state' = [state EXCEPT ![n] = [s \in Sessions |-> "Defunct"]]
    /\ events' = [events EXCEPT ![n] = <<>>]
    /\ UNCHANGED <<coordVars, request, ready, left, history>>

-----------------------------------------------------------------------------
Event(n) == ReadySignal(n) \/ TerminateRequest(n)

Next ==
    \/ HandleRequest
    \/ \E s \in Sessions : CreateSession(s)
    \/ \E n \in Nodes :
        \/ Event(n) \/ Register(n) \/ Unregister(n) \/ StopNode(n) \/ Crash(n)
        \/ \E s \in Sessions :
            \/ UpdateFails(n, s) \/ OperationEnds(n, s) \/ ClientLeaves(n, s)
            \/ \E i \in CompsOf(s) : ComputationReady(n, s, i)

Spec == Init /\ [][Next]_vars

(* The Coordinator's thread is not held up, and takes what is waiting.     *)
FairSpec ==
    /\ Spec
    /\ WF_vars(HandleRequest)
    /\ \A n \in Nodes : WF_vars(Event(n))

-----------------------------------------------------------------------------
TypeOK ==
    /\ nodes \in Seq(Nodes) /\ IsInjective(nodes)
    /\ free \in [Nodes -> [cores : Int, memory : Nat]]
    /\ \A n \in Nodes : perSession[n] \in [DOMAIN perSession[n] -> Resources]
    /\ sessions \subseteq requested /\ requested \subseteq Sessions
    /\ \A s \in Sessions : nodeId[s] \in [CompsOf(s) -> Nodes \cup {None}]
    /\ \A s \in Sessions : readyCount[s] \in 0 .. Cardinality(ready[s])
    /\ request \in Request
    /\ node \in [Nodes -> {"new", "up", "stopping", "down"}]
    /\ state \in [Nodes -> [Sessions -> SessionState]]

SumOver(f, S) == FoldFunctionOnSet(+, 0, f, S)

MemoryOf(s, n) ==
    SumOver([i \in CompsOf(s) |-> IF nodeId[s][i] = n THEN Definition[s][i].memory ELSE 0], CompsOf(s))
MemoryIn(n) == [s \in Sessions |-> MemoryOf(s, n)]

\* On a node, and not yet told to stop.
RunningOn(n) == {s \in Sessions : state[n][s] \in {"Busy", "failed", "Free"}}

\* "Total and free resources on a node": whatever fails half-way, no memory is
\* given to two sessions while the first still has it on its account, and none
\* is given back twice.
BookedOnce ==
    \A n \in Nodes :
        free[n].memory + SumOver(MemoryIn(n), RunningOn(n) \cap DOMAIN perSession[n]) <= Total[n].memory

\* The sessions that run on a node fit in its memory, also after others were
\* terminated.
NodesFit ==
    \A n \in Nodes : SumOver(MemoryIn(n), RunningOn(n)) <= Total[n].memory

Startup == INSTANCE SessionStartup WITH host <- nodeId

\* With events of several nodes in any order, requests that fail half-way and
\* nodes that go away: nothing of a session is told to run before every
\* computation of it is ready, and the client not before every node was told.
ImplementsStartup == Startup!Spec

\* The Coordinator calls nodes while it answers them: nobody waits for ever.
CallsReturn ==
    /\ ~Idle ~> Idle
    /\ \A n \in Nodes : events[n] # <<>> ~> events[n] = <<>>
=============================================================================
