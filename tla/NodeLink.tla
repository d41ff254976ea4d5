------------------------------- MODULE NodeLink -------------------------------
(***************************************************************************)
(* The routers of two nodes of a session and the connection between them   *)
(* (arras4_node cmd/node/router): the RemoteEndpoints each keeps for the   *)
(* other, the negotiation that leaves them with one connection, from the   *)
(* greater node id to the lesser, and what becomes of endpoints whose      *)
(* connection fails.                                                       *)
(*                                                                         *)
(* An endpoint makes at most one connection, so a connection is named by   *)
(* the endpoint that made it.  What the lesser node connects only asks the *)
(* greater one to connect back and carries no message.                     *)
(***************************************************************************)
EXTENDS Integers, FiniteSets, ThreadsafeQueue

CONSTANTS
    MaxMessages,            \* bound: [Nodes -> messages it routes to the other]
    MaxEndpoints,           \* bound: endpoints a node creates
    MaxFaults               \* bound: connections that fail, nodes that drop the session

ASSUME LinkAssumption ==
    /\ MaxMessages \in [{1, 2} -> Nat]
    /\ MaxEndpoints \in Nat \ {0}
    /\ MaxFaults \in Nat

Nodes == {1, 2}             \* mNodeId
Other(n) == 3 - n
Endpoints == 1 .. MaxEndpoints
None == 0

VARIABLES
    known,                  \* [Nodes -> the session in its RoutingTable]
    mNodes,                 \* [Nodes -> PeerManager's endpoint for the other]
    ep,                     \* [Nodes -> [Endpoints -> RemoteEndpoint]]
    wire,                   \* [Endpoints -> connection of the greater node's]
    backlog,                \* [Nodes -> connections it has to accept]
    mEndpointsToDelete,     \* [Nodes -> endpoints]
    destroying,             \* [Nodes -> endpoint its router thread destroys]
    route,                  \* [Nodes -> thread in routeMessage]
    routed,                 \* [Nodes -> messages routed to the other]
    delivered,              \* [Nodes -> messages its endpoints have read from the other]
    crashed,                \* [Nodes -> its router has crashed]
    faults                  \* faults so far

vars == <<known, mNodes, ep, wire, backlog, mEndpointsToDelete, destroying, route,
          routed, delivered, crashed, faults>>

SendAt == {"connecting", "connected", "locking", "waiting", "notified", "popping", "sending", "done"}
ReceiveAt == {"locking", "waiting", "notified", "reading", "routing", "done"}
Message == 1 .. IF MaxMessages[1] > MaxMessages[2] THEN MaxMessages[1] ELSE MaxMessages[2]

RemoteEndpoint ==
    [state : {"unused", "live", "stopped", "gone"},
     mPeer : {None} \cup Endpoints,
     mMessageQueue : Queue(Message),
     sendAt : SendAt,
     sending : {None} \cup Message,
     receiveAt : ReceiveAt,
     mFlaggedForDestruction : BOOLEAN,
     mShutdown : BOOLEAN]

Unused ==
    [state |-> "unused", mPeer |-> None, mMessageQueue |-> NewQueue, sendAt |-> "done",
     sending |-> None, receiveAt |-> "done", mFlaggedForDestruction |-> FALSE, mShutdown |-> FALSE]

\* createNodeRemoteEndpoint: its threads connect and wait for the connection.
Connecting == [Unused EXCEPT !.state = "live", !.sendAt = "connecting", !.receiveAt = "locking"]

\* An endpoint for a connection that was accepted.
Accepted(c) == [Unused EXCEPT !.state = "live", !.mPeer = c, !.sendAt = "popping", !.receiveAt = "reading"]

NoWire == [open |-> {}, to |-> [n \in Nodes |-> <<>>]]

Init ==
    /\ known = [n \in Nodes |-> "not yet"]
    /\ mNodes = [n \in Nodes |-> None]
    /\ ep = [n \in Nodes |-> [e \in Endpoints |-> Unused]]
    /\ wire = [c \in Endpoints |-> NoWire]
    /\ backlog = [n \in Nodes |-> <<>>]
    /\ mEndpointsToDelete = [n \in Nodes |-> <<>>]
    /\ destroying = [n \in Nodes |-> None]
    /\ route = [n \in Nodes |-> [at |-> "idle", ep |-> None]]
    /\ routed = [n \in Nodes |-> 0]
    /\ delivered = [n \in Nodes |-> <<>>]
    /\ crashed = [n \in Nodes |-> FALSE]
    /\ faults = 0

-----------------------------------------------------------------------------
(* Endpoints.                                                              *)

Set(n, e, r) == ep' = [ep EXCEPT ![n][e] = r]

\* The endpoint that is created next, and tracked.
Track(n, r) ==
    \E e \in Endpoints :
        /\ ep[n][e].state = "unused"
        /\ \A d \in 1 .. e - 1 : ep[n][d].state # "unused"
        /\ Set(n, e, r)
        /\ mNodes' = [mNodes EXCEPT ![n] = e]

\* notify_all on mPeerSetCondition reaches the threads that wait on it.
\* Mutant of Notified: notify_one.
NotifiedOne(r) == [r EXCEPT !.receiveAt = IF @ = "waiting" THEN "notified" ELSE @]
Notified(r) ==
    [r EXCEPT !.sendAt = IF @ = "waiting" THEN "notified" ELSE @,
              !.receiveAt = IF @ = "waiting" THEN "notified" ELSE @]

\* Mutant of WithPeer: the connection begins with an empty queue.
WithPeerAnew(r, c) == Notified([r EXCEPT !.mPeer = c, !.mMessageQueue = NewQueue])
WithPeer(r, c) == Notified([r EXCEPT !.mPeer = c])

\* The destructor, until it joins the threads.
Stopped(r) ==
    Notified([r EXCEPT !.state = "stopped", !.mShutdown = TRUE, !.mMessageQueue = Shut(@)])

Close(w, n) == [w EXCEPT !.open = @ \ {n}]

\* The socket of an endpoint is shut down with it.
CloseWireOf(n, e) ==
    wire' = IF ep[n][e].mPeer = None THEN wire
            ELSE [wire EXCEPT ![ep[n][e].mPeer] = Close(@, n)]

\* flagForDestruction queues an endpoint once.
Flag(n, e, r) ==
    /\ Set(n, e, [r EXCEPT !.mFlaggedForDestruction = TRUE])
    /\ mEndpointsToDelete' =
          IF r.mFlaggedForDestruction THEN mEndpointsToDelete
          ELSE [mEndpointsToDelete EXCEPT ![n] = Append(@, e)]

\* mMutex of the PeerManager: eraseIfFound holds it while what it erased is
\* destroyed; every look into the tables waits for it.
Locked(n) == destroying[n] # None

-----------------------------------------------------------------------------
(* The session comes and goes (serviceToRouterProc).                       *)

Learn(n) ==
    /\ known[n] = "not yet"
    /\ known' = [known EXCEPT ![n] = "known"]
    /\ UNCHANGED <<mNodes, ep, wire, backlog, mEndpointsToDelete, destroying, route, routed,
                   delivered, crashed, faults>>

Forget(n) ==
    /\ known[n] = "known"
    /\ faults < MaxFaults
    /\ known' = [known EXCEPT ![n] = "deleted"]
    /\ faults' = faults + 1
    /\ UNCHANGED <<mNodes, ep, wire, backlog, mEndpointsToDelete, destroying, route, routed,
                   delivered, crashed>>

-----------------------------------------------------------------------------
(* routeMessage.                                                           *)

\* Computations send nothing before the session runs, which it does once
\* every node has its routing data.
RouteFind(n) ==
    /\ route[n].at = "idle" /\ ~Locked(n)
    /\ routed[n] < MaxMessages[n]
    /\ known[n] = "known" /\ known[Other(n)] # "not yet"
    /\ route' = [route EXCEPT ![n] = [at |-> IF mNodes[n] = None THEN "not found" ELSE "found",
                                      ep |-> mNodes[n]]]
    /\ UNCHANGED <<known, mNodes, ep, wire, backlog, mEndpointsToDelete, destroying, routed,
                   delivered, crashed, faults>>

\* Under mNodeConnectionMutex, which the node filter of the router holds too.
RouteCreate(n) ==
    /\ route[n].at = "not found" /\ ~Locked(n)
    /\ IF mNodes[n] = None THEN Track(n, Connecting) ELSE UNCHANGED <<ep, mNodes>>
    /\ route' = [route EXCEPT ![n] = [at |-> "found", ep |-> mNodes'[n]]]
    /\ UNCHANGED <<known, wire, backlog, mEndpointsToDelete, destroying, routed, delivered,
                   crashed, faults>>

\* queueEnvelope, unless the endpoint closes.  The last to hold an endpoint
\* that is no longer tracked destroys it.
RouteQueue(n) ==
    /\ route[n].at = "found"
    /\ LET e == route[n].ep
           m == routed[n] + 1
           r == [ep[n][e] EXCEPT !.mMessageQueue = IF Accepts(@) THEN Push(@, m) ELSE @]
       IN  IF mNodes[n] = e
           THEN /\ Set(n, e, r)
                /\ route' = [route EXCEPT ![n] = [at |-> "idle", ep |-> None]]
                /\ UNCHANGED wire
           ELSE /\ Set(n, e, Stopped(r))
                /\ CloseWireOf(n, e)
                /\ route' = [route EXCEPT ![n].at = "destroying"]
    /\ routed' = [routed EXCEPT ![n] = @ + 1]
    /\ UNCHANGED <<known, mNodes, backlog, mEndpointsToDelete, destroying, delivered, crashed, faults>>

Joined(n, e) == ep[n][e].sendAt = "done" /\ ep[n][e].receiveAt = "done"

RouteDestroyed(n) ==
    /\ route[n].at = "destroying"
    /\ Joined(n, route[n].ep)
    /\ Set(n, route[n].ep, [ep[n][route[n].ep] EXCEPT !.state = "gone"])
    /\ route' = [route EXCEPT ![n] = [at |-> "idle", ep |-> None]]
    /\ UNCHANGED <<known, mNodes, wire, backlog, mEndpointsToDelete, destroying, routed,
                   delivered, crashed, faults>>

Route(n) == RouteFind(n) \/ RouteCreate(n) \/ RouteQueue(n) \/ RouteDestroyed(n)

-----------------------------------------------------------------------------
(* The router thread: the filter for connections of nodes, and endpoints   *)
(* that are to be destroyed.                                               *)

Incoming(n) ==
    /\ destroying[n] = None
    /\ backlog[n] # <<>>
    /\ backlog' = [backlog EXCEPT ![n] = Tail(@)]
    /\ UNCHANGED <<known, mEndpointsToDelete, destroying, route, routed, delivered, faults>>

\* Mutant of MustCallBack: an endpoint there is does not count.
MustCallBackAlways(n) == known[n] = "known"
MustCallBack(n) == mNodes[n] = None /\ known[n] = "known"

\* From the lesser node, which waits for a connection the other way.
Reciprocate(n) ==
    /\ Incoming(n)
    /\ Other(n) < n
    /\ IF MustCallBack(n) THEN Track(n, Connecting)
       ELSE UNCHANGED <<ep, mNodes>>
    /\ UNCHANGED <<wire, crashed>>

\* From the greater node.
Accept(n) ==
    /\ Incoming(n)
    /\ Other(n) > n
    /\ mNodes[n] = None
    /\ Track(n, Accepted(Head(backlog[n])))
    /\ UNCHANGED <<wire, crashed>>

\* RemoteEndpoint::setPeer for the endpoint that waits for it.
SetPeer(n) ==
    /\ Incoming(n)
    /\ Other(n) > n
    /\ mNodes[n] # None
    /\ ep[n][mNodes[n]].mPeer = None
    /\ Set(n, mNodes[n], WithPeer(ep[n][mNodes[n]], Head(backlog[n])))
    /\ UNCHANGED <<mNodes, wire, crashed>>

\* If it has a connection, that is deleted under its threads: the router
\* crashes, or they go on with the new one.
ReplacePeer(n) ==
    /\ Incoming(n)
    /\ Other(n) > n
    /\ mNodes[n] # None
    /\ ep[n][mNodes[n]].mPeer # None
    /\ \/ /\ crashed' = [crashed EXCEPT ![n] = TRUE]
          /\ wire' = [c \in Endpoints |-> Close(wire[c], n)]
          /\ UNCHANGED ep
       \/ /\ Set(n, mNodes[n], WithPeer(ep[n][mNodes[n]], Head(backlog[n])))
          /\ CloseWireOf(n, mNodes[n])
          /\ UNCHANGED crashed
    /\ UNCHANGED mNodes

\* destroyEndpoints: what a thread in routeMessage still holds is left to it;
\* the tables are locked until the threads of the endpoint have ended.
DestroyEndpoint(n) ==
    /\ destroying[n] = None
    /\ mEndpointsToDelete[n] # <<>>
    /\ mEndpointsToDelete' = [mEndpointsToDelete EXCEPT ![n] = Tail(@)]
    /\ LET e == Head(mEndpointsToDelete[n])
       IN  /\ mNodes' = [mNodes EXCEPT ![n] = IF @ = e THEN None ELSE @]
           /\ IF route[n].ep = e
              THEN UNCHANGED <<ep, wire, destroying>>
              ELSE /\ Set(n, e, Stopped(ep[n][e]))
                   /\ CloseWireOf(n, e)
                   /\ destroying' = [destroying EXCEPT ![n] = e]
    /\ UNCHANGED <<known, backlog, route, routed, delivered, crashed, faults>>

Destroyed(n) ==
    /\ destroying[n] # None
    /\ Joined(n, destroying[n])
    /\ Set(n, destroying[n], [ep[n][destroying[n]] EXCEPT !.state = "gone"])
    /\ destroying' = [destroying EXCEPT ![n] = None]
    /\ UNCHANGED <<known, mNodes, wire, backlog, mEndpointsToDelete, route, routed, delivered,
                   crashed, faults>>

Router(n) ==
    \/ Reciprocate(n) \/ Accept(n) \/ SetPeer(n) \/ ReplacePeer(n)
    \/ DestroyEndpoint(n) \/ Destroyed(n)

-----------------------------------------------------------------------------
(* sendThreadWithConnect and sendThread.                                   *)

\* connect and register.
Connect(n, e) ==
    /\ ep[n][e].sendAt = "connecting"
    /\ ~crashed[Other(n)]
    /\ Set(n, e, [ep[n][e] EXCEPT !.sendAt = IF Other(n) < n THEN "connected" ELSE "locking"])
    /\ backlog' = [backlog EXCEPT ![Other(n)] = Append(@, e)]
    /\ wire' = IF Other(n) < n THEN [wire EXCEPT ![e].open = Nodes] ELSE wire
    /\ UNCHANGED <<known, mNodes, mEndpointsToDelete, destroying, route, routed, delivered,
                   crashed, faults>>

\* The endpoint is to be destroyed, but the thread goes on.
ConnectFails(n, e) ==
    /\ ep[n][e].sendAt = "connecting"
    /\ faults < MaxFaults \/ crashed[Other(n)]
    /\ Flag(n, e, [ep[n][e] EXCEPT !.sendAt = IF Other(n) < n THEN "connected" ELSE "locking"])
    /\ faults' = IF crashed[Other(n)] THEN faults ELSE faults + 1
    /\ UNCHANGED <<known, mNodes, wire, backlog, destroying, route, routed, delivered, crashed>>

\* The greater node uses the connection it has made.
UsePeer(n, e) ==
    /\ ep[n][e].sendAt = "connected"
    /\ Set(n, e, WithPeer([ep[n][e] EXCEPT !.sendAt = "popping"], e))
    /\ UNCHANGED <<known, mNodes, wire, backlog, mEndpointsToDelete, destroying, route, routed,
                   delivered, crashed, faults>>

\* Both threads: while (mPeer == nullptr) { wait; if (mShutdown) return; }
\* Mutant of AwaitPeer: mPeer is not tested.
AwaitNoPeer(r, where, next) == IF where = "notified" /\ r.mShutdown THEN "done" ELSE next
AwaitPeer(r, where, next) ==
    CASE where = "notified" /\ r.mShutdown -> "done"
      [] OTHER -> IF r.mPeer = None THEN "waiting" ELSE next

SenderAwaitsPeer(n, e) ==
    /\ ep[n][e].sendAt \in {"locking", "notified"}
    /\ Set(n, e, [ep[n][e] EXCEPT !.sendAt = AwaitPeer(ep[n][e], @, "popping")])
    /\ UNCHANGED <<known, mNodes, wire, backlog, mEndpointsToDelete, destroying, route, routed,
                   delivered, crashed, faults>>

PopMessage(n, e) ==
    /\ ep[n][e].sendAt = "popping"
    /\ LET r == ep[n][e]
           q == r.mMessageQueue
       IN  \/ /\ ~Accepts(q)
              /\ Set(n, e, [r EXCEPT !.sendAt = "done"])
           \/ /\ Poppable(q)
              /\ Set(n, e, [r EXCEPT !.sendAt = "sending", !.sending = First(q), !.mMessageQueue = Pop(q)])
    /\ UNCHANGED <<known, mNodes, wire, backlog, mEndpointsToDelete, destroying, route, routed,
                   delivered, crashed, faults>>

\* What is written to a connection the other end has closed is lost, and
\* sooner or later the write fails.
SendEnvelope(n, e) ==
    /\ ep[n][e].sendAt = "sending"
    /\ LET r == [ep[n][e] EXCEPT !.sending = None]
           c == r.mPeer
       IN  CASE r.mShutdown ->
                    Set(n, e, [r EXCEPT !.sendAt = "done"]) /\ UNCHANGED <<wire, mEndpointsToDelete>>
             [] wire[c].open = Nodes ->
                    /\ Set(n, e, [r EXCEPT !.sendAt = "popping"])
                    /\ wire' = [wire EXCEPT ![c].to[Other(n)] = Append(@, ep[n][e].sending)]
                    /\ UNCHANGED mEndpointsToDelete
             [] OTHER ->
                    /\ \/ Set(n, e, [r EXCEPT !.sendAt = "popping"]) /\ UNCHANGED mEndpointsToDelete
                       \/ Flag(n, e, [r EXCEPT !.sendAt = "done"])
                    /\ UNCHANGED wire
    /\ UNCHANGED <<known, mNodes, backlog, destroying, route, routed, delivered, crashed, faults>>

Sender(n, e) ==
    \/ Connect(n, e) \/ ConnectFails(n, e) \/ UsePeer(n, e) \/ SenderAwaitsPeer(n, e)
    \/ PopMessage(n, e) \/ SendEnvelope(n, e)

-----------------------------------------------------------------------------
(* receiveThread.                                                          *)

ReceiverAwaitsPeer(n, e) ==
    /\ ep[n][e].receiveAt \in {"locking", "notified"}
    /\ Set(n, e, [ep[n][e] EXCEPT !.receiveAt = AwaitPeer(ep[n][e], @, "reading")])
    /\ UNCHANGED <<known, mNodes, wire, backlog, mEndpointsToDelete, destroying, route, routed,
                   delivered, crashed, faults>>

\* What the connection brings is read and then routed; a message for a
\* session that is unknown here is dropped.
ReceiveEnvelope(n, e) ==
    /\ ep[n][e].receiveAt = "reading"
    /\ ~ep[n][e].mShutdown
    /\ LET c == ep[n][e].mPeer
       IN  /\ n \in wire[c].open
           /\ wire[c].to[n] # <<>>
           /\ wire' = [wire EXCEPT ![c].to[n] = Tail(@)]
           /\ IF known[n] = "known"
              THEN /\ delivered' = [delivered EXCEPT ![n] = Append(@, Head(wire[c].to[n]))]
                   /\ Set(n, e, [ep[n][e] EXCEPT !.receiveAt = "routing"])
              ELSE UNCHANGED <<delivered, ep>>
    /\ UNCHANGED <<known, mNodes, backlog, mEndpointsToDelete, destroying, route, routed,
                   crashed, faults>>

\* routeMessage, to computations of the node, which are looked up in the tables.
RouteReceived(n, e) ==
    /\ ep[n][e].receiveAt = "routing" /\ ~Locked(n)
    /\ Set(n, e, [ep[n][e] EXCEPT !.receiveAt = "reading"])
    /\ UNCHANGED <<known, mNodes, wire, backlog, mEndpointsToDelete, destroying, route, routed,
                   delivered, crashed, faults>>

ReceiverEnds(n, e) ==
    /\ ep[n][e].receiveAt = "reading"
    /\ \/ /\ ep[n][e].mShutdown
          /\ Set(n, e, [ep[n][e] EXCEPT !.receiveAt = "done"])
          /\ UNCHANGED mEndpointsToDelete
       \/ /\ ~ep[n][e].mShutdown
          /\ wire[ep[n][e].mPeer].open # Nodes
          /\ wire[ep[n][e].mPeer].to[n] = <<>>
          /\ Flag(n, e, [ep[n][e] EXCEPT !.receiveAt = "done"])
    /\ UNCHANGED <<known, mNodes, wire, backlog, destroying, route, routed, delivered, crashed, faults>>

Receiver(n, e) ==
    \/ ReceiverAwaitsPeer(n, e) \/ ReceiveEnvelope(n, e) \/ RouteReceived(n, e)
    \/ ReceiverEnds(n, e)

-----------------------------------------------------------------------------
(* A connection is reset: what is under way is lost.                       *)
Reset(c) ==
    /\ faults < MaxFaults
    /\ wire[c].open = Nodes
    /\ wire' = [wire EXCEPT ![c] = NoWire]
    /\ faults' = faults + 1
    /\ UNCHANGED <<known, mNodes, ep, backlog, mEndpointsToDelete, destroying, route, routed,
                   delivered, crashed>>

Thread(n) == Route(n) \/ Router(n) \/ \E e \in Endpoints : Sender(n, e) \/ Receiver(n, e)

Next ==
    \/ \E n \in Nodes : Learn(n) \/ Forget(n) \/ (~crashed[n] /\ Thread(n))
    \/ \E c \in Endpoints : Reset(c)

Spec == Init /\ [][Next]_vars

(* A thread of a router that can go on does so, where it waits for no       *)
(* mutex, no connection and no other thread.                               *)
FairSpec ==
    /\ Spec
    /\ \A n \in Nodes :
        /\ WF_vars(~crashed[n] /\ (RouteCreate(n) \/ RouteQueue(n) \/ RouteDestroyed(n)))
        /\ WF_vars(~crashed[n] /\ Router(n))
        /\ \A e \in Endpoints :
            /\ WF_vars(~crashed[n] /\ Sender(n, e))
            /\ WF_vars(~crashed[n] /\ Receiver(n, e))

-----------------------------------------------------------------------------
TypeOK ==
    /\ known \in [Nodes -> {"not yet", "known", "deleted"}]
    /\ mNodes \in [Nodes -> {None} \cup Endpoints]
    /\ ep \in [Nodes -> [Endpoints -> RemoteEndpoint]]
    /\ faults \in 0 .. MaxFaults
    /\ \A n \in Nodes, e \in Endpoints :
        LET r == ep[n][e]
        IN  /\ r.sendAt = "sending" <=> r.sending # None
            /\ r.sendAt \in {"popping", "sending"} \/ r.receiveAt \in {"reading", "routing"} => r.mPeer # None

\* "To simplify collision management the approach is to force the final
\* connection to always be from the greater nodeId to the lesser nodeId":
\* however the nodes call each other, no more than one connection serves both
\* ends, and until a connection fails each node makes one endpoint.
OneConnection ==
    /\ \A c, d \in Endpoints :
         /\ \E e \in Endpoints : ep[1][e].state = "live" /\ ep[1][e].mPeer = c /\ wire[c].open = Nodes
         /\ \E e \in Endpoints : ep[1][e].state = "live" /\ ep[1][e].mPeer = d /\ wire[d].open = Nodes
         => c = d
    /\ faults = 0 => \A n \in Nodes : Cardinality({e \in Endpoints : ep[n][e].state # "unused"}) <= 1

\* Node 1 has the lesser id: the other makes the connection.
Link == INSTANCE MessageLink WITH InOrder <- {1}, sent <- routed, got <- delivered, lossy <- faults > 0

\* Between the nodes messages are read in order and none is left out, until a
\* connection fails; none is read twice even then, and those to the lesser
\* node are read in order: queues, negotiation and endpoints that come and go
\* implement a link that does no worse.
ImplementsLink == Link!Spec

\* What the lesser node has read in order, it may yet route in another: an
\* endpoint whose connection was reset routes its last message while the
\* successor does.
LesserRoutesInTurn == Cardinality({e \in Endpoints : ep[1][e].receiveAt = "routing"}) <= 1

\* Order for both.  It is lost at the greater node when a thread in
\* routeMessage still holds an endpoint whose connection the other has closed:
\* the endpoint reads on while its successor does.
ArrivesInOrder ==
    \A n \in Nodes : \A i, j \in DOMAIN delivered[n] : i < j => delivered[n][i] < delivered[n][j]

\* Without a fault, what is routed arrives, whichever node called first.
MessagesArrive ==
    \A n \in Nodes : \A m \in Message :
        routed[n] >= m ~> (faults > 0 \/ Len(delivered[Other(n)]) >= m)

\* "make sure no-one is still waiting for the peer to be set" (~RemoteEndpoint):
\* the threads of an endpoint that is destroyed end, and with them the
\* destructor, which the router thread runs.
DestructionEnds ==
    \A n \in Nodes, e \in Endpoints :
        ep[n][e].state = "stopped" ~> (ep[n][e].state = "gone" \/ crashed[n])
=============================================================================
