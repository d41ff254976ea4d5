------------------------- MODULE NodeLinkControlProofs -------------------------
(***************************************************************************)
(* Proofs about NodeLink, for any number of messages, endpoints and        *)
(* faults: endpoints, threads and connections fit together, and one        *)
(* connection serves both nodes.  NodeLinkProofs follows the messages.     *)
(***************************************************************************)
EXTENDS NodeLink, SequenceTheorems, FiniteSetTheorems, TLAPS

-----------------------------------------------------------------------------
(* The inductive invariant.                                                *)

Wire == [open : SUBSET Nodes, to : [Nodes -> Seq(Message)]]
RouteThread ==
    [at : {"idle", "not found", "found", "destroying"}, ep : {None} \cup Endpoints]

Typed ==
    /\ known \in [Nodes -> {"not yet", "known", "deleted"}]
    /\ mNodes \in [Nodes -> {None} \cup Endpoints]
    /\ ep \in [Nodes -> [Endpoints -> RemoteEndpoint]]
    /\ wire \in [Endpoints -> Wire]
    /\ backlog \in [Nodes -> Seq(Endpoints)]
    /\ mEndpointsToDelete \in [Nodes -> Seq(Endpoints)]
    /\ destroying \in [Nodes -> {None} \cup Endpoints]
    /\ route \in [Nodes -> RouteThread]
    /\ routed \in [Nodes -> Nat]
    /\ delivered \in [Nodes -> Seq(Message)]
    /\ crashed \in [Nodes -> BOOLEAN]
    /\ faults \in 0 .. MaxFaults

\* A thread in routeMessage has a message to route, and the endpoint it found.
RouteIsSane == \A n \in Nodes :
    /\ route[n].at \in {"idle", "not found"} <=> route[n].ep = None
    /\ route[n].ep # None => ep[n][route[n].ep].state # "unused"
    /\ route[n].at \in {"not found", "found"} => routed[n] < MaxMessages[n]

\* The parts of an endpoint fit together; the greater node uses the
\* connections it has made.
IsSane(n, e, r) ==
    /\ r.sendAt = "sending" <=> r.sending # None
    /\ r.sendAt \in {"popping", "sending"} \/ r.receiveAt \in {"reading", "routing"} => r.mPeer # None
    /\ r.state = "unused" => r = Unused
    /\ n = 1 => r.sendAt # "connected"
    /\ n = 2 => r.mPeer \in {None, e} /\ (r.sendAt = "connecting" => r.mPeer = None)
EndpointsAreSane == \A n \in Nodes, e \in Endpoints : IsSane(n, e, ep[n][e])

\* An endpoint that is tracked or destroyed exists, one that is to be deleted
\* is flagged.
TablesAreSane == \A n \in Nodes :
    /\ destroying[n] # None => ep[n][destroying[n]].state # "unused"
    /\ mNodes[n] # None => ep[n][mNodes[n]].state # "unused"
    /\ \A e \in Range(mEndpointsToDelete[n]) : ep[n][e].mFlaggedForDestruction

\* Only the endpoint that the greater node tracks has an open connection,
\* and the lesser node is the first to close it.
OpenIsTracked == \A c \in Endpoints :
    /\ wire[c].open = Nodes => mNodes[2] = c
    /\ 1 \in wire[c].open => wire[c].open = Nodes

FlaggedIsClosed == \A e \in Endpoints :
    ep[2][e].mFlaggedForDestruction => wire[e].open # Nodes /\ ep[2][e].sendAt # "connecting"

ConnectingIsNew == \A e \in Endpoints :
    /\ ep[2][e].sendAt = "connecting" => mNodes[2] = e
    /\ ep[2][e].sendAt = "connecting" \/ ep[2][e].state = "unused" => wire[e] = NoWire

\* Until something fails, each node has one endpoint and no connection is closed.
NothingFailed ==
    /\ \A n \in Nodes :
        /\ ~crashed[n] /\ known[n] # "deleted" /\ mEndpointsToDelete[n] = <<>>
        /\ route[n].at # "idle" \/ routed[n] > 0 => \A m \in Nodes : known[m] = "known"
    /\ \A n \in Nodes, e \in Endpoints :
        /\ ep[n][e].state # "unused" => mNodes[n] = e
        /\ ~ep[n][e].mFlaggedForDestruction /\ ~ep[n][e].mShutdown
        /\ ~ep[n][e].mMessageQueue.mShutdown
        /\ ep[n][e].mPeer # None => wire[ep[n][e].mPeer].open = Nodes
    /\ \A e \in Endpoints : ep[2][e].sendAt = "connected" => wire[e].open = Nodes
    /\ backlog[1] # <<>> =>
        /\ Len(backlog[1]) = 1
        /\ wire[Head(backlog[1])].open = Nodes
        /\ \A e \in Endpoints : ep[1][e].mPeer = None
NoFault == faults = 0 => NothingFailed


Negotiated == OpenIsTracked /\ FlaggedIsClosed /\ ConnectingIsNew
Control == Typed /\ RouteIsSane /\ EndpointsAreSane /\ TablesAreSane /\ Negotiated
-----------------------------------------------------------------------------
(* Endpoints: what the operations on one change of it.                     *)

LEMMA NodesAreTwo == /\ \A n \in Nodes : Other(n) \in Nodes /\ Other(n) # n /\ Other(Other(n)) = n
                     /\ 1 \in Nodes /\ 2 \in Nodes /\ Other(1) = 2 /\ Other(2) = 1
                     /\ \A n \in Nodes : n = 1 \/ n = 2
BY DEF Nodes, Other

LEMMA EndpointNumbers == Endpoints \subseteq Nat \ {0} /\ None \notin Endpoints
BY LinkAssumption DEF Endpoints, None

LEMMA MessageNumbers ==
    /\ Message \subseteq Nat \ {0} /\ None \notin Message
    /\ \A n \in Nodes, k \in Nat : k < MaxMessages[n] => k + 1 \in Message
<1>1. MaxMessages[1] \in Nat /\ MaxMessages[2] \in Nat
  BY LinkAssumption
<1> QED BY <1>1 DEF Message, None, Nodes

LEMMA NotifiedFields ==
    ASSUME NEW q \in RemoteEndpoint, NEW r, r = Notified(q)
    PROVE  /\ r \in RemoteEndpoint
           /\ r.state = q.state /\ r.mPeer = q.mPeer /\ r.mMessageQueue = q.mMessageQueue
           /\ r.sending = q.sending /\ r.mShutdown = q.mShutdown
           /\ r.mFlaggedForDestruction = q.mFlaggedForDestruction
           /\ r.sendAt = q.sendAt \/ (q.sendAt = "waiting" /\ r.sendAt = "notified")
           /\ r.receiveAt = q.receiveAt \/ (q.receiveAt = "waiting" /\ r.receiveAt = "notified")
BY DEF Notified, RemoteEndpoint, SendAt, ReceiveAt

LEMMA WithPeerFields ==
    ASSUME NEW q \in RemoteEndpoint, NEW c \in Endpoints, NEW r, r = WithPeer(q, c)
    PROVE  /\ r \in RemoteEndpoint
           /\ r.state = q.state /\ r.mPeer = c /\ r.mMessageQueue = q.mMessageQueue
           /\ r.sending = q.sending /\ r.mShutdown = q.mShutdown
           /\ r.mFlaggedForDestruction = q.mFlaggedForDestruction
           /\ r.sendAt = q.sendAt \/ (q.sendAt = "waiting" /\ r.sendAt = "notified")
           /\ r.receiveAt = q.receiveAt \/ (q.receiveAt = "waiting" /\ r.receiveAt = "notified")
<1> PICK p : p = [q EXCEPT !.mPeer = c]
  OBVIOUS
<1>1. /\ p \in RemoteEndpoint
      /\ p.state = q.state /\ p.mPeer = c /\ p.mMessageQueue = q.mMessageQueue
      /\ p.sending = q.sending /\ p.mShutdown = q.mShutdown
      /\ p.mFlaggedForDestruction = q.mFlaggedForDestruction
      /\ p.sendAt = q.sendAt /\ p.receiveAt = q.receiveAt
  BY DEF RemoteEndpoint
<1>2. r = Notified(p)
  BY DEF WithPeer
<1>3. q.sendAt = p.sendAt /\ q.receiveAt = p.receiveAt
  BY <1>1
<1> QED BY ONLY <1>1, <1>2, <1>3, NotifiedFields

LEMMA QueueFields ==
    ASSUME NEW q \in Queue(Message)
    PROVE  /\ q.items \in Seq(Message) /\ q.mShutdown \in BOOLEAN
           /\ Shut(q) \in Queue(Message) /\ Shut(q).items = q.items /\ Shut(q).mShutdown
           /\ \A m \in Message :
                /\ Push(q, m) \in Queue(Message) /\ Push(q, m).mShutdown = q.mShutdown
                /\ Push(q, m).items = Append(q.items, m)
           /\ q.items # <<>> =>
                /\ Pop(q) \in Queue(Message) /\ Pop(q).mShutdown = q.mShutdown
                /\ Pop(q).items = Tail(q.items)
                /\ First(q) \in Message /\ First(q) = Head(q.items)
<1>1. q.items \in Seq(Message) /\ q.mShutdown \in BOOLEAN
  BY DEF Queue
<1>2. \A m \in Message : Append(q.items, m) \in Seq(Message)
  BY <1>1
<1>3. q.items # <<>> => Tail(q.items) \in Seq(Message) /\ Head(q.items) \in Message
  BY <1>1
<1> QED BY <1>1, <1>2, <1>3 DEF Queue, Shut, Push, Pop, First

LEMMA StoppedFields ==
    ASSUME NEW q \in RemoteEndpoint, NEW r, r = Stopped(q)
    PROVE  /\ r \in RemoteEndpoint
           /\ r.state = "stopped" /\ r.mPeer = q.mPeer /\ r.mShutdown
           /\ r.mMessageQueue.items = q.mMessageQueue.items
           /\ r.sending = q.sending
           /\ r.mFlaggedForDestruction = q.mFlaggedForDestruction
           /\ r.sendAt = q.sendAt \/ (q.sendAt = "waiting" /\ r.sendAt = "notified")
           /\ r.receiveAt = q.receiveAt \/ (q.receiveAt = "waiting" /\ r.receiveAt = "notified")
<1>0. q.mMessageQueue \in Queue(Message)
  BY DEF RemoteEndpoint
<1> PICK s \in Queue(Message) : s = Shut(q.mMessageQueue) /\ s.items = q.mMessageQueue.items
  BY <1>0, QueueFields
<1> PICK p : p = [q EXCEPT !.state = "stopped", !.mShutdown = TRUE, !.mMessageQueue = s]
  OBVIOUS
<1>1. /\ p \in RemoteEndpoint
      /\ p.state = "stopped" /\ p.mPeer = q.mPeer /\ p.mMessageQueue = s
      /\ p.sending = q.sending /\ p.mShutdown
      /\ p.mFlaggedForDestruction = q.mFlaggedForDestruction
      /\ p.sendAt = q.sendAt /\ p.receiveAt = q.receiveAt
  BY DEF RemoteEndpoint
<1>2. r = Notified(p)
  BY DEF Stopped
<1>3. /\ q.sendAt = p.sendAt /\ q.receiveAt = p.receiveAt
      /\ p.mMessageQueue.items = q.mMessageQueue.items
  BY <1>1
<1> QED BY ONLY <1>1, <1>2, <1>3, NotifiedFields

\* One endpoint is set, the others stay.
EndpointIs(n, e, r) ==
    /\ ep' \in [Nodes -> [Endpoints -> RemoteEndpoint]]
    /\ ep'[n][e] = r
    /\ \A m \in Nodes, d \in Endpoints : m # n \/ d # e => ep'[m][d] = ep[m][d]

LEMMA SetIs ==
    ASSUME Typed, NEW n \in Nodes, NEW e \in Endpoints, NEW r \in RemoteEndpoint, Set(n, e, r)
    PROVE  EndpointIs(n, e, r)
BY DEF Typed, Set, EndpointIs

LEMMA UnusedFields ==
    /\ Unused \in RemoteEndpoint
    /\ Unused.state = "unused" /\ Unused.mPeer = None /\ Unused.mMessageQueue.items = <<>>
    /\ Unused.sendAt = "done" /\ Unused.sending = None /\ Unused.receiveAt = "done"
    /\ ~Unused.mFlaggedForDestruction /\ ~Unused.mShutdown /\ ~Unused.mMessageQueue.mShutdown
BY DEF Unused, RemoteEndpoint, NewQueue, Queue, SendAt, ReceiveAt

LEMMA ConnectingFields ==
    ASSUME NEW r, r = Connecting
    PROVE  /\ r \in RemoteEndpoint
           /\ r.state = "live" /\ r.mPeer = None /\ r.mMessageQueue = Unused.mMessageQueue
           /\ r.sendAt = "connecting" /\ r.sending = None /\ r.receiveAt = "locking"
           /\ ~r.mFlaggedForDestruction /\ ~r.mShutdown
<1> PICK u \in RemoteEndpoint : u = Unused
  BY UnusedFields
<1>1. /\ u.mPeer = None /\ u.sending = None /\ ~u.mFlaggedForDestruction /\ ~u.mShutdown
  BY UnusedFields
<1>2. r = [u EXCEPT !.state = "live", !.sendAt = "connecting", !.receiveAt = "locking"]
  BY DEF Connecting
<1>3. u.mMessageQueue = Unused.mMessageQueue
  OBVIOUS
<1> QED BY ONLY <1>1, <1>2, <1>3, u \in RemoteEndpoint DEF RemoteEndpoint, SendAt, ReceiveAt

LEMMA AcceptedFields ==
    ASSUME NEW c \in Endpoints, NEW r, r = Accepted(c)
    PROVE  /\ r \in RemoteEndpoint
           /\ r.state = "live" /\ r.mPeer = c /\ r.mMessageQueue = Unused.mMessageQueue
           /\ r.sendAt = "popping" /\ r.sending = None /\ r.receiveAt = "reading"
           /\ ~r.mFlaggedForDestruction /\ ~r.mShutdown
<1> PICK u \in RemoteEndpoint : u = Unused
  BY UnusedFields
<1>1. /\ u.sending = None /\ ~u.mFlaggedForDestruction /\ ~u.mShutdown
  BY UnusedFields
<1>2. r = [u EXCEPT !.state = "live", !.mPeer = c, !.sendAt = "popping", !.receiveAt = "reading"]
  BY DEF Accepted
<1>3. u.mMessageQueue = Unused.mMessageQueue
  OBVIOUS
<1> QED BY ONLY <1>1, <1>2, <1>3, u \in RemoteEndpoint, c \in Endpoints
        DEF RemoteEndpoint, SendAt, ReceiveAt

-----------------------------------------------------------------------------
(* What most steps leave alone.                                            *)

\* Endpoints come to be used and flagged, and stay so.
Stay == \A m \in Nodes, d \in Endpoints :
    /\ ep[m][d].state # "unused" => ep'[m][d].state # "unused"
    /\ ep[m][d].mFlaggedForDestruction => ep'[m][d].mFlaggedForDestruction

\* Connections carry messages and are closed.
WiresFall == \A c \in Endpoints :
    /\ wire'[c].open = Nodes => wire[c].open = Nodes
    /\ 1 \in wire'[c].open => wire'[c].open = Nodes
    /\ wire[c] = NoWire => wire'[c] = NoWire

LEMMA RouteFrame ==
    ASSUME Typed, RouteIsSane, Stay, route' = route, routed' = routed
    PROVE  RouteIsSane'
BY DEF Typed, RouteIsSane, Stay, RouteThread, None

LEMMA TablesFrame ==
    ASSUME Typed, TablesAreSane, Stay, mNodes' = mNodes, destroying' = destroying,
           \A m \in Nodes : \A d \in Range(mEndpointsToDelete'[m]) :
              \/ d \in Endpoints /\ d \in Range(mEndpointsToDelete[m])
              \/ ep'[m][d].mFlaggedForDestruction
    PROVE  TablesAreSane'
<1> SUFFICES ASSUME NEW m \in Nodes
             PROVE  /\ destroying[m] # None => ep'[m][destroying[m]].state # "unused"
                    /\ mNodes[m] # None => ep'[m][mNodes[m]].state # "unused"
                    /\ \A d \in Range(mEndpointsToDelete'[m]) : ep'[m][d].mFlaggedForDestruction
  BY DEF TablesAreSane
<1>1. mNodes[m] \in {None} \cup Endpoints /\ destroying[m] \in {None} \cup Endpoints
  BY DEF Typed
<1> QED BY <1>1 DEF TablesAreSane, Stay

LEMMA SaneFrame ==
    ASSUME EndpointsAreSane, NEW n \in Nodes, NEW e \in Endpoints, NEW r, EndpointIs(n, e, r),
           IsSane(n, e, r)
    PROVE  EndpointsAreSane'
<1> SUFFICES ASSUME NEW m \in Nodes, NEW d \in Endpoints PROVE IsSane(m, d, ep'[m][d])
  BY DEF EndpointsAreSane, IsSane
<1>1. CASE m = n /\ d = e
  BY <1>1 DEF EndpointIs
<1>2. CASE m # n \/ d # e
  BY <1>2 DEF EndpointIs, EndpointsAreSane
<1> QED BY <1>1, <1>2

\* The greater node tracks what it did, or no longer what is flagged.
LEMMA NegotiationFrame ==
    ASSUME Typed, Negotiated, WiresFall,
           mNodes'[2] # mNodes[2] =>
              mNodes[2] \in Endpoints /\ ep[2][mNodes[2]].mFlaggedForDestruction,
           \A d \in Endpoints :
              /\ ep'[2][d].mFlaggedForDestruction =>
                    \/ ep[2][d].mFlaggedForDestruction
                    \/ wire[d].open # Nodes /\ ep'[2][d].sendAt # "connecting"
              /\ ep'[2][d].sendAt = "connecting" => ep[2][d].sendAt = "connecting"
              /\ ep'[2][d].state = "unused" => ep[2][d].state = "unused"
    PROVE  Negotiated'
<1>1. OpenIsTracked'
  BY DEF Negotiated, OpenIsTracked, FlaggedIsClosed, WiresFall
<1>2. FlaggedIsClosed'
  BY DEF Negotiated, FlaggedIsClosed, WiresFall
<1>3. ConnectingIsNew'
  BY DEF Negotiated, ConnectingIsNew, FlaggedIsClosed, WiresFall
<1> QED BY <1>1, <1>2, <1>3 DEF Negotiated

LEMMA SameWires == ASSUME Negotiated, wire' = wire PROVE WiresFall
BY DEF Negotiated, OpenIsTracked, WiresFall

\* A step inside an endpoint that is used.
Inner(n, e, q, r) ==
    /\ q = ep[n][e] /\ EndpointIs(n, e, r)
    /\ q.state # "unused" /\ r.state # "unused"
    /\ q.mFlaggedForDestruction => r.mFlaggedForDestruction
    /\ r.sendAt = "connecting" => q.sendAt = "connecting"
    /\ n = 2 /\ r.mFlaggedForDestruction =>
          q.mFlaggedForDestruction \/ (wire[e].open # Nodes /\ r.sendAt # "connecting")

LEMMA InnerStays ==
    ASSUME NEW n \in Nodes, NEW e \in Endpoints, NEW q, NEW r, Inner(n, e, q, r)
    PROVE  Stay
<1> SUFFICES ASSUME NEW m \in Nodes, NEW d \in Endpoints
             PROVE  /\ ep[m][d].state # "unused" => ep'[m][d].state # "unused"
                    /\ ep[m][d].mFlaggedForDestruction => ep'[m][d].mFlaggedForDestruction
  BY DEF Stay
<1>1. CASE m = n /\ d = e
  BY <1>1 DEF EndpointIs, Inner
<1>2. CASE m # n \/ d # e
  BY <1>2 DEF EndpointIs, Inner
<1> QED BY <1>1, <1>2

LEMMA InnerNegotiates ==
    ASSUME Typed, Negotiated, WiresFall, NEW n \in Nodes, NEW e \in Endpoints, NEW q, NEW r,
           Inner(n, e, q, r),
           mNodes'[2] # mNodes[2] =>
              mNodes[2] \in Endpoints /\ ep[2][mNodes[2]].mFlaggedForDestruction
    PROVE  Negotiated'
<1>1. ASSUME NEW d \in Endpoints
      PROVE  /\ ep'[2][d].mFlaggedForDestruction =>
                    \/ ep[2][d].mFlaggedForDestruction
                    \/ wire[d].open # Nodes /\ ep'[2][d].sendAt # "connecting"
             /\ ep'[2][d].sendAt = "connecting" => ep[2][d].sendAt = "connecting"
             /\ ep'[2][d].state = "unused" => ep[2][d].state = "unused"
  <2>1. CASE n = 2 /\ d = e
    BY <2>1 DEF EndpointIs, Inner
  <2>2. CASE n # 2 \/ d # e
    BY <2>2, NodesAreTwo DEF EndpointIs, Inner
  <2> QED BY <2>1, <2>2
<1> QED BY <1>1, NegotiationFrame

LEMMA InnerControl ==
    ASSUME Control, NEW n \in Nodes, NEW e \in Endpoints, NEW q, NEW r, Inner(n, e, q, r),
           IsSane(n, e, r), Typed', WiresFall,
           UNCHANGED <<mNodes, destroying, route, routed>>,
           \A m \in Nodes : \A d \in Range(mEndpointsToDelete'[m]) :
              \/ d \in Endpoints /\ d \in Range(mEndpointsToDelete[m])
              \/ ep'[m][d].mFlaggedForDestruction
    PROVE  Control'
BY InnerStays, InnerNegotiates, RouteFrame, TablesFrame, SaneFrame DEF Control, Inner

\* All of an endpoint but where its threads are.
Same(q, r) ==
    /\ r.state = q.state /\ r.mPeer = q.mPeer /\ r.mMessageQueue = q.mMessageQueue
    /\ r.sending = q.sending /\ r.mShutdown = q.mShutdown
    /\ r.mFlaggedForDestruction = q.mFlaggedForDestruction

LEMMA SenderMoves ==
    ASSUME NEW q \in RemoteEndpoint, NEW a \in SendAt
    PROVE  \E r \in RemoteEndpoint :
              /\ r = [q EXCEPT !.sendAt = a]
              /\ Same(q, r) /\ r.sendAt = a /\ r.receiveAt = q.receiveAt
<1> PICK r : r = [q EXCEPT !.sendAt = a]
  OBVIOUS
<1>1. r \in RemoteEndpoint /\ Same(q, r) /\ r.sendAt = a /\ r.receiveAt = q.receiveAt
  BY DEF RemoteEndpoint, Same
<1> QED BY <1>1

LEMMA ReceiverMoves ==
    ASSUME NEW q \in RemoteEndpoint, NEW b \in ReceiveAt
    PROVE  \E r \in RemoteEndpoint :
              /\ r = [q EXCEPT !.receiveAt = b]
              /\ Same(q, r) /\ r.sendAt = q.sendAt /\ r.receiveAt = b
<1> PICK r : r = [q EXCEPT !.receiveAt = b]
  OBVIOUS
<1>1. r \in RemoteEndpoint /\ Same(q, r) /\ r.sendAt = q.sendAt /\ r.receiveAt = b
  BY DEF RemoteEndpoint, Same
<1> QED BY <1>1

LEMMA FieldTypes ==
    ASSUME NEW q \in RemoteEndpoint
    PROVE  /\ q.mPeer \in {None} \cup Endpoints /\ q.mMessageQueue \in Queue(Message)
           /\ q.sending \in {None} \cup Message /\ q.sendAt \in SendAt /\ q.receiveAt \in ReceiveAt
           /\ q.mFlaggedForDestruction \in BOOLEAN /\ q.mShutdown \in BOOLEAN
BY DEF RemoteEndpoint

LEMMA TableTypes ==
    ASSUME Typed, NEW m \in Nodes
    PROVE  /\ \A d \in Endpoints : ep[m][d] \in RemoteEndpoint
           /\ mEndpointsToDelete[m] \in Seq(Endpoints) /\ backlog[m] \in Seq(Endpoints)
           /\ \A d \in Range(mEndpointsToDelete[m]) : d \in Endpoints
           /\ mNodes[m] \in {None} \cup Endpoints /\ destroying[m] \in {None} \cup Endpoints
<1>1. mEndpointsToDelete[m] \in Seq(Endpoints)
  BY DEF Typed
<1>2. \A d \in Range(mEndpointsToDelete[m]) : d \in Endpoints
  BY <1>1, RangeOfSeq
<1> QED BY <1>1, <1>2 DEF Typed

\* No message moves and no table changes.
Quiet ==
    /\ \A m \in Nodes, d \in Endpoints :
        /\ ep'[m][d].mMessageQueue.items = ep[m][d].mMessageQueue.items
        /\ ep'[m][d].sending = ep[m][d].sending
    /\ \A c \in Endpoints, m \in Nodes : wire'[c].to[m] = wire[c].to[m]
    /\ UNCHANGED <<mNodes, delivered, routed>>

LEMMA InnerIsQuiet ==
    ASSUME NEW n \in Nodes, NEW e \in Endpoints, NEW q, NEW r, Inner(n, e, q, r),
           r.mMessageQueue.items = q.mMessageQueue.items, r.sending = q.sending,
           \A c \in Endpoints, m \in Nodes : wire'[c].to[m] = wire[c].to[m],
           UNCHANGED <<mNodes, delivered, routed>>
    PROVE  Quiet
<1>1. ASSUME NEW m \in Nodes, NEW d \in Endpoints
      PROVE  /\ ep'[m][d].mMessageQueue.items = ep[m][d].mMessageQueue.items
             /\ ep'[m][d].sending = ep[m][d].sending
  <2>1. CASE m = n /\ d = e
    BY <2>1 DEF Inner, EndpointIs
  <2>2. CASE m # n \/ d # e
    BY <2>2 DEF Inner, EndpointIs
  <2> QED BY <2>1, <2>2
<1> QED BY <1>1 DEF Quiet

LEMMA InnerNothingFails ==
    ASSUME NothingFailed, NEW n \in Nodes, NEW e \in Endpoints, NEW q, NEW r, Inner(n, e, q, r),
           ~r.mFlaggedForDestruction, r.mShutdown = q.mShutdown,
           r.mMessageQueue.mShutdown = q.mMessageQueue.mShutdown,
           r.mPeer = q.mPeer, r.sendAt = "connected" => q.sendAt = "connected" \/ n = 1,
           \A c \in Endpoints : wire'[c].open = wire[c].open, Typed,
           UNCHANGED <<crashed, known, mEndpointsToDelete, mNodes, backlog>>,
           \A m \in Nodes : route'[m].at # "idle" \/ routed'[m] > 0 =>
                            route[m].at # "idle" \/ routed[m] > 0
    PROVE  NothingFailed'
<1>0. q.mPeer \in {None} \cup Endpoints /\ backlog[1] \in Seq(Endpoints)
  BY NodesAreTwo, TableTypes, FieldTypes DEF Inner
<1>1. ASSUME NEW m \in Nodes, NEW d \in Endpoints
      PROVE  /\ ep'[m][d].state # "unused" => mNodes[m] = d
             /\ ~ep'[m][d].mFlaggedForDestruction /\ ~ep'[m][d].mShutdown
             /\ ~ep'[m][d].mMessageQueue.mShutdown
             /\ ep'[m][d].mPeer = ep[m][d].mPeer
             /\ m = 2 /\ ep'[m][d].sendAt = "connected" => ep[m][d].sendAt = "connected"
  <2>1. CASE m = n /\ d = e
    BY <2>1 DEF Inner, EndpointIs, NothingFailed
  <2>2. CASE m # n \/ d # e
    BY <2>2 DEF Inner, EndpointIs, NothingFailed
  <2> QED BY <2>1, <2>2
<1>2. ASSUME NEW m \in Nodes, NEW d \in Endpoints
      PROVE  ep[m][d].mPeer \in {None} \cup Endpoints
  BY TableTypes, FieldTypes
<1>3. backlog[1] # <<>> => Head(backlog[1]) \in Endpoints
  BY <1>0
<1> QED BY <1>1, <1>2, <1>3, NodesAreTwo DEF NothingFailed

\* A thread of an endpoint that runs is one of an endpoint that is used.
LEMMA RunningIsUsed ==
    ASSUME Control, NEW n \in Nodes, NEW e \in Endpoints,
           ep[n][e].sendAt # "done" \/ ep[n][e].receiveAt # "done"
    PROVE  ep[n][e].state # "unused"
BY UnusedFields DEF Control, EndpointsAreSane, IsSane

LEMMA EndpointType ==
    ASSUME Control, NEW n \in Nodes, NEW e \in Endpoints
    PROVE  ep[n][e] \in RemoteEndpoint /\ IsSane(n, e, ep[n][e])
BY DEF Control, Typed, EndpointsAreSane

LEMMA AwaitPeerIs ==
    ASSUME NEW r, NEW where, NEW next
    PROVE  /\ AwaitPeer(r, where, next) \in {"done", "waiting", next}
           /\ AwaitPeer(r, where, next) = next => r.mPeer # None \/ next \in {"done", "waiting"}
BY DEF AwaitPeer

LEMMA SenderAwaitsPeerStep ==
    ASSUME Control, NEW n \in Nodes, NEW e \in Endpoints, SenderAwaitsPeer(n, e)
    PROVE  Control' /\ Quiet /\ (NothingFailed => NothingFailed')
<1> PICK q \in RemoteEndpoint : q = ep[n][e] /\ IsSane(n, e, q)
  BY EndpointType
<1> PICK a : a = AwaitPeer(q, q.sendAt, "popping")
  OBVIOUS
<1>1. a \in {"done", "waiting", "popping"} /\ (a = "popping" => q.mPeer # None)
  BY AwaitPeerIs
<1>a. a \in SendAt
  BY <1>1 DEF SendAt
<1> PICK r \in RemoteEndpoint :
      r = [q EXCEPT !.sendAt = a] /\ Same(q, r) /\ r.sendAt = a /\ r.receiveAt = q.receiveAt
  BY <1>a, SenderMoves
<1>2. Set(n, e, r) /\ q.sendAt \in {"locking", "notified"}
  BY DEF SenderAwaitsPeer
<1>3. EndpointIs(n, e, r) /\ q.state # "unused"
  BY <1>2, SetIs, RunningIsUsed DEF Control
<1>4. Inner(n, e, q, r) /\ IsSane(n, e, r)
  BY <1>1, <1>2, <1>3 DEF Inner, IsSane, Same
<1>5. /\ UNCHANGED <<mNodes, destroying, route, routed, delivered, wire, mEndpointsToDelete,
                     crashed, known, backlog, faults>>
  BY DEF SenderAwaitsPeer
<1>6. Typed'
  BY <1>3, <1>5 DEF EndpointIs, Control, Typed
<1>7. \A m \in Nodes : \A d \in Range(mEndpointsToDelete[m]) : d \in Endpoints
  BY TableTypes DEF Control
<1>8. Control'
  BY <1>4, <1>5, <1>6, <1>7, InnerControl, SameWires DEF Control
<1>9. Quiet
  BY <1>4, <1>5, InnerIsQuiet DEF Same
<1>10. NothingFailed => NothingFailed'
  <2> SUFFICES ASSUME NothingFailed PROVE NothingFailed'
    OBVIOUS
  <2>1. ~r.mFlaggedForDestruction
    BY DEF NothingFailed, Same
  <2> QED BY <1>1, <1>4, <1>5, <2>1, InnerNothingFails DEF Same, Control
<1> QED BY <1>8, <1>9, <1>10

-----------------------------------------------------------------------------
(* Sequences.                                                              *)

LEMMA RangeOfAppend ==
    ASSUME NEW S, NEW s \in Seq(S), NEW x \in S
    PROVE  /\ Append(s, x) \in Seq(S)
           /\ Range(Append(s, x)) = Range(s) \cup {x}
           /\ x \notin Range(s) /\ IsInjective(s) => IsInjective(Append(s, x))
<1>1. /\ Append(s, x) \in Seq(S) /\ Len(Append(s, x)) = Len(s) + 1
      /\ \A i \in 1 .. Len(s) : Append(s, x)[i] = s[i]
      /\ Append(s, x)[Len(s) + 1] = x
      /\ DOMAIN s = 1 .. Len(s) /\ DOMAIN Append(s, x) = 1 .. Len(s) + 1 /\ Len(s) \in Nat
  BY AppendProperties
<1>2. 1 .. Len(s) + 1 = 1 .. Len(s) \cup {Len(s) + 1}
  BY <1>1
<1>3. Range(Append(s, x)) = Range(s) \cup {x}
  BY <1>1, <1>2 DEF Range
<1>4. x \notin Range(s) /\ IsInjective(s) => IsInjective(Append(s, x))
  BY <1>1, <1>2 DEF Range, IsInjective
<1> QED BY <1>1, <1>3, <1>4

LEMMA RangeOfTail ==
    ASSUME NEW S, NEW s \in Seq(S), s # <<>>
    PROVE  /\ Tail(s) \in Seq(S) /\ Head(s) \in S
           /\ Range(s) = Range(Tail(s)) \cup {Head(s)}
           /\ IsInjective(s) => IsInjective(Tail(s)) /\ Head(s) \notin Range(Tail(s))
<1>1. /\ Tail(s) \in Seq(S) /\ Head(s) \in S /\ Head(s) = s[1]
      /\ Len(Tail(s)) = Len(s) - 1 /\ \A i \in 1 .. Len(Tail(s)) : Tail(s)[i] = s[i + 1]
      /\ DOMAIN s = 1 .. Len(s) /\ DOMAIN Tail(s) = 1 .. Len(s) - 1
      /\ Len(s) \in Nat /\ Len(s) > 0
  BY HeadTailProperties, LenProperties, EmptySeq
<1>2. Range(s) = Range(Tail(s)) \cup {Head(s)}
  <2>1. ASSUME NEW i \in 1 .. Len(s) PROVE s[i] \in Range(Tail(s)) \cup {Head(s)}
    <3>1. CASE i = 1
      BY <1>1, <3>1
    <3>2. CASE i > 1
      <4>1. i - 1 \in 1 .. Len(s) - 1 /\ Tail(s)[i - 1] = s[i]
        BY <1>1, <3>2
      <4> QED BY <1>1, <4>1 DEF Range
    <3> QED BY <1>1, <3>1, <3>2
  <2>2. ASSUME NEW i \in 1 .. Len(s) - 1 PROVE Tail(s)[i] \in Range(s)
    <3>1. i + 1 \in 1 .. Len(s) /\ Tail(s)[i] = s[i + 1]
      BY <1>1
    <3> QED BY <1>1, <3>1 DEF Range
  <2>3. Head(s) \in Range(s)
    BY <1>1 DEF Range
  <2> QED BY <1>1, <2>1, <2>2, <2>3 DEF Range
<1>3. ASSUME IsInjective(s) PROVE IsInjective(Tail(s)) /\ Head(s) \notin Range(Tail(s))
  <2>1. \A i, j \in 1 .. Len(s) - 1 : Tail(s)[i] = Tail(s)[j] => i = j
    BY <1>1, <1>3 DEF IsInjective
  <2>2. \A i \in 1 .. Len(s) - 1 : Tail(s)[i] # Head(s)
    BY <1>1, <1>3 DEF IsInjective
  <2> QED BY <1>1, <2>1, <2>2 DEF Range, IsInjective
<1> QED BY <1>1, <1>2, <1>3

-----------------------------------------------------------------------------
(* The threads of an endpoint.                                             *)

LEMMA ReceiverAwaitsPeerStep ==
    ASSUME Control, NEW n \in Nodes, NEW e \in Endpoints, ReceiverAwaitsPeer(n, e)
    PROVE  Control' /\ Quiet /\ (NothingFailed => NothingFailed')
<1> PICK q \in RemoteEndpoint : q = ep[n][e] /\ IsSane(n, e, q)
  BY EndpointType
<1> PICK a : a = AwaitPeer(q, q.receiveAt, "reading")
  OBVIOUS
<1>1. a \in {"done", "waiting", "reading"} /\ (a = "reading" => q.mPeer # None)
  BY AwaitPeerIs
<1>a. a \in ReceiveAt
  BY <1>1 DEF ReceiveAt
<1> PICK r \in RemoteEndpoint :
      r = [q EXCEPT !.receiveAt = a] /\ Same(q, r) /\ r.sendAt = q.sendAt /\ r.receiveAt = a
  BY <1>a, ReceiverMoves
<1>2. Set(n, e, r) /\ q.receiveAt \in {"locking", "notified"}
  BY DEF ReceiverAwaitsPeer
<1>3. EndpointIs(n, e, r) /\ q.state # "unused"
  BY <1>2, SetIs, RunningIsUsed DEF Control
<1>4. Inner(n, e, q, r) /\ IsSane(n, e, r)
  BY <1>1, <1>2, <1>3 DEF Inner, IsSane, Same
<1>5. /\ UNCHANGED <<mNodes, destroying, route, routed, delivered, wire, mEndpointsToDelete,
                     crashed, known, backlog, faults>>
  BY DEF ReceiverAwaitsPeer
<1>6. Typed'
  BY <1>3, <1>5 DEF EndpointIs, Control, Typed
<1>7. \A m \in Nodes : \A d \in Range(mEndpointsToDelete[m]) : d \in Endpoints
  BY TableTypes DEF Control
<1>8. Control'
  BY <1>4, <1>5, <1>6, <1>7, InnerControl, SameWires DEF Control
<1>9. Quiet
  BY <1>4, <1>5, InnerIsQuiet DEF Same
<1>10. NothingFailed => NothingFailed'
  <2> SUFFICES ASSUME NothingFailed PROVE NothingFailed'
    OBVIOUS
  <2>1. ~r.mFlaggedForDestruction
    BY DEF NothingFailed, Same
  <2> QED BY <1>1, <1>4, <1>5, <2>1, InnerNothingFails DEF Same, Control
<1> QED BY <1>8, <1>9, <1>10

\* flagForDestruction queues what it flags.
LEMMA FlagIs ==
    ASSUME Typed, NEW n \in Nodes, NEW e \in Endpoints, NEW p \in RemoteEndpoint, Flag(n, e, p)
    PROVE  /\ \E r \in RemoteEndpoint :
                /\ EndpointIs(n, e, r) /\ r.mFlaggedForDestruction
                /\ r.state = p.state /\ r.mPeer = p.mPeer /\ r.mMessageQueue = p.mMessageQueue
                /\ r.sending = p.sending /\ r.mShutdown = p.mShutdown
                /\ r.sendAt = p.sendAt /\ r.receiveAt = p.receiveAt
           /\ mEndpointsToDelete' \in [Nodes -> Seq(Endpoints)]
           /\ \A m \in Nodes : \A d \in Range(mEndpointsToDelete'[m]) :
                \/ d \in Endpoints /\ d \in Range(mEndpointsToDelete[m])
                \/ ep'[m][d].mFlaggedForDestruction
<1> PICK r : r = [p EXCEPT !.mFlaggedForDestruction = TRUE]
  OBVIOUS
<1>1. /\ r \in RemoteEndpoint /\ r.mFlaggedForDestruction
      /\ r.state = p.state /\ r.mPeer = p.mPeer /\ r.mMessageQueue = p.mMessageQueue
      /\ r.sending = p.sending /\ r.mShutdown = p.mShutdown
      /\ r.sendAt = p.sendAt /\ r.receiveAt = p.receiveAt
  BY DEF RemoteEndpoint
<1>2. EndpointIs(n, e, r)
  BY <1>1, SetIs DEF Flag
<1>3. \A m \in Nodes : \A d \in Range(mEndpointsToDelete[m]) : d \in Endpoints
  BY TableTypes
<1>4. CASE mEndpointsToDelete' = mEndpointsToDelete
  BY <1>1, <1>2, <1>3, <1>4 DEF Typed
<1>5. CASE mEndpointsToDelete' = [mEndpointsToDelete EXCEPT ![n] = Append(@, e)]
  <2>1. mEndpointsToDelete[n] \in Seq(Endpoints)
    BY TableTypes
  <2> PICK s \in Seq(Endpoints) :
        s = Append(mEndpointsToDelete[n], e) /\ Range(s) = Range(mEndpointsToDelete[n]) \cup {e}
    BY <2>1, RangeOfAppend
  <2>2. /\ mEndpointsToDelete' \in [Nodes -> Seq(Endpoints)]
        /\ mEndpointsToDelete'[n] = s
        /\ \A m \in Nodes : m # n => mEndpointsToDelete'[m] = mEndpointsToDelete[m]
    BY <1>5 DEF Typed
  <2>3. ep'[n][e].mFlaggedForDestruction
    BY <1>1, <1>2 DEF EndpointIs
  <2> QED BY <1>1, <1>2, <1>3, <2>2, <2>3
<1> QED BY <1>4, <1>5 DEF Flag

\* On a connection that is used, and on the peer that the sender uses.
LEMMA PeerIs ==
    ASSUME Control, NEW n \in Nodes, NEW e \in Endpoints,
           ep[n][e].sendAt \in {"popping", "sending"} \/ ep[n][e].receiveAt = "reading"
    PROVE  /\ ep[n][e].mPeer \in Endpoints /\ wire[ep[n][e].mPeer] \in Wire
           /\ n = 2 => ep[n][e].mPeer = e
           /\ NothingFailed => wire[ep[n][e].mPeer].open = Nodes
<1>1. ep[n][e] \in RemoteEndpoint /\ IsSane(n, e, ep[n][e])
  BY EndpointType
<1>2. ep[n][e].mPeer \in Endpoints
  BY <1>1, FieldTypes DEF IsSane
<1>3. wire[ep[n][e].mPeer] \in Wire
  BY <1>2 DEF Control, Typed
<1>4. n = 2 => ep[n][e].mPeer = e
  BY <1>1, <1>2, EndpointNumbers DEF IsSane
<1> QED BY <1>2, <1>3, <1>4, EndpointNumbers DEF NothingFailed

LEMMA ReceiverEndsStep ==
    ASSUME Control, NEW n \in Nodes, NEW e \in Endpoints, ReceiverEnds(n, e)
    PROVE  Control' /\ Quiet /\ (NothingFailed => NothingFailed')
<1> PICK q \in RemoteEndpoint : q = ep[n][e] /\ IsSane(n, e, q)
  BY EndpointType
<1>a. "done" \in ReceiveAt
  BY DEF ReceiveAt
<1> PICK p \in RemoteEndpoint :
      p = [q EXCEPT !.receiveAt = "done"] /\ Same(q, p) /\ p.sendAt = q.sendAt /\ p.receiveAt = "done"
  BY <1>a, ReceiverMoves
<1>1. q.receiveAt = "reading" /\ q.state # "unused"
  BY RunningIsUsed DEF ReceiverEnds
<1>2. /\ UNCHANGED <<mNodes, destroying, route, routed, delivered, wire, crashed, known, backlog, faults>>
      /\ \/ Set(n, e, p) /\ q.mShutdown /\ UNCHANGED mEndpointsToDelete
         \/ Flag(n, e, p) /\ wire[q.mPeer].open # Nodes
  BY DEF ReceiverEnds
<1>3. /\ n = 2 => q.mPeer = e
      /\ NothingFailed => wire[q.mPeer].open = Nodes
  BY <1>1, PeerIs
<1>7. \A m \in Nodes : \A d \in Range(mEndpointsToDelete[m]) : d \in Endpoints
  BY TableTypes DEF Control
<1>4. CASE Set(n, e, p) /\ q.mShutdown /\ UNCHANGED mEndpointsToDelete
  <2>1. EndpointIs(n, e, p)
    BY <1>4, SetIs DEF Control
  <2>2. Inner(n, e, q, p) /\ IsSane(n, e, p)
    BY <1>1, <2>1 DEF Inner, IsSane, Same
  <2>3. Typed'
    BY <1>2, <1>4, <2>1 DEF EndpointIs, Control, Typed
  <2>4. Control'
    BY <1>2, <1>4, <1>7, <2>2, <2>3, InnerControl, SameWires DEF Control
  <2>5. Quiet
    BY <1>2, <2>2, InnerIsQuiet DEF Same
  <2> QED BY <1>4, <2>4, <2>5 DEF NothingFailed
<1>5. CASE Flag(n, e, p) /\ wire[q.mPeer].open # Nodes
  <2> PICK r \in RemoteEndpoint :
        /\ EndpointIs(n, e, r) /\ r.mFlaggedForDestruction
        /\ r.state = p.state /\ r.mPeer = p.mPeer /\ r.mMessageQueue = p.mMessageQueue
        /\ r.sending = p.sending /\ r.mShutdown = p.mShutdown
        /\ r.sendAt = p.sendAt /\ r.receiveAt = p.receiveAt
    <3> HIDE DEF Flag
    <3>1. Typed
      BY DEF Control
    <3> QED BY ONLY <1>5, <3>1, FlagIs, n \in Nodes, e \in Endpoints, p \in RemoteEndpoint
  <2>0. /\ mEndpointsToDelete' \in [Nodes -> Seq(Endpoints)]
        /\ \A m \in Nodes : \A d \in Range(mEndpointsToDelete'[m]) :
              \/ d \in Endpoints /\ d \in Range(mEndpointsToDelete[m])
              \/ ep'[m][d].mFlaggedForDestruction
    BY <1>5, FlagIs DEF Control
  <2>a. n = 2 /\ wire[q.mPeer].open # Nodes => wire[e].open # Nodes
    BY <1>3
  <2>b. n = 2 => r.sendAt # "connecting"
    BY <1>1 DEF Same, IsSane
  <2>2. Inner(n, e, q, r) /\ IsSane(n, e, r)
    BY <1>1, <1>5, <2>a, <2>b DEF Inner, IsSane, Same
  <2>3. Typed'
    BY <1>2, <2>0 DEF EndpointIs, Control, Typed
  <2>4. Control'
    BY <1>2, <2>0, <2>2, <2>3, InnerControl, SameWires DEF Control
  <2>5. Quiet
    BY <1>2, <2>2, InnerIsQuiet DEF Same
  <2> QED BY <1>3, <1>5, <2>4, <2>5
<1> QED BY <1>2, <1>4, <1>5

\* The messages of an endpoint stay in it.
Keeps(m, d) ==
    /\ ep'[m][d].mMessageQueue.items = ep[m][d].mMessageQueue.items
    /\ ep'[m][d].sending = ep[m][d].sending

OnlyAt(n, e) == \A m \in Nodes, d \in Endpoints : m # n \/ d # e => Keeps(m, d)

LEMMA InnerIsOnly ==
    ASSUME NEW n \in Nodes, NEW e \in Endpoints, NEW q, NEW r, Inner(n, e, q, r)
    PROVE  OnlyAt(n, e)
BY DEF Inner, EndpointIs, OnlyAt, Keeps

\* The sender takes a message, drops it, or writes it to the connection c.
Pops(n, e) ==
    /\ ep[n][e].sending = None /\ ep[n][e].mMessageQueue.items # <<>>
    /\ ep'[n][e].sending = Head(ep[n][e].mMessageQueue.items)
    /\ ep'[n][e].mMessageQueue.items = Tail(ep[n][e].mMessageQueue.items)
    /\ OnlyAt(n, e)
    /\ UNCHANGED <<wire, mNodes, delivered, routed, faults>>

Drops(n, e) ==
    /\ ep'[n][e].sending = None
    /\ ep'[n][e].mMessageQueue.items = ep[n][e].mMessageQueue.items
    /\ OnlyAt(n, e)
    /\ UNCHANGED <<wire, mNodes, delivered, routed, faults>>

Sends(n, e, c) ==
    /\ c \in Endpoints /\ c = ep[n][e].mPeer /\ wire[c].open = Nodes
    /\ ep[n][e].sending # None /\ ep'[n][e].sending = None
    /\ ep'[n][e].mMessageQueue.items = ep[n][e].mMessageQueue.items
    /\ OnlyAt(n, e)
    /\ wire'[c].to[Other(n)] = Append(wire[c].to[Other(n)], ep[n][e].sending)
    /\ \A d \in Endpoints, m \in Nodes : d # c \/ m = n => wire'[d].to[m] = wire[d].to[m]
    /\ UNCHANGED <<mNodes, delivered, routed, faults>>

Receives(n, c) ==
    /\ c \in Endpoints /\ n \in wire[c].open /\ wire[c].to[n] # <<>>
    /\ wire'[c].to[n] = Tail(wire[c].to[n])
    /\ \A d \in Endpoints, m \in Nodes : d # c \/ m # n => wire'[d].to[m] = wire[d].to[m]
    /\ IF known[n] = "known"
       THEN /\ delivered'[n] = Append(delivered[n], Head(wire[c].to[n]))
            /\ \A m \in Nodes : m # n => delivered'[m] = delivered[m]
       ELSE delivered' = delivered
    /\ \A m \in Nodes, d \in Endpoints : Keeps(m, d)
    /\ UNCHANGED <<mNodes, routed, faults>>

LEMMA PopMessageStep ==
    ASSUME Control, NEW n \in Nodes, NEW e \in Endpoints, PopMessage(n, e)
    PROVE  Control' /\ ((Quiet /\ faults' = faults) \/ Pops(n, e)) /\ (NothingFailed => NothingFailed')
<1> PICK q \in RemoteEndpoint : q = ep[n][e] /\ IsSane(n, e, q)
  BY EndpointType
<1>1. q.sendAt = "popping" /\ q.state # "unused" /\ q.sending = None
  BY RunningIsUsed DEF PopMessage, IsSane
<1>2. UNCHANGED <<mNodes, destroying, route, routed, delivered, wire, mEndpointsToDelete, crashed,
                  known, backlog, faults>>
  BY DEF PopMessage
<1>3. \/ Set(n, e, [q EXCEPT !.sendAt = "done"])
      \/ /\ Poppable(q.mMessageQueue)
         /\ Set(n, e, [q EXCEPT !.sendAt = "sending", !.sending = First(q.mMessageQueue),
                                !.mMessageQueue = Pop(q.mMessageQueue)])
  BY DEF PopMessage
<1>7. \A m \in Nodes : \A d \in Range(mEndpointsToDelete[m]) : d \in Endpoints
  BY TableTypes DEF Control
<1>4. CASE Set(n, e, [q EXCEPT !.sendAt = "done"])
  <2>a. "done" \in SendAt
    BY DEF SendAt
  <2> PICK r \in RemoteEndpoint :
        r = [q EXCEPT !.sendAt = "done"] /\ Same(q, r) /\ r.sendAt = "done" /\ r.receiveAt = q.receiveAt
    BY <2>a, SenderMoves
  <2>1. EndpointIs(n, e, r)
    BY <1>4, SetIs DEF Control
  <2>2. Inner(n, e, q, r) /\ IsSane(n, e, r)
    BY <1>1, <2>1 DEF Inner, IsSane, Same
  <2>3. Typed'
    BY <1>2, <2>1 DEF EndpointIs, Control, Typed
  <2>4. Control'
    BY <1>2, <1>7, <2>2, <2>3, InnerControl, SameWires DEF Control
  <2>5. Quiet
    BY <1>2, <2>2, InnerIsQuiet DEF Same
  <2>6. NothingFailed => NothingFailed'
    <3> SUFFICES ASSUME NothingFailed PROVE NothingFailed'
      OBVIOUS
    <3>1. ~r.mFlaggedForDestruction
      BY DEF NothingFailed, Same
    <3> QED BY <1>2, <2>2, <3>1, InnerNothingFails DEF Same, Control
  <2> QED BY <1>2, <2>4, <2>5, <2>6
<1>5. CASE /\ Poppable(q.mMessageQueue)
           /\ Set(n, e, [q EXCEPT !.sendAt = "sending", !.sending = First(q.mMessageQueue),
                                  !.mMessageQueue = Pop(q.mMessageQueue)])
  <2>a. q.mMessageQueue \in Queue(Message) /\ q.mMessageQueue.items # <<>>
    BY <1>5, FieldTypes DEF Poppable
  <2> PICK s \in Queue(Message), m \in Message :
        /\ s = Pop(q.mMessageQueue) /\ s.mShutdown = q.mMessageQueue.mShutdown
        /\ s.items = Tail(q.mMessageQueue.items)
        /\ m = First(q.mMessageQueue) /\ m = Head(q.mMessageQueue.items)
    BY <2>a, QueueFields
  <2> PICK r : r = [q EXCEPT !.sendAt = "sending", !.sending = m, !.mMessageQueue = s]
    OBVIOUS
  <2>b. /\ r \in RemoteEndpoint
        /\ r.state = q.state /\ r.mPeer = q.mPeer /\ r.mMessageQueue = s
        /\ r.sending = m /\ r.mShutdown = q.mShutdown
        /\ r.mFlaggedForDestruction = q.mFlaggedForDestruction
        /\ r.sendAt = "sending" /\ r.receiveAt = q.receiveAt
    BY DEF RemoteEndpoint, SendAt
  <2>c. m # None
    BY MessageNumbers
  <2>1. EndpointIs(n, e, r)
    BY <1>5, <2>b, SetIs DEF Control
  <2>2. Inner(n, e, q, r) /\ IsSane(n, e, r)
    BY <1>1, <2>1, <2>b, <2>c DEF Inner, IsSane
  <2>3. Typed'
    BY <1>2, <2>1 DEF EndpointIs, Control, Typed
  <2>4. Control'
    BY <1>2, <1>7, <2>2, <2>3, InnerControl, SameWires DEF Control
  <2>5. Pops(n, e)
    BY <1>1, <1>2, <2>a, <2>b, <2>1, <2>2, InnerIsOnly DEF Pops, EndpointIs
  <2>6. NothingFailed => NothingFailed'
    <3> SUFFICES ASSUME NothingFailed PROVE NothingFailed'
      OBVIOUS
    <3>1. ~r.mFlaggedForDestruction
      BY <2>b DEF NothingFailed
    <3> QED BY <1>2, <2>b, <2>2, <3>1, InnerNothingFails DEF Control
  <2> QED BY <2>4, <2>5, <2>6
<1> QED BY <1>3, <1>4, <1>5

LEMMA WireIs ==
    ASSUME NEW w \in Wire, NEW m \in Nodes
    PROVE  /\ w.open \in SUBSET Nodes /\ \A k \in Nodes : w.to[k] \in Seq(Message)
           /\ \A s \in Seq(Message) : \E v \in Wire :
                /\ v = [w EXCEPT !.to[m] = s]
                /\ v.open = w.open /\ v.to[m] = s
                /\ \A k \in Nodes : k # m => v.to[k] = w.to[k]
<1>1. w.open \in SUBSET Nodes /\ \A k \in Nodes : w.to[k] \in Seq(Message)
  BY DEF Wire
<1>2. ASSUME NEW s \in Seq(Message)
      PROVE  \E v \in Wire :
                /\ v = [w EXCEPT !.to[m] = s]
                /\ v.open = w.open /\ v.to[m] = s
                /\ \A k \in Nodes : k # m => v.to[k] = w.to[k]
  <2> PICK v : v = [w EXCEPT !.to[m] = s]
    OBVIOUS
  <2>1. /\ v \in Wire /\ v.open = w.open /\ v.to[m] = s
        /\ \A k \in Nodes : k # m => v.to[k] = w.to[k]
    BY DEF Wire
  <2> QED BY <2>1
<1> QED BY <1>1, <1>2

LEMMA WireSet ==
    ASSUME Typed, NEW c \in Endpoints, NEW v \in Wire, wire' = [wire EXCEPT ![c] = v]
    PROVE  /\ wire' \in [Endpoints -> Wire] /\ wire'[c] = v
           /\ \A d \in Endpoints : d # c => wire'[d] = wire[d]
BY DEF Typed

\* What is open is not new.
LEMMA TrafficIsNotNew ==
    ASSUME NEW c \in Endpoints, NEW n \in Nodes, wire[c].open = Nodes \/ n \in wire[c].open
    PROVE  wire[c] # NoWire
BY NodesAreTwo DEF NoWire

LEMMA HandEmpties ==
    ASSUME NEW q \in RemoteEndpoint, NEW a \in SendAt
    PROVE  \E p \in RemoteEndpoint :
              /\ p = [[q EXCEPT !.sending = None] EXCEPT !.sendAt = a]
              /\ p.state = q.state /\ p.mPeer = q.mPeer /\ p.mMessageQueue = q.mMessageQueue
              /\ p.sending = None /\ p.mShutdown = q.mShutdown
              /\ p.mFlaggedForDestruction = q.mFlaggedForDestruction
              /\ p.sendAt = a /\ p.receiveAt = q.receiveAt
<1> PICK p : p = [[q EXCEPT !.sending = None] EXCEPT !.sendAt = a]
  OBVIOUS
<1>1. /\ p \in RemoteEndpoint
      /\ p.state = q.state /\ p.mPeer = q.mPeer /\ p.mMessageQueue = q.mMessageQueue
      /\ p.sending = None /\ p.mShutdown = q.mShutdown
      /\ p.mFlaggedForDestruction = q.mFlaggedForDestruction
      /\ p.sendAt = a /\ p.receiveAt = q.receiveAt
  BY DEF RemoteEndpoint
<1> QED BY <1>1

LEMMA SendEnvelopeStep ==
    ASSUME Control, NEW n \in Nodes, NEW e \in Endpoints, SendEnvelope(n, e)
    PROVE  /\ Control' /\ (NothingFailed => NothingFailed')
           /\ \/ Drops(n, e) /\ ~NothingFailed
              \/ \E c \in Endpoints : Sends(n, e, c)
<1> PICK q \in RemoteEndpoint : q = ep[n][e] /\ IsSane(n, e, q)
  BY EndpointType
<1> PICK c : c = q.mPeer
  OBVIOUS
<1>0. q.sendAt = "sending" /\ q.state # "unused" /\ q.sending # None
  BY RunningIsUsed DEF SendEnvelope, IsSane
<1>a. /\ c \in Endpoints /\ wire[c] \in Wire /\ (n = 2 => c = e)
      /\ NothingFailed => wire[c].open = Nodes
  BY <1>0, PeerIs
<1>b. q.sending \in Message
  BY <1>0, FieldTypes
<1>c. NothingFailed => ~q.mShutdown /\ ~q.mFlaggedForDestruction
  BY DEF NothingFailed
<1>1. UNCHANGED <<mNodes, destroying, route, routed, delivered, crashed, known, backlog, faults>>
  BY DEF SendEnvelope
<1>d. "done" \in SendAt /\ "popping" \in SendAt
  BY DEF SendAt
<1> PICK p \in RemoteEndpoint :
      /\ p = [[q EXCEPT !.sending = None] EXCEPT !.sendAt = "popping"]
      /\ p.state = q.state /\ p.mPeer = q.mPeer /\ p.mMessageQueue = q.mMessageQueue
      /\ p.sending = None /\ p.mShutdown = q.mShutdown
      /\ p.mFlaggedForDestruction = q.mFlaggedForDestruction
      /\ p.sendAt = "popping" /\ p.receiveAt = q.receiveAt
  BY <1>d, HandEmpties
<1> PICK r \in RemoteEndpoint :
      /\ r = [[q EXCEPT !.sending = None] EXCEPT !.sendAt = "done"]
      /\ r.state = q.state /\ r.mPeer = q.mPeer /\ r.mMessageQueue = q.mMessageQueue
      /\ r.sending = None /\ r.mShutdown = q.mShutdown
      /\ r.mFlaggedForDestruction = q.mFlaggedForDestruction
      /\ r.sendAt = "done" /\ r.receiveAt = q.receiveAt
  BY <1>d, HandEmpties
<1>2. \/ q.mShutdown /\ Set(n, e, r) /\ UNCHANGED <<wire, mEndpointsToDelete>>
      \/ /\ wire[c].open = Nodes /\ Set(n, e, p) /\ UNCHANGED mEndpointsToDelete
         /\ wire' = [wire EXCEPT ![c].to[Other(n)] = Append(@, q.sending)]
      \/ wire[c].open # Nodes /\ Set(n, e, p) /\ UNCHANGED <<wire, mEndpointsToDelete>>
      \/ wire[c].open # Nodes /\ Flag(n, e, r) /\ UNCHANGED wire
  BY DEF SendEnvelope
<1>7. \A m \in Nodes : \A d \in Range(mEndpointsToDelete[m]) : d \in Endpoints
  BY TableTypes DEF Control
<1>3. ASSUME NEW s \in {p, r}, Set(n, e, s), UNCHANGED <<wire, mEndpointsToDelete>>
      PROVE  Control' /\ Drops(n, e)
  <2>1. EndpointIs(n, e, s)
    BY <1>3, SetIs DEF Control
  <2>a. /\ s \in RemoteEndpoint /\ s.state = q.state /\ s.mPeer = q.mPeer
        /\ s.mMessageQueue = q.mMessageQueue /\ s.sending = None
        /\ s.mFlaggedForDestruction = q.mFlaggedForDestruction
        /\ s.sendAt \in {"done", "popping"} /\ s.receiveAt = q.receiveAt
    OBVIOUS
  <2>2. Inner(n, e, q, s) /\ IsSane(n, e, s)
    BY <1>0, <1>a, <2>1, <2>a, EndpointNumbers DEF Inner, IsSane
  <2>3. Typed'
    BY <1>1, <1>3, <2>1 DEF EndpointIs, Control, Typed
  <2>4. Control'
    BY <1>1, <1>3, <1>7, <2>2, <2>3, InnerControl, SameWires DEF Control
  <2>5. Drops(n, e)
    BY <1>1, <1>3, <2>1, <2>2, <2>a, InnerIsOnly DEF Drops, EndpointIs
  <2> QED BY <2>4, <2>5
<1>4. CASE wire[c].open # Nodes /\ Flag(n, e, r) /\ UNCHANGED wire
  <2> PICK s \in RemoteEndpoint :
        /\ EndpointIs(n, e, s) /\ s.mFlaggedForDestruction
        /\ s.state = r.state /\ s.mPeer = r.mPeer /\ s.mMessageQueue = r.mMessageQueue
        /\ s.sending = r.sending /\ s.mShutdown = r.mShutdown
        /\ s.sendAt = r.sendAt /\ s.receiveAt = r.receiveAt
    <3>1. Typed
      BY DEF Control
    <3> QED BY ONLY <1>4, <3>1, FlagIs, n \in Nodes, e \in Endpoints, r \in RemoteEndpoint
  <2>0. /\ mEndpointsToDelete' \in [Nodes -> Seq(Endpoints)]
        /\ \A m \in Nodes : \A d \in Range(mEndpointsToDelete'[m]) :
              \/ d \in Endpoints /\ d \in Range(mEndpointsToDelete[m])
              \/ ep'[m][d].mFlaggedForDestruction
    BY <1>4, FlagIs DEF Control
  <2>2. Inner(n, e, q, s) /\ IsSane(n, e, s)
    BY <1>0, <1>a, <1>4, EndpointNumbers DEF Inner, IsSane
  <2>3. Typed'
    BY <1>1, <1>4, <2>0 DEF EndpointIs, Control, Typed
  <2>4. Control'
    BY <1>1, <1>4, <2>0, <2>2, <2>3, InnerControl, SameWires DEF Control
  <2>5. Drops(n, e)
    BY <1>1, <1>4, <2>2, InnerIsOnly DEF Drops, EndpointIs
  <2> QED BY <1>4, <1>a, <2>4, <2>5
<1>5. CASE /\ wire[c].open = Nodes /\ Set(n, e, p) /\ UNCHANGED mEndpointsToDelete
           /\ wire' = [wire EXCEPT ![c].to[Other(n)] = Append(@, q.sending)]
  <2> PICK o \in Nodes : o = Other(n)
    BY NodesAreTwo
  <2>o. o # n /\ \A m \in Nodes : m # n => m = o
    BY NodesAreTwo
  <2> PICK w \in Wire : w = wire[c]
    BY <1>a
  <2>t. w.to[o] \in Seq(Message)
    BY WireIs
  <2> PICK t \in Seq(Message) : t = Append(w.to[o], q.sending)
    BY <1>b, <2>t, AppendProperties
  <2> PICK v \in Wire :
        /\ v = [w EXCEPT !.to[o] = t]
        /\ v.open = w.open /\ v.to[o] = t
        /\ \A k \in Nodes : k # o => v.to[k] = w.to[k]
    <3>1. \A s \in Seq(Message) : \E v \in Wire :
                /\ v = [w EXCEPT !.to[o] = s]
                /\ v.open = w.open /\ v.to[o] = s
                /\ \A k \in Nodes : k # o => v.to[k] = w.to[k]
      BY ONLY WireIs, w \in Wire, o \in Nodes
    <3> QED BY ONLY <3>1, t \in Seq(Message)
  <2>v. v.open = w.open /\ v.to[o] = t /\ \A k \in Nodes : k # o => v.to[k] = w.to[k]
    OBVIOUS
  <2>w. wire' = [wire EXCEPT ![c] = v]
    BY <1>5
  <2>x. /\ wire' \in [Endpoints -> Wire] /\ wire'[c] = v
        /\ \A d \in Endpoints : d # c => wire'[d] = wire[d]
    BY <1>a, <2>w, WireSet DEF Control
  <2>y. WiresFall /\ \A d \in Endpoints : wire'[d].open = wire[d].open
    <3>1. wire[c] # NoWire
      BY <1>5, <1>a, TrafficIsNotNew
    <3>2. \A d \in Endpoints : wire'[d].open = wire[d].open /\ (wire[d] = NoWire => wire'[d] = NoWire)
      BY ONLY <2>v, <2>x, <3>1, w = wire[c]
    <3>3. \A d \in Endpoints : 1 \in wire[d].open => wire[d].open = Nodes
      BY DEF Control, Negotiated, OpenIsTracked
    <3> QED BY <3>2, <3>3 DEF WiresFall
  <2>1. EndpointIs(n, e, p)
    BY <1>5, SetIs DEF Control
  <2>2. Inner(n, e, q, p) /\ IsSane(n, e, p)
    BY <1>0, <1>a, <2>1, EndpointNumbers DEF Inner, IsSane
  <2>3. Typed'
    BY <1>1, <1>5, <2>1, <2>x DEF EndpointIs, Control, Typed
  <2>4. Control'
    BY <1>1, <1>5, <1>7, <2>2, <2>3, <2>y, InnerControl
  <2>5. OnlyAt(n, e)
    BY <2>2, InnerIsOnly
  <2>6. Sends(n, e, c)
    <3>1. wire'[c].to[o] = Append(wire[c].to[o], q.sending)
      BY ONLY <2>v, <2>x, w = wire[c], t = Append(w.to[o], q.sending)
    <3>2. \A d \in Endpoints, m \in Nodes : d # c \/ m = n => wire'[d].to[m] = wire[d].to[m]
      BY ONLY <2>o, <2>v, <2>x, w = wire[c]
    <3>3. ep'[n][e].sending = None /\ ep'[n][e].mMessageQueue.items = q.mMessageQueue.items
      BY <2>1 DEF EndpointIs
    <3> QED BY <1>0, <1>1, <1>5, <1>a, <2>5, <3>1, <3>2, <3>3 DEF Sends
  <2>7. NothingFailed => NothingFailed'
    <3> SUFFICES ASSUME NothingFailed PROVE NothingFailed'
      OBVIOUS
    <3> QED BY <1>1, <1>5, <1>c, <2>2, <2>y, InnerNothingFails DEF Control
  <2> QED BY <1>a, <2>4, <2>6, <2>7
<1> QED BY <1>2, <1>3, <1>4, <1>5, <1>a, <1>c

LEMMA SameEndpointsControl ==
    ASSUME Control, Typed', WiresFall,
           UNCHANGED <<ep, mNodes, destroying, route, routed, mEndpointsToDelete>>
    PROVE  Control'
<1>1. Stay
  BY DEF Stay
<1>2. \A m \in Nodes : \A d \in Range(mEndpointsToDelete[m]) : d \in Endpoints
  BY TableTypes DEF Control
<1>3. RouteIsSane' /\ TablesAreSane'
  BY <1>1, <1>2, RouteFrame, TablesFrame DEF Control
<1>4. Negotiated'
  BY NegotiationFrame DEF Control
<1>5. EndpointsAreSane'
  BY DEF Control, EndpointsAreSane, IsSane
<1> QED BY <1>3, <1>4, <1>5 DEF Control

LEMMA SameEndpointsNothingFails ==
    ASSUME NothingFailed, Typed, \A c \in Endpoints : wire'[c].open = wire[c].open,
           UNCHANGED <<ep, crashed, mNodes, mEndpointsToDelete, backlog>>,
           \A m \in Nodes : /\ known'[m] # "deleted"
                            /\ known[m] = "known" => known'[m] = "known",
           \A m \in Nodes : route'[m].at # "idle" \/ routed'[m] > 0 =>
                            \/ route[m].at # "idle" \/ routed[m] > 0
                            \/ \A k \in Nodes : known'[k] = "known"
    PROVE  NothingFailed'
<1>1. ASSUME NEW m \in Nodes, NEW d \in Endpoints
      PROVE  ep[m][d].mPeer \in {None} \cup Endpoints
  BY TableTypes, FieldTypes
<1>2. backlog[1] # <<>> => Head(backlog[1]) \in Endpoints
  <2>1. backlog[1] \in Seq(Endpoints)
    BY NodesAreTwo, TableTypes
  <2> QED BY <2>1
<1> QED BY <1>1, <1>2, NodesAreTwo DEF NothingFailed

LEMMA ReceiveEnvelopeStep ==
    ASSUME Control, NEW n \in Nodes, NEW e \in Endpoints, ReceiveEnvelope(n, e)
    PROVE  /\ Control' /\ (NothingFailed => NothingFailed')
           /\ Receives(n, ep[n][e].mPeer)
<1> PICK c : c = ep[n][e].mPeer
  OBVIOUS
<1>1. /\ ep[n][e].receiveAt = "reading"
      /\ n \in wire[c].open /\ wire[c].to[n] # <<>>
      /\ wire' = [wire EXCEPT ![c].to[n] = Tail(@)]
      /\ delivered' = IF known[n] = "known"
                      THEN [delivered EXCEPT ![n] = Append(@, Head(wire[c].to[n]))]
                      ELSE delivered
      /\ UNCHANGED <<known, mNodes, backlog, mEndpointsToDelete, destroying, route, routed,
                     crashed, faults>>
  BY DEF ReceiveEnvelope
<1>2. c \in Endpoints /\ wire[c] \in Wire
  BY <1>1, PeerIs
<1> PICK w \in Wire : w = wire[c]
  BY <1>2
<1>3. w.to[n] \in Seq(Message)
  BY WireIs
<1>4. Head(w.to[n]) \in Message /\ Tail(w.to[n]) \in Seq(Message)
  BY <1>1, <1>3, HeadTailProperties
<1> PICK t \in Seq(Message) : t = Tail(w.to[n])
  BY <1>4
<1> PICK v \in Wire :
      /\ v = [w EXCEPT !.to[n] = t]
      /\ v.open = w.open /\ v.to[n] = t
      /\ \A k \in Nodes : k # n => v.to[k] = w.to[k]
  <2>1. \A s \in Seq(Message) : \E v \in Wire :
              /\ v = [w EXCEPT !.to[n] = s]
              /\ v.open = w.open /\ v.to[n] = s
              /\ \A k \in Nodes : k # n => v.to[k] = w.to[k]
    BY ONLY WireIs, w \in Wire, n \in Nodes
  <2> QED BY ONLY <2>1, t \in Seq(Message)
<1>v. v.open = w.open /\ v.to[n] = t /\ \A k \in Nodes : k # n => v.to[k] = w.to[k]
  OBVIOUS
<1>w. wire' = [wire EXCEPT ![c] = v]
  BY <1>1
<1>x. /\ wire' \in [Endpoints -> Wire] /\ wire'[c] = v
      /\ \A d \in Endpoints : d # c => wire'[d] = wire[d]
  BY <1>2, <1>w, WireSet DEF Control
<1>y. WiresFall /\ \A d \in Endpoints : wire'[d].open = wire[d].open
  <2>1. wire[c] # NoWire
    BY <1>1, <1>2, TrafficIsNotNew
  <2>2. \A d \in Endpoints : wire'[d].open = wire[d].open /\ (wire[d] = NoWire => wire'[d] = NoWire)
    BY ONLY <1>v, <1>x, <2>1, w = wire[c]
  <2>3. \A d \in Endpoints : 1 \in wire[d].open => wire[d].open = Nodes
    BY DEF Control, Negotiated, OpenIsTracked
  <2> QED BY <2>2, <2>3 DEF WiresFall
<1>5. /\ delivered' \in [Nodes -> Seq(Message)]
      /\ IF known[n] = "known"
         THEN /\ delivered'[n] = Append(delivered[n], Head(wire[c].to[n]))
              /\ \A m \in Nodes : m # n => delivered'[m] = delivered[m]
         ELSE delivered' = delivered
  <2>1. delivered \in [Nodes -> Seq(Message)] /\ delivered[n] \in Seq(Message)
    BY DEF Control, Typed
  <2>2. Append(delivered[n], Head(w.to[n])) \in Seq(Message)
    BY <1>4, <2>1, AppendProperties
  <2> QED BY <1>1, <2>1, <2>2
<1> PICK q \in RemoteEndpoint : q = ep[n][e] /\ IsSane(n, e, q)
  BY EndpointType
<1> PICK r \in RemoteEndpoint :
      /\ r = [q EXCEPT !.receiveAt = "routing"]
      /\ Same(q, r) /\ r.sendAt = q.sendAt /\ r.receiveAt = "routing"
  <2>1. "routing" \in ReceiveAt
    BY DEF ReceiveAt
  <2> QED BY <2>1, ReceiverMoves
\* A message that is known is routed next.
<1>6. ASSUME known[n] = "known"
      PROVE  /\ Control' /\ (NothingFailed => NothingFailed')
             /\ \A m \in Nodes, d \in Endpoints : Keeps(m, d)
  <2>1. Set(n, e, r)
    BY <1>6 DEF ReceiveEnvelope
  <2>2. EndpointIs(n, e, r) /\ q.state # "unused"
    BY <1>1, <2>1, SetIs, RunningIsUsed DEF Control
  <2>3. q.mPeer # None
    BY <1>1 DEF IsSane
  <2>4. Inner(n, e, q, r) /\ IsSane(n, e, r)
    BY <2>2, <2>3 DEF Inner, IsSane, Same
  <2>5. Typed'
    BY <1>1, <1>x, <1>5, <2>2 DEF EndpointIs, Control, Typed
  <2>6. \A m \in Nodes : \A d \in Range(mEndpointsToDelete[m]) : d \in Endpoints
    BY TableTypes DEF Control
  <2>7. Control'
    BY <1>1, <1>y, <2>4, <2>5, <2>6, InnerControl
  <2>8. NothingFailed => NothingFailed'
    <3> SUFFICES ASSUME NothingFailed PROVE NothingFailed'
      OBVIOUS
    <3>1. ~r.mFlaggedForDestruction
      BY DEF NothingFailed, Same
    <3> QED BY <1>1, <1>y, <2>4, <3>1, InnerNothingFails DEF Same, Control
  <2>9. \A m \in Nodes, d \in Endpoints : Keeps(m, d)
    <3>1. Keeps(n, e)
      BY <2>2 DEF EndpointIs, Keeps, Same
    <3>2. OnlyAt(n, e)
      BY <2>4, InnerIsOnly
    <3> QED BY <3>1, <3>2 DEF OnlyAt
  <2> QED BY <2>7, <2>8, <2>9
<1>7. ASSUME known[n] # "known"
      PROVE  /\ Control' /\ (NothingFailed => NothingFailed')
             /\ \A m \in Nodes, d \in Endpoints : Keeps(m, d)
  <2>1. ep' = ep
    BY <1>7 DEF ReceiveEnvelope
  <2>2. Typed'
    BY <1>1, <1>x, <1>5, <2>1 DEF Control, Typed
  <2>3. Control'
    BY <1>1, <1>y, <2>1, <2>2, SameEndpointsControl
  <2>4. NothingFailed => NothingFailed'
    <3> SUFFICES ASSUME NothingFailed PROVE NothingFailed'
      OBVIOUS
    <3>1. \A m \in Nodes : known[m] # "deleted"
      BY DEF NothingFailed
    <3> QED BY <1>1, <1>y, <2>1, <3>1, SameEndpointsNothingFails DEF Control
  <2> QED BY <2>1, <2>3, <2>4 DEF Keeps
<1>8. /\ Control' /\ (NothingFailed => NothingFailed')
      /\ \A m \in Nodes, d \in Endpoints : Keeps(m, d)
  BY <1>6, <1>7
<1>9. Receives(n, c)
  <2>1. wire'[c].to[n] = Tail(wire[c].to[n])
    BY ONLY <1>v, <1>x, w = wire[c], t = Tail(w.to[n])
  <2>2. \A d \in Endpoints, m \in Nodes : d # c \/ m # n => wire'[d].to[m] = wire[d].to[m]
    BY ONLY <1>v, <1>x, w = wire[c]
  <2> QED BY <1>1, <1>2, <1>5, <1>8, <2>1, <2>2 DEF Receives
<1> QED BY <1>8, <1>9

\* What was read has been routed, and the receive thread reads on.
LEMMA RouteReceivedStep ==
    ASSUME Control, NEW n \in Nodes, NEW e \in Endpoints, RouteReceived(n, e)
    PROVE  Control' /\ Quiet /\ (NothingFailed => NothingFailed')
<1> PICK q \in RemoteEndpoint : q = ep[n][e] /\ IsSane(n, e, q)
  BY EndpointType
<1>a. "reading" \in ReceiveAt
  BY DEF ReceiveAt
<1> PICK r \in RemoteEndpoint :
      /\ r = [q EXCEPT !.receiveAt = "reading"]
      /\ Same(q, r) /\ r.sendAt = q.sendAt /\ r.receiveAt = "reading"
  BY <1>a, ReceiverMoves
<1>1. Set(n, e, r) /\ q.receiveAt = "routing"
  BY DEF RouteReceived
<1>2. q.mPeer # None
  BY <1>1 DEF IsSane
<1>3. EndpointIs(n, e, r) /\ q.state # "unused"
  BY <1>1, SetIs, RunningIsUsed DEF Control
<1>4. Inner(n, e, q, r) /\ IsSane(n, e, r)
  BY <1>2, <1>3 DEF Inner, IsSane, Same
<1>5. UNCHANGED <<mNodes, destroying, route, routed, delivered, wire, mEndpointsToDelete,
                  crashed, known, backlog, faults>>
  BY DEF RouteReceived
<1>6. Typed'
  BY <1>3, <1>5 DEF EndpointIs, Control, Typed
<1>7. \A m \in Nodes : \A d \in Range(mEndpointsToDelete[m]) : d \in Endpoints
  BY TableTypes DEF Control
<1>8. Control'
  BY <1>4, <1>5, <1>6, <1>7, InnerControl, SameWires DEF Control
<1>9. Quiet
  BY <1>4, <1>5, InnerIsQuiet DEF Same
<1>10. NothingFailed => NothingFailed'
  <2> SUFFICES ASSUME NothingFailed PROVE NothingFailed'
    OBVIOUS
  <2>1. ~r.mFlaggedForDestruction
    BY DEF NothingFailed, Same
  <2> QED BY <1>4, <1>5, <2>1, InnerNothingFails DEF Same, Control
<1> QED BY <1>8, <1>9, <1>10

\* The greater node begins to use its connection.
LEMMA UsePeerStep ==
    ASSUME Control, NEW n \in Nodes, NEW e \in Endpoints, UsePeer(n, e)
    PROVE  Control' /\ Quiet /\ faults' = faults /\ (NothingFailed => NothingFailed')
<1> PICK q \in RemoteEndpoint : q = ep[n][e] /\ IsSane(n, e, q)
  BY EndpointType
<1>1. q.sendAt = "connected" /\ q.state # "unused" /\ n = 2 /\ q.sending = None
  BY RunningIsUsed, NodesAreTwo DEF UsePeer, IsSane
<1>2. UNCHANGED <<mNodes, destroying, route, routed, delivered, wire, mEndpointsToDelete, crashed,
                  known, backlog, faults>>
  BY DEF UsePeer
<1>a. "popping" \in SendAt
  BY DEF SendAt
<1> PICK p \in RemoteEndpoint :
      p = [q EXCEPT !.sendAt = "popping"] /\ Same(q, p) /\ p.sendAt = "popping" /\ p.receiveAt = q.receiveAt
  BY <1>a, SenderMoves
<1> PICK r : r = WithPeer(p, e)
  OBVIOUS
<1>3. /\ r \in RemoteEndpoint
      /\ r.state = p.state /\ r.mPeer = e /\ r.mMessageQueue = p.mMessageQueue
      /\ r.sending = p.sending /\ r.mShutdown = p.mShutdown
      /\ r.mFlaggedForDestruction = p.mFlaggedForDestruction
      /\ r.sendAt = "popping"
      /\ r.receiveAt = p.receiveAt \/ (p.receiveAt = "waiting" /\ r.receiveAt = "notified")
  <2>1. p.sendAt = "popping"
    OBVIOUS
  <2> QED BY ONLY <2>1, WithPeerFields, p \in RemoteEndpoint, e \in Endpoints, r = WithPeer(p, e)
<1>4. EndpointIs(n, e, r)
  BY <1>3, SetIs DEF UsePeer, Control
<1>5. Inner(n, e, q, r) /\ IsSane(n, e, r)
  BY <1>1, <1>3, <1>4, EndpointNumbers DEF Inner, IsSane, Same
<1>6. Typed'
  BY <1>2, <1>4 DEF EndpointIs, Control, Typed
<1>7. \A m \in Nodes : \A d \in Range(mEndpointsToDelete[m]) : d \in Endpoints
  BY TableTypes DEF Control
<1>8. Control'
  BY <1>2, <1>5, <1>6, <1>7, InnerControl, SameWires DEF Control
<1>9. Quiet
  BY <1>2, <1>3, <1>5, InnerIsQuiet DEF Same
<1>10. NothingFailed => NothingFailed'
  <2> SUFFICES ASSUME NothingFailed PROVE NothingFailed'
    OBVIOUS
  <2>1. wire[e].open = Nodes /\ ~r.mFlaggedForDestruction /\ ~r.mShutdown /\ ~r.mMessageQueue.mShutdown
    BY <1>1, <1>3 DEF NothingFailed, Same
  <2>2. ASSUME NEW m \in Nodes, NEW d \in Endpoints
        PROVE  /\ ep'[m][d].state # "unused" => mNodes[m] = d
               /\ ~ep'[m][d].mFlaggedForDestruction /\ ~ep'[m][d].mShutdown
               /\ ~ep'[m][d].mMessageQueue.mShutdown
               /\ ep'[m][d].mPeer # None => wire[ep'[m][d].mPeer].open = Nodes
               /\ m = 2 /\ ep'[m][d].sendAt = "connected" => wire[d].open = Nodes
               /\ m = 1 => ep'[m][d] = ep[m][d]
    <3>1. CASE m = n /\ d = e
      BY <1>1, <1>3, <1>4, <2>1, <3>1 DEF EndpointIs, NothingFailed, Same
    <3>2. CASE m # n \/ d # e
      BY <1>1, <1>4, <3>2 DEF EndpointIs, NothingFailed
    <3> QED BY <3>1, <3>2
  <2> QED BY <1>2, <2>2, NodesAreTwo DEF NothingFailed
<1> QED BY <1>2, <1>8, <1>9, <1>10

\* One more connection for the lesser node to accept, or to call back for.
LEMMA BacklogGrows ==
    ASSUME Typed, NEW n \in Nodes, NEW e \in Endpoints,
           backlog' = [backlog EXCEPT ![Other(n)] = Append(@, e)]
    PROVE  /\ backlog' \in [Nodes -> Seq(Endpoints)]
           /\ backlog'[Other(n)] = Append(backlog[Other(n)], e)
           /\ backlog'[n] = backlog[n]
<1> PICK o \in Nodes : o = Other(n) /\ o # n
  BY NodesAreTwo
<1>1. backlog[o] \in Seq(Endpoints)
  BY TableTypes
<1>2. Append(backlog[o], e) \in Seq(Endpoints)
  BY <1>1, AppendProperties
<1> QED BY <1>2 DEF Typed

LEMMA ConnectFailsStep ==
    ASSUME Control, NEW n \in Nodes, NEW e \in Endpoints, ConnectFails(n, e)
    PROVE  Control' /\ Quiet /\ faults \in Nat /\ faults' >= faults
           /\ (NothingFailed => faults' > 0)
<1> PICK q \in RemoteEndpoint : q = ep[n][e] /\ IsSane(n, e, q)
  BY EndpointType
<1> PICK a \in SendAt : a = IF Other(n) < n THEN "connected" ELSE "locking"
  BY DEF SendAt
<1> PICK p \in RemoteEndpoint :
      p = [q EXCEPT !.sendAt = a] /\ Same(q, p) /\ p.sendAt = a /\ p.receiveAt = q.receiveAt
  BY SenderMoves
<1>1. /\ q.sendAt = "connecting" /\ q.state # "unused"
      /\ Flag(n, e, p)
      /\ UNCHANGED <<known, mNodes, wire, backlog, destroying, route, routed, delivered, crashed>>
      /\ faults' = IF crashed[Other(n)] THEN faults ELSE faults + 1
      /\ faults < MaxFaults \/ crashed[Other(n)]
  BY RunningIsUsed DEF ConnectFails
<1>f. /\ faults' \in 0 .. MaxFaults /\ faults \in Nat /\ faults' >= faults
      /\ NothingFailed => faults' > 0
  <2>1. faults \in 0 .. MaxFaults /\ MaxFaults \in Nat
    BY LinkAssumption DEF Control, Typed
  <2>2. NothingFailed => ~crashed[Other(n)]
    BY NodesAreTwo DEF NothingFailed
  <2> QED BY <1>1, <2>1, <2>2
<1> PICK r \in RemoteEndpoint :
      /\ EndpointIs(n, e, r) /\ r.mFlaggedForDestruction
      /\ r.state = p.state /\ r.mPeer = p.mPeer /\ r.mMessageQueue = p.mMessageQueue
      /\ r.sending = p.sending /\ r.mShutdown = p.mShutdown
      /\ r.sendAt = p.sendAt /\ r.receiveAt = p.receiveAt
  <2>1. Typed
    BY DEF Control
  <2> QED BY ONLY <1>1, <2>1, FlagIs, n \in Nodes, e \in Endpoints, p \in RemoteEndpoint
<1>2. /\ mEndpointsToDelete' \in [Nodes -> Seq(Endpoints)]
      /\ \A m \in Nodes : \A d \in Range(mEndpointsToDelete'[m]) :
            \/ d \in Endpoints /\ d \in Range(mEndpointsToDelete[m])
            \/ ep'[m][d].mFlaggedForDestruction
  BY <1>1, FlagIs DEF Control
<1>3. n = 2 => wire[e].open # Nodes
  <2>1. n = 2 => wire[e] = NoWire
    BY <1>1 DEF Control, Negotiated, ConnectingIsNew
  <2> QED BY <2>1, NodesAreTwo DEF NoWire
<1>4. a # "connecting" /\ (n = 1 => a # "connected") /\ a \notin {"popping", "sending"}
  BY DEF Other
<1>5. Inner(n, e, q, r) /\ IsSane(n, e, r)
  BY <1>1, <1>3, <1>4 DEF Inner, IsSane, Same
<1>6. Typed'
  BY <1>1, <1>2, <1>f DEF EndpointIs, Control, Typed
<1>7. Control'
  BY <1>1, <1>2, <1>5, <1>6, InnerControl, SameWires DEF Control
<1>8. Quiet
  BY <1>1, <1>5, InnerIsQuiet DEF Same
<1> QED BY <1>7, <1>8, <1>f

LEMMA LesserConnectStep ==
    ASSUME Control, NEW e \in Endpoints, Connect(1, e)
    PROVE  Control' /\ Quiet /\ faults' = faults /\ (NothingFailed => NothingFailed')
<1>0. 1 \in Nodes /\ Other(1) = 2 /\ ~(Other(1) < 1)
  BY NodesAreTwo
<1> PICK q \in RemoteEndpoint : q = ep[1][e] /\ IsSane(1, e, q)
  BY <1>0, EndpointType
<1>a. "locking" \in SendAt
  BY DEF SendAt
<1> PICK p \in RemoteEndpoint :
      p = [q EXCEPT !.sendAt = "locking"] /\ Same(q, p) /\ p.sendAt = "locking" /\ p.receiveAt = q.receiveAt
  BY <1>a, SenderMoves
<1>1. /\ q.sendAt = "connecting" /\ q.state # "unused"
      /\ Set(1, e, p)
      /\ backlog' = [backlog EXCEPT ![Other(1)] = Append(@, e)]
      /\ UNCHANGED <<known, mNodes, wire, mEndpointsToDelete, destroying, route, routed, delivered,
                     crashed, faults>>
  BY <1>0, RunningIsUsed DEF Connect
<1>2. /\ backlog' \in [Nodes -> Seq(Endpoints)] /\ backlog'[1] = backlog[1]
  BY <1>0, <1>1, BacklogGrows DEF Control
<1>3. EndpointIs(1, e, p)
  BY <1>0, <1>1, SetIs DEF Control
<1>4. Inner(1, e, q, p) /\ IsSane(1, e, p)
  BY <1>1, <1>3 DEF Inner, IsSane, Same
<1>5. Typed'
  BY <1>1, <1>2, <1>3 DEF EndpointIs, Control, Typed
<1>6. \A m \in Nodes : \A d \in Range(mEndpointsToDelete[m]) : d \in Endpoints
  BY TableTypes DEF Control
<1>7. Control'
  BY <1>0, <1>1, <1>4, <1>5, <1>6, InnerControl, SameWires DEF Control
<1>8. Quiet
  BY <1>0, <1>1, <1>4, InnerIsQuiet DEF Same
<1>9. NothingFailed => NothingFailed'
  <2> SUFFICES ASSUME NothingFailed PROVE NothingFailed'
    OBVIOUS
  <2>1. ~p.mFlaggedForDestruction /\ ~p.mShutdown /\ ~p.mMessageQueue.mShutdown
    BY <1>0 DEF NothingFailed, Same
  <2>2. ASSUME NEW m \in Nodes, NEW d \in Endpoints
        PROVE  /\ ep'[m][d].state # "unused" => mNodes[m] = d
               /\ ~ep'[m][d].mFlaggedForDestruction /\ ~ep'[m][d].mShutdown
               /\ ~ep'[m][d].mMessageQueue.mShutdown
               /\ ep'[m][d].mPeer = ep[m][d].mPeer
               /\ m = 2 => ep'[m][d] = ep[m][d]
    <3>1. CASE m = 1 /\ d = e
      <4>1. ep'[m][d] = p /\ ep[m][d] = q
        BY <1>3, <3>1 DEF EndpointIs
      <4>2. q.state # "unused" => mNodes[m] = d
        BY <4>1 DEF NothingFailed
      <4>3. p.state = q.state /\ p.mPeer = q.mPeer
        BY DEF Same
      <4> QED BY <2>1, <3>1, <4>1, <4>2, <4>3
    <3>2. CASE m # 1 \/ d # e
      BY <1>0, <1>3, <3>2 DEF EndpointIs, NothingFailed
    <3> QED BY <3>1, <3>2
  <2>3. ASSUME NEW m \in Nodes, NEW d \in Endpoints
        PROVE  ep'[m][d].mPeer # None => wire[ep'[m][d].mPeer].open = Nodes
    BY <2>2 DEF NothingFailed
  <2>4. \A d \in Endpoints : ep'[2][d].sendAt = "connected" => wire[d].open = Nodes
    BY <1>0, <2>2, NodesAreTwo DEF NothingFailed
  <2>5. backlog[1] # <<>> =>
          /\ Len(backlog[1]) = 1 /\ wire[Head(backlog[1])].open = Nodes
          /\ \A d \in Endpoints : ep'[1][d].mPeer = None
    BY <1>0, <2>2 DEF NothingFailed
  <2>6. \A m \in Nodes :
          /\ ~crashed'[m] /\ known'[m] # "deleted" /\ mEndpointsToDelete'[m] = <<>>
          /\ route'[m].at # "idle" \/ routed'[m] > 0 => \A k \in Nodes : known'[k] = "known"
    BY <1>1 DEF NothingFailed
  <2> QED BY <1>1, <1>2, <2>2, <2>3, <2>4, <2>5, <2>6 DEF NothingFailed
<1> QED BY <1>1, <1>7, <1>8, <1>9

\* The greater node connects: its connection is new, and until something
\* fails it is the only one.
LEMMA GreaterConnectStep ==
    ASSUME Control, NEW e \in Endpoints, Connect(2, e)
    PROVE  Control' /\ Quiet /\ faults' = faults /\ (NothingFailed => NothingFailed')
<1>0. 2 \in Nodes /\ 1 \in Nodes /\ Other(2) = 1 /\ Other(2) < 2
  BY NodesAreTwo
<1> PICK q \in RemoteEndpoint : q = ep[2][e] /\ IsSane(2, e, q)
  BY <1>0, EndpointType
<1>a. "connected" \in SendAt
  BY DEF SendAt
<1> PICK p \in RemoteEndpoint :
      p = [q EXCEPT !.sendAt = "connected"] /\ Same(q, p) /\ p.sendAt = "connected" /\ p.receiveAt = q.receiveAt
  BY <1>a, SenderMoves
<1>1. /\ q.sendAt = "connecting" /\ q.state # "unused" /\ q.mPeer = None
      /\ Set(2, e, p)
      /\ backlog' = [backlog EXCEPT ![Other(2)] = Append(@, e)]
      /\ wire' = [wire EXCEPT ![e].open = Nodes]
      /\ UNCHANGED <<known, mNodes, mEndpointsToDelete, destroying, route, routed, delivered,
                     crashed, faults>>
  BY <1>0, RunningIsUsed DEF Connect, IsSane
<1>2. /\ backlog' \in [Nodes -> Seq(Endpoints)] /\ backlog'[1] = Append(backlog[1], e)
      /\ backlog[1] \in Seq(Endpoints)
  BY <1>0, <1>1, BacklogGrows, TableTypes DEF Control
<1>3. EndpointIs(2, e, p)
  BY <1>0, <1>1, SetIs DEF Control
<1>4. wire[e] = NoWire /\ mNodes[2] = e /\ ~q.mFlaggedForDestruction
  BY <1>1 DEF Control, Negotiated, ConnectingIsNew, FlaggedIsClosed
<1> PICK w \in Wire : w = wire[e]
  BY DEF Control, Typed
<1> PICK v : v = [w EXCEPT !.open = Nodes]
  OBVIOUS
<1>5. v \in Wire /\ v.open = Nodes /\ v.to = w.to
  BY DEF Wire
<1>6. wire' = [wire EXCEPT ![e] = v]
  BY <1>1
<1>7. /\ wire' \in [Endpoints -> Wire] /\ wire'[e] = v
      /\ \A d \in Endpoints : d # e => wire'[d] = wire[d]
  BY <1>5, <1>6, WireSet DEF Control
<1>8. Inner(2, e, q, p) /\ IsSane(2, e, p)
  BY <1>1, <1>3, <1>4 DEF Inner, IsSane, Same
<1>9. Typed'
  BY <1>1, <1>2, <1>3, <1>7 DEF EndpointIs, Control, Typed
<1>10. \A m \in Nodes : \A d \in Range(mEndpointsToDelete[m]) : d \in Endpoints
  BY TableTypes DEF Control
<1>11. Stay
  BY <1>0, <1>8, InnerStays
<1>12. RouteIsSane' /\ TablesAreSane' /\ EndpointsAreSane'
  BY <1>0, <1>1, <1>3, <1>8, <1>10, <1>11, RouteFrame, TablesFrame, SaneFrame DEF Control
<1>13. Negotiated'
  <2>1. \A d \in Endpoints : d # e => ep'[2][d] = ep[2][d]
    BY <1>0, <1>3 DEF EndpointIs
  <2>2. ep'[2][e] = p /\ ~p.mFlaggedForDestruction /\ p.sendAt = "connected" /\ p.state # "unused"
    BY <1>1, <1>3, <1>4 DEF EndpointIs, Same
  <2>3. OpenIsTracked'
    BY <1>1, <1>4, <1>5, <1>7 DEF Control, Negotiated, OpenIsTracked
  <2>4. FlaggedIsClosed'
    BY <1>7, <2>1, <2>2 DEF Control, Negotiated, FlaggedIsClosed
  <2>5. ConnectingIsNew'
    BY <1>1, <1>7, <2>1, <2>2 DEF Control, Negotiated, ConnectingIsNew
  <2> QED BY <2>3, <2>4, <2>5 DEF Negotiated
<1>14. Control'
  BY <1>9, <1>12, <1>13 DEF Control
<1>15. Quiet
  <2>1. \A c \in Endpoints, m \in Nodes : wire'[c].to[m] = wire[c].to[m]
    BY <1>5, <1>7
  <2>2. p.mMessageQueue.items = q.mMessageQueue.items /\ p.sending = q.sending
    BY DEF Same
  <2>3. UNCHANGED <<mNodes, delivered, routed>>
    BY <1>1
  <2> PICK n \in Nodes : n = 2
    BY <1>0
  <2>4. Inner(n, e, q, p)
    BY <1>8
  <2> QED BY ONLY <2>1, <2>2, <2>3, <2>4, n \in Nodes, e \in Endpoints, InnerIsQuiet
<1>16. NothingFailed => NothingFailed'
  <2> SUFFICES ASSUME NothingFailed PROVE NothingFailed'
    OBVIOUS
  <2>1. ~p.mFlaggedForDestruction /\ ~p.mShutdown /\ ~p.mMessageQueue.mShutdown
    BY <1>0 DEF NothingFailed, Same
  <2>2. wire[e].open # Nodes
    BY <1>0, <1>4 DEF NoWire
  <2>3. \A c \in Endpoints : wire[c].open # Nodes
    BY <1>4, <2>2 DEF Control, Negotiated, OpenIsTracked
  <2>4. \A m \in Nodes, d \in Endpoints : ep[m][d].mPeer \in {None} \cup Endpoints
    BY TableTypes, FieldTypes DEF Control
  <2>5. \A m \in Nodes, d \in Endpoints : ep[m][d].mPeer = None
    BY <2>3, <2>4 DEF NothingFailed
  <2>6. backlog[1] = <<>>
    <3>1. backlog[1] # <<>> => Head(backlog[1]) \in Endpoints
      BY <1>2
    <3> QED BY <2>3, <3>1 DEF NothingFailed
  <2>7. ASSUME NEW m \in Nodes, NEW d \in Endpoints
        PROVE  /\ ep'[m][d].state # "unused" => mNodes[m] = d
               /\ ~ep'[m][d].mFlaggedForDestruction /\ ~ep'[m][d].mShutdown
               /\ ~ep'[m][d].mMessageQueue.mShutdown
               /\ ep'[m][d].mPeer = None
               /\ m = 2 /\ ep'[m][d].sendAt = "connected" => wire'[d].open = Nodes
    <3>1. CASE m = 2 /\ d = e
      BY <1>1, <1>3, <1>4, <1>5, <1>7, <2>1, <3>1 DEF EndpointIs, Same
    <3>2. CASE m # 2 \/ d # e
      BY <1>0, <1>3, <1>7, <2>5, <3>2 DEF EndpointIs, NothingFailed
    <3> QED BY <3>1, <3>2
  <2>8. backlog'[1] = <<e>> /\ Len(backlog'[1]) = 1 /\ Head(backlog'[1]) = e
    BY <1>2, <2>6
  <2> QED BY <1>0, <1>1, <1>5, <1>7, <2>7, <2>8 DEF NothingFailed
<1> QED BY <1>1, <1>14, <1>15, <1>16

-----------------------------------------------------------------------------
(* The session, the thread in routeMessage, and what fails.                *)

LEMMA SameTablesControl ==
    ASSUME Control, Typed', RouteIsSane', WiresFall,
           UNCHANGED <<ep, mNodes, destroying, mEndpointsToDelete>>
    PROVE  Control'
<1>1. Stay
  BY DEF Stay
<1>2. \A m \in Nodes : \A d \in Range(mEndpointsToDelete[m]) : d \in Endpoints
  BY TableTypes DEF Control
<1>3. TablesAreSane'
  BY <1>1, <1>2, TablesFrame DEF Control
<1>4. Negotiated'
  BY NegotiationFrame DEF Control
<1>5. EndpointsAreSane'
  BY DEF Control, EndpointsAreSane, IsSane
<1> QED BY <1>3, <1>4, <1>5 DEF Control

\* As InnerControl, for a step that changes the tables too.
LEMMA InnerTablesControl ==
    ASSUME Control, NEW n \in Nodes, NEW e \in Endpoints, NEW q, NEW r, Inner(n, e, q, r),
           IsSane(n, e, r), Typed', WiresFall, RouteIsSane', TablesAreSane',
           mNodes'[2] # mNodes[2] =>
              mNodes[2] \in Endpoints /\ ep[2][mNodes[2]].mFlaggedForDestruction
    PROVE  Control'
BY InnerNegotiates, SaneFrame DEF Control, Inner

LEMMA RouteSet ==
    ASSUME Typed, RouteIsSane, Stay, NEW n \in Nodes, NEW t \in RouteThread,
           route' = [route EXCEPT ![n] = t],
           t.at \in {"idle", "not found"} <=> t.ep = None,
           t.ep # None => ep'[n][t.ep].state # "unused",
           t.at \in {"not found", "found"} => routed'[n] < MaxMessages[n],
           \A m \in Nodes : m # n => routed'[m] = routed[m]
    PROVE  /\ RouteIsSane' /\ route' \in [Nodes -> RouteThread] /\ route'[n] = t
           /\ \A m \in Nodes : m # n => route'[m] = route[m]
<1>1. /\ route' \in [Nodes -> RouteThread] /\ route'[n] = t
      /\ \A m \in Nodes : m # n => route'[m] = route[m]
  BY DEF Typed
<1>2. ASSUME NEW m \in Nodes
      PROVE  /\ route'[m].at \in {"idle", "not found"} <=> route'[m].ep = None
             /\ route'[m].ep # None => ep'[m][route'[m].ep].state # "unused"
             /\ route'[m].at \in {"not found", "found"} => routed'[m] < MaxMessages[m]
  <2>1. CASE m = n
    BY <1>1, <2>1
  <2>2. CASE m # n
    <3>1. route[m].ep \in {None} \cup Endpoints
      BY DEF Typed, RouteThread
    <3> QED BY <1>1, <2>2, <3>1 DEF RouteIsSane, Stay
  <2> QED BY <2>1, <2>2
<1> QED BY <1>1, <1>2 DEF RouteIsSane

LEMMA RouteTypes ==
    ASSUME Typed, NEW n \in Nodes
    PROVE  /\ route[n] \in RouteThread
           /\ route[n].at \in {"idle", "not found", "found", "destroying"}
           /\ route[n].ep \in {None} \cup Endpoints
           /\ routed[n] \in Nat
BY DEF Typed, RouteThread

LEMMA LearnStep ==
    ASSUME Control, NEW n \in Nodes, Learn(n)
    PROVE  Control' /\ Quiet /\ faults' = faults /\ (NothingFailed => NothingFailed')
<1>1. /\ known[n] = "not yet" /\ known' = [known EXCEPT ![n] = "known"]
      /\ UNCHANGED <<mNodes, ep, wire, backlog, mEndpointsToDelete, destroying, route, routed,
                     delivered, crashed, faults>>
  BY DEF Learn
<1>2. /\ known' \in [Nodes -> {"not yet", "known", "deleted"}]
      /\ \A m \in Nodes : known'[m] = IF m = n THEN "known" ELSE known[m]
  BY <1>1 DEF Control, Typed
<1>3. Typed'
  BY <1>1, <1>2 DEF Control, Typed
<1>4. Control'
  BY <1>1, <1>3, SameWires, SameEndpointsControl DEF Control
<1>5. Quiet
  BY <1>1 DEF Quiet
<1>6. NothingFailed => NothingFailed'
  <2> SUFFICES ASSUME NothingFailed PROVE NothingFailed'
    OBVIOUS
  <2>1. \A m \in Nodes : known'[m] # "deleted" /\ (known[m] = "known" => known'[m] = "known")
    BY <1>2 DEF NothingFailed
  <2> QED BY <1>1, <2>1, SameEndpointsNothingFails DEF Control
<1> QED BY <1>1, <1>4, <1>5, <1>6

LEMMA FaultsGrow ==
    ASSUME Typed, faults < MaxFaults, faults' = faults + 1
    PROVE  faults' \in 0 .. MaxFaults /\ faults' > 0
<1>1. faults \in 0 .. MaxFaults /\ MaxFaults \in Nat
  BY LinkAssumption DEF Typed
<1> QED BY <1>1

LEMMA ForgetStep ==
    ASSUME Control, NEW n \in Nodes, Forget(n)
    PROVE  Control' /\ Quiet /\ faults' > 0
<1>1. /\ known' = [known EXCEPT ![n] = "deleted"]
      /\ UNCHANGED <<mNodes, ep, wire, backlog, mEndpointsToDelete, destroying, route, routed,
                     delivered, crashed>>
  BY DEF Forget
<1>2. known' \in [Nodes -> {"not yet", "known", "deleted"}]
  BY <1>1 DEF Control, Typed
<1>f. faults' \in 0 .. MaxFaults /\ faults' > 0
  BY FaultsGrow DEF Forget, Control
<1>3. Typed'
  BY <1>1, <1>2, <1>f DEF Control, Typed
<1>4. Control'
  BY <1>1, <1>3, SameWires, SameEndpointsControl DEF Control
<1>5. Quiet
  BY <1>1 DEF Quiet
<1> QED BY <1>f, <1>4, <1>5

\* A connection that is reset carries nothing any more.
Empties(c) ==
    /\ \A m \in Nodes : wire'[c].to[m] = <<>>
    /\ \A d \in Endpoints, m \in Nodes : d # c => wire'[d].to[m] = wire[d].to[m]
    /\ UNCHANGED <<ep, mNodes, delivered, routed>>

LEMMA ResetStep ==
    ASSUME Control, NEW c \in Endpoints, Reset(c)
    PROVE  Control' /\ Empties(c) /\ faults' > 0
<1>1. /\ wire' = [wire EXCEPT ![c] = NoWire]
      /\ UNCHANGED <<known, mNodes, ep, backlog, mEndpointsToDelete, destroying, route, routed,
                     delivered, crashed>>
  BY DEF Reset
<1>n. NoWire \in Wire /\ NoWire.open = {} /\ \A m \in Nodes : NoWire.to[m] = <<>>
  <2>1. <<>> \in Seq(Message)
    BY EmptySeq
  <2>2. [m \in Nodes |-> <<>>] \in [Nodes -> Seq(Message)]
    BY <2>1
  <2> QED BY <2>2 DEF NoWire, Wire
<1>2. /\ wire' \in [Endpoints -> Wire] /\ wire'[c] = NoWire
      /\ \A d \in Endpoints : d # c => wire'[d] = wire[d]
  BY <1>1, <1>n, WireSet DEF Control
<1>f. faults' \in 0 .. MaxFaults /\ faults' > 0
  BY FaultsGrow DEF Reset, Control
<1>3. Typed'
  BY <1>1, <1>2, <1>f DEF Control, Typed
<1>w. WiresFall
  <2>1. wire'[c].open # Nodes /\ 1 \notin wire'[c].open
    BY <1>n, <1>2, NodesAreTwo
  <2> QED BY <1>2, <2>1 DEF WiresFall, Control, Negotiated, OpenIsTracked
<1>4. Control'
  BY <1>1, <1>3, <1>w, SameEndpointsControl
<1>5. Empties(c)
  BY <1>1, <1>n, <1>2 DEF Empties
<1> QED BY <1>f, <1>4, <1>5

LEMMA RouteFindStep ==
    ASSUME Control, NEW n \in Nodes, RouteFind(n)
    PROVE  Control' /\ Quiet /\ faults' = faults /\ (NothingFailed => NothingFailed')
<1> PICK t : t = [at |-> IF mNodes[n] = None THEN "not found" ELSE "found", ep |-> mNodes[n]]
  OBVIOUS
<1>1. /\ route' = [route EXCEPT ![n] = t]
      /\ routed[n] < MaxMessages[n] /\ known[n] = "known" /\ known[Other(n)] # "not yet"
      /\ UNCHANGED <<known, mNodes, ep, wire, backlog, mEndpointsToDelete, destroying, routed,
                     delivered, crashed, faults>>
  BY DEF RouteFind
<1>2. mNodes[n] \in {None} \cup Endpoints
  BY TableTypes DEF Control
<1>3. /\ t \in RouteThread /\ t.ep = mNodes[n]
      /\ t.at = IF mNodes[n] = None THEN "not found" ELSE "found"
  BY <1>2 DEF RouteThread
<1>4. Stay
  BY <1>1 DEF Stay
<1>5. t.ep # None => ep'[n][t.ep].state # "unused"
  BY <1>1, <1>3 DEF Control, TablesAreSane
<1>6. RouteIsSane' /\ route' \in [Nodes -> RouteThread]
  <2>1. Typed /\ RouteIsSane /\ routed' = routed
    BY <1>1 DEF Control
  <2>2. t.at \in {"idle", "not found"} <=> t.ep = None
    BY <1>3
  <2>3. routed'[n] < MaxMessages[n] /\ \A m \in Nodes : m # n => routed'[m] = routed[m]
    BY <1>1
  <2>4. route' = [route EXCEPT ![n] = t]
    BY <1>1
  <2> QED BY ONLY <1>3, <1>4, <1>5, <2>1, <2>2, <2>3, <2>4, n \in Nodes, RouteSet
<1>7. Typed'
  BY <1>1, <1>6 DEF Control, Typed
<1>8. Control'
  BY <1>1, <1>6, <1>7, SameWires, SameTablesControl DEF Control
<1>9. Quiet
  BY <1>1 DEF Quiet
<1>10. NothingFailed => NothingFailed'
  <2> SUFFICES ASSUME NothingFailed PROVE NothingFailed'
    OBVIOUS
  <2>1. \A m \in Nodes : known[m] \in {"not yet", "known", "deleted"} /\ known[m] # "deleted"
    BY DEF NothingFailed, Control, Typed
  <2>2. \A m \in Nodes : known[m] = "known"
    BY <1>1, <2>1, NodesAreTwo
  <2> QED BY <1>1, <2>1, <2>2, SameEndpointsNothingFails DEF Control
<1> QED BY <1>1, <1>8, <1>9, <1>10

\* A new endpoint is tracked: the first that is not used.
LEMMA TrackIs ==
    ASSUME Control, NEW n \in Nodes, NEW r \in RemoteEndpoint, Track(n, r)
    PROVE  \E e \in Endpoints :
              /\ ep[n][e] = Unused /\ EndpointIs(n, e, r)
              /\ mNodes' \in [Nodes -> {None} \cup Endpoints] /\ mNodes'[n] = e
              /\ \A m \in Nodes : m # n => mNodes'[m] = mNodes[m]
<1> PICK e \in Endpoints :
      ep[n][e].state = "unused" /\ Set(n, e, r) /\ mNodes' = [mNodes EXCEPT ![n] = e]
  BY DEF Track
<1>1. ep[n][e] = Unused
  BY EndpointType DEF IsSane
<1>2. EndpointIs(n, e, r)
  BY SetIs DEF Control
<1>3. /\ mNodes' \in [Nodes -> {None} \cup Endpoints] /\ mNodes'[n] = e
      /\ \A m \in Nodes : m # n => mNodes'[m] = mNodes[m]
  BY DEF Control, Typed
<1> QED BY <1>1, <1>2, <1>3

\* What tracks says of a step: e was not used.
Tracks(n, e) ==
    /\ mNodes[n] = None /\ mNodes'[n] = e
    /\ \A m \in Nodes : m # n => mNodes'[m] = mNodes[m]
    /\ ep[n][e] = Unused
    /\ \A m \in Nodes, d \in Endpoints : Keeps(m, d)
    /\ n = 2 => wire[e] = NoWire
    /\ UNCHANGED <<wire, delivered, routed, faults>>

LEMMA TrackControl ==
    ASSUME Control, NEW n \in Nodes, NEW e \in Endpoints, NEW r \in RemoteEndpoint,
           ep[n][e] = Unused, EndpointIs(n, e, r), mNodes[n] = None, mNodes'[n] = e,
           \A m \in Nodes : m # n => mNodes'[m] = mNodes[m],
           r.state = "live", ~r.mFlaggedForDestruction, IsSane(n, e, r),
           r.mMessageQueue.items = <<>>, r.sending = None,
           Stay => RouteIsSane',
           UNCHANGED <<wire, destroying, mEndpointsToDelete, delivered, routed, faults>>, Typed'
    PROVE  Control' /\ Tracks(n, e)
<1>1. Stay
  <2>1. ASSUME NEW m \in Nodes, NEW d \in Endpoints
        PROVE  /\ ep[m][d].state # "unused" => ep'[m][d].state # "unused"
               /\ ep[m][d].mFlaggedForDestruction => ep'[m][d].mFlaggedForDestruction
    <3>1. CASE m = n /\ d = e
      BY <3>1, UnusedFields DEF EndpointIs
    <3>2. CASE m # n \/ d # e
      BY <3>2 DEF EndpointIs
    <3> QED BY <3>1, <3>2
  <2> QED BY <2>1 DEF Stay
<1>2. TablesAreSane'
  <2> SUFFICES ASSUME NEW m \in Nodes
               PROVE  /\ destroying[m] # None => ep'[m][destroying[m]].state # "unused"
                      /\ mNodes'[m] # None => ep'[m][mNodes'[m]].state # "unused"
                      /\ \A d \in Range(mEndpointsToDelete[m]) : ep'[m][d].mFlaggedForDestruction
    BY DEF TablesAreSane
  <2>1. /\ mNodes[m] \in {None} \cup Endpoints /\ destroying[m] \in {None} \cup Endpoints
        /\ \A d \in Range(mEndpointsToDelete[m]) : d \in Endpoints
    BY TableTypes DEF Control
  <2>2. CASE m = n
    BY <1>1, <2>1, <2>2 DEF EndpointIs, Control, TablesAreSane, Stay
  <2>3. CASE m # n
    BY <1>1, <2>1, <2>3 DEF Control, TablesAreSane, Stay
  <2> QED BY <2>2, <2>3
<1>3. EndpointsAreSane'
  BY SaneFrame DEF Control
<1>4. Negotiated'
  <2>1. CASE n = 2
    <3>1. wire[e] = NoWire
      <4>1. ep[2][e].state = "unused"
        BY <2>1, UnusedFields
      <4> QED BY <4>1 DEF Control, Negotiated, ConnectingIsNew
    <3>2. \A c \in Endpoints : wire[c].open # Nodes /\ ep[2][c].sendAt # "connecting"
      BY <2>1, EndpointNumbers DEF Control, Negotiated, ConnectingIsNew, OpenIsTracked
    <3>3. \A d \in Endpoints : d # e => ep'[2][d] = ep[2][d]
      BY <2>1 DEF EndpointIs
    <3>4. ep'[2][e] = r /\ mNodes'[2] = e
      BY <2>1 DEF EndpointIs
    <3>5. OpenIsTracked'
      BY <3>2 DEF Control, Negotiated, OpenIsTracked
    <3>6. FlaggedIsClosed'
      BY <3>2, <3>3, <3>4 DEF Control, Negotiated, FlaggedIsClosed
    <3>7. ConnectingIsNew'
      BY <3>1, <3>2, <3>3, <3>4 DEF Control, Negotiated, ConnectingIsNew
    <3> QED BY <3>5, <3>6, <3>7 DEF Negotiated
  <2>2. CASE n # 2
    <3>1. \A d \in Endpoints : ep'[2][d] = ep[2][d]
      BY <2>2, NodesAreTwo DEF EndpointIs
    <3>2. mNodes'[2] = mNodes[2]
      BY <2>2, NodesAreTwo
    <3> QED BY <3>1, <3>2, SameWires, NegotiationFrame DEF Control
  <2> QED BY <2>1, <2>2
<1>5. \A m \in Nodes, d \in Endpoints : Keeps(m, d)
  <2> SUFFICES ASSUME NEW m \in Nodes, NEW d \in Endpoints PROVE Keeps(m, d)
    OBVIOUS
  <2>1. CASE m = n /\ d = e
    BY <2>1, UnusedFields DEF EndpointIs, Keeps
  <2>2. CASE m # n \/ d # e
    BY <2>2 DEF EndpointIs, Keeps
  <2> QED BY <2>1, <2>2
<1>6. n = 2 => wire[e] = NoWire
  BY UnusedFields DEF Control, Negotiated, ConnectingIsNew
<1>7. Tracks(n, e)
  BY <1>5, <1>6 DEF Tracks
<1> QED BY <1>1, <1>2, <1>3, <1>4, <1>7 DEF Control

LEMMA TrackNothingFails ==
    ASSUME NothingFailed, Control, NEW n \in Nodes, NEW e \in Endpoints, NEW r \in RemoteEndpoint,
           EndpointIs(n, e, r), mNodes[n] = None, mNodes'[n] = e,
           \A m \in Nodes : m # n => mNodes'[m] = mNodes[m],
           ~r.mFlaggedForDestruction, ~r.mShutdown, ~r.mMessageQueue.mShutdown,
           r.mPeer # None => wire[r.mPeer].open = Nodes,
           n = 2 => r.sendAt # "connected",
           UNCHANGED <<wire, crashed, known, mEndpointsToDelete, routed>>,
           \A m \in Nodes : route'[m].at # "idle" => route[m].at # "idle",
           backlog'[1] # <<>> => backlog'[1] = backlog[1] /\ (n = 1 => r.mPeer = None)
    PROVE  NothingFailed'
<1>0. r.mPeer \in {None} \cup Endpoints /\ backlog[1] \in Seq(Endpoints)
  BY NodesAreTwo, TableTypes, FieldTypes DEF Control
<1>1. \A d \in Endpoints : d # e => ep[n][d].state = "unused"
  BY EndpointNumbers DEF NothingFailed
<1>2. ASSUME NEW m \in Nodes, NEW d \in Endpoints
      PROVE  /\ ep'[m][d].state # "unused" => mNodes'[m] = d
             /\ ~ep'[m][d].mFlaggedForDestruction /\ ~ep'[m][d].mShutdown
             /\ ~ep'[m][d].mMessageQueue.mShutdown
             /\ ep'[m][d].mPeer # None => wire[ep'[m][d].mPeer].open = Nodes
             /\ m = 2 /\ ep'[m][d].sendAt = "connected" => wire[d].open = Nodes
  <2>1. CASE m = n /\ d = e
    BY <2>1 DEF EndpointIs
  <2>2. CASE m # n \/ d # e
    <3>1. ep'[m][d] = ep[m][d]
      BY <2>2 DEF EndpointIs
    <3>2. CASE m = n
      BY <1>1, <2>2, <3>1, <3>2 DEF NothingFailed
    <3>3. CASE m # n
      BY <3>1, <3>3 DEF NothingFailed
    <3> QED BY <3>2, <3>3
  <2> QED BY <2>1, <2>2
<1>3. ASSUME backlog'[1] # <<>>
      PROVE  /\ Len(backlog[1]) = 1 /\ wire[Head(backlog[1])].open = Nodes
             /\ \A d \in Endpoints : ep'[1][d].mPeer = None
  <2>1. /\ Len(backlog[1]) = 1 /\ wire[Head(backlog[1])].open = Nodes
        /\ \A d \in Endpoints : ep[1][d].mPeer = None
    BY <1>3 DEF NothingFailed
  <2>2. ASSUME NEW d \in Endpoints PROVE ep'[1][d].mPeer = None
    <3>1. CASE n = 1 /\ d = e
      BY <1>3, <3>1 DEF EndpointIs
    <3>2. CASE n # 1 \/ d # e
      BY <2>1, <3>2, NodesAreTwo DEF EndpointIs
    <3> QED BY <3>1, <3>2
  <2> QED BY <2>1, <2>2
<1>4. \A m \in Nodes :
        /\ ~crashed'[m] /\ known'[m] # "deleted" /\ mEndpointsToDelete'[m] = <<>>
        /\ route'[m].at # "idle" \/ routed'[m] > 0 => \A k \in Nodes : known'[k] = "known"
  BY DEF NothingFailed
<1>5. \A d \in Endpoints : ep'[2][d].sendAt = "connected" => wire[d].open = Nodes
  BY <1>2, NodesAreTwo
<1> QED BY <1>2, <1>3, <1>4, <1>5 DEF NothingFailed

LEMMA RouteCreateStep ==
    ASSUME Control, NEW n \in Nodes, RouteCreate(n)
    PROVE  /\ Control' /\ (NothingFailed => NothingFailed')
           /\ (Quiet /\ faults' = faults) \/ \E e \in Endpoints : Tracks(n, e)
<1>1. /\ route[n].at = "not found"
      /\ UNCHANGED <<known, wire, backlog, mEndpointsToDelete, destroying, routed, delivered,
                     crashed, faults>>
      /\ route' = [route EXCEPT ![n] = [at |-> "found", ep |-> mNodes'[n]]]
  BY DEF RouteCreate
<1>2. routed[n] < MaxMessages[n]
  BY <1>1 DEF Control, RouteIsSane
<1> PICK t : t = [at |-> "found", ep |-> mNodes'[n]]
  OBVIOUS
<1>3. t.at = "found" /\ t.ep = mNodes'[n]
  OBVIOUS
<1>4. route' = [route EXCEPT ![n] = t]
  BY <1>1
\* The thread holds the endpoint that is tracked.
<1>5. ASSUME Stay, mNodes'[n] \in Endpoints, ep'[n][mNodes'[n]].state # "unused"
      PROVE  /\ RouteIsSane' /\ route' \in [Nodes -> RouteThread]
             /\ \A m \in Nodes : m # n => route'[m] = route[m]
  <2>1. t \in RouteThread
    BY <1>5 DEF RouteThread
  <2>2. Typed /\ RouteIsSane
    BY DEF Control
  <2>3. /\ routed'[n] < MaxMessages[n]
        /\ \A m \in Nodes : m # n => routed'[m] = routed[m]
    BY <1>1, <1>2
  <2>4. /\ t.at \in {"idle", "not found"} <=> t.ep = None
        /\ t.ep # None => ep'[n][t.ep].state # "unused"
    BY <1>3, <1>5, EndpointNumbers
  <2>5. Stay
    BY <1>5
  <2> QED BY ONLY <1>4, <2>1, <2>2, <2>3, <2>4, <2>5, n \in Nodes, RouteSet
<1>6. CASE mNodes[n] # None /\ UNCHANGED <<ep, mNodes>>
  <2>1. Stay /\ mNodes'[n] \in Endpoints /\ ep'[n][mNodes'[n]].state # "unused"
    BY <1>6, TableTypes DEF Stay, Control, TablesAreSane
  <2>2. RouteIsSane' /\ route' \in [Nodes -> RouteThread]
    BY <1>5, <2>1
  <2>3. Typed'
    BY <1>1, <1>6, <2>2 DEF Control, Typed
  <2>4. Control'
    BY <1>1, <1>6, <2>2, <2>3, SameWires, SameTablesControl DEF Control
  <2>5. Quiet
    BY <1>1, <1>6 DEF Quiet
  <2>6. NothingFailed => NothingFailed'
    <3> SUFFICES ASSUME NothingFailed PROVE NothingFailed'
      OBVIOUS
    <3>1. \A m \in Nodes : known[m] = "known"
      BY <1>1 DEF NothingFailed
    <3> QED BY <1>1, <1>6, <3>1, SameEndpointsNothingFails DEF Control
  <2> QED BY <1>1, <2>4, <2>5, <2>6
<1>7. CASE mNodes[n] = None /\ Track(n, Connecting)
  <2> PICK r \in RemoteEndpoint :
        /\ r = Connecting /\ r.state = "live" /\ r.mPeer = None
        /\ r.mMessageQueue = Unused.mMessageQueue /\ r.sendAt = "connecting" /\ r.sending = None
        /\ r.receiveAt = "locking" /\ ~r.mFlaggedForDestruction /\ ~r.mShutdown
    BY ConnectingFields
  <2> PICK e \in Endpoints :
        /\ ep[n][e] = Unused /\ EndpointIs(n, e, r)
        /\ mNodes' \in [Nodes -> {None} \cup Endpoints] /\ mNodes'[n] = e
        /\ \A m \in Nodes : m # n => mNodes'[m] = mNodes[m]
    BY <1>7, TrackIs
  <2>1. ep'[n][e].state # "unused"
    BY DEF EndpointIs
  <2>2. /\ Stay => RouteIsSane'
        /\ route' \in [Nodes -> RouteThread]
        /\ \A m \in Nodes : m # n => route'[m] = route[m]
    <3>1. t \in RouteThread
      BY <1>3 DEF RouteThread
    <3> QED BY <1>4, <1>5, <2>1, <3>1 DEF Control, Typed
  <2>3. Typed'
    BY <1>1, <2>2 DEF EndpointIs, Control, Typed
  <2>4. IsSane(n, e, r)
    BY DEF IsSane
  <2>5. /\ r.mMessageQueue.items = <<>> /\ ~r.mMessageQueue.mShutdown
    BY UnusedFields
  <2>6. Control' /\ Tracks(n, e)
    BY <1>1, <1>7, <2>2, <2>3, <2>4, <2>5, TrackControl
  <2>7. NothingFailed => NothingFailed'
    <3> SUFFICES ASSUME NothingFailed PROVE NothingFailed'
      OBVIOUS
    <3>1. /\ UNCHANGED <<wire, crashed, known, mEndpointsToDelete, routed>>
          /\ \A m \in Nodes : route'[m].at # "idle" => route[m].at # "idle"
          /\ backlog'[1] # <<>> => backlog'[1] = backlog[1] /\ (n = 1 => r.mPeer = None)
      BY <1>1, <2>2
    <3>2. n = 2 => r.sendAt # "connected"
      OBVIOUS
    <3> QED BY <1>7, <2>5, <3>1, <3>2, TrackNothingFails
  <2> QED BY <2>6, <2>7
<1> QED BY <1>6, <1>7 DEF RouteCreate

\* The connection that the router thread takes next.
LEMMA IncomingIs ==
    ASSUME Control, NEW n \in Nodes, Incoming(n)
    PROVE  /\ Head(backlog[n]) \in Endpoints /\ backlog' \in [Nodes -> Seq(Endpoints)]
           /\ backlog'[n] = Tail(backlog[n]) /\ \A m \in Nodes : m # n => backlog'[m] = backlog[m]
           /\ backlog[n] \in Seq(Endpoints) /\ backlog[n] # <<>>
           /\ NothingFailed /\ n = 1 =>
                /\ backlog'[1] = <<>> /\ wire[Head(backlog[1])].open = Nodes
                /\ \A e \in Endpoints : ep[1][e].mPeer = None
           /\ UNCHANGED <<known, mEndpointsToDelete, destroying, route, routed, delivered, faults>>
<1>1. backlog[n] \in Seq(Endpoints)
  BY TableTypes DEF Control
<1>2. Tail(backlog[n]) \in Seq(Endpoints) /\ Head(backlog[n]) \in Endpoints
  BY <1>1, HeadTailProperties DEF Incoming
<1>3. /\ backlog' \in [Nodes -> Seq(Endpoints)]
      /\ backlog'[n] = Tail(backlog[n]) /\ \A m \in Nodes : m # n => backlog'[m] = backlog[m]
  BY <1>2 DEF Incoming, Control, Typed
<1>4. ASSUME NothingFailed, n = 1
      PROVE  /\ backlog'[1] = <<>> /\ wire[Head(backlog[1])].open = Nodes
             /\ \A e \in Endpoints : ep[1][e].mPeer = None
  <2>1. /\ Len(backlog[1]) = 1 /\ wire[Head(backlog[1])].open = Nodes
        /\ \A e \in Endpoints : ep[1][e].mPeer = None
    BY <1>4 DEF NothingFailed, Incoming
  <2>2. Tail(backlog[1]) = <<>>
    <3>1. backlog[1] \in Seq(Endpoints) /\ backlog[1] # <<>> /\ Tail(backlog[1]) \in Seq(Endpoints)
      BY <1>1, <1>2, <1>4 DEF Incoming
    <3>2. Len(Tail(backlog[1])) = 0
      BY <2>1, <3>1, HeadTailProperties
    <3> QED BY <3>1, <3>2, EmptySeq
  <2> QED BY <1>3, <1>4, <2>1, <2>2
<1> QED BY <1>1, <1>2, <1>3, <1>4 DEF Incoming

LEMMA ReciprocateStep ==
    ASSUME Control, NEW n \in Nodes, Reciprocate(n)
    PROVE  /\ Control' /\ (NothingFailed => NothingFailed')
           /\ (Quiet /\ faults' = faults) \/ \E e \in Endpoints : Tracks(n, e)
<1>1. /\ n = 2
      /\ UNCHANGED <<wire, crashed, known, mEndpointsToDelete, destroying, route, routed,
                     delivered, faults>>
      /\ backlog' \in [Nodes -> Seq(Endpoints)] /\ backlog'[1] = backlog[1]
  BY IncomingIs, NodesAreTwo DEF Reciprocate
<1>2. CASE UNCHANGED <<ep, mNodes>>
  <2>1. Typed'
    BY <1>1, <1>2 DEF Control, Typed
  <2>2. Control'
    BY <1>1, <1>2, <2>1, SameWires, SameEndpointsControl DEF Control
  <2>3. Quiet
    BY <1>1, <1>2 DEF Quiet
  <2>4. NothingFailed => NothingFailed'
    <3> SUFFICES ASSUME NothingFailed PROVE NothingFailed'
      OBVIOUS
    <3>1. \A m \in Nodes, d \in Endpoints : ep[m][d].mPeer \in {None} \cup Endpoints
      BY TableTypes, FieldTypes DEF Control
    <3>2. backlog[1] # <<>> => Head(backlog[1]) \in Endpoints
      <4>1. backlog[1] \in Seq(Endpoints)
        BY NodesAreTwo, TableTypes DEF Control
      <4> QED BY <4>1
    <3> QED BY <1>1, <1>2, <3>1, <3>2, NodesAreTwo DEF NothingFailed
  <2> QED BY <1>1, <2>2, <2>3, <2>4
<1>3. CASE mNodes[n] = None /\ Track(n, Connecting)
  <2> PICK r \in RemoteEndpoint :
        /\ r = Connecting /\ r.state = "live" /\ r.mPeer = None
        /\ r.mMessageQueue = Unused.mMessageQueue /\ r.sendAt = "connecting" /\ r.sending = None
        /\ r.receiveAt = "locking" /\ ~r.mFlaggedForDestruction /\ ~r.mShutdown
    BY ConnectingFields
  <2> PICK e \in Endpoints :
        /\ ep[n][e] = Unused /\ EndpointIs(n, e, r)
        /\ mNodes' \in [Nodes -> {None} \cup Endpoints] /\ mNodes'[n] = e
        /\ \A m \in Nodes : m # n => mNodes'[m] = mNodes[m]
    BY <1>3, TrackIs
  <2>2. Stay => RouteIsSane'
    BY <1>1, RouteFrame DEF Control
  <2>3. Typed'
    BY <1>1 DEF EndpointIs, Control, Typed
  <2>4. IsSane(n, e, r)
    BY DEF IsSane
  <2>5. /\ r.mMessageQueue.items = <<>> /\ ~r.mMessageQueue.mShutdown
    BY UnusedFields
  <2>6. Control' /\ Tracks(n, e)
    BY <1>1, <1>3, <2>2, <2>3, <2>4, <2>5, TrackControl
  <2>7. NothingFailed => NothingFailed'
    <3> SUFFICES ASSUME NothingFailed PROVE NothingFailed'
      OBVIOUS
    <3>1. /\ UNCHANGED <<wire, crashed, known, mEndpointsToDelete, routed>>
          /\ \A m \in Nodes : route'[m].at # "idle" => route[m].at # "idle"
          /\ backlog'[1] # <<>> => backlog'[1] = backlog[1] /\ (n = 1 => r.mPeer = None)
      BY <1>1
    <3>2. n = 2 => r.sendAt # "connected"
      OBVIOUS
    <3> QED BY <1>3, <2>5, <3>1, <3>2, TrackNothingFails
  <2> QED BY <2>6, <2>7
<1> QED BY <1>2, <1>3 DEF Reciprocate, MustCallBack

LEMMA AcceptStep ==
    ASSUME Control, NEW n \in Nodes, Accept(n)
    PROVE  /\ Control' /\ (NothingFailed => NothingFailed')
           /\ \E e \in Endpoints : Tracks(n, e)
<1> PICK c : c = Head(backlog[n])
  OBVIOUS
<1>1. /\ n = 1 /\ c \in Endpoints /\ mNodes[n] = None /\ Track(n, Accepted(c))
      /\ UNCHANGED <<wire, crashed, known, mEndpointsToDelete, destroying, route, routed,
                     delivered, faults>>
      /\ backlog' \in [Nodes -> Seq(Endpoints)]
      /\ NothingFailed => backlog'[1] = <<>> /\ wire[c].open = Nodes
  BY IncomingIs, NodesAreTwo DEF Accept
<1> PICK r \in RemoteEndpoint :
      /\ r = Accepted(c) /\ r.state = "live" /\ r.mPeer = c
      /\ r.mMessageQueue = Unused.mMessageQueue /\ r.sendAt = "popping" /\ r.sending = None
      /\ r.receiveAt = "reading" /\ ~r.mFlaggedForDestruction /\ ~r.mShutdown
  BY <1>1, AcceptedFields
<1> PICK e \in Endpoints :
      /\ ep[n][e] = Unused /\ EndpointIs(n, e, r)
      /\ mNodes' \in [Nodes -> {None} \cup Endpoints] /\ mNodes'[n] = e
      /\ \A m \in Nodes : m # n => mNodes'[m] = mNodes[m]
  BY <1>1, TrackIs
<1>2. Stay => RouteIsSane'
  BY <1>1, RouteFrame DEF Control
<1>3. Typed'
  BY <1>1 DEF EndpointIs, Control, Typed
<1>4. IsSane(n, e, r)
  BY <1>1, EndpointNumbers DEF IsSane
<1>5. /\ r.mMessageQueue.items = <<>> /\ ~r.mMessageQueue.mShutdown
  BY UnusedFields
<1>6. Control' /\ Tracks(n, e)
  BY <1>1, <1>2, <1>3, <1>4, <1>5, TrackControl
<1>7. NothingFailed => NothingFailed'
  <2> SUFFICES ASSUME NothingFailed PROVE NothingFailed'
    OBVIOUS
  <2>1. /\ UNCHANGED <<wire, crashed, known, mEndpointsToDelete, routed>>
        /\ \A m \in Nodes : route'[m].at # "idle" => route[m].at # "idle"
        /\ backlog'[1] # <<>> => backlog'[1] = backlog[1] /\ (n = 1 => r.mPeer = None)
        /\ r.mPeer # None => wire[r.mPeer].open = Nodes
    BY <1>1
  <2>2. n = 2 => r.sendAt # "connected"
    OBVIOUS
  <2> QED BY <1>1, <1>5, <2>1, <2>2, TrackNothingFails
<1> QED BY <1>6, <1>7

-----------------------------------------------------------------------------
(* Connections that are closed.                                            *)

LEMMA ClosedWire ==
    ASSUME NEW w \in Wire, NEW n \in Nodes, NEW v, v = Close(w, n)
    PROVE  /\ v \in Wire /\ v.open = w.open \ {n} /\ v.to = w.to
           /\ w = NoWire => v = NoWire
<1>1. v = [w EXCEPT !.open = w.open \ {n}]
  BY DEF Close
<1>2. v \in Wire /\ v.open = w.open \ {n} /\ v.to = w.to
  BY <1>1 DEF Wire
<1>3. w = NoWire => v = NoWire
  <2>1. v = [open |-> v.open, to |-> v.to] /\ w = [open |-> w.open, to |-> w.to]
    BY <1>2 DEF Wire
  <2>2. w = NoWire => w.open = {}
    BY DEF NoWire
  <2> QED BY <1>2, <2>1, <2>2
<1> QED BY <1>2, <1>3

\* A node closes connections: the greater one only what the other has closed.
LEMMA ClosingFalls ==
    ASSUME Control, NEW n \in Nodes, wire' \in [Endpoints -> Wire],
           \A d \in Endpoints :
              \/ wire'[d] = wire[d]
              \/ wire'[d] = Close(wire[d], n) /\ (n = 2 => wire[d].open # Nodes)
    PROVE  /\ WiresFall
           /\ \A d \in Endpoints, m \in Nodes : wire'[d].to[m] = wire[d].to[m]
<1>1. ASSUME NEW d \in Endpoints
      PROVE  /\ wire'[d].open = Nodes => wire[d].open = Nodes
             /\ 1 \in wire'[d].open => wire'[d].open = Nodes
             /\ wire[d] = NoWire => wire'[d] = NoWire
             /\ wire'[d].to = wire[d].to
  <2>1. 1 \in wire[d].open => wire[d].open = Nodes
    BY DEF Control, Negotiated, OpenIsTracked
  <2>2. CASE wire'[d] = Close(wire[d], n) /\ (n = 2 => wire[d].open # Nodes)
    <3>1. wire[d] \in Wire /\ wire[d].open \in SUBSET Nodes
      BY DEF Control, Typed, Wire
    <3>2. /\ wire'[d].open = wire[d].open \ {n} /\ wire'[d].to = wire[d].to
          /\ wire[d] = NoWire => wire'[d] = NoWire
      BY <2>2, <3>1, ClosedWire
    <3>3. n = 1 \/ n = 2
      BY NodesAreTwo
    <3> QED BY <2>1, <2>2, <3>1, <3>2, <3>3, NodesAreTwo
  <2> QED BY <2>1, <2>2
<1> QED BY <1>1 DEF WiresFall

LEMMA CloseWireOfIs ==
    ASSUME Control, NEW n \in Nodes, NEW e \in Endpoints, CloseWireOf(n, e),
           n = 2 => wire[e].open # Nodes
    PROVE  /\ wire' \in [Endpoints -> Wire] /\ WiresFall
           /\ \A d \in Endpoints, m \in Nodes : wire'[d].to[m] = wire[d].to[m]
<1> PICK c : c = ep[n][e].mPeer
  OBVIOUS
<1>1. c \in {None} \cup Endpoints /\ (n = 2 => c \in {None, e})
  BY EndpointType, FieldTypes DEF IsSane
<1>2. IF c = None THEN wire' = wire ELSE wire' = [wire EXCEPT ![c] = Close(@, n)]
  BY DEF CloseWireOf
<1>3. CASE c = None
  <2>1. wire' = wire /\ wire' \in [Endpoints -> Wire]
    BY <1>2, <1>3 DEF Control, Typed
  <2> QED BY <2>1, ClosingFalls
<1>4. CASE c # None
  <2>1. c \in Endpoints /\ wire[c] \in Wire
    BY <1>1, <1>4 DEF Control, Typed
  <2> PICK v \in Wire : v = Close(wire[c], n)
    BY <2>1, ClosedWire
  <2>2. /\ wire' \in [Endpoints -> Wire] /\ wire'[c] = v
        /\ \A d \in Endpoints : d # c => wire'[d] = wire[d]
    BY <1>2, <1>4, <2>1, WireSet DEF Control
  <2>3. ASSUME NEW d \in Endpoints
        PROVE  \/ wire'[d] = wire[d]
               \/ wire'[d] = Close(wire[d], n) /\ (n = 2 => wire[d].open # Nodes)
    BY <1>1, <1>4, <2>2
  <2> QED BY <2>2, <2>3, ClosingFalls
<1> QED BY <1>3, <1>4

LEMMA GoneFields ==
    ASSUME NEW q \in RemoteEndpoint
    PROVE  \E r \in RemoteEndpoint :
              /\ r = [q EXCEPT !.state = "gone"]
              /\ r.state = "gone" /\ r.mPeer = q.mPeer /\ r.mMessageQueue = q.mMessageQueue
              /\ r.sending = q.sending /\ r.mShutdown = q.mShutdown
              /\ r.mFlaggedForDestruction = q.mFlaggedForDestruction
              /\ r.sendAt = q.sendAt /\ r.receiveAt = q.receiveAt
<1> PICK r : r = [q EXCEPT !.state = "gone"]
  OBVIOUS
<1>1. /\ r \in RemoteEndpoint
      /\ r.state = "gone" /\ r.mPeer = q.mPeer /\ r.mMessageQueue = q.mMessageQueue
      /\ r.sending = q.sending /\ r.mShutdown = q.mShutdown
      /\ r.mFlaggedForDestruction = q.mFlaggedForDestruction
      /\ r.sendAt = q.sendAt /\ r.receiveAt = q.receiveAt
  BY DEF RemoteEndpoint
<1> QED BY <1>1

\* The end of an endpoint, which its threads do not live to see.
LEMMA GoneIs ==
    ASSUME Control, NEW n \in Nodes, NEW e \in Endpoints, ep[n][e].state # "unused",
           Set(n, e, [ep[n][e] EXCEPT !.state = "gone"])
    PROVE  \E r \in RemoteEndpoint :
              /\ Inner(n, e, ep[n][e], r) /\ IsSane(n, e, r)
              /\ r.mPeer = ep[n][e].mPeer /\ r.mMessageQueue = ep[n][e].mMessageQueue
              /\ r.sending = ep[n][e].sending /\ r.mShutdown = ep[n][e].mShutdown
              /\ r.mFlaggedForDestruction = ep[n][e].mFlaggedForDestruction
              /\ r.sendAt = ep[n][e].sendAt
<1> PICK q \in RemoteEndpoint : q = ep[n][e] /\ IsSane(n, e, q)
  BY EndpointType
<1> PICK r \in RemoteEndpoint :
      /\ r = [q EXCEPT !.state = "gone"]
      /\ r.state = "gone" /\ r.mPeer = q.mPeer /\ r.mMessageQueue = q.mMessageQueue
      /\ r.sending = q.sending /\ r.mShutdown = q.mShutdown
      /\ r.mFlaggedForDestruction = q.mFlaggedForDestruction
      /\ r.sendAt = q.sendAt /\ r.receiveAt = q.receiveAt
  BY GoneFields
<1>1. EndpointIs(n, e, r)
  BY SetIs DEF Control
<1>2. Inner(n, e, q, r) /\ IsSane(n, e, r)
  BY <1>1 DEF Inner, IsSane
<1> QED BY <1>2

LEMMA DestroyedStep ==
    ASSUME Control, NEW n \in Nodes, Destroyed(n)
    PROVE  Control' /\ Quiet /\ faults' = faults /\ (NothingFailed => NothingFailed')
<1> PICK e : e = destroying[n]
  OBVIOUS
<1>1. /\ e \in Endpoints /\ ep[n][e].state # "unused"
      /\ Set(n, e, [ep[n][e] EXCEPT !.state = "gone"])
      /\ destroying' = [destroying EXCEPT ![n] = None]
      /\ UNCHANGED <<known, mNodes, wire, backlog, mEndpointsToDelete, route, routed, delivered,
                     crashed, faults>>
  BY TableTypes DEF Destroyed, Control, TablesAreSane
<1> PICK q : q = ep[n][e]
  OBVIOUS
<1> PICK r \in RemoteEndpoint :
      /\ Inner(n, e, q, r) /\ IsSane(n, e, r)
      /\ r.mPeer = q.mPeer /\ r.mMessageQueue = q.mMessageQueue
      /\ r.sending = q.sending /\ r.mShutdown = q.mShutdown
      /\ r.mFlaggedForDestruction = q.mFlaggedForDestruction
      /\ r.sendAt = q.sendAt
  BY <1>1, GoneIs
<1>2. Stay
  BY <1>1, InnerStays
<1>3. /\ destroying' \in [Nodes -> {None} \cup Endpoints]
      /\ \A m \in Nodes : destroying'[m] \in {None, destroying[m]}
  BY <1>1 DEF Control, Typed
<1>4. Typed'
  BY <1>1, <1>3 DEF Inner, EndpointIs, Control, Typed
<1>5. RouteIsSane'
  BY <1>1, <1>2, RouteFrame DEF Control
<1>6. TablesAreSane'
  <2> SUFFICES ASSUME NEW m \in Nodes
               PROVE  /\ destroying'[m] # None => ep'[m][destroying'[m]].state # "unused"
                      /\ mNodes[m] # None => ep'[m][mNodes[m]].state # "unused"
                      /\ \A d \in Range(mEndpointsToDelete[m]) : ep'[m][d].mFlaggedForDestruction
    BY <1>1 DEF TablesAreSane
  <2>1. /\ mNodes[m] \in {None} \cup Endpoints /\ destroying[m] \in {None} \cup Endpoints
        /\ \A d \in Range(mEndpointsToDelete[m]) : d \in Endpoints
    BY TableTypes DEF Control
  <2> QED BY <1>2, <1>3, <2>1 DEF Control, TablesAreSane, Stay
<1>7. Control'
  BY <1>1, <1>4, <1>5, <1>6, SameWires, InnerTablesControl DEF Control
<1>8. Quiet
  BY <1>1, InnerIsQuiet
<1>9. NothingFailed => NothingFailed'
  <2> SUFFICES ASSUME NothingFailed PROVE NothingFailed'
    OBVIOUS
  <2>1. ~r.mFlaggedForDestruction
    BY <1>1 DEF NothingFailed
  <2> QED BY <1>1, <2>1, InnerNothingFails DEF Control
<1> QED BY <1>1, <1>7, <1>8, <1>9

LEMMA RouteDestroyedStep ==
    ASSUME Control, NEW n \in Nodes, RouteDestroyed(n)
    PROVE  Control' /\ Quiet /\ faults' = faults /\ (NothingFailed => NothingFailed')
<1> PICK e : e = route[n].ep
  OBVIOUS
<1> PICK t : t = [at |-> "idle", ep |-> None]
  OBVIOUS
<1>1. /\ e \in Endpoints /\ ep[n][e].state # "unused"
      /\ Set(n, e, [ep[n][e] EXCEPT !.state = "gone"])
      /\ route' = [route EXCEPT ![n] = t] /\ route[n].at = "destroying"
      /\ UNCHANGED <<known, mNodes, wire, backlog, mEndpointsToDelete, destroying, routed,
                     delivered, crashed, faults>>
  BY RouteTypes DEF RouteDestroyed, Control, RouteIsSane
<1> PICK q : q = ep[n][e]
  OBVIOUS
<1> PICK r \in RemoteEndpoint :
      /\ Inner(n, e, q, r) /\ IsSane(n, e, r)
      /\ r.mPeer = q.mPeer /\ r.mMessageQueue = q.mMessageQueue
      /\ r.sending = q.sending /\ r.mShutdown = q.mShutdown
      /\ r.mFlaggedForDestruction = q.mFlaggedForDestruction
      /\ r.sendAt = q.sendAt
  BY <1>1, GoneIs
<1>2. Stay
  BY <1>1, InnerStays
<1>3. /\ RouteIsSane' /\ route' \in [Nodes -> RouteThread] /\ route'[n] = t
      /\ \A m \in Nodes : m # n => route'[m] = route[m]
  <2>1. t \in RouteThread /\ t.at = "idle" /\ t.ep = None
    BY DEF RouteThread
  <2>2. Typed /\ RouteIsSane /\ route' = [route EXCEPT ![n] = t]
    BY <1>1 DEF Control
  <2>3. \A m \in Nodes : m # n => routed'[m] = routed[m]
    BY <1>1
  <2>4. /\ t.at \in {"idle", "not found"} <=> t.ep = None
        /\ t.ep # None => ep'[n][t.ep].state # "unused"
        /\ t.at \in {"not found", "found"} => routed'[n] < MaxMessages[n]
    BY <2>1
  <2> QED BY ONLY <1>2, <2>1, <2>2, <2>3, <2>4, n \in Nodes, RouteSet
<1>4. Typed'
  BY <1>1, <1>3 DEF Inner, EndpointIs, Control, Typed
<1>6. TablesAreSane'
  <2>1. \A m \in Nodes : \A d \in Range(mEndpointsToDelete[m]) : d \in Endpoints
    BY TableTypes DEF Control
  <2> QED BY <1>1, <1>2, <2>1, TablesFrame DEF Control
<1>7. Control'
  BY <1>1, <1>3, <1>4, <1>6, SameWires, InnerTablesControl DEF Control
<1>8. Quiet
  BY <1>1, InnerIsQuiet
<1>9. NothingFailed => NothingFailed'
  <2> SUFFICES ASSUME NothingFailed PROVE NothingFailed'
    OBVIOUS
  <2>1. ~r.mFlaggedForDestruction
    BY <1>1 DEF NothingFailed
  <2>2. \A m \in Nodes : route'[m].at # "idle" => route[m].at # "idle"
    BY <1>1, <1>3
  <2> QED BY <1>1, <2>1, <2>2, InnerNothingFails DEF Control
<1> QED BY <1>1, <1>7, <1>8, <1>9

-----------------------------------------------------------------------------
(* The steps that queue a message, and that give an endpoint up.           *)

\* A message is queued in e, unless e is shut down.
Pushes(n, e) ==
    /\ e \in Endpoints /\ routed[n] + 1 \in Message
    /\ ep'[n][e].sending = ep[n][e].sending
    /\ ep'[n][e].mMessageQueue.items \in
          {ep[n][e].mMessageQueue.items, Append(ep[n][e].mMessageQueue.items, routed[n] + 1)}
    /\ NothingFailed =>
          /\ mNodes[n] = e
          /\ ep'[n][e].mMessageQueue.items = Append(ep[n][e].mMessageQueue.items, routed[n] + 1)
    /\ OnlyAt(n, e)
    /\ routed'[n] = routed[n] + 1
    /\ \A m \in Nodes : m # n => routed'[m] = routed[m]
    /\ \A d \in Endpoints, m \in Nodes : wire'[d].to[m] = wire[d].to[m]
    /\ UNCHANGED <<mNodes, delivered, faults>>

LEMMA QueuedFields ==
    ASSUME NEW q \in RemoteEndpoint, NEW m \in Message
    PROVE  \E r \in RemoteEndpoint :
              /\ r = [q EXCEPT !.mMessageQueue = IF Accepts(@) THEN Push(@, m) ELSE @]
              /\ r.state = q.state /\ r.mPeer = q.mPeer
              /\ r.mMessageQueue.mShutdown = q.mMessageQueue.mShutdown
              /\ r.mMessageQueue.items \in {q.mMessageQueue.items, Append(q.mMessageQueue.items, m)}
              /\ ~q.mMessageQueue.mShutdown => r.mMessageQueue.items = Append(q.mMessageQueue.items, m)
              /\ r.sending = q.sending /\ r.mShutdown = q.mShutdown
              /\ r.mFlaggedForDestruction = q.mFlaggedForDestruction
              /\ r.sendAt = q.sendAt /\ r.receiveAt = q.receiveAt
<1> PICK r : r = [q EXCEPT !.mMessageQueue = IF Accepts(@) THEN Push(@, m) ELSE @]
  OBVIOUS
<1> PICK s \in Queue(Message) : s = q.mMessageQueue
  BY FieldTypes
<1> PICK t : t = IF Accepts(s) THEN Push(s, m) ELSE s
  OBVIOUS
<1>1. /\ t \in Queue(Message) /\ t.mShutdown = s.mShutdown
      /\ t.items \in {s.items, Append(s.items, m)}
      /\ ~s.mShutdown => t.items = Append(s.items, m)
  BY QueueFields DEF Accepts
<1>2. r = [q EXCEPT !.mMessageQueue = t]
  OBVIOUS
<1>3. /\ r \in RemoteEndpoint /\ r.mMessageQueue = t
      /\ r.state = q.state /\ r.mPeer = q.mPeer
      /\ r.sending = q.sending /\ r.mShutdown = q.mShutdown
      /\ r.mFlaggedForDestruction = q.mFlaggedForDestruction
      /\ r.sendAt = q.sendAt /\ r.receiveAt = q.receiveAt
  BY ONLY <1>1, <1>2, q \in RemoteEndpoint DEF RemoteEndpoint
<1>4. s = q.mMessageQueue
  OBVIOUS
<1>5. /\ r \in RemoteEndpoint
      /\ r.state = q.state /\ r.mPeer = q.mPeer
      /\ r.mMessageQueue.mShutdown = q.mMessageQueue.mShutdown
      /\ r.mMessageQueue.items \in {q.mMessageQueue.items, Append(q.mMessageQueue.items, m)}
      /\ ~q.mMessageQueue.mShutdown => r.mMessageQueue.items = Append(q.mMessageQueue.items, m)
      /\ r.sending = q.sending /\ r.mShutdown = q.mShutdown
      /\ r.mFlaggedForDestruction = q.mFlaggedForDestruction
      /\ r.sendAt = q.sendAt /\ r.receiveAt = q.receiveAt
  BY ONLY <1>1, <1>3, <1>4
<1> QED BY <1>5

LEMMA RouteQueueStep ==
    ASSUME Control, NEW n \in Nodes, RouteQueue(n)
    PROVE  /\ Control' /\ (NothingFailed => NothingFailed')
           /\ \E e \in Endpoints : Pushes(n, e)
<1> PICK e : e = route[n].ep
  OBVIOUS
<1>1. /\ e \in Endpoints /\ ep[n][e].state # "unused" /\ routed[n] < MaxMessages[n]
      /\ routed[n] \in Nat /\ route[n].at = "found" /\ route[n] \in RouteThread
  BY RouteTypes DEF RouteQueue, Control, RouteIsSane
<1> PICK k : k = routed[n] + 1
  OBVIOUS
<1>2. k \in Message /\ k \in Nat
  BY <1>1, MessageNumbers
<1> PICK q \in RemoteEndpoint : q = ep[n][e] /\ IsSane(n, e, q)
  BY <1>1, EndpointType
<1> PICK p \in RemoteEndpoint :
      /\ p = [q EXCEPT !.mMessageQueue = IF Accepts(@) THEN Push(@, k) ELSE @]
      /\ p.state = q.state /\ p.mPeer = q.mPeer
      /\ p.mMessageQueue.mShutdown = q.mMessageQueue.mShutdown
      /\ p.mMessageQueue.items \in {q.mMessageQueue.items, Append(q.mMessageQueue.items, k)}
      /\ ~q.mMessageQueue.mShutdown => p.mMessageQueue.items = Append(q.mMessageQueue.items, k)
      /\ p.sending = q.sending /\ p.mShutdown = q.mShutdown
      /\ p.mFlaggedForDestruction = q.mFlaggedForDestruction
      /\ p.sendAt = q.sendAt /\ p.receiveAt = q.receiveAt
  BY ONLY <1>2, QueuedFields, q \in RemoteEndpoint
<1>3. /\ p \in RemoteEndpoint /\ p.state = q.state /\ p.mPeer = q.mPeer
      /\ p.mMessageQueue.mShutdown = q.mMessageQueue.mShutdown
      /\ p.mMessageQueue.items \in {q.mMessageQueue.items, Append(q.mMessageQueue.items, k)}
      /\ ~q.mMessageQueue.mShutdown => p.mMessageQueue.items = Append(q.mMessageQueue.items, k)
      /\ p.sending = q.sending /\ p.mShutdown = q.mShutdown
      /\ p.mFlaggedForDestruction = q.mFlaggedForDestruction
      /\ p.sendAt = q.sendAt /\ p.receiveAt = q.receiveAt
  OBVIOUS
<1>a. IsSane(n, e, q) /\ q.state # "unused"
  BY <1>1
<1>4. /\ \/ /\ mNodes[n] = e /\ Set(n, e, p)
            /\ route' = [route EXCEPT ![n] = [at |-> "idle", ep |-> None]]
            /\ UNCHANGED wire
         \/ /\ mNodes[n] # e /\ Set(n, e, Stopped(p)) /\ CloseWireOf(n, e)
            /\ route' = [route EXCEPT ![n].at = "destroying"]
      /\ routed' = [routed EXCEPT ![n] = k]
      /\ UNCHANGED <<known, mNodes, backlog, mEndpointsToDelete, destroying, delivered, crashed, faults>>
  BY DEF RouteQueue
<1>5. /\ routed' \in [Nodes -> Nat] /\ routed'[n] = k
      /\ \A m \in Nodes : m # n => routed'[m] = routed[m]
  BY <1>2, <1>4 DEF Control, Typed
<1>6. NothingFailed => mNodes[n] = e /\ ~q.mMessageQueue.mShutdown /\ ~q.mFlaggedForDestruction
  BY <1>1 DEF NothingFailed
<1>7. \A m \in Nodes : \A d \in Range(mEndpointsToDelete[m]) : d \in Endpoints
  BY TableTypes DEF Control
\* Whatever becomes of the endpoint r, the message was queued in it.
<1>8. ASSUME NEW r \in RemoteEndpoint, NEW t \in RouteThread, EndpointIs(n, e, r), IsSane(n, e, r),
             r.state # "unused", r.mFlaggedForDestruction = q.mFlaggedForDestruction,
             r.sendAt = "connecting" => q.sendAt = "connecting",
             r.mMessageQueue.items = p.mMessageQueue.items, r.sending = q.sending,
             route' = [route EXCEPT ![n] = t],
             (t.at = "idle" /\ t.ep = None) \/ (t.at = "destroying" /\ t.ep = e),
             wire' \in [Endpoints -> Wire], WiresFall,
             \A d \in Endpoints, m \in Nodes : wire'[d].to[m] = wire[d].to[m]
      PROVE  Control' /\ Pushes(n, e) /\ Inner(n, e, q, r)
  <2>1. Inner(n, e, q, r)
    BY <1>1, <1>8 DEF Inner
  <2>2. Stay
    BY <1>1, <2>1, InnerStays
  <2>3. \/ t.at = "idle" /\ t.ep = None
        \/ t.at = "destroying" /\ t.ep = e /\ e # None
    BY <1>1, <1>8, EndpointNumbers
  <2>4. RouteIsSane' /\ route' \in [Nodes -> RouteThread]
    <3>1. Typed /\ RouteIsSane /\ route' = [route EXCEPT ![n] = t]
      BY <1>8 DEF Control
    <3>2. /\ t.at \in {"idle", "not found"} <=> t.ep = None
          /\ t.ep # None => ep'[n][t.ep].state # "unused"
          /\ t.at \in {"not found", "found"} => routed'[n] < MaxMessages[n]
      BY <1>8, <2>3 DEF EndpointIs
    <3>3. \A m \in Nodes : m # n => routed'[m] = routed[m]
      BY <1>5
    <3>4. t \in RouteThread
      OBVIOUS
    <3> QED BY ONLY <2>2, <3>1, <3>2, <3>3, <3>4, n \in Nodes, RouteSet
  <2>5. Typed'
    BY <1>4, <1>5, <1>8, <2>4 DEF EndpointIs, Control, Typed
  <2>6. TablesAreSane'
    BY <1>4, <1>7, <2>2, TablesFrame DEF Control
  <2>7. Control'
    BY <1>1, <1>4, <1>8, <2>1, <2>4, <2>5, <2>6, InnerTablesControl
  <2>8. OnlyAt(n, e)
    BY <1>1, <2>1, InnerIsOnly
  <2>9. Pushes(n, e)
    <3>1. ep'[n][e] = r /\ ep[n][e] = q
      BY <1>8 DEF EndpointIs
    <3> QED BY <1>1, <1>2, <1>3, <1>4, <1>5, <1>6, <1>8, <2>8, <3>1 DEF Pushes
  <2> QED BY <2>1, <2>7, <2>9
<1>9. CASE /\ mNodes[n] = e /\ Set(n, e, p)
           /\ route' = [route EXCEPT ![n] = [at |-> "idle", ep |-> None]]
           /\ UNCHANGED wire
  <2> PICK t : t = [at |-> "idle", ep |-> None]
    OBVIOUS
  <2>1. t \in RouteThread /\ t.at = "idle" /\ t.ep = None
    BY DEF RouteThread
  <2>2. EndpointIs(n, e, p)
    BY <1>1, <1>3, <1>9, SetIs DEF Control
  <2>3. IsSane(n, e, p)
    BY ONLY <1>3, <1>a DEF IsSane
  <2>4. wire' \in [Endpoints -> Wire] /\ WiresFall
    BY <1>9, SameWires DEF Control, Typed
  <2>5. Control' /\ Pushes(n, e) /\ Inner(n, e, q, p)
    <3>1. route' = [route EXCEPT ![n] = t]
      BY <1>9
    <3>2. \A d \in Endpoints, m \in Nodes : wire'[d].to[m] = wire[d].to[m]
      BY <1>9
    <3> QED BY <1>1, <1>3, <1>8, <2>1, <2>2, <2>3, <2>4, <3>1, <3>2
  <2>6. NothingFailed => NothingFailed'
    <3> SUFFICES ASSUME NothingFailed PROVE NothingFailed'
      OBVIOUS
    <3>1. \A c \in Endpoints : wire'[c].open = wire[c].open
      BY <1>9
    <3>2. \A m \in Nodes : route'[m].at # "idle" \/ routed'[m] > 0 =>
                           route[m].at # "idle" \/ routed[m] > 0
      <4>1. \A m \in Nodes : m # n => route'[m] = route[m]
        BY <1>9 DEF Control, Typed
      <4> QED BY <1>1, <1>5, <4>1
    <3>3. /\ NothingFailed /\ Typed /\ Inner(n, e, q, p) /\ e \in Endpoints
          /\ UNCHANGED <<crashed, known, mEndpointsToDelete, mNodes, backlog>>
      BY <1>1, <1>4, <2>5 DEF Control
    <3>4. ~p.mFlaggedForDestruction /\ (p.sendAt = "connected" => q.sendAt = "connected" \/ n = 1)
      BY <1>3, <1>6
    <3> QED BY ONLY <1>3, <3>1, <3>2, <3>3, <3>4, n \in Nodes, InnerNothingFails
  <2> QED BY <1>1, <2>5, <2>6
<1>10. CASE /\ mNodes[n] # e /\ Set(n, e, Stopped(p)) /\ CloseWireOf(n, e)
            /\ route' = [route EXCEPT ![n].at = "destroying"]
  <2> PICK r : r = Stopped(p)
    OBVIOUS
  <2>1. /\ r \in RemoteEndpoint /\ r.state = "stopped" /\ r.mPeer = p.mPeer
        /\ r.mMessageQueue.items = p.mMessageQueue.items /\ r.sending = p.sending
        /\ r.mFlaggedForDestruction = p.mFlaggedForDestruction
        /\ r.sendAt = p.sendAt \/ (p.sendAt = "waiting" /\ r.sendAt = "notified")
        /\ r.receiveAt = p.receiveAt \/ (p.receiveAt = "waiting" /\ r.receiveAt = "notified")
    BY ONLY <1>3, StoppedFields, r = Stopped(p)
  <2> PICK t : t = [route[n] EXCEPT !.at = "destroying"]
    OBVIOUS
  <2>2. t \in RouteThread /\ t.at = "destroying" /\ t.ep = e
    BY <1>1 DEF RouteThread
  <2>3. EndpointIs(n, e, r)
    BY <1>1, <1>10, <2>1, SetIs DEF Control
  <2>4. IsSane(n, e, r)
    <3>1. /\ r.state # "unused" /\ r.sending = q.sending /\ r.mPeer = q.mPeer
          /\ r.sendAt = q.sendAt \/ (q.sendAt = "waiting" /\ r.sendAt = "notified")
          /\ r.receiveAt = q.receiveAt \/ (q.receiveAt = "waiting" /\ r.receiveAt = "notified")
      BY ONLY <1>3, <2>1
    <3> QED BY ONLY <1>a, <3>1 DEF IsSane
  <2>5. n = 2 => wire[e].open # Nodes
    BY <1>1, <1>10 DEF Control, Negotiated, OpenIsTracked
  <2>6. /\ wire' \in [Endpoints -> Wire] /\ WiresFall
        /\ \A d \in Endpoints, m \in Nodes : wire'[d].to[m] = wire[d].to[m]
    BY <1>1, <1>10, <2>5, CloseWireOfIs
  <2>7. Control' /\ Pushes(n, e)
    <3>1. route' = [route EXCEPT ![n] = t]
      BY <1>10
    <3>2. r.state # "unused" /\ (r.sendAt = "connecting" => q.sendAt = "connecting")
      BY <1>3, <2>1
    <3>3. /\ r.mFlaggedForDestruction = q.mFlaggedForDestruction
          /\ r.mMessageQueue.items = p.mMessageQueue.items /\ r.sending = q.sending
      BY <1>3, <2>1
    <3> QED BY ONLY <1>8, <2>1, <2>2, <2>3, <2>4, <2>6, <3>1, <3>2, <3>3
  <2> QED BY <1>1, <1>6, <1>10, <2>7
<1> QED BY <1>4, <1>9, <1>10

\* RemoteEndpoint::setPeer for the lesser node's endpoint e.
LEMMA SetPeerControl ==
    ASSUME Control, NEW e \in Endpoints, NEW c \in Endpoints, mNodes[1] = e,
           Set(1, e, WithPeer(ep[1][e], c)),
           backlog' \in [Nodes -> Seq(Endpoints)], crashed' \in [Nodes -> BOOLEAN],
           wire' \in [Endpoints -> Wire], WiresFall,
           \A d \in Endpoints, m \in Nodes : wire'[d].to[m] = wire[d].to[m],
           UNCHANGED <<known, mNodes, mEndpointsToDelete, destroying, route, routed, delivered, faults>>
    PROVE  /\ Control' /\ Quiet
           /\ \E r \in RemoteEndpoint :
                /\ Inner(1, e, ep[1][e], r) /\ r.mPeer = c
                /\ r.mMessageQueue = ep[1][e].mMessageQueue /\ r.mShutdown = ep[1][e].mShutdown
                /\ r.mFlaggedForDestruction = ep[1][e].mFlaggedForDestruction
<1>0. 1 \in Nodes /\ ~(1 = 2)
  BY NodesAreTwo
<1> PICK q \in RemoteEndpoint : q = ep[1][e] /\ IsSane(1, e, q)
  BY <1>0, EndpointType
<1>1. q.state # "unused" /\ IsSane(1, e, q)
  BY <1>0, EndpointNumbers DEF Control, TablesAreSane
<1> PICK r : r = WithPeer(q, c)
  OBVIOUS
<1>2. /\ r \in RemoteEndpoint
      /\ r.state = q.state /\ r.mPeer = c /\ r.mMessageQueue = q.mMessageQueue
      /\ r.sending = q.sending /\ r.mShutdown = q.mShutdown
      /\ r.mFlaggedForDestruction = q.mFlaggedForDestruction
      /\ r.sendAt = q.sendAt \/ (q.sendAt = "waiting" /\ r.sendAt = "notified")
      /\ r.receiveAt = q.receiveAt \/ (q.receiveAt = "waiting" /\ r.receiveAt = "notified")
  BY WithPeerFields
<1>3. EndpointIs(1, e, r)
  BY <1>0, <1>2, SetIs DEF Control
<1>4. c # None
  BY EndpointNumbers
<1>5. Inner(1, e, q, r) /\ IsSane(1, e, r)
  BY <1>0, <1>1, <1>2, <1>3, <1>4 DEF Inner, IsSane
<1>6. Typed'
  BY <1>3 DEF EndpointIs, Control, Typed
<1>7. \A m \in Nodes : \A d \in Range(mEndpointsToDelete[m]) : d \in Endpoints
  BY TableTypes DEF Control
<1>8. Control'
  BY <1>0, <1>5, <1>6, <1>7, InnerControl
<1>9. Quiet
  <2> PICK n \in Nodes : n = 1
    BY <1>0
  <2>1. Inner(n, e, q, r) /\ r.mMessageQueue.items = q.mMessageQueue.items /\ r.sending = q.sending
    BY <1>2, <1>5
  <2>2. /\ \A d \in Endpoints, m \in Nodes : wire'[d].to[m] = wire[d].to[m]
        /\ UNCHANGED <<mNodes, delivered, routed>>
    OBVIOUS
  <2> QED BY ONLY <2>1, <2>2, n \in Nodes, e \in Endpoints, InnerIsQuiet
<1> QED BY <1>2, <1>5, <1>8, <1>9

LEMMA SetPeerStep ==
    ASSUME Control, NEW n \in Nodes, SetPeer(n)
    PROVE  Control' /\ Quiet /\ faults' = faults /\ (NothingFailed => NothingFailed')
<1>0. n = 1
  BY NodesAreTwo DEF SetPeer
<1> PICK e : e = mNodes[1]
  OBVIOUS
<1> PICK c : c = Head(backlog[1])
  OBVIOUS
<1>1. /\ e \in Endpoints /\ c \in Endpoints /\ Set(1, e, WithPeer(ep[1][e], c))
      /\ backlog' \in [Nodes -> Seq(Endpoints)]
      /\ NothingFailed =>
            /\ backlog'[1] = <<>> /\ wire[c].open = Nodes
            /\ \A d \in Endpoints : ep[1][d].mPeer = None
      /\ UNCHANGED <<known, mNodes, wire, crashed, mEndpointsToDelete, destroying, route, routed,
                     delivered, faults>>
  BY <1>0, TableTypes, IncomingIs DEF SetPeer, Control
<1>2. /\ crashed' \in [Nodes -> BOOLEAN] /\ wire' \in [Endpoints -> Wire] /\ WiresFall
      /\ \A d \in Endpoints, m \in Nodes : wire'[d].to[m] = wire[d].to[m]
  BY <1>1, SameWires DEF Control, Typed
<1> PICK q : q = ep[1][e]
  OBVIOUS
<1> PICK r \in RemoteEndpoint :
      /\ Inner(1, e, q, r) /\ r.mPeer = c
      /\ r.mMessageQueue = q.mMessageQueue /\ r.mShutdown = q.mShutdown
      /\ r.mFlaggedForDestruction = q.mFlaggedForDestruction
  BY <1>1, <1>2, SetPeerControl
<1>3. Control' /\ Quiet
  BY <1>1, <1>2, SetPeerControl
<1>4. NothingFailed => NothingFailed'
  <2> SUFFICES ASSUME NothingFailed PROVE NothingFailed'
    OBVIOUS
  <2>1. ASSUME NEW m \in Nodes, NEW d \in Endpoints
        PROVE  /\ ep'[m][d].state # "unused" => mNodes[m] = d
               /\ ~ep'[m][d].mFlaggedForDestruction /\ ~ep'[m][d].mShutdown
               /\ ~ep'[m][d].mMessageQueue.mShutdown
               /\ ep'[m][d].mPeer # None => wire[ep'[m][d].mPeer].open = Nodes
               /\ m = 2 => ep'[m][d] = ep[m][d]
    <3>1. CASE m = 1 /\ d = e
      <4>1. ep'[m][d] = r /\ ep[m][d] = q /\ wire[c].open = Nodes /\ mNodes[m] = d
        BY <1>1, <3>1 DEF Inner, EndpointIs
      <4>2. ~q.mFlaggedForDestruction /\ ~q.mShutdown /\ ~q.mMessageQueue.mShutdown
        BY <4>1 DEF NothingFailed
      <4> QED BY <3>1, <4>1, <4>2
    <3>2. CASE m # 1 \/ d # e
      BY <3>2 DEF Inner, EndpointIs, NothingFailed
    <3> QED BY <3>1, <3>2
  <2>2. \A d \in Endpoints : ep'[2][d].sendAt = "connected" => wire[d].open = Nodes
    BY <2>1, NodesAreTwo DEF NothingFailed
  <2>3. \A m \in Nodes :
          /\ ~crashed'[m] /\ known'[m] # "deleted" /\ mEndpointsToDelete'[m] = <<>>
          /\ route'[m].at # "idle" \/ routed'[m] > 0 => \A k \in Nodes : known'[k] = "known"
    BY <1>1 DEF NothingFailed
  <2> QED BY <1>1, <2>1, <2>2, <2>3 DEF NothingFailed
<1> QED BY <1>1, <1>3, <1>4

LEMMA ReplacePeerStep ==
    ASSUME Control, NEW n \in Nodes, ReplacePeer(n)
    PROVE  Control' /\ Quiet /\ faults' = faults /\ ~NothingFailed
<1>0. n = 1 /\ 1 \in Nodes /\ ~(1 = 2)
  BY NodesAreTwo DEF ReplacePeer
<1> PICK e : e = mNodes[1]
  OBVIOUS
<1> PICK c : c = Head(backlog[1])
  OBVIOUS
<1>1. /\ e \in Endpoints /\ c \in Endpoints /\ ep[1][e].mPeer # None
      /\ backlog' \in [Nodes -> Seq(Endpoints)]
      /\ NothingFailed => \A d \in Endpoints : ep[1][d].mPeer = None
      /\ UNCHANGED <<known, mNodes, mEndpointsToDelete, destroying, route, routed, delivered, faults>>
  BY <1>0, TableTypes, IncomingIs DEF ReplacePeer, Control
<1>2. \/ /\ crashed' = [crashed EXCEPT ![1] = TRUE]
         /\ wire' = [d \in Endpoints |-> Close(wire[d], 1)] /\ UNCHANGED ep
      \/ /\ Set(1, e, WithPeer(ep[1][e], c)) /\ CloseWireOf(1, e) /\ UNCHANGED crashed
  BY <1>0 DEF ReplacePeer
<1>3. CASE /\ crashed' = [crashed EXCEPT ![1] = TRUE]
           /\ wire' = [d \in Endpoints |-> Close(wire[d], 1)] /\ UNCHANGED ep
  <2>1. wire' \in [Endpoints -> Wire]
    <3>1. \A d \in Endpoints : wire[d] \in Wire
      BY DEF Control, Typed
    <3>2. \A d \in Endpoints : Close(wire[d], 1) \in Wire
      BY <1>0, <3>1, ClosedWire
    <3> QED BY <1>3, <3>2
  <2>2. /\ WiresFall /\ \A d \in Endpoints, m \in Nodes : wire'[d].to[m] = wire[d].to[m]
    <3>1. \A d \in Endpoints :
            \/ wire'[d] = wire[d]
            \/ wire'[d] = Close(wire[d], 1) /\ (1 = 2 => wire[d].open # Nodes)
      BY <1>0, <1>3
    <3> QED BY <1>0, <2>1, <3>1, ClosingFalls
  <2>3. Typed'
    BY <1>1, <1>3, <2>1 DEF Control, Typed
  <2>4. Control'
    BY <1>1, <1>3, <2>2, <2>3, SameEndpointsControl
  <2>5. Quiet
    BY <1>1, <1>3, <2>2 DEF Quiet
  <2> QED BY <1>1, <2>4, <2>5
<1>4. CASE Set(1, e, WithPeer(ep[1][e], c)) /\ CloseWireOf(1, e) /\ UNCHANGED crashed
  <2>1. /\ wire' \in [Endpoints -> Wire] /\ WiresFall
        /\ \A d \in Endpoints, m \in Nodes : wire'[d].to[m] = wire[d].to[m]
    BY <1>0, <1>1, <1>4, CloseWireOfIs
  <2>2. crashed' \in [Nodes -> BOOLEAN]
    BY <1>4 DEF Control, Typed
  <2>3. Control' /\ Quiet
    BY <1>1, <1>4, <2>1, <2>2, SetPeerControl
  <2> QED BY <1>1, <2>3
<1> QED BY <1>2, <1>3, <1>4

\* An endpoint may be tracked no longer.
Untracks ==
    /\ \A m \in Nodes, d \in Endpoints : Keeps(m, d)
    /\ \A m \in Nodes : mNodes'[m] \in {mNodes[m], None}
    /\ \A d \in Endpoints, m \in Nodes : wire'[d].to[m] = wire[d].to[m]
    /\ UNCHANGED <<delivered, routed, faults>>

LEMMA DestroyEndpointStep ==
    ASSUME Control, NEW n \in Nodes, DestroyEndpoint(n)
    PROVE  Control' /\ Untracks /\ ~NothingFailed
<1> PICK e : e = Head(mEndpointsToDelete[n])
  OBVIOUS
<1>1. /\ mEndpointsToDelete[n] # <<>>
      /\ mEndpointsToDelete' = [mEndpointsToDelete EXCEPT ![n] = Tail(@)]
      /\ mNodes' = [mNodes EXCEPT ![n] = IF @ = e THEN None ELSE @]
      /\ \/ UNCHANGED <<ep, wire, destroying>>
         \/ /\ Set(n, e, Stopped(ep[n][e])) /\ CloseWireOf(n, e)
            /\ destroying' = [destroying EXCEPT ![n] = e]
      /\ UNCHANGED <<known, backlog, route, routed, delivered, crashed, faults>>
  BY DEF DestroyEndpoint
<1>2. ~NothingFailed
  BY <1>1 DEF NothingFailed
<1>3. /\ e \in Endpoints /\ e \in Range(mEndpointsToDelete[n])
      /\ Tail(mEndpointsToDelete[n]) \in Seq(Endpoints)
      /\ \A d \in Range(Tail(mEndpointsToDelete[n])) : d \in Range(mEndpointsToDelete[n])
  <2>1. mEndpointsToDelete[n] \in Seq(Endpoints)
    BY TableTypes DEF Control
  <2> QED BY <1>1, <2>1, RangeOfTail
<1>4. /\ mEndpointsToDelete' \in [Nodes -> Seq(Endpoints)]
      /\ \A m \in Nodes : \A d \in Range(mEndpointsToDelete'[m]) :
            d \in Endpoints /\ d \in Range(mEndpointsToDelete[m])
  <2>1. \A m \in Nodes : \A d \in Range(mEndpointsToDelete[m]) : d \in Endpoints
    BY TableTypes DEF Control
  <2>2. /\ mEndpointsToDelete' \in [Nodes -> Seq(Endpoints)]
        /\ mEndpointsToDelete'[n] = Tail(mEndpointsToDelete[n])
        /\ \A m \in Nodes : m # n => mEndpointsToDelete'[m] = mEndpointsToDelete[m]
    BY <1>1, <1>3 DEF Control, Typed
  <2>3. ASSUME NEW m \in Nodes
        PROVE  \A d \in Range(mEndpointsToDelete'[m]) :
                  d \in Endpoints /\ d \in Range(mEndpointsToDelete[m])
    <3>1. CASE m = n
      BY <1>3, <2>1, <2>2, <3>1
    <3>2. CASE m # n
      BY <2>1, <2>2, <3>2
    <3> QED BY <3>1, <3>2
  <2> QED BY <2>2, <2>3
<1>5. ep[n][e].mFlaggedForDestruction /\ ep[n][e].state # "unused"
  <2>1. ep[n][e].mFlaggedForDestruction
    BY <1>3 DEF Control, TablesAreSane
  <2> QED BY <1>3, <2>1, EndpointType, UnusedFields DEF IsSane
<1>6. /\ mNodes' \in [Nodes -> {None} \cup Endpoints]
      /\ \A m \in Nodes : mNodes'[m] \in {mNodes[m], None}
      /\ \A m \in Nodes : mNodes'[m] # mNodes[m] => m = n /\ mNodes[m] = e
  BY <1>1 DEF Control, Typed
<1>7. mNodes'[2] # mNodes[2] => mNodes[2] \in Endpoints /\ ep[2][mNodes[2]].mFlaggedForDestruction
  BY <1>3, <1>5, <1>6, NodesAreTwo
\* Its place among those to be deleted is taken, the other tables shrink.
<1>8. ASSUME Stay, \A m \in Nodes : destroying'[m] = destroying[m] \/ (m = n /\ destroying'[m] = e)
      PROVE  TablesAreSane'
  <2> SUFFICES ASSUME NEW m \in Nodes
               PROVE  /\ destroying'[m] # None => ep'[m][destroying'[m]].state # "unused"
                      /\ mNodes'[m] # None => ep'[m][mNodes'[m]].state # "unused"
                      /\ \A d \in Range(mEndpointsToDelete'[m]) : ep'[m][d].mFlaggedForDestruction
    BY DEF TablesAreSane
  <2>1. mNodes[m] \in {None} \cup Endpoints /\ destroying[m] \in {None} \cup Endpoints
    BY TableTypes DEF Control
  <2>2. /\ destroying[m] # None => ep[m][destroying[m]].state # "unused"
        /\ mNodes[m] # None => ep[m][mNodes[m]].state # "unused"
        /\ \A d \in Range(mEndpointsToDelete[m]) : ep[m][d].mFlaggedForDestruction
    BY DEF Control, TablesAreSane
  <2>3. destroying'[m] # None => ep'[m][destroying'[m]].state # "unused"
    BY <1>3, <1>5, <1>8, <2>1, <2>2 DEF Stay
  <2>4. mNodes'[m] # None => ep'[m][mNodes'[m]].state # "unused"
    BY <1>6, <1>8, <2>1, <2>2 DEF Stay
  <2>5. \A d \in Range(mEndpointsToDelete'[m]) : ep'[m][d].mFlaggedForDestruction
    BY <1>4, <1>8, <2>2 DEF Stay
  <2> QED BY <2>3, <2>4, <2>5
<1>9. CASE UNCHANGED <<ep, wire, destroying>>
  <2>1. Stay
    BY <1>9 DEF Stay
  <2>2. Typed'
    BY <1>1, <1>4, <1>6, <1>9 DEF Control, Typed
  <2>3. RouteIsSane' /\ TablesAreSane'
    BY <1>1, <1>8, <1>9, <2>1, RouteFrame DEF Control
  <2>4. Negotiated'
    <3>1. WiresFall /\ Typed /\ Negotiated
      BY <1>9, SameWires DEF Control
    <3> QED BY <1>7, <1>9, <3>1, NegotiationFrame
  <2>5. EndpointsAreSane'
    BY <1>9 DEF Control, EndpointsAreSane, IsSane
  <2>6. Untracks
    BY <1>1, <1>6, <1>9 DEF Untracks, Keeps
  <2> QED BY <1>2, <2>2, <2>3, <2>4, <2>5, <2>6 DEF Control
<1>10. CASE /\ Set(n, e, Stopped(ep[n][e])) /\ CloseWireOf(n, e)
            /\ destroying' = [destroying EXCEPT ![n] = e]
  <2> PICK q \in RemoteEndpoint : q = ep[n][e] /\ IsSane(n, e, q)
    BY <1>3, EndpointType
  <2> PICK r : r = Stopped(q)
    OBVIOUS
  <2>1. /\ r \in RemoteEndpoint /\ r.state = "stopped" /\ r.mPeer = q.mPeer
        /\ r.mMessageQueue.items = q.mMessageQueue.items /\ r.sending = q.sending
        /\ r.mFlaggedForDestruction = q.mFlaggedForDestruction
        /\ r.sendAt = q.sendAt \/ (q.sendAt = "waiting" /\ r.sendAt = "notified")
        /\ r.receiveAt = q.receiveAt \/ (q.receiveAt = "waiting" /\ r.receiveAt = "notified")
    BY StoppedFields
  <2>2. EndpointIs(n, e, r)
    BY <1>3, <1>10, <2>1, SetIs DEF Control
  <2>3. Inner(n, e, q, r) /\ IsSane(n, e, r)
    <3>1. q.mFlaggedForDestruction /\ q.state # "unused" /\ IsSane(n, e, q)
      BY <1>5
    <3>2. q = ep[n][e]
      OBVIOUS
    <3> QED BY ONLY <2>1, <2>2, <3>1, <3>2 DEF Inner, IsSane
  <2>4. Stay
    BY <1>3, <2>3, InnerStays
  <2>5. n = 2 => wire[e].open # Nodes
    BY <1>3, <1>5 DEF Control, Negotiated, FlaggedIsClosed
  <2>6. /\ wire' \in [Endpoints -> Wire] /\ WiresFall
        /\ \A d \in Endpoints, m \in Nodes : wire'[d].to[m] = wire[d].to[m]
    BY <1>3, <1>10, <2>5, CloseWireOfIs
  <2>7. /\ destroying' \in [Nodes -> {None} \cup Endpoints]
        /\ \A m \in Nodes : destroying'[m] = destroying[m] \/ (m = n /\ destroying'[m] = e)
    BY <1>3, <1>10 DEF Control, Typed
  <2>8. Typed'
    BY <1>1, <1>4, <1>6, <2>2, <2>6, <2>7 DEF EndpointIs, Control, Typed
  <2>9. RouteIsSane' /\ TablesAreSane'
    BY <1>1, <1>8, <2>4, <2>7, RouteFrame DEF Control
  <2>10. Control'
    BY <1>3, <1>7, <2>3, <2>6, <2>8, <2>9, InnerTablesControl
  <2>11. Untracks
    <3>1. OnlyAt(n, e)
      BY <1>3, <2>3, InnerIsOnly
    <3>2. Keeps(n, e)
      BY <2>1, <2>2 DEF EndpointIs, Keeps
    <3>3. \A m \in Nodes, d \in Endpoints : Keeps(m, d)
      BY <3>1, <3>2 DEF OnlyAt
    <3> QED BY <1>1, <1>6, <2>6, <3>3 DEF Untracks
  <2> QED BY <1>2, <2>10, <2>11
<1> QED BY <1>1, <1>9, <1>10


-----------------------------------------------------------------------------
(* Every step is one of these for the messages, and keeps control.         *)

Moves ==
    \/ Quiet
    \/ \E n \in Nodes, e \in Endpoints :
          Pops(n, e) \/ (Drops(n, e) /\ ~NothingFailed) \/ Tracks(n, e) \/ Pushes(n, e)
    \/ \E n \in Nodes, e \in Endpoints, c \in Endpoints : Sends(n, e, c)
    \/ \E n \in Nodes, c \in Endpoints : Receives(n, c) /\ (NothingFailed => wire[c].open = Nodes)
    \/ \E c \in Endpoints : Empties(c) /\ faults' > 0
    \/ Untracks /\ ~NothingFailed

Goes ==
    /\ Control' /\ Moves /\ faults' >= faults
    /\ NothingFailed => NothingFailed' \/ faults' > 0

LEMMA FaultsAreNat == ASSUME Typed PROVE faults \in Nat
<1>1. faults \in 0 .. MaxFaults /\ MaxFaults \in Nat
  BY LinkAssumption DEF Typed
<1> QED BY <1>1

LEMMA SenderGoes ==
    ASSUME Control, NEW n \in Nodes, NEW e \in Endpoints, Sender(n, e) PROVE Goes
<1>0. faults \in Nat
  BY FaultsAreNat DEF Control
<1>1. CASE Connect(n, e)
  <2>1. CASE n = 1
    <3>1. Connect(1, e)
      BY <1>1, <2>1
    <3> QED BY <1>0, <3>1, LesserConnectStep DEF Goes, Moves
  <2>2. CASE n = 2
    <3>1. Connect(2, e)
      BY <1>1, <2>2
    <3> QED BY <1>0, <3>1, GreaterConnectStep DEF Goes, Moves
  <2> QED BY <2>1, <2>2, NodesAreTwo
<1>2. CASE ConnectFails(n, e)
  BY <1>2, ConnectFailsStep DEF Goes, Moves
<1>3. CASE UsePeer(n, e)
  BY <1>0, <1>3, UsePeerStep DEF Goes, Moves
<1>4. CASE SenderAwaitsPeer(n, e)
  <2>1. faults' = faults
    BY <1>4 DEF SenderAwaitsPeer
  <2> QED BY <1>0, <1>4, <2>1, SenderAwaitsPeerStep DEF Goes, Moves
<1>5. CASE PopMessage(n, e)
  <2>1. faults' = faults
    BY <1>5 DEF PopMessage
  <2> QED BY <1>0, <1>5, <2>1, PopMessageStep DEF Goes, Moves
<1>6. CASE SendEnvelope(n, e)
  <2>1. faults' = faults
    BY <1>6 DEF SendEnvelope
  <2> QED BY <1>0, <1>6, <2>1, SendEnvelopeStep DEF Goes, Moves
<1> QED BY <1>1, <1>2, <1>3, <1>4, <1>5, <1>6 DEF Sender

LEMMA ReceiverGoes ==
    ASSUME Control, NEW n \in Nodes, NEW e \in Endpoints, Receiver(n, e) PROVE Goes
<1>0. faults \in Nat
  BY FaultsAreNat DEF Control
<1>1. CASE ReceiverAwaitsPeer(n, e)
  <2>1. faults' = faults
    BY <1>1 DEF ReceiverAwaitsPeer
  <2> QED BY <1>0, <1>1, <2>1, ReceiverAwaitsPeerStep DEF Goes, Moves
<1>2. CASE ReceiveEnvelope(n, e)
  <2>1. faults' = faults /\ ep[n][e].receiveAt = "reading"
    BY <1>2 DEF ReceiveEnvelope
  <2>2. ep[n][e].mPeer \in Endpoints /\ (NothingFailed => wire[ep[n][e].mPeer].open = Nodes)
    BY <2>1, PeerIs
  <2>3. Control' /\ (NothingFailed => NothingFailed') /\ Receives(n, ep[n][e].mPeer)
    BY <1>2, ReceiveEnvelopeStep
  <2> QED BY <1>0, <2>1, <2>2, <2>3 DEF Goes, Moves
<1>3. CASE ReceiverEnds(n, e)
  <2>1. faults' = faults
    BY <1>3 DEF ReceiverEnds
  <2> QED BY <1>0, <1>3, <2>1, ReceiverEndsStep DEF Goes, Moves
<1>4. CASE RouteReceived(n, e)
  <2>1. faults' = faults
    BY <1>4 DEF RouteReceived
  <2> QED BY <1>0, <1>4, <2>1, RouteReceivedStep DEF Goes, Moves
<1> QED BY <1>1, <1>2, <1>3, <1>4 DEF Receiver

LEMMA RouteGoes ==
    ASSUME Control, NEW n \in Nodes, Route(n) PROVE Goes
<1>0. faults \in Nat
  BY FaultsAreNat DEF Control
<1>1. CASE RouteFind(n)
  BY <1>0, <1>1, RouteFindStep DEF Goes, Moves
<1>2. CASE RouteCreate(n)
  <2>1. faults' = faults
    BY <1>2 DEF RouteCreate
  <2> QED BY <1>0, <1>2, <2>1, RouteCreateStep DEF Goes, Moves
<1>3. CASE RouteQueue(n)
  <2>1. faults' = faults
    BY <1>3 DEF RouteQueue
  <2> QED BY <1>0, <1>3, <2>1, RouteQueueStep DEF Goes, Moves
<1>4. CASE RouteDestroyed(n)
  BY <1>0, <1>4, RouteDestroyedStep DEF Goes, Moves
<1> QED BY <1>1, <1>2, <1>3, <1>4 DEF Route

LEMMA RouterGoes ==
    ASSUME Control, NEW n \in Nodes, Router(n) PROVE Goes
<1>0. faults \in Nat
  BY FaultsAreNat DEF Control
<1>1. CASE Reciprocate(n)
  <2>1. faults' = faults
    BY <1>1 DEF Reciprocate, Incoming
  <2> QED BY <1>0, <1>1, <2>1, ReciprocateStep DEF Goes, Moves
<1>2. CASE Accept(n)
  <2>1. faults' = faults
    BY <1>2 DEF Accept, Incoming
  <2> QED BY <1>0, <1>2, <2>1, AcceptStep DEF Goes, Moves
<1>3. CASE SetPeer(n)
  BY <1>0, <1>3, SetPeerStep DEF Goes, Moves
<1>4. CASE ReplacePeer(n)
  BY <1>0, <1>4, ReplacePeerStep DEF Goes, Moves
<1>5. CASE DestroyEndpoint(n)
  <2>1. faults' = faults
    BY <1>5 DEF DestroyEndpoint
  <2> QED BY <1>0, <1>5, <2>1, DestroyEndpointStep DEF Goes, Moves
<1>6. CASE Destroyed(n)
  BY <1>0, <1>6, DestroyedStep DEF Goes, Moves
<1> QED BY <1>1, <1>2, <1>3, <1>4, <1>5, <1>6 DEF Router

LEMMA NextGoes == ASSUME Control, Next PROVE Goes
<1>0. faults \in Nat
  BY FaultsAreNat DEF Control
<1>1. ASSUME NEW n \in Nodes, Learn(n) PROVE Goes
  BY <1>0, <1>1, LearnStep DEF Goes, Moves
<1>2. ASSUME NEW n \in Nodes, Forget(n) PROVE Goes
  <2>1. faults' = faults + 1
    BY <1>2 DEF Forget
  <2> QED BY <1>0, <1>2, <2>1, ForgetStep DEF Goes, Moves
<1>3. ASSUME NEW n \in Nodes, Thread(n) PROVE Goes
  BY <1>3, SenderGoes, ReceiverGoes, RouteGoes, RouterGoes DEF Thread
<1>4. ASSUME NEW c \in Endpoints, Reset(c) PROVE Goes
  <2>1. faults' = faults + 1
    BY <1>4 DEF Reset
  <2> QED BY <1>0, <1>4, <2>1, ResetStep DEF Goes, Moves
<1> QED BY <1>1, <1>2, <1>3, <1>4 DEF Next


-----------------------------------------------------------------------------
(* The invariant, and what it says of the system.                          *)

Controlled == Control /\ NoFault

LEMMA InitIs ==
    ASSUME Init
    PROVE  /\ \A n \in Nodes, e \in Endpoints :
                ep[n][e] = Unused /\ wire[e] = NoWire /\ ep[n][e].mMessageQueue.items = <<>>
           /\ \A n \in Nodes :
                /\ mNodes[n] = None /\ known[n] = "not yet" /\ mEndpointsToDelete[n] = <<>>
                /\ backlog[n] = <<>> /\ destroying[n] = None
                /\ route[n].at = "idle" /\ route[n].ep = None
                /\ routed[n] = 0 /\ delivered[n] = <<>> /\ ~crashed[n]
           /\ faults = 0
BY UnusedFields DEF Init

LEMMA InitControlled == Init => Controlled
<1> SUFFICES ASSUME Init PROVE Controlled
  OBVIOUS
<1>0. /\ NoWire.open = {} /\ Range(<<>>) = {}
      /\ <<>> \in Seq(Message) /\ <<>> \in Seq(Endpoints)
  <2>1. DOMAIN <<>> = {}
    BY ONLY EmptySeq
  <2>2. Range(<<>>) = {}
    BY <2>1 DEF Range
  <2> QED BY <2>2, EmptySeq DEF NoWire
<1>1. /\ \A n \in Nodes, e \in Endpoints :
           ep[n][e] = Unused /\ wire[e] = NoWire /\ ep[n][e].mMessageQueue.items = <<>>
      /\ \A n \in Nodes :
           /\ mNodes[n] = None /\ known[n] = "not yet" /\ mEndpointsToDelete[n] = <<>>
           /\ backlog[n] = <<>> /\ destroying[n] = None
           /\ route[n].at = "idle" /\ route[n].ep = None
           /\ routed[n] = 0 /\ delivered[n] = <<>> /\ ~crashed[n]
      /\ faults = 0
  BY InitIs
<1>2. Typed
  <2>1. NoWire \in Wire
    BY <1>0 DEF NoWire, Wire
  <2>2. Unused \in RemoteEndpoint
    BY UnusedFields
  <2>3. 0 \in 0 .. MaxFaults
    <3>1. MaxFaults \in Nat
      BY LinkAssumption
    <3> QED BY ONLY <3>1
  <2>4. /\ known \in [Nodes -> {"not yet", "known", "deleted"}]
        /\ mNodes \in [Nodes -> {None} \cup Endpoints] /\ destroying \in [Nodes -> {None} \cup Endpoints]
        /\ backlog \in [Nodes -> Seq(Endpoints)] /\ mEndpointsToDelete \in [Nodes -> Seq(Endpoints)]
        /\ delivered \in [Nodes -> Seq(Message)]
    BY <1>0 DEF Init
  <2>5. ep \in [Nodes -> [Endpoints -> RemoteEndpoint]] /\ wire \in [Endpoints -> Wire]
    BY <2>1, <2>2 DEF Init
  <2>6. /\ route \in [Nodes -> RouteThread] /\ routed \in [Nodes -> Nat]
        /\ crashed \in [Nodes -> BOOLEAN] /\ faults = 0
    BY DEF Init, RouteThread
  <2> QED BY ONLY <2>3, <2>4, <2>5, <2>6 DEF Typed
<1>3. RouteIsSane /\ TablesAreSane
  <2>1. \A n \in Nodes :
          /\ route[n].at = "idle" /\ route[n].ep = None /\ destroying[n] = None /\ mNodes[n] = None
          /\ Range(mEndpointsToDelete[n]) = {}
    BY <1>0, <1>1
  <2> QED BY <2>1 DEF RouteIsSane, TablesAreSane
<1>4. EndpointsAreSane
  BY <1>1, UnusedFields DEF EndpointsAreSane, IsSane
<1>5. Negotiated
  <2>1. \A e \in Endpoints : ep[2][e] = Unused /\ wire[e] = NoWire
    BY <1>1, NodesAreTwo
  <2> QED BY <1>0, <2>1, UnusedFields, NodesAreTwo DEF Negotiated, OpenIsTracked, FlaggedIsClosed, ConnectingIsNew
<1>6. NoFault
  <2>1. \A e \in Endpoints : ep[2][e] = Unused
    BY <1>1, NodesAreTwo
  <2>2. backlog[1] = <<>>
    BY <1>1, NodesAreTwo
  <2>3. ASSUME NEW n \in Nodes
        PROVE  /\ ~crashed[n] /\ known[n] # "deleted" /\ mEndpointsToDelete[n] = <<>>
               /\ route[n].at = "idle" /\ routed[n] = 0
    <3>1. /\ ~crashed[n] /\ known[n] = "not yet" /\ mEndpointsToDelete[n] = <<>>
          /\ route[n].at = "idle" /\ routed[n] = 0
      BY <1>1
    <3> QED BY <3>1
  <2>4. \A n \in Nodes, e \in Endpoints :
          /\ ep[n][e].state = "unused" /\ ep[n][e].mPeer = None
          /\ ~ep[n][e].mFlaggedForDestruction /\ ~ep[n][e].mShutdown
          /\ ~ep[n][e].mMessageQueue.mShutdown
    BY ONLY <1>1, UnusedFields
  <2>5. \A e \in Endpoints : ep[2][e].sendAt # "connected"
    BY ONLY <2>1, UnusedFields
  <2> QED BY ONLY <2>2, <2>3, <2>4, <2>5 DEF NoFault, NothingFailed
<1> QED BY <1>2, <1>3, <1>4, <1>5, <1>6 DEF Controlled, Control

LEMMA NextControlled == Controlled /\ Next => Controlled'
<1> SUFFICES ASSUME Controlled, Next PROVE Controlled'
  OBVIOUS
<1>1. Control' /\ faults' >= faults /\ (NothingFailed => NothingFailed' \/ faults' > 0)
  BY NextGoes DEF Controlled, Goes
<1>2. faults \in Nat
  BY FaultsAreNat DEF Controlled, Control
<1>3. ASSUME faults' = 0 PROVE NothingFailed'
  BY <1>1, <1>2, <1>3 DEF Controlled, NoFault
<1> QED BY <1>1, <1>3 DEF Controlled, NoFault

LEMMA StutterControlled == Controlled /\ UNCHANGED vars => Controlled'
<1> SUFFICES ASSUME Controlled, UNCHANGED vars PROVE Controlled'
  OBVIOUS
<1>1. Typed'
  BY DEF Controlled, vars, Control, Typed
<1>2. RouteIsSane' /\ TablesAreSane'
  BY DEF Controlled, vars, Control, RouteIsSane, TablesAreSane
<1>3. EndpointsAreSane'
  BY DEF Controlled, vars, Control, EndpointsAreSane, IsSane
<1>4. Negotiated'
  BY DEF Controlled, vars, Control, Negotiated, OpenIsTracked, FlaggedIsClosed, ConnectingIsNew
<1>5. NoFault'
  BY DEF Controlled, vars, NoFault, NothingFailed
<1> QED BY <1>1, <1>2, <1>3, <1>4, <1>5 DEF Controlled, Control

LEMMA ControlledAlways == Spec => []Controlled
<1>1. Init => Controlled
  BY InitControlled
<1>2. Controlled /\ [Next]_vars => Controlled'
  BY NextControlled, StutterControlled
<1> QED BY <1>1, <1>2, PTL DEF Spec

\* TypeOK: every variable has its type, what a sender writes is a message, and
\* its threads use an endpoint's connection only once there is one.
THEOREM TypeCorrect == Spec => []TypeOK
<1>1. ASSUME Controlled PROVE TypeOK
  <2>1. Typed /\ EndpointsAreSane
    BY <1>1 DEF Controlled, Control
  <2>2. /\ known \in [Nodes -> {"not yet", "known", "deleted"}] /\ mNodes \in [Nodes -> {None} \cup Endpoints]
        /\ ep \in [Nodes -> [Endpoints -> RemoteEndpoint]] /\ faults \in 0 .. MaxFaults
    BY <2>1 DEF Typed
  <2>3. \A n \in Nodes, e \in Endpoints :
          /\ ep[n][e].sendAt = "sending" <=> ep[n][e].sending # None
          /\ ep[n][e].sendAt \in {"popping", "sending"} \/ ep[n][e].receiveAt \in {"reading", "routing"}
                => ep[n][e].mPeer # None
    BY <2>1 DEF EndpointsAreSane, IsSane
  <2> QED BY <2>2, <2>3 DEF TypeOK
<1> QED BY <1>1, ControlledAlways, PTL

\* OneConnection: "force the final connection to always be from the greater
\* nodeId to the lesser nodeId".  However many endpoints and connections the
\* nodes make, no more than one connection is open at both ends, and until
\* something fails each node makes one endpoint.
THEOREM ConnectionIsUnique == Spec => []OneConnection
<1>1. ASSUME Controlled PROVE OneConnection
  <2>1. \A c, d \in Endpoints : wire[c].open = Nodes /\ wire[d].open = Nodes => c = d
    BY <1>1 DEF Controlled, Control, Negotiated, OpenIsTracked
  <2>2. ASSUME faults = 0, NEW n \in Nodes
        PROVE  Cardinality({e \in Endpoints : ep[n][e].state # "unused"}) <= 1
    <3>1. NothingFailed
      BY <1>1, <2>2 DEF Controlled, NoFault
    <3>2. \A e \in Endpoints : ep[n][e].state # "unused" => mNodes[n] = e
      BY <3>1 DEF NothingFailed
    <3> PICK S : S = {e \in Endpoints : ep[n][e].state # "unused"}
      OBVIOUS
    <3>3. S = {} \/ S = {mNodes[n]}
      BY <3>2
    <3>4. CASE S = {}
      <4>1. Cardinality(S) = 0
        BY <3>4, FS_EmptySet
      <4> QED BY <4>1
    <3>5. CASE S = {mNodes[n]}
      <4>1. Cardinality(S) = 1
        BY <3>5, FS_Singleton
      <4> QED BY <4>1
    <3> QED BY <3>3, <3>4, <3>5
  <2> QED BY <2>1, <2>2 DEF OneConnection
<1> QED BY <1>1, ControlledAlways, PTL
=============================================================================
