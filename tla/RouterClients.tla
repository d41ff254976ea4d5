---------------------------- MODULE RouterClients ----------------------------
(***************************************************************************)
(* The router of a session's entry node and the client of that session     *)
(* (arras4_node cmd/node/router), with what ArrasController says to it:    *)
(*   - the router thread, which accepts clients and destroys endpoints;    *)
(*   - the endpoint of each client, with a send and a receive thread;      *)
(*   - the threads that route what computations send to the client, which  *)
(*     is stashed as long as there is none;                                *)
(*   - the thread that takes the requests of the node service, which kicks *)
(*     the client when the session ends.                                   *)
(* Endpoints are shared pointers: the thread that lets go of one last      *)
(* destroys it, and waits for the threads of the endpoint to end.  The     *)
(* router lets go of the table's pointer under the mutex of the tables.    *)
(***************************************************************************)
EXTENDS Integers, FiniteSets, SequencesExt, ThreadsafeQueue

CONSTANTS
    MaxClients,             \* bound: connections that are made to the session
    Talkers,                \* bound: the clients that send messages
    Sources,                \* threads in which messages to the client are routed
    MaxMessages             \* bound: messages of a source

ASSUME ClientsAssumption ==
    /\ MaxClients \in Nat /\ MaxMessages \in Nat
    /\ Sources \cap {"router", "service_to_router"} = {}

Clients == 1 .. MaxClients
None == 0
STATUS == <<"node service", 0>>
NoMessage == <<"nobody", 0>>
Message == Sources \X (1 .. MaxMessages)
Threads == Sources \cup {"router", "service_to_router"}

VARIABLES
    session,                \* in the node service: how far its end has come
    toRouter,               \* its messages to the router
    toService,              \* clients it is yet to be told of ("connected"), in turn
    mRoutingData,           \* the session is in the RoutingTable
    backlog,                \* clients the router has to accept
    closed,                 \* clients whose connection an end has closed
    got,                    \* [Clients -> messages it has received while connected]
    mClients,               \* PeerManager's endpoint of the session's client
    mPendingEnvelopes,      \* PeerManager's stash for the session
    ep,                     \* [Clients -> its ClientRemoteEndpoint]
    mEndpointsToDelete,
    at,                     \* [Threads -> where it is]
    hold,                   \* [Threads -> endpoint it holds]
    routed                  \* [Sources -> messages it has routed]

serviceVars == <<session, toService>>
tables == <<mRoutingData, mClients, mPendingEnvelopes>>
connections == <<closed, got>>
socketVars == <<backlog, connections>>
threadVars == <<at, hold, routed>>
vars == <<serviceVars, toRouter, tables, socketVars, ep, mEndpointsToDelete, threadVars>>

At == {"idle", "checked", "constructed", "found", "not found", "status queued",
       "flagged", "destroying"}

ClientRemoteEndpoint ==
    [state : {"none", "live", "stopped", "gone"},
     mMessageQueue : Queue(Message \cup {STATUS}),
     sendAt : {"popping", "sending", "done"},
     sending : Message \cup {STATUS, NoMessage},
     receiveAt : {"reading", "routing", "done"},
     mFlaggedForDestruction : BOOLEAN,
     mShutdown : BOOLEAN]

NoEndpoint ==
    [state |-> "none", mMessageQueue |-> NewQueue, sendAt |-> "done",
     sending |-> NoMessage, receiveAt |-> "done", mFlaggedForDestruction |-> FALSE, mShutdown |-> FALSE]

\* Without routing data there is no thread that receives.
Endpoint(valid) ==
    [NoEndpoint EXCEPT !.state = "live", !.sendAt = "popping",
                       !.receiveAt = IF valid THEN "reading" ELSE "done"]

Init ==
    /\ session = "live"
    /\ toRouter = <<>>
    /\ toService = <<>>
    /\ mRoutingData = TRUE
    /\ backlog = <<>>
    /\ closed = {}
    /\ got = [c \in Clients |-> <<>>]
    /\ mClients = None
    /\ mPendingEnvelopes = <<>>
    /\ ep = [c \in Clients |-> NoEndpoint]
    /\ mEndpointsToDelete = <<>>
    /\ at = [t \in Threads |-> "idle"]
    /\ hold = [t \in Threads |-> None]
    /\ routed = [s \in Sources |-> 0]

-----------------------------------------------------------------------------
Set(c, r) == ep' = [ep EXCEPT ![c] = r]

Step(t, from, to) ==
    /\ at[t] = from
    /\ at' = [at EXCEPT ![t] = to]

Hold(t, c) == hold' = [hold EXCEPT ![t] = c]

\* queueEnvelope: an endpoint that closes takes no more.
Queued(r, m) == [r EXCEPT !.mMessageQueue = IF Accepts(@) THEN Push(@, m) ELSE @]

\* Mutant of QueueAll: the stash is emptied from its back.
QueueAllFromTheBack(r, stash) ==
    [r EXCEPT !.mMessageQueue.items = IF Accepts(r.mMessageQueue) THEN @ \o Reverse(stash) ELSE @]

\* The stash goes into the queue of the client it was for.
QueueAll(r, stash) ==
    [r EXCEPT !.mMessageQueue.items = IF Accepts(r.mMessageQueue) THEN @ \o stash ELSE @]

\* mMutex of the PeerManager: eraseIfFound holds it while what it erased is
\* destroyed; every look into the tables waits for it.
Locked == at["router"] = "destroying"

\* Mutant of Stopped: the queue is not shut down.
StoppedQueueOpen(r) == [r EXCEPT !.state = "stopped", !.mShutdown = TRUE]

\* What a queue holds that is shut down is never read.
Stopped(r) == [r EXCEPT !.state = "stopped", !.mShutdown = TRUE, !.mMessageQueue = Shut(NewQueue)]

\* Mutant of Held: as if threads kept bare pointers.
HeldByTable(c, t) == mClients = c
Held(c, t) == mClients = c \/ \E u \in Threads \ {t} : hold[u] = c

Close(c) ==
    /\ closed' = closed \cup {c}
    /\ got' = [got EXCEPT ![c] = <<>>]

\* Thread t lets go of what it holds, r being its endpoint by then.
Release(t, c, r) ==
    IF Held(c, t)
    THEN /\ Set(c, r)
         /\ Hold(t, None)
         /\ at' = [at EXCEPT ![t] = "idle"]
         /\ UNCHANGED connections
    ELSE /\ Set(c, Stopped(r))
         /\ Close(c)
         /\ at' = [at EXCEPT ![t] = "destroying"]
         /\ UNCHANGED hold

Destroyed(t) ==
    /\ Step(t, "destroying", "idle")
    /\ ep[hold[t]].sendAt = "done" /\ ep[hold[t]].receiveAt = "done"
    /\ Set(hold[t], [NoEndpoint EXCEPT !.state = "gone"])
    /\ Hold(t, None)
    /\ UNCHANGED <<serviceVars, toRouter, tables, socketVars, mEndpointsToDelete, routed>>

\* flagForDestruction
Flag(c, r) ==
    /\ Set(c, [r EXCEPT !.mFlaggedForDestruction = TRUE])
    /\ mEndpointsToDelete' = IF r.mFlaggedForDestruction THEN mEndpointsToDelete
                             ELSE Append(mEndpointsToDelete, c)

-----------------------------------------------------------------------------
(* Clients.                                                                *)

ClientConnects(c) ==
    /\ ep[c].state = "none" /\ c \notin closed /\ c \notin Range(backlog) /\ hold["router"] # c
    /\ \A d \in 1 .. c - 1 : ep[d].state # "none" \/ d \in closed
    /\ backlog' = Append(backlog, c)
    /\ UNCHANGED <<serviceVars, toRouter, tables, connections, ep, mEndpointsToDelete, threadVars>>

ClientLeaves(c) ==
    /\ ep[c].state \in {"live", "stopped"} \/ c \in Range(backlog)
    /\ Close(c)
    /\ UNCHANGED <<serviceVars, toRouter, tables, backlog, ep, mEndpointsToDelete, threadVars>>

-----------------------------------------------------------------------------
(* The router thread: the filter for clients.                              *)

AcceptClient ==
    /\ at["router"] = "idle"
    /\ backlog # <<>>
    /\ backlog' = Tail(backlog)
    /\ LET c == Head(backlog)
       IN  \/ /\ mClients # None                  \* one already exists for the session
              /\ Close(c)
              /\ UNCHANGED <<ep, at, hold>>
           \/ /\ mClients = None /\ mRoutingData
              /\ Step("router", "idle", "checked")
              /\ Hold("router", c)
              /\ UNCHANGED <<connections, ep>>
           \/ /\ mClients = None /\ ~mRoutingData \* to send it the status
              /\ Step("router", "idle", "constructed")
              /\ Hold("router", c)
              /\ Set(c, Endpoint(FALSE))
              /\ UNCHANGED connections
    /\ UNCHANGED <<serviceVars, toRouter, tables, mEndpointsToDelete, routed>>

\* The constructor looks for the routing data again, and throws without.
ConstructEndpoint ==
    /\ at["router"] = "checked"
    /\ LET c == hold["router"]
       IN  \/ /\ mRoutingData
              /\ Step("router", "checked", "constructed")
              /\ Set(c, Endpoint(TRUE))
              /\ UNCHANGED <<connections, hold>>
           \/ /\ ~mRoutingData
              /\ Step("router", "checked", "idle")
              /\ Close(c)
              /\ Hold("router", None)
              /\ UNCHANGED ep
    /\ UNCHANGED <<serviceVars, toRouter, tables, backlog, mEndpointsToDelete, routed>>

\* trackClient, and the node service is notified.
TrackClient ==
    /\ Step("router", "constructed", "idle")
    /\ mClients' = hold["router"]
    /\ Set(mClients', QueueAll(ep[mClients'], mPendingEnvelopes))
    /\ toService' = Append(toService, mClients')
    /\ Hold("router", None)
    /\ UNCHANGED <<session, toRouter, mRoutingData, mPendingEnvelopes, socketVars,
                   mEndpointsToDelete, routed>>

\* destroyEndpoints: untracked, and destroyed unless a thread still holds it,
\* with the tables locked until the threads of the endpoint have ended.
DestroyEndpoint ==
    /\ at["router"] = "idle"
    /\ mEndpointsToDelete # <<>>
    /\ mEndpointsToDelete' = Tail(mEndpointsToDelete)
    /\ LET c == Head(mEndpointsToDelete)
       IN  /\ mClients' = IF mClients = c THEN None ELSE mClients
           /\ IF \E t \in Threads : hold[t] = c
              THEN UNCHANGED <<ep, connections, at, hold>>
              ELSE /\ Set(c, Stopped(ep[c]))
                   /\ Close(c)
                   /\ Step("router", "idle", "destroying")
                   /\ Hold("router", c)
    /\ UNCHANGED <<serviceVars, toRouter, mRoutingData, mPendingEnvelopes, backlog, routed>>

Router ==
    \/ AcceptClient \/ ConstructEndpoint \/ TrackClient \/ DestroyEndpoint \/ Destroyed("router")

-----------------------------------------------------------------------------
(* sendToLocalClient, in a thread that routes.                             *)

FindClient(s) ==
    /\ routed[s] < MaxMessages /\ ~Locked
    /\ Step(s, "idle", IF mClients = None THEN "not found" ELSE "found")
    /\ Hold(s, mClients)
    /\ UNCHANGED <<serviceVars, toRouter, tables, socketVars, ep, mEndpointsToDelete, routed>>

QueueToClient(s) ==
    /\ at[s] = "found"
    /\ routed' = [routed EXCEPT ![s] = @ + 1]
    /\ Release(s, hold[s], Queued(ep[hold[s]], <<s, routed[s] + 1>>))
    /\ UNCHANGED <<serviceVars, toRouter, tables, backlog, mEndpointsToDelete>>

\* Mutant of Stash: what FindClient saw is relied on.
StashUnchecked(m) == mPendingEnvelopes' = Append(mPendingEnvelopes, m) /\ UNCHANGED ep

\* A client may have come meanwhile.
Stash(m) ==
    IF mClients # None
    THEN Set(mClients, Queued(ep[mClients], m)) /\ UNCHANGED mPendingEnvelopes
    ELSE mPendingEnvelopes' = Append(mPendingEnvelopes, m) /\ UNCHANGED ep

StashEnvelope(s) ==
    /\ ~Locked
    /\ Step(s, "not found", "idle")
    /\ routed' = [routed EXCEPT ![s] = @ + 1]
    /\ Stash(<<s, routed[s] + 1>>)
    /\ UNCHANGED <<serviceVars, toRouter, mRoutingData, mClients, socketVars,
                   mEndpointsToDelete, hold>>

RouteMessage(s) == QueueToClient(s) \/ StashEnvelope(s) \/ Destroyed(s)

-----------------------------------------------------------------------------
(* serviceToRouterProc: routing data of the session is deleted, its client *)
(* is kicked.                                                              *)

DeleteRoutingData ==
    /\ at["service_to_router"] = "idle"
    /\ toRouter # <<>> /\ Head(toRouter) = "delete"
    /\ toRouter' = Tail(toRouter)
    /\ mRoutingData' = FALSE
    /\ UNCHANGED <<serviceVars, mClients, mPendingEnvelopes, socketVars, ep, mEndpointsToDelete, threadVars>>

\* kickClient; without a client there is only the stash to clear.
KickClient ==
    /\ ~Locked
    /\ toRouter # <<>> /\ Head(toRouter) = "kick"
    /\ toRouter' = Tail(toRouter)
    /\ Step("service_to_router", "idle", IF mClients = None THEN "not found" ELSE "status queued")
    /\ Hold("service_to_router", mClients)
    /\ IF mClients = None THEN UNCHANGED ep ELSE Set(mClients, Queued(ep[mClients], STATUS))
    /\ UNCHANGED <<serviceVars, tables, socketVars, mEndpointsToDelete, routed>>

\* When the queue has drained, or after some seconds.
FlagKicked ==
    /\ Step("service_to_router", "status queued", "flagged")
    /\ Flag(hold["service_to_router"], ep[hold["service_to_router"]])
    /\ UNCHANGED <<serviceVars, toRouter, tables, socketVars, hold, routed>>

ReleaseKicked ==
    /\ at["service_to_router"] = "flagged"
    /\ Release("service_to_router", hold["service_to_router"], ep[hold["service_to_router"]])
    /\ UNCHANGED <<serviceVars, toRouter, tables, backlog, mEndpointsToDelete, routed>>

ClearStashedEnvelopes ==
    /\ ~Locked
    /\ Step("service_to_router", "not found", "idle")
    /\ mPendingEnvelopes' = <<>>
    /\ UNCHANGED <<serviceVars, toRouter, mRoutingData, mClients, socketVars, ep,
                   mEndpointsToDelete, hold, routed>>

ServiceToRouter ==
    \/ DeleteRoutingData \/ KickClient \/ FlagKicked \/ ReleaseKicked
    \/ ClearStashedEnvelopes \/ Destroyed("service_to_router")

-----------------------------------------------------------------------------
(* The threads of an endpoint.                                             *)

PopMessage(c) ==
    /\ ep[c].sendAt = "popping"
    /\ LET q == ep[c].mMessageQueue
       IN  \/ /\ ~Accepts(q)
              /\ Set(c, [ep[c] EXCEPT !.sendAt = "done"])
           \/ /\ Poppable(q)
              /\ Set(c, [ep[c] EXCEPT !.sendAt = "sending", !.sending = First(q), !.mMessageQueue = Pop(q)])
    /\ UNCHANGED <<serviceVars, toRouter, tables, socketVars, mEndpointsToDelete, threadVars>>

\* disconnect, in both threads, also tells the node service, where it makes
\* an event for the coordinator; that may end the session, see EndSession.

\* What was popped is dropped if the endpoint is shut down by then, and lost
\* if the client has left, which the sender may learn by it.
SendEnvelope(c) ==
    /\ ep[c].sendAt = "sending"
    /\ LET m == ep[c].sending
           r == [ep[c] EXCEPT !.sending = NoMessage]
       IN  \/ /\ r.mShutdown
              /\ Set(c, [r EXCEPT !.sendAt = "done"])
              /\ UNCHANGED <<got, mEndpointsToDelete>>
           \/ /\ ~r.mShutdown
              /\ Set(c, [r EXCEPT !.sendAt = "popping"])
              /\ got' = IF c \notin closed /\ m # STATUS THEN [got EXCEPT ![c] = Append(@, m)] ELSE got
              /\ UNCHANGED mEndpointsToDelete
           \/ /\ ~r.mShutdown /\ c \in closed
              /\ Flag(c, [r EXCEPT !.sendAt = "done"])
              /\ UNCHANGED got
    /\ UNCHANGED <<serviceVars, toRouter, tables, backlog, closed, threadVars>>

\* A message of the client has come.
ReceiveEnvelope(c) ==
    /\ c \in Talkers \ closed
    /\ ep[c].receiveAt = "reading" /\ ~ep[c].mShutdown
    /\ Set(c, [ep[c] EXCEPT !.receiveAt = "routing"])
    /\ UNCHANGED <<serviceVars, toRouter, tables, socketVars, mEndpointsToDelete, threadVars>>

\* routeMessage, to computations, which are looked up in the tables.
RouteReceived(c) ==
    /\ ep[c].receiveAt = "routing" /\ ~Locked
    /\ Set(c, [ep[c] EXCEPT !.receiveAt = "reading"])
    /\ UNCHANGED <<serviceVars, toRouter, tables, socketVars, mEndpointsToDelete, threadVars>>

ReceiveEnds(c) ==
    /\ ep[c].receiveAt = "reading"
    /\ \/ /\ ep[c].mShutdown
          /\ Set(c, [ep[c] EXCEPT !.receiveAt = "done"])
          /\ UNCHANGED mEndpointsToDelete
       \/ /\ ~ep[c].mShutdown /\ c \in closed
          /\ Flag(c, [ep[c] EXCEPT !.receiveAt = "done"])
    /\ UNCHANGED <<serviceVars, toRouter, tables, socketVars, threadVars>>

Receive(c) == RouteReceived(c) \/ ReceiveEnds(c)

EndpointThread(c) == PopMessage(c) \/ SendEnvelope(c) \/ ReceiveEnvelope(c) \/ Receive(c)

-----------------------------------------------------------------------------
(* The node service: ArrasController.                                      *)

\* Mutant of MustGo: once the session's end is complete, nobody looks.
MustGoAtKick == session = "kicked"

\* Not isActive: the session is Defunct.
MustGo == session = "gone"

\* handleMessage: the client of a session that is Defunct is kicked.
HandleNotice ==
    /\ toService # <<>>
    /\ toService' = Tail(toService)
    /\ toRouter' = IF MustGo THEN Append(toRouter, "kick") ELSE toRouter
    /\ UNCHANGED <<session, tables, socketVars, ep, mEndpointsToDelete, threadVars>>

\* shutdownSession sends two messages; the session is active until both are
\* sent, and a client that is announced in between is welcome.
EndSession ==
    /\ session = "live"
    /\ session' = "kicked"
    /\ toRouter' = Append(toRouter, "kick")
    /\ UNCHANGED <<toService, tables, socketVars, ep, mEndpointsToDelete, threadVars>>

ShutdownSession ==
    /\ session = "kicked"
    /\ session' = "deleted"
    /\ toRouter' = Append(toRouter, "delete")
    /\ UNCHANGED <<toService, tables, socketVars, ep, mEndpointsToDelete, threadVars>>

BecomeDefunct ==
    /\ session = "deleted"
    /\ session' = "gone"
    /\ UNCHANGED <<toRouter, toService, tables, socketVars, ep, mEndpointsToDelete, threadVars>>

DeleteSession == ShutdownSession \/ BecomeDefunct

-----------------------------------------------------------------------------
Next ==
    \/ \E c \in Clients : ClientConnects(c) \/ ClientLeaves(c) \/ EndpointThread(c)
    \/ \E s \in Sources : FindClient(s) \/ RouteMessage(s)
    \/ Router \/ ServiceToRouter \/ EndSession \/ DeleteSession \/ HandleNotice

Spec == Init /\ [][Next]_vars

(* A thread that can go on does so, where it waits for no mutex and joins   *)
(* no thread.  Clients, computations and the end of the session do as they *)
(* please.                                                                 *)
FairSpec ==
    /\ Spec
    /\ WF_vars(Router) /\ WF_vars(ServiceToRouter)
    /\ WF_vars(DeleteSession) /\ WF_vars(HandleNotice)
    /\ \A s \in Sources : WF_vars(RouteMessage(s))
    /\ \A c \in Clients : WF_vars(PopMessage(c) \/ SendEnvelope(c)) /\ WF_vars(Receive(c))

-----------------------------------------------------------------------------
TypeOK ==
    /\ session \in {"live", "kicked", "deleted", "gone"}
    /\ toRouter \in Seq({"kick", "delete"})
    /\ toService \in Seq(Clients)
    /\ mRoutingData \in BOOLEAN
    /\ backlog \in Seq(Clients)
    /\ closed \subseteq Clients
    /\ got \in [Clients -> Seq(Message)]
    /\ mClients \in Clients \cup {None}
    /\ mPendingEnvelopes \in Seq(Message)
    /\ ep \in [Clients -> ClientRemoteEndpoint]
    /\ mEndpointsToDelete \in Seq(Clients)
    /\ at \in [Threads -> At]
    /\ hold \in [Threads -> Clients \cup {None}]
    /\ \A t \in Threads : hold[t] = None <=> at[t] \in {"idle", "not found"}
    /\ \A c \in Clients :
        /\ ep[c].sendAt = "sending" <=> ep[c].sending # NoMessage
        /\ ep[c].mShutdown <=> ep[c].state = "stopped"
        /\ Accepts(ep[c].mMessageQueue) <=> ~ep[c].mShutdown
    /\ routed \in [Sources -> 0 .. MaxMessages]

\* Whatever thread finds the client or stashes, and however clients come and
\* go, a client gets the messages of a source in the order they were routed
\* and each once; the first client of a live session gets them from the first
\* on, without a gap, although it comes later than they do.
DeliveredInOrder ==
    \A c \in Clients : \A i \in DOMAIN got[c] :
        /\ \A j \in 1 .. i - 1 :
              got[c][j][1] = got[c][i][1] => got[c][j][2] < got[c][i][2]
        /\ c = 1 /\ session = "live" =>
              \A n \in 1 .. got[c][i][2] - 1 :
                  \E j \in 1 .. i - 1 : got[c][j] = <<got[c][i][1], n>>

\* An endpoint is used by no thread after it was destroyed: the pointers in
\* mEndpointsToDelete are bare, those of threads and of the table are shared.
UsedIsAlive ==
    /\ mClients # None => ep[mClients].state = "live"
    /\ \A c \in Range(mEndpointsToDelete) : ep[c].state = "live"
    /\ \A t \in Threads : at[t] \notin {"destroying", "checked"} /\ hold[t] # None => ep[hold[t]].state = "live"
    /\ \A c \in Clients : ep[c].state = "stopped" => \E t \in Threads : at[t] = "destroying" /\ hold[t] = c

\* Clients that are accepted and of whom the node service has not heard.
Unannounced(c) ==
    \/ hold["router"] = c /\ at["router"] \in {"checked", "constructed"}
    \/ c \in Range(toService)

\* A client is closed if it was tracked before the kick of its session was
\* handled, and also if the node service hears of it only when the session is
\* Defunct: whatever else uses its endpoint, some thread lets go of it last.
KickedClientIsClosed ==
    \A c \in Clients :
        (\/ mClients = c /\ "kick" \in Range(toRouter)
         \/ session = "gone" /\ Unannounced(c)) ~> c \in closed

\* "connection just after deletion looks (to the client) much the same as
\* deletion just after connection" (kickClient): whenever a client connects,
\* the end of the session closes its connection.  It does not: a client of
\* whom the node service hears between the kick and Defunct stays.
EndedSessionLetsClientGo ==
    \A c \in Clients : (session = "gone" /\ mClients = c) ~> c \in closed

\* The router gets done with every endpoint it destroys.  It does not: the
\* receive thread it joins may wait for the mutex it holds.
DestructionEnds == at["router"] = "destroying" ~> at["router"] # "destroying"

\* What client c received from source s.
From(s, c) == SelectSeq(got[c], LAMBDA m : m[1] = s)

\* All that was routed gets to the first client, before it came or after, if
\* it stays and the session lives.
MessagesReachClient ==
    \A s \in Sources :
        (routed[s] = MaxMessages /\ ep[1].state = "live")
            ~> (Len(From(s, 1)) = MaxMessages \/ 1 \in closed \/ session # "live")
=============================================================================
