------------------------- MODULE RouterClientsProofs -------------------------
(***************************************************************************)
(* Proofs about RouterClients, for any number of clients, sources and      *)
(* messages: the types, that no endpoint is used once it is destroyed, and *)
(* that a client gets the messages of a source in their order.             *)
(***************************************************************************)
EXTENDS RouterClients, SequenceTheorems, TLAPS

(* The inductive invariant.                                                *)

\* An endpoint agrees with itself; one that is not there has no threads.
Sane(r) ==
    /\ r \in ClientRemoteEndpoint
    /\ r.sendAt = "sending" <=> r.sending # NoMessage
    /\ r.mShutdown <=> r.state = "stopped"
    /\ Accepts(r.mMessageQueue) <=> ~r.mShutdown
    /\ r.state \in {"none", "gone"} => r.sendAt = "done" /\ r.receiveAt = "done"

EndpointsAreSane ==
    /\ ep \in [Clients -> ClientRemoteEndpoint]
    /\ \A c \in Clients : Sane(ep[c])

\* What TypeOK says of everything else; a source that is routing a message has
\* not routed its last.
Elsewhere ==
    /\ session \in {"live", "kicked", "deleted", "gone"}
    /\ toRouter \in Seq({"kick", "delete"})
    /\ toService \in Seq(Clients)
    /\ mRoutingData \in BOOLEAN
    /\ backlog \in Seq(Clients)
    /\ closed \subseteq Clients
    /\ got \in [Clients -> Seq(Message)]
    /\ mClients \in Clients \cup {None}
    /\ mPendingEnvelopes \in Seq(Message)
    /\ mEndpointsToDelete \in Seq(Clients)
    /\ at \in [Threads -> At]
    /\ hold \in [Threads -> Clients \cup {None}]
    /\ \A t \in Threads : hold[t] = None <=> at[t] \in {"idle", "not found"}
    /\ routed \in [Sources -> 0 .. MaxMessages]
    /\ \A s \in Sources : at[s] \in {"found", "not found"} => routed[s] < MaxMessages

\* Only the router thread holds an endpoint that is not tracked yet, and
\* while it does none is.
OnlyRouterCreates ==
    /\ \A t \in Threads : at[t] \in {"checked", "constructed"} => t = "router"
    /\ at["router"] \in {"checked", "constructed"} => mClients = None

\* A connection has no endpoint before it was accepted.
NotAcceptedYet ==
    /\ IsInjective(backlog)
    /\ \A c \in Range(backlog) : ep[c].state = "none" /\ hold["router"] # c
    /\ at["router"] = "checked" => ep[hold["router"]].state = "none"

Tracked(c) == mClients = c \/ (at["router"] = "constructed" /\ hold["router"] = c)

\* An endpoint waits for its destruction once, and is tracked until then;
\* one that is there without being tracked has had its turn.
FlaggedOnce ==
    /\ IsInjective(mEndpointsToDelete)
    /\ \A c \in Range(mEndpointsToDelete) : ep[c].mFlaggedForDestruction /\ Tracked(c)
    /\ \A c \in Clients : ep[c].state = "live" /\ ~Tracked(c) => ep[c].mFlaggedForDestruction

\* The thread that destroys an endpoint is the last that knows of it.
LastOwner ==
    \A t \in Threads : at[t] = "destroying" =>
        /\ ep[hold[t]].state = "stopped"
        /\ mClients # hold[t]
        /\ hold[t] \notin Range(mEndpointsToDelete)
        /\ \A u \in Threads \ {t} : hold[u] # hold[t]

IInv ==
    /\ EndpointsAreSane
    /\ Elsewhere
    /\ OnlyRouterCreates
    /\ NotAcceptedYet
    /\ FlaggedOnce
    /\ LastOwner
    /\ UsedIsAlive

-----------------------------------------------------------------------------
(* Sequences, functions and endpoints.                                     *)

LEMMA AppendIs ==
    ASSUME NEW S, NEW s \in Seq(S), NEW e \in S
    PROVE  /\ Append(s, e) \in Seq(S)
           /\ Range(Append(s, e)) = Range(s) \cup {e}
           /\ IsInjective(s) /\ e \notin Range(s) => IsInjective(Append(s, e))
<1>1. /\ Append(s, e) \in Seq(S)
      /\ DOMAIN Append(s, e) = DOMAIN s \cup {Len(s) + 1}
      /\ \A i \in DOMAIN s : Append(s, e)[i] = s[i]
      /\ Append(s, e)[Len(s) + 1] = e
      /\ Len(s) + 1 \notin DOMAIN s
  OBVIOUS
<1>2. Range(Append(s, e)) = Range(s) \cup {e}
  BY <1>1 DEF Range
<1>3. IsInjective(s) /\ e \notin Range(s) => IsInjective(Append(s, e))
  BY <1>1 DEF Range, IsInjective
<1> QED BY <1>1, <1>2, <1>3

LEMMA RangeIs == ASSUME NEW S, NEW s \in Seq(S) PROVE Range(s) \subseteq S
<1>1. \A i \in DOMAIN s : s[i] \in S
  OBVIOUS
<1> QED BY <1>1 DEF Range

LEMMA TailIs ==
    ASSUME NEW S, NEW s \in Seq(S), s # <<>>
    PROVE  /\ Head(s) \in S /\ Head(s) \in Range(s)
           /\ Tail(s) \in Seq(S)
           /\ Range(Tail(s)) \subseteq Range(s)
           /\ IsInjective(s) => IsInjective(Tail(s)) /\ Head(s) \notin Range(Tail(s))
<1>1. /\ Head(s) \in S /\ Head(s) = s[1] /\ 1 \in DOMAIN s
      /\ Tail(s) \in Seq(S)
      /\ DOMAIN s = 1 .. Len(s) /\ Len(s) \in Nat
      /\ DOMAIN Tail(s) = 1 .. Len(s) - 1
      /\ \A i \in 1 .. Len(s) - 1 : Tail(s)[i] = s[i + 1]
  BY HeadTailProperties, EmptySeq
<1>2. \A i \in DOMAIN Tail(s) : i + 1 \in DOMAIN s /\ i + 1 # 1 /\ Tail(s)[i] = s[i + 1]
  BY <1>1
<1>3. \A i, j \in DOMAIN Tail(s) : i + 1 = j + 1 => i = j
  BY <1>1
<1>4. Head(s) \in Range(s) /\ Range(Tail(s)) \subseteq Range(s)
  BY <1>1, <1>2 DEF Range
<1>5. ASSUME IsInjective(s) PROVE IsInjective(Tail(s)) /\ Head(s) \notin Range(Tail(s))
  BY <1>1, <1>2, <1>3, <1>5 DEF Range, IsInjective
<1> QED BY <1>1, <1>4, <1>5

\* What is done to an endpoint.

\* Two endpoints that differ in their queue only.
LikeBut(r, q) ==
    /\ q.state = r.state /\ q.sendAt = r.sendAt /\ q.sending = r.sending
    /\ q.receiveAt = r.receiveAt /\ q.mShutdown = r.mShutdown
    /\ q.mFlaggedForDestruction = r.mFlaggedForDestruction

LEMMA NoMessageIsNone == NoMessage \notin Message \cup {STATUS}
BY ClientsAssumption DEF NoMessage, Message, STATUS

LEMMA NewQueueIs == \A T : NewQueue \in Queue(T) /\ Shut(NewQueue) \in Queue(T)
<1>1. \A T : <<>> \in Seq(T)
  BY EmptySeq
<1> QED BY <1>1 DEF NewQueue, Queue, Shut

LEMMA NoEndpointIsSane == Sane(NoEndpoint) /\ Sane([NoEndpoint EXCEPT !.state = "gone"])
BY NewQueueIs DEF Sane, NoEndpoint, ClientRemoteEndpoint, NewQueue, Accepts

LEMMA EndpointIsSane ==
    ASSUME NEW valid \in BOOLEAN
    PROVE  /\ Sane(Endpoint(valid))
           /\ Endpoint(valid).state = "live"
           /\ ~Endpoint(valid).mFlaggedForDestruction
BY NewQueueIs DEF Sane, Endpoint, NoEndpoint, ClientRemoteEndpoint, NewQueue, Accepts

LEMMA QueuedIsSane ==
    ASSUME NEW r, Sane(r), NEW e \in Message \cup {STATUS}
    PROVE  Sane(Queued(r, e)) /\ LikeBut(r, Queued(r, e))
<1>1. r.mMessageQueue.items \in Seq(Message \cup {STATUS}) /\ r.mMessageQueue.mShutdown \in BOOLEAN
  BY DEF Sane, ClientRemoteEndpoint, Queue
<1>2. Append(r.mMessageQueue.items, e) \in Seq(Message \cup {STATUS})
  BY <1>1, AppendIs
<1> DEFINE q == IF Accepts(r.mMessageQueue) THEN Push(r.mMessageQueue, e) ELSE r.mMessageQueue
<1>3. q \in Queue(Message \cup {STATUS}) /\ q.mShutdown = r.mMessageQueue.mShutdown
  BY <1>1, <1>2 DEF Push, Queue, Sane, ClientRemoteEndpoint
<1>4. Queued(r, e) = [r EXCEPT !.mMessageQueue = q]
  BY DEF Queued, Sane, ClientRemoteEndpoint
<1> HIDE DEF q
<1> QED BY <1>3, <1>4 DEF Sane, LikeBut, ClientRemoteEndpoint, Accepts

LEMMA QueueAllIsSane ==
    ASSUME NEW r, Sane(r), NEW stash \in Seq(Message)
    PROVE  Sane(QueueAll(r, stash)) /\ LikeBut(r, QueueAll(r, stash))
<1>1. /\ r.mMessageQueue \in Queue(Message \cup {STATUS})
      /\ r.mMessageQueue.items \in Seq(Message \cup {STATUS}) /\ r.mMessageQueue.mShutdown \in BOOLEAN
  BY DEF Sane, ClientRemoteEndpoint, Queue
<1>2. stash \in Seq(Message \cup {STATUS})
  BY SeqDef
<1>3. r.mMessageQueue.items \o stash \in Seq(Message \cup {STATUS})
  BY <1>1, <1>2, ConcatProperties
<1> DEFINE its == IF Accepts(r.mMessageQueue) THEN r.mMessageQueue.items \o stash ELSE r.mMessageQueue.items
           q == [r.mMessageQueue EXCEPT !.items = its]
<1>4. its \in Seq(Message \cup {STATUS})
  BY <1>1, <1>3
<1> HIDE DEF its
<1>5. q \in Queue(Message \cup {STATUS}) /\ q.mShutdown = r.mMessageQueue.mShutdown
  BY <1>1, <1>4 DEF Queue
<1>6. QueueAll(r, stash) = [r EXCEPT !.mMessageQueue = q]
  BY DEF QueueAll, Sane, ClientRemoteEndpoint, its
<1> HIDE DEF q
<1> QED BY <1>5, <1>6 DEF Sane, LikeBut, ClientRemoteEndpoint, Accepts

LEMMA StoppedIsSane ==
    ASSUME NEW r, Sane(r), r.state = "live"
    PROVE  Sane(Stopped(r)) /\ Stopped(r).state = "stopped"
BY NewQueueIs DEF Sane, Stopped, ClientRemoteEndpoint, NewQueue, Shut, Accepts

LEMMA FlaggedIsSane ==
    ASSUME NEW r, Sane(r)
    PROVE  /\ Sane([r EXCEPT !.mFlaggedForDestruction = TRUE])
           /\ [r EXCEPT !.mFlaggedForDestruction = TRUE].state = r.state
           /\ [r EXCEPT !.mFlaggedForDestruction = TRUE].mFlaggedForDestruction
BY DEF Sane, ClientRemoteEndpoint

-----------------------------------------------------------------------------
(* The initial states, and steps that endpoints do not notice.             *)

LEMMA NoneIsNoClient == None \notin Clients
BY ClientsAssumption DEF None, Clients

LEMMA InvIsTyped == IInv => TypeOK
BY DEF IInv, EndpointsAreSane, Elsewhere, Sane, TypeOK

LEMMA InvInit == Init => IInv
<1> SUFFICES ASSUME Init PROVE IInv
  OBVIOUS
<1>1. \A S : <<>> \in Seq(S)
  BY EmptySeq
<1>2. DOMAIN backlog = {} /\ DOMAIN mEndpointsToDelete = {}
  BY DEF Init
<1>3. EndpointsAreSane /\ \A c \in Clients : ep[c].state = "none"
  BY NoEndpointIsSane DEF Init, EndpointsAreSane, Sane, NoEndpoint
<1>4. Elsewhere
  <2>1. routed \in [Sources -> 0 .. MaxMessages]
    BY ClientsAssumption DEF Init
  <2>2. \A t \in Threads : at[t] = "idle" /\ hold[t] = None
    BY DEF Init
  <2>3. at \in [Threads -> At] /\ hold \in [Threads -> Clients \cup {None}]
    BY DEF Init, At
  <2> QED BY <1>1, <2>1, <2>2, <2>3 DEF Init, Elsewhere, Threads
<1>5. NotAcceptedYet /\ FlaggedOnce
  BY <1>2, <1>3 DEF Init, NotAcceptedYet, FlaggedOnce, IsInjective, Range, Threads
<1>6. OnlyRouterCreates /\ LastOwner
  BY DEF Init, OnlyRouterCreates, LastOwner, Threads
<1>7. UsedIsAlive
  BY <1>2, <1>3 DEF Init, UsedIsAlive, Range
<1> QED BY <1>3, <1>4, <1>5, <1>6, <1>7 DEF IInv

\* Where a thread is while it creates or destroys an endpoint.
Making == {"checked", "constructed", "destroying"}

\* Who there is, and which clients are spoken of.
LEMMA Places ==
    ASSUME IInv
    PROVE  /\ None \notin Clients
           /\ "router" \in Threads /\ "service_to_router" \in Threads /\ Sources \subseteq Threads
           /\ "service_to_router" # "router" /\ "router" \notin Sources /\ "service_to_router" \notin Sources
           /\ mClients \in Clients \cup {None}
           /\ \A t \in Threads : hold[t] \in Clients \cup {None}
           /\ \A t \in Threads : at[t] \notin {"idle", "not found"} => hold[t] \in Clients /\ hold[t] # None
           /\ \A t \in Threads : at[t] \in {"idle", "not found"} => hold[t] = None
<1>1. "router" \in Threads /\ "service_to_router" \in Threads /\ Sources \subseteq Threads
  BY DEF Threads
<1>2. \A t \in Threads : hold[t] \in Clients \cup {None} /\ (hold[t] = None <=> at[t] \in {"idle", "not found"})
  BY DEF IInv, Elsewhere
<1>3. mClients \in Clients \cup {None}
  BY DEF IInv, Elsewhere
<1>4. "service_to_router" # "router" /\ "router" \notin Sources /\ "service_to_router" \notin Sources
  BY ClientsAssumption
<1> QED BY <1>1, <1>2, <1>3, <1>4, NoneIsNoClient

LEMMA Listed ==
    ASSUME IInv
    PROVE  Range(backlog) \subseteq Clients /\ Range(mEndpointsToDelete) \subseteq Clients
BY RangeIs DEF IInv, Elsewhere

\* A step that begins and ends no endpoint, and moves no pointer to one,
\* leaves who creates, who waits, who destroys and who is tracked as it was.
LEMMA Still ==
    ASSUME IInv, UNCHANGED <<backlog, mClients, hold>>,
           \A c \in Clients : ep'[c].state = ep[c].state,
           \A t \in Threads : at'[t] = at[t] \/ (at[t] \notin Making /\ at'[t] \notin Making)
    PROVE  /\ OnlyRouterCreates' /\ NotAcceptedYet'
           /\ \A c : Tracked(c)' <=> Tracked(c)
           /\ \A t \in Threads : at'[t] = "destroying" <=> at[t] = "destroying"
           /\ mClients # None => ep'[mClients].state = "live"
           /\ \A t \in Threads : at'[t] \notin {"destroying", "checked"} /\ hold[t] # None => ep'[hold[t]].state = "live"
           /\ \A c \in Clients : ep'[c].state = "stopped" => \E t \in Threads : at'[t] = "destroying" /\ hold[t] = c
<1>0. \A t \in Threads : /\ at'[t] = "checked" <=> at[t] = "checked"
                         /\ at'[t] = "constructed" <=> at[t] = "constructed"
                         /\ at'[t] = "destroying" <=> at[t] = "destroying"
  BY DEF Making
<1>p. /\ "router" \in Threads /\ mClients \in Clients \cup {None}
      /\ \A t \in Threads : hold[t] \in Clients \cup {None}
      /\ \A t \in Threads : at[t] \in {"checked", "destroying", "constructed"} => hold[t] \in Clients
  BY Places
<1>1. OnlyRouterCreates'
  <2>1. \A t \in Threads : at'[t] \in {"checked", "constructed"} => t = "router"
    BY <1>0 DEF IInv, OnlyRouterCreates
  <2>2. at'["router"] \in {"checked", "constructed"} => mClients' = None
    BY <1>0, <1>p DEF IInv, OnlyRouterCreates
  <2> QED BY <2>1, <2>2 DEF OnlyRouterCreates
<1>2. NotAcceptedYet'
  <2>1. IsInjective(backlog')
    BY DEF IInv, NotAcceptedYet
  <2>2. \A c \in Range(backlog') : c \in Clients /\ ep[c].state = "none" /\ hold["router"] # c
    BY Listed DEF IInv, NotAcceptedYet
  <2>3. \A c \in Range(backlog') : ep'[c].state = "none" /\ hold'["router"] # c
    BY <2>2
  <2>4. ASSUME at'["router"] = "checked" PROVE ep'[hold'["router"]].state = "none"
    <3>1. at["router"] = "checked" /\ hold["router"] \in Clients
      BY <1>0, <1>p, <2>4
    <3>2. ep[hold["router"]].state = "none"
      BY <3>1 DEF IInv, NotAcceptedYet
    <3> QED BY <3>1, <3>2
  <2> QED BY <2>1, <2>3, <2>4 DEF NotAcceptedYet
<1>3. \A c : Tracked(c)' <=> Tracked(c)
  BY <1>0, <1>p DEF Tracked
<1>4. mClients # None => ep'[mClients].state = "live"
  BY <1>p DEF IInv, UsedIsAlive
<1>5. ASSUME NEW t \in Threads, at'[t] \notin {"destroying", "checked"}, hold[t] # None
      PROVE  ep'[hold[t]].state = "live"
  <2>1. at[t] \notin {"destroying", "checked"} /\ hold[t] \in Clients
    BY <1>0, <1>p, <1>5
  <2> QED BY <1>5, <2>1 DEF IInv, UsedIsAlive
<1>6. ASSUME NEW c \in Clients, ep'[c].state = "stopped"
      PROVE  \E t \in Threads : at'[t] = "destroying" /\ hold[t] = c
  <2>1. PICK t \in Threads : at[t] = "destroying" /\ hold[t] = c
    BY <1>6 DEF IInv, UsedIsAlive
  <2> QED BY <2>1, <1>0
<1> QED BY <1>0, <1>1, <1>2, <1>3, <1>4, <1>5, <1>6

LEMMA Frame ==
    ASSUME IInv, EndpointsAreSane', Elsewhere',
           UNCHANGED <<backlog, mClients, mEndpointsToDelete, hold>>,
           \A c \in Clients : /\ ep'[c].state = ep[c].state
                             /\ ep'[c].mFlaggedForDestruction = ep[c].mFlaggedForDestruction,
           \A t \in Threads : at'[t] = at[t] \/ (at[t] \notin Making /\ at'[t] \notin Making)
    PROVE  IInv'
<1>1. /\ OnlyRouterCreates' /\ NotAcceptedYet'
      /\ \A c : Tracked(c)' <=> Tracked(c)
      /\ \A t \in Threads : at'[t] = "destroying" <=> at[t] = "destroying"
  BY Still
<1>2. \A c \in Range(mEndpointsToDelete) : c \in Clients
  BY Listed
<1>3. FlaggedOnce'
  BY <1>1, <1>2 DEF IInv, FlaggedOnce
<1>4. LastOwner'
  <2> SUFFICES ASSUME NEW t \in Threads, at'[t] = "destroying"
               PROVE  /\ ep'[hold[t]].state = "stopped" /\ mClients # hold[t]
                      /\ hold[t] \notin Range(mEndpointsToDelete)
                      /\ \A u \in Threads \ {t} : hold[u] # hold[t]
    BY DEF LastOwner
  <2>1. at[t] = "destroying" /\ hold[t] \in Clients
    BY <1>1, Places
  <2>2. /\ ep[hold[t]].state = "stopped" /\ mClients # hold[t]
        /\ hold[t] \notin Range(mEndpointsToDelete)
        /\ \A u \in Threads \ {t} : hold[u] # hold[t]
    BY <2>1 DEF IInv, LastOwner
  <2> QED BY <2>1, <2>2
<1>5. UsedIsAlive'
  <2>1. \A c \in Range(mEndpointsToDelete') : ep'[c].state = "live"
    BY <1>2 DEF IInv, UsedIsAlive
  <2> QED BY <2>1, Still DEF UsedIsAlive
<1> QED BY <1>1, <1>3, <1>4, <1>5 DEF IInv

\* An endpoint that is there is flagged.
LEMMA FlagStep ==
    ASSUME IInv, EndpointsAreSane', Elsewhere', UNCHANGED <<backlog, mClients, hold>>,
           \A t \in Threads : at'[t] = at[t] \/ (at[t] \notin Making /\ at'[t] \notin Making),
           NEW c \in Clients, NEW r, Sane(r), r.state = "live", ep[c].state = "live",
           r.mFlaggedForDestruction = ep[c].mFlaggedForDestruction, Flag(c, r)
    PROVE  IInv'
<1>1. /\ ep'[c].state = "live" /\ ep'[c].mFlaggedForDestruction
      /\ \A d \in Clients \ {c} : ep'[d] = ep[d]
  BY FlaggedIsSane DEF Flag, Set, IInv, EndpointsAreSane
<1>2. \A d \in Clients : ep'[d].state = ep[d].state
  BY <1>1
<1>3. /\ OnlyRouterCreates' /\ NotAcceptedYet'
      /\ \A d : Tracked(d)' <=> Tracked(d)
      /\ \A t \in Threads : at'[t] = "destroying" <=> at[t] = "destroying"
  BY <1>2, Still
<1>4. /\ IsInjective(mEndpointsToDelete')
      /\ \A d \in Range(mEndpointsToDelete') : d \in Range(mEndpointsToDelete) \/ (d = c /\ Tracked(c))
  <2>1. CASE ep[c].mFlaggedForDestruction
    BY <2>1 DEF Flag, IInv, FlaggedOnce
  <2>2. CASE ~ep[c].mFlaggedForDestruction
    <3>1. Tracked(c) /\ c \notin Range(mEndpointsToDelete) /\ IsInjective(mEndpointsToDelete)
      BY <2>2 DEF IInv, FlaggedOnce
    <3>2. mEndpointsToDelete' = Append(mEndpointsToDelete, c) /\ mEndpointsToDelete \in Seq(Clients)
      BY <2>2 DEF Flag, IInv, Elsewhere
    <3>3. Range(mEndpointsToDelete') = Range(mEndpointsToDelete) \cup {c} /\ IsInjective(mEndpointsToDelete')
      BY <3>1, <3>2, AppendIs
    <3> QED BY <3>1, <3>3
  <2> QED BY <2>1, <2>2
<1>5. \A d \in Range(mEndpointsToDelete') : d \in Clients /\ ep[d].state = "live"
  BY <1>4, Listed DEF IInv, UsedIsAlive
<1>6. FlaggedOnce'
  <2>1. ASSUME NEW d \in Range(mEndpointsToDelete') PROVE ep'[d].mFlaggedForDestruction /\ Tracked(d)'
    <3>1. CASE d = c /\ Tracked(c)
      BY <1>1, <1>3, <3>1
    <3>2. CASE d \in Range(mEndpointsToDelete)
      <4>1. ep[d].mFlaggedForDestruction /\ Tracked(d) /\ d \in Clients
        BY <3>2, Listed DEF IInv, FlaggedOnce
      <4> QED BY <1>1, <1>3, <4>1
    <3> QED BY <1>4, <2>1, <3>1, <3>2
  <2>2. ASSUME NEW d \in Clients, ep'[d].state = "live", ~Tracked(d)' PROVE ep'[d].mFlaggedForDestruction
    BY <1>1, <1>2, <1>3, <2>2 DEF IInv, FlaggedOnce
  <2> QED BY <1>4, <2>1, <2>2 DEF FlaggedOnce
<1>7. LastOwner'
  <2> SUFFICES ASSUME NEW t \in Threads, at'[t] = "destroying"
               PROVE  /\ ep'[hold[t]].state = "stopped" /\ mClients # hold[t]
                      /\ hold[t] \notin Range(mEndpointsToDelete')
                      /\ \A u \in Threads \ {t} : hold[u] # hold[t]
    BY DEF LastOwner
  <2>1. at[t] = "destroying" /\ hold[t] \in Clients
    BY <1>3, Places
  <2>2. /\ ep[hold[t]].state = "stopped" /\ mClients # hold[t]
        /\ \A u \in Threads \ {t} : hold[u] # hold[t]
    BY <2>1 DEF IInv, LastOwner
  <2> QED BY <1>2, <1>5, <2>1, <2>2
<1>8. UsedIsAlive'
  <2>1. \A d \in Range(mEndpointsToDelete') : ep'[d].state = "live"
    BY <1>2, <1>5
  <2> QED BY <1>2, <2>1, Still DEF UsedIsAlive
<1> QED BY <1>3, <1>6, <1>7, <1>8 DEF IInv

-----------------------------------------------------------------------------
(* Types.                                                                  *)

LEMMA StepIs ==
    ASSUME IInv, NEW t \in Threads, NEW from, NEW to \in At, Step(t, from, to)
    PROVE  /\ at' \in [Threads -> At]
           /\ at[t] = from /\ at'[t] = to
           /\ \A u \in Threads \ {t} : at'[u] = at[u]
BY DEF Step, IInv, Elsewhere

LEMMA HoldIs ==
    ASSUME IInv, NEW t \in Threads, NEW c \in Clients \cup {None}, Hold(t, c)
    PROVE  /\ hold' \in [Threads -> Clients \cup {None}]
           /\ hold'[t] = c
           /\ \A u \in Threads \ {t} : hold'[u] = hold[u]
BY DEF Hold, IInv, Elsewhere

LEMMA SaneSet ==
    ASSUME IInv, NEW c \in Clients, NEW r, Sane(r), Set(c, r)
    PROVE  /\ EndpointsAreSane'
           /\ ep'[c] = r
           /\ \A d \in Clients \ {c} : ep'[d] = ep[d]
BY DEF IInv, EndpointsAreSane, Sane, Set

LEMMA SaneSame == ASSUME IInv, UNCHANGED ep PROVE EndpointsAreSane'
BY DEF IInv, EndpointsAreSane, Sane

LEMMA CloseIs ==
    ASSUME IInv, NEW c \in Clients, Close(c)
    PROVE  closed' \subseteq Clients /\ got' \in [Clients -> Seq(Message)]
<1>1. <<>> \in Seq(Message)
  BY EmptySeq
<1> QED BY <1>1 DEF IInv, Elsewhere, Close

LEMMA FlagIs ==
    ASSUME IInv, NEW c \in Clients, NEW r, Sane(r), Flag(c, r)
    PROVE  EndpointsAreSane' /\ mEndpointsToDelete' \in Seq(Clients)
<1>1. EndpointsAreSane'
  BY FlaggedIsSane, SaneSet DEF Flag
<1>2. mEndpointsToDelete' \in Seq(Clients)
  BY AppendIs DEF Flag, IInv, Elsewhere
<1> QED BY <1>1, <1>2

\* The endpoint that Release leaves, and where the thread is.
LEMMA ReleaseIs ==
    ASSUME IInv, NEW t \in Threads, NEW c \in Clients, NEW r,
           hold[t] = c, Sane(r), r.state = "live", Release(t, c, r), UNCHANGED backlog
    PROVE  /\ EndpointsAreSane'
           /\ closed' \subseteq Clients /\ got' \in [Clients -> Seq(Message)]
           /\ at' \in [Threads -> At] /\ hold' \in [Threads -> Clients \cup {None}]
           /\ \A u \in Threads : hold'[u] = None <=> at'[u] \in {"idle", "not found"}
<1>1. CASE Held(c, t)
  <2>1. /\ Set(c, r) /\ Hold(t, None) /\ at' = [at EXCEPT ![t] = "idle"]
        /\ UNCHANGED connections
    BY <1>1 DEF Release
  <2>2. EndpointsAreSane'
    BY <2>1, SaneSet
  <2>3. hold' \in [Threads -> Clients \cup {None}] /\ hold'[t] = None /\ \A u \in Threads \ {t} : hold'[u] = hold[u]
    BY <2>1, HoldIs
  <2> QED BY <2>1, <2>2, <2>3 DEF IInv, Elsewhere, connections, At
<1>2. CASE ~Held(c, t)
  <2>1. /\ Set(c, Stopped(r)) /\ Close(c) /\ at' = [at EXCEPT ![t] = "destroying"]
        /\ UNCHANGED hold
    BY <1>2 DEF Release
  <2>2. EndpointsAreSane'
    BY <2>1, SaneSet, StoppedIsSane
  <2>3. closed' \subseteq Clients /\ got' \in [Clients -> Seq(Message)]
    BY <2>1, CloseIs
  <2> QED BY <2>1, <2>2, <2>3, NoneIsNoClient DEF IInv, Elsewhere, At
<1> QED BY <1>1, <1>2

\* What an action of the router or of the node service leaves well typed.
Typed == EndpointsAreSane /\ Elsewhere

LEMMA NodeServiceTyped ==
    ASSUME IInv, HandleNotice \/ EndSession \/ DeleteSession \/ DeleteRoutingData
    PROVE  Typed'
<1>1. EndpointsAreSane'
  BY SaneSame DEF HandleNotice, EndSession, DeleteSession, ShutdownSession, BecomeDefunct,
     DeleteRoutingData
<1>2. CASE HandleNotice
  <2>1. toRouter' \in Seq({"kick", "delete"})
    BY <1>2, AppendIs DEF HandleNotice, IInv, Elsewhere
  <2>2. toService' \in Seq(Clients)
    BY <1>2, TailIs DEF HandleNotice, IInv, Elsewhere
  <2> QED BY <1>1, <1>2, <2>1, <2>2 DEF HandleNotice, IInv, Elsewhere, Typed, tables, socketVars, connections, threadVars
<1>3. CASE EndSession
  <2>1. toRouter' \in Seq({"kick", "delete"})
    BY <1>3, AppendIs DEF EndSession, IInv, Elsewhere
  <2> QED BY <1>1, <1>3, <2>1 DEF EndSession, IInv, Elsewhere, Typed, tables, socketVars, connections, threadVars
<1>4. CASE ShutdownSession
  <2>1. toRouter' \in Seq({"kick", "delete"})
    BY <1>4, AppendIs DEF ShutdownSession, IInv, Elsewhere
  <2> QED BY <1>1, <1>4, <2>1 DEF ShutdownSession, IInv, Elsewhere, Typed, tables, socketVars, connections, threadVars
<1>5. CASE DeleteRoutingData
  <2>1. toRouter' \in Seq({"kick", "delete"})
    BY <1>5, TailIs DEF DeleteRoutingData, IInv, Elsewhere
  <2> QED BY <1>1, <1>5, <2>1 DEF DeleteRoutingData, IInv, Elsewhere, Typed, serviceVars, socketVars, connections, threadVars
<1>6. CASE BecomeDefunct
  BY <1>1, <1>6 DEF BecomeDefunct, IInv, Elsewhere, Typed, tables, socketVars, connections, threadVars
<1> QED BY <1>2, <1>3, <1>4, <1>5, <1>6 DEF DeleteSession

LEMMA ClientsTyped ==
    ASSUME IInv, NEW c \in Clients, ClientConnects(c) \/ ClientLeaves(c)
    PROVE  Typed'
<1>1. EndpointsAreSane'
  BY SaneSame DEF ClientConnects, ClientLeaves
<1>2. CASE ClientConnects(c)
  <2>1. backlog' \in Seq(Clients)
    BY <1>2, AppendIs DEF ClientConnects, IInv, Elsewhere
  <2> QED BY <1>1, <1>2, <2>1 DEF ClientConnects, IInv, Elsewhere, Typed, serviceVars, tables, connections, threadVars
<1>3. CASE ClientLeaves(c)
  <2>1. closed' \subseteq Clients /\ got' \in [Clients -> Seq(Message)]
    BY <1>3, CloseIs DEF ClientLeaves
  <2> QED BY <1>1, <1>3, <2>1 DEF ClientLeaves, IInv, Elsewhere, Typed, serviceVars, tables, threadVars
<1> QED BY <1>2, <1>3

\* The threads of an endpoint change its send and receive state.
LEMMA PoppedIsSane ==
    ASSUME NEW r, Sane(r), r.sendAt = "popping", Poppable(r.mMessageQueue)
    PROVE  Sane([r EXCEPT !.sendAt = "sending", !.sending = First(r.mMessageQueue),
                          !.mMessageQueue = Pop(r.mMessageQueue)])
<1>1. /\ r.mMessageQueue \in Queue(Message \cup {STATUS}) /\ r \in ClientRemoteEndpoint
      /\ r.mMessageQueue.items \in Seq(Message \cup {STATUS}) /\ r.mMessageQueue.items # <<>>
  BY DEF Sane, ClientRemoteEndpoint, Queue, Poppable
<1>2. /\ Head(r.mMessageQueue.items) \in Message \cup {STATUS}
      /\ Tail(r.mMessageQueue.items) \in Seq(Message \cup {STATUS})
  BY <1>1, TailIs
<1>3. First(r.mMessageQueue) \in Message \cup {STATUS}
  BY <1>2 DEF First
<1>4. /\ Pop(r.mMessageQueue) \in Queue(Message \cup {STATUS})
      /\ Pop(r.mMessageQueue).mShutdown = r.mMessageQueue.mShutdown
  BY <1>1, <1>2 DEF Pop, Queue
<1>5. r.state \notin {"none", "gone"}
  BY DEF Sane
<1> HIDE DEF First, Pop
<1> QED BY <1>1, <1>3, <1>4, <1>5, NoMessageIsNone DEF Sane, ClientRemoteEndpoint, Accepts

\* A receive thread that reads, or routes what it has read.
Receives(c) == ReceiveEnvelope(c) \/ RouteReceived(c)

LEMMA ReceivesIs ==
    ASSUME NEW c \in Clients, Sane(ep[c]), ep \in [Clients -> ClientRemoteEndpoint], Receives(c)
    PROVE  /\ \E r : /\ Set(c, r) /\ Sane(r)
                    /\ r.state = ep[c].state /\ r.sending = ep[c].sending
                    /\ r.mMessageQueue = ep[c].mMessageQueue
                    /\ r.mFlaggedForDestruction = ep[c].mFlaggedForDestruction
           /\ ep[c].state \notin {"none", "gone"}
           /\ UNCHANGED <<serviceVars, toRouter, tables, socketVars, mEndpointsToDelete, threadVars>>
<1> DEFINE r(to) == [ep[c] EXCEPT !.receiveAt = to]
<1>1. PICK to \in {"reading", "routing"} : Set(c, r(to))
  BY DEF Receives, ReceiveEnvelope, RouteReceived
<1>2. ep[c].receiveAt # "done"
  BY DEF Receives, ReceiveEnvelope, RouteReceived
<1>3. ep[c].state \notin {"none", "gone"}
  BY <1>2 DEF Sane
<1>4. /\ Sane(r(to))
      /\ r(to).state = ep[c].state /\ r(to).sending = ep[c].sending
      /\ r(to).mMessageQueue = ep[c].mMessageQueue
      /\ r(to).mFlaggedForDestruction = ep[c].mFlaggedForDestruction
  BY <1>3 DEF Sane, ClientRemoteEndpoint
<1> HIDE DEF r
<1> QED BY <1>1, <1>3, <1>4 DEF Receives, ReceiveEnvelope, RouteReceived

LEMMA ReceiveDone == ASSUME NEW r, Sane(r) PROVE Sane([r EXCEPT !.receiveAt = "done"])
BY DEF Sane, ClientRemoteEndpoint

LEMMA EndpointThreadTyped ==
    ASSUME IInv, NEW c \in Clients, EndpointThread(c)
    PROVE  Typed'
<1> USE DEF IInv, Elsewhere, Typed, serviceVars, tables, threadVars
<1>1. Sane(ep[c])
  BY DEF EndpointsAreSane
<1>2. CASE PopMessage(c)
  <2>1. EndpointsAreSane'
    <3>1. CASE Set(c, [ep[c] EXCEPT !.sendAt = "done"])
      <4>1. Sane([ep[c] EXCEPT !.sendAt = "done"])
        BY <1>1, <1>2 DEF PopMessage, Sane, ClientRemoteEndpoint
      <4> QED BY <3>1, <4>1, SaneSet
    <3>2. CASE /\ Poppable(ep[c].mMessageQueue)
               /\ Set(c, [ep[c] EXCEPT !.sendAt = "sending", !.sending = First(ep[c].mMessageQueue),
                                       !.mMessageQueue = Pop(ep[c].mMessageQueue)])
      BY <1>1, <1>2, <3>2, PoppedIsSane, SaneSet DEF PopMessage
    <3> QED BY <1>2, <3>1, <3>2 DEF PopMessage
  <2> QED BY <1>2, <2>1 DEF PopMessage, socketVars, connections
<1>3. CASE SendEnvelope(c)
  <2> DEFINE r == [ep[c] EXCEPT !.sending = NoMessage]
             done == [r EXCEPT !.sendAt = "done"]
             popping == [r EXCEPT !.sendAt = "popping"]
  <2>1. Sane(done) /\ Sane(popping)
    BY <1>1, <1>3 DEF SendEnvelope, Sane, ClientRemoteEndpoint
  <2> HIDE DEF done, popping
  <2>2. CASE Set(c, done) /\ UNCHANGED <<got, mEndpointsToDelete>>
    <3>1. EndpointsAreSane'
      BY <2>1, <2>2, SaneSet
    <3> QED BY <1>3, <2>2, <3>1 DEF SendEnvelope
  <2>3. CASE /\ Set(c, popping) /\ UNCHANGED mEndpointsToDelete
             /\ got' = IF c \notin closed /\ ep[c].sending # STATUS
                       THEN [got EXCEPT ![c] = Append(@, ep[c].sending)] ELSE got
    <3>1. EndpointsAreSane'
      BY <2>1, <2>3, SaneSet
    <3>2. ep[c].sending \in Message \cup {STATUS}
      BY <1>1, <1>3, NoMessageIsNone DEF SendEnvelope, Sane, ClientRemoteEndpoint
    <3>3. got' \in [Clients -> Seq(Message)]
      <4>1. CASE ep[c].sending # STATUS
        <5>1. Append(got[c], ep[c].sending) \in Seq(Message)
          BY <3>2, <4>1, AppendIs
        <5> QED BY <2>3, <5>1
      <4> QED BY <2>3, <4>1
    <3> QED BY <1>3, <2>3, <3>1, <3>3 DEF SendEnvelope
  <2>4. CASE Flag(c, done) /\ UNCHANGED got
    <3>1. EndpointsAreSane' /\ mEndpointsToDelete' \in Seq(Clients)
      BY <2>1, <2>4, FlagIs
    <3> QED BY <1>3, <2>4, <3>1 DEF SendEnvelope
  <2> QED BY <1>3, <2>2, <2>3, <2>4 DEF SendEnvelope, done, popping
<1>4. CASE ReceiveEnds(c)
  <2> DEFINE done == [ep[c] EXCEPT !.receiveAt = "done"]
  <2>1. Sane(done)
    BY <1>1, ReceiveDone
  <2> HIDE DEF done
  <2>2. CASE Set(c, done) /\ UNCHANGED mEndpointsToDelete
    <3>1. EndpointsAreSane'
      BY <2>1, <2>2, SaneSet
    <3> QED BY <1>4, <2>2, <3>1 DEF ReceiveEnds, socketVars, connections
  <2>3. CASE Flag(c, done)
    <3>1. EndpointsAreSane' /\ mEndpointsToDelete' \in Seq(Clients)
      BY <2>1, <2>3, FlagIs
    <3> QED BY <1>4, <2>3, <3>1 DEF ReceiveEnds, socketVars, connections
  <2> QED BY <1>4, <2>2, <2>3 DEF ReceiveEnds, done
<1>5. CASE Receives(c)
  <2>1. EndpointsAreSane'
    BY <1>1, <1>5, ReceivesIs, SaneSet DEF EndpointsAreSane
  <2> QED BY <1>1, <1>5, <2>1, ReceivesIs DEF socketVars, connections, EndpointsAreSane
<1> QED BY <1>2, <1>3, <1>4, <1>5 DEF EndpointThread, Receive, Receives

LEMMA NextNumber ==
    ASSUME NEW n, NEW top \in Nat, n \in 0 .. top, n < top
    PROVE  n + 1 \in 1 .. top /\ n + 1 \in 0 .. top
OBVIOUS

LEMMA NextMessage ==
    ASSUME IInv, NEW s \in Sources, at[s] \in {"found", "not found"}
    PROVE  /\ <<s, routed[s] + 1>> \in Message
           /\ [routed EXCEPT ![s] = @ + 1] \in [Sources -> 0 .. MaxMessages]
<1>1. MaxMessages \in Nat
  BY ClientsAssumption
<1>2. routed \in [Sources -> 0 .. MaxMessages] /\ routed[s] < MaxMessages
  BY DEF IInv, Elsewhere
<1>3. routed[s] \in 0 .. MaxMessages
  BY <1>2
<1>4. routed[s] + 1 \in 1 .. MaxMessages /\ routed[s] + 1 \in 0 .. MaxMessages
  BY <1>1, <1>2, <1>3, NextNumber
<1> QED BY <1>2, <1>4 DEF Message

LEMMA SourceTyped ==
    ASSUME IInv, NEW s \in Sources, FindClient(s) \/ QueueToClient(s) \/ StashEnvelope(s)
    PROVE  Typed'
<1> USE DEF Typed, serviceVars, tables, socketVars, connections, threadVars
<1>1. s \in Threads
  BY Places
<1>2. CASE FindClient(s)
  <2>1. EndpointsAreSane'
    BY <1>2, SaneSame DEF FindClient
  <2>2. mClients \in Clients \cup {None}
    BY Places
  <2>3. /\ at' \in [Threads -> At] /\ at'[s] = IF mClients = None THEN "not found" ELSE "found"
        /\ \A u \in Threads \ {s} : at'[u] = at[u]
    BY <1>1, <1>2, StepIs DEF FindClient, At
  <2>4. /\ hold' \in [Threads -> Clients \cup {None}] /\ hold'[s] = mClients
        /\ \A u \in Threads \ {s} : hold'[u] = hold[u]
    BY <1>1, <1>2, <2>2, HoldIs DEF FindClient
  <2>5. \A u \in Threads : hold'[u] = None <=> at'[u] \in {"idle", "not found"}
    <3>1. \A u \in Threads \ {s} : hold'[u] = None <=> at'[u] \in {"idle", "not found"}
      BY <2>3, <2>4 DEF IInv, Elsewhere
    <3>2. hold'[s] = None <=> at'[s] \in {"idle", "not found"}
      BY <2>3, <2>4
    <3> QED BY <3>1, <3>2
  <2>6. \A u \in Sources : at'[u] \in {"found", "not found"} => routed[u] < MaxMessages
    <3>1. routed[s] < MaxMessages
      BY <1>2 DEF FindClient
    <3> QED BY <2>3, <3>1, Places DEF IInv, Elsewhere
  <2> QED BY <1>2, <2>1, <2>3, <2>4, <2>5, <2>6 DEF FindClient, IInv, Elsewhere
<1>4. CASE QueueToClient(s)
  <2> DEFINE m == <<s, routed[s] + 1>>
             c == hold[s]
             r == Queued(ep[c], m)
  <2>1. at[s] = "found" /\ c \in Clients
    BY <1>1, <1>4, Places DEF QueueToClient
  <2>2. ep[c].state = "live"
    BY <1>1, <2>1, NoneIsNoClient DEF IInv, UsedIsAlive
  <2>3. Sane(r) /\ r.state = "live"
    BY <2>1, <2>2, NextMessage, QueuedIsSane DEF IInv, EndpointsAreSane, LikeBut
  <2>4. /\ Release(s, c, r) /\ UNCHANGED backlog
        /\ routed' = [routed EXCEPT ![s] = @ + 1]
        /\ UNCHANGED <<serviceVars, toRouter, tables, backlog, mEndpointsToDelete>>
    BY <1>4 DEF QueueToClient
  <2> HIDE DEF r, m
  <2>5. /\ EndpointsAreSane'
        /\ closed' \subseteq Clients /\ got' \in [Clients -> Seq(Message)]
        /\ at' \in [Threads -> At] /\ hold' \in [Threads -> Clients \cup {None}]
        /\ \A u \in Threads : hold'[u] = None <=> at'[u] \in {"idle", "not found"}
    BY <1>1, <2>1, <2>3, <2>4, ReleaseIs
  <2>6. routed' \in [Sources -> 0 .. MaxMessages]
    BY <2>1, <2>4, NextMessage
  <2>7. \A u \in Sources : at'[u] \in {"found", "not found"} => routed'[u] < MaxMessages
    <3>1. at'[s] \notin {"found", "not found"} /\ \A u \in Threads \ {s} : at'[u] = at[u]
      BY <1>1, <2>4 DEF Release, IInv, Elsewhere
    <3> QED BY <2>4, <3>1, Places DEF IInv, Elsewhere
  <2> QED BY <2>4, <2>5, <2>6, <2>7 DEF IInv, Elsewhere
<1>5. CASE StashEnvelope(s)
  <2> DEFINE m == <<s, routed[s] + 1>>
  <2>1. /\ at[s] = "not found" /\ at' \in [Threads -> At] /\ at'[s] = "idle"
        /\ \A u \in Threads \ {s} : at'[u] = at[u]
    BY <1>1, <1>5, StepIs DEF StashEnvelope, At
  <2>3. m \in Message /\ routed' \in [Sources -> 0 .. MaxMessages]
    BY <1>5, <2>1, NextMessage DEF StashEnvelope
  <2>4. Stash(m)
    BY <1>5 DEF StashEnvelope
  <2> HIDE DEF m
  <2>5. EndpointsAreSane' /\ mPendingEnvelopes' \in Seq(Message)
    <3>1. CASE mClients # None
      <4>1. mClients \in Clients /\ Sane(ep[mClients])
        BY <3>1, Places DEF IInv, EndpointsAreSane
      <4>2. Sane(Queued(ep[mClients], m))
        BY <2>3, <4>1, QueuedIsSane
      <4>3. Set(mClients, Queued(ep[mClients], m)) /\ UNCHANGED mPendingEnvelopes
        BY <2>4, <3>1 DEF Stash
      <4> QED BY <4>1, <4>2, <4>3, SaneSet DEF IInv, Elsewhere
    <3>2. CASE mClients = None
      <4>1. mPendingEnvelopes' = Append(mPendingEnvelopes, m) /\ UNCHANGED ep
        BY <2>4, <3>2 DEF Stash
      <4> QED BY <2>3, <4>1, AppendIs, SaneSame DEF IInv, Elsewhere
    <3> QED BY <3>1, <3>2
  <2>6. \A u \in Threads : hold'[u] = None <=> at'[u] \in {"idle", "not found"}
    BY <1>5, <2>1 DEF StashEnvelope, IInv, Elsewhere
  <2>7. \A u \in Sources : at'[u] \in {"found", "not found"} => routed'[u] < MaxMessages
    BY <1>5, <2>1, Places DEF StashEnvelope, IInv, Elsewhere
  <2> QED BY <1>5, <2>1, <2>3, <2>5, <2>6, <2>7 DEF StashEnvelope, IInv, Elsewhere
<1> QED BY <1>2, <1>4, <1>5

\* Where one thread t goes, and what it then holds.
LEMMA ThreadIs ==
    ASSUME IInv, NEW t \in Threads,
           at' \in [Threads -> At], \A u \in Threads \ {t} : at'[u] = at[u],
           hold' \in [Threads -> Clients \cup {None}], \A u \in Threads \ {t} : hold'[u] = hold[u],
           hold'[t] = None <=> at'[t] \in {"idle", "not found"},
           t \notin Sources \/ at'[t] \notin {"found", "not found"},
           UNCHANGED routed
    PROVE  /\ \A u \in Threads : hold'[u] = None <=> at'[u] \in {"idle", "not found"}
           /\ \A s \in Sources : at'[s] \in {"found", "not found"} => routed'[s] < MaxMessages
<1>1. \A u \in Threads \ {t} : hold'[u] = None <=> at'[u] \in {"idle", "not found"}
  BY DEF IInv, Elsewhere
<1>2. ASSUME NEW s \in Sources, at'[s] \in {"found", "not found"} PROVE routed'[s] < MaxMessages
  <2>1. s # t /\ s \in Threads
    BY <1>2, Places
  <2>2. at[s] \in {"found", "not found"}
    BY <1>2, <2>1
  <2> QED BY <2>2 DEF IInv, Elsewhere
<1> QED BY <1>1, <1>2

LEMMA DestroyedTyped ==
    ASSUME IInv, NEW t \in Threads, Destroyed(t)
    PROVE  Typed'
<1>1. hold[t] \in Clients /\ Step(t, "destroying", "idle") /\ Hold(t, None)
  BY Places DEF Destroyed, Step
<1>2. /\ at' \in [Threads -> At] /\ at'[t] = "idle" /\ \A u \in Threads \ {t} : at'[u] = at[u]
      /\ hold' \in [Threads -> Clients \cup {None}] /\ hold'[t] = None
      /\ \A u \in Threads \ {t} : hold'[u] = hold[u]
  BY <1>1, StepIs, HoldIs DEF At
<1>3. EndpointsAreSane'
  BY <1>1, NoEndpointIsSane, SaneSet DEF Destroyed
<1>4. /\ \A u \in Threads : hold'[u] = None <=> at'[u] \in {"idle", "not found"}
      /\ \A s \in Sources : at'[s] \in {"found", "not found"} => routed'[s] < MaxMessages
  BY <1>2, ThreadIs DEF Destroyed
<1> QED BY <1>2, <1>3, <1>4 DEF Destroyed, Typed, IInv, Elsewhere, serviceVars, tables, socketVars, connections

LEMMA ServiceToRouterTyped ==
    ASSUME IInv, KickClient \/ FlagKicked \/ ReleaseKicked \/ ClearStashedEnvelopes
    PROVE  Typed'
<1> DEFINE t == "service_to_router"
<1> USE DEF Typed, serviceVars, tables, socketVars, connections
<1>1. t \in Threads /\ t \notin Sources
  BY Places
<1>2. CASE KickClient
  <2>1. /\ at' \in [Threads -> At] /\ \A u \in Threads \ {t} : at'[u] = at[u]
        /\ at'[t] = IF mClients = None THEN "not found" ELSE "status queued"
    BY <1>1, <1>2, StepIs DEF KickClient, At
  <2>2. /\ hold' \in [Threads -> Clients \cup {None}] /\ \A u \in Threads \ {t} : hold'[u] = hold[u]
        /\ hold'[t] = mClients
    BY <1>1, <1>2, Places, HoldIs DEF KickClient
  <2>3. hold'[t] = None <=> at'[t] \in {"idle", "not found"}
    BY <2>1, <2>2
  <2>4. /\ \A u \in Threads : hold'[u] = None <=> at'[u] \in {"idle", "not found"}
        /\ \A s \in Sources : at'[s] \in {"found", "not found"} => routed'[s] < MaxMessages
    BY <1>1, <1>2, <2>1, <2>2, <2>3, ThreadIs DEF KickClient
  <2>5. EndpointsAreSane'
    <3>1. CASE mClients = None
      BY <1>2, <3>1, SaneSame DEF KickClient
    <3>2. CASE mClients # None
      <4>1. mClients \in Clients /\ Sane(ep[mClients])
        BY <3>2, Places DEF IInv, EndpointsAreSane
      <4>2. Set(mClients, Queued(ep[mClients], STATUS))
        BY <1>2, <3>2 DEF KickClient
      <4> QED BY <4>1, <4>2, QueuedIsSane, SaneSet
    <3> QED BY <3>1, <3>2
  <2>6. toRouter' \in Seq({"kick", "delete"})
    BY <1>2, TailIs DEF KickClient, IInv, Elsewhere
  <2> QED BY <1>2, <2>1, <2>2, <2>4, <2>5, <2>6 DEF KickClient, IInv, Elsewhere
<1>3. CASE FlagKicked
  <2>1. /\ at' \in [Threads -> At] /\ \A u \in Threads \ {t} : at'[u] = at[u]
        /\ at'[t] = "flagged" /\ at[t] = "status queued"
    BY <1>1, <1>3, StepIs DEF FlagKicked, At
  <2>2. hold[t] \in Clients /\ hold[t] # None
    BY <1>1, <2>1, Places
  <2>3. /\ \A u \in Threads : hold'[u] = None <=> at'[u] \in {"idle", "not found"}
        /\ \A s \in Sources : at'[s] \in {"found", "not found"} => routed'[s] < MaxMessages
    <3>1. hold' = hold /\ hold \in [Threads -> Clients \cup {None}] /\ routed' = routed
      BY <1>3 DEF FlagKicked, IInv, Elsewhere
    <3> QED BY <1>1, <2>1, <2>2, <3>1, ThreadIs
  <2>4. EndpointsAreSane' /\ mEndpointsToDelete' \in Seq(Clients)
    BY <1>3, <2>2, FlagIs DEF FlagKicked, IInv, EndpointsAreSane
  <2> QED BY <1>3, <2>1, <2>3, <2>4 DEF FlagKicked, IInv, Elsewhere
<1>4. CASE ReleaseKicked
  <2>1. at[t] = "flagged" /\ hold[t] \in Clients /\ hold[t] # None
    BY <1>1, <1>4, Places DEF ReleaseKicked
  <2>2. ep[hold[t]].state = "live" /\ Sane(ep[hold[t]])
    BY <1>1, <2>1 DEF IInv, UsedIsAlive, EndpointsAreSane
  <2>3. /\ Release(t, hold[t], ep[hold[t]])
        /\ UNCHANGED <<serviceVars, toRouter, tables, backlog, mEndpointsToDelete, routed>>
    BY <1>4 DEF ReleaseKicked
  <2>4. /\ EndpointsAreSane'
        /\ closed' \subseteq Clients /\ got' \in [Clients -> Seq(Message)]
        /\ at' \in [Threads -> At] /\ hold' \in [Threads -> Clients \cup {None}]
        /\ \A u \in Threads : hold'[u] = None <=> at'[u] \in {"idle", "not found"}
    BY <1>1, <2>1, <2>2, <2>3, ReleaseIs
  <2>5. \A s \in Sources : at'[s] \in {"found", "not found"} => routed'[s] < MaxMessages
    <3>1. \A u \in Threads \ {t} : at'[u] = at[u]
      BY <1>1, <2>3 DEF Release, IInv, Elsewhere
    <3> QED BY <1>1, <2>3, <3>1, Places DEF IInv, Elsewhere
  <2> QED BY <2>3, <2>4, <2>5 DEF IInv, Elsewhere
<1>5. CASE ClearStashedEnvelopes
  <2>1. /\ at' \in [Threads -> At] /\ \A u \in Threads \ {t} : at'[u] = at[u]
        /\ at'[t] = "idle" /\ at[t] = "not found"
    BY <1>1, <1>5, StepIs DEF ClearStashedEnvelopes, At
  <2>2. /\ \A u \in Threads : hold'[u] = None <=> at'[u] \in {"idle", "not found"}
        /\ \A s \in Sources : at'[s] \in {"found", "not found"} => routed'[s] < MaxMessages
    <3>1. /\ hold' = hold /\ hold \in [Threads -> Clients \cup {None}] /\ routed' = routed
          /\ hold[t] = None
      BY <1>1, <1>5, <2>1 DEF ClearStashedEnvelopes, IInv, Elsewhere
    <3> QED BY <1>1, <2>1, <3>1, ThreadIs
  <2>3. EndpointsAreSane' /\ mPendingEnvelopes' \in Seq(Message)
    BY <1>5, SaneSame, EmptySeq DEF ClearStashedEnvelopes
  <2> QED BY <1>5, <2>1, <2>2, <2>3 DEF ClearStashedEnvelopes, IInv, Elsewhere
<1> QED BY <1>2, <1>3, <1>4, <1>5

LEMMA AcceptTyped ==
    ASSUME IInv, AcceptClient
    PROVE  Typed'
<1> DEFINE t == "router"
           c == Head(backlog)
<1> USE DEF Typed, serviceVars, tables, connections
<1>1. t \in Threads /\ t \notin Sources
  BY Places
<1>2. c \in Clients /\ backlog' \in Seq(Clients)
  BY TailIs DEF AcceptClient, IInv, Elsewhere
<1>3. UNCHANGED <<serviceVars, toRouter, tables, mEndpointsToDelete, routed>>
  BY DEF AcceptClient
<1>4. CASE Close(c) /\ UNCHANGED <<ep, at, hold>>
  <2>1. closed' \subseteq Clients /\ got' \in [Clients -> Seq(Message)]
    BY <1>2, <1>4, CloseIs
  <2>2. EndpointsAreSane'
    BY <1>4, SaneSame
  <2> QED BY <1>2, <1>3, <1>4, <2>1, <2>2 DEF IInv, Elsewhere
<1>5. ASSUME NEW to \in {"checked", "constructed"}, Step(t, "idle", to), Hold(t, c), UNCHANGED connections,
             EndpointsAreSane'
      PROVE  Typed'
  <2>0. to \in At
    BY <1>5 DEF At
  <2>1. at' \in [Threads -> At] /\ at'[t] = to /\ \A u \in Threads \ {t} : at'[u] = at[u]
    BY <1>1, <1>5, <2>0, StepIs
  <2>2. /\ hold' \in [Threads -> Clients \cup {None}] /\ hold'[t] = c
        /\ \A u \in Threads \ {t} : hold'[u] = hold[u]
    BY <1>1, <1>2, <1>5, HoldIs
  <2>3. /\ \A u \in Threads : hold'[u] = None <=> at'[u] \in {"idle", "not found"}
        /\ \A s \in Sources : at'[s] \in {"found", "not found"} => routed'[s] < MaxMessages
    <3>1. hold'[t] = None <=> at'[t] \in {"idle", "not found"}
      BY <1>2, <2>1, <2>2, NoneIsNoClient
    <3> QED BY <1>1, <1>3, <2>1, <2>2, <3>1, ThreadIs
  <2> QED BY <1>2, <1>3, <1>5, <2>1, <2>2, <2>3 DEF IInv, Elsewhere
<1>6. CASE Step(t, "idle", "checked") /\ Hold(t, c) /\ UNCHANGED <<connections, ep>>
  BY <1>5, <1>6, SaneSame
<1>7. CASE Step(t, "idle", "constructed") /\ Hold(t, c) /\ Set(c, Endpoint(FALSE)) /\ UNCHANGED connections
  BY <1>2, <1>5, <1>7, EndpointIsSane, SaneSet
<1> QED BY <1>4, <1>6, <1>7 DEF AcceptClient

LEMMA ConstructTyped ==
    ASSUME IInv, ConstructEndpoint
    PROVE  Typed'
<1> DEFINE t == "router"
           c == hold[t]
<1> USE DEF Typed, serviceVars, tables, connections
<1>1. t \in Threads /\ t \notin Sources /\ at[t] = "checked" /\ c \in Clients /\ c # None
  BY Places DEF ConstructEndpoint
<1>2. UNCHANGED <<serviceVars, toRouter, tables, backlog, mEndpointsToDelete, routed>>
  BY DEF ConstructEndpoint
<1>3. CASE Step(t, "checked", "constructed") /\ Set(c, Endpoint(TRUE)) /\ UNCHANGED <<connections, hold>>
  <2>1. at' \in [Threads -> At] /\ at'[t] = "constructed" /\ \A u \in Threads \ {t} : at'[u] = at[u]
    BY <1>1, <1>3, StepIs DEF At
  <2>2. /\ \A u \in Threads : hold'[u] = None <=> at'[u] \in {"idle", "not found"}
        /\ \A s \in Sources : at'[s] \in {"found", "not found"} => routed'[s] < MaxMessages
    <3>1. hold' = hold /\ hold \in [Threads -> Clients \cup {None}]
      BY <1>3 DEF IInv, Elsewhere
    <3> QED BY <1>1, <1>2, <2>1, <3>1, ThreadIs
  <2>3. EndpointsAreSane'
    BY <1>1, <1>3, EndpointIsSane, SaneSet
  <2> QED BY <1>2, <1>3, <2>1, <2>2, <2>3 DEF IInv, Elsewhere
<1>4. CASE Step(t, "checked", "idle") /\ Close(c) /\ Hold(t, None) /\ UNCHANGED ep
  <2>1. at' \in [Threads -> At] /\ at'[t] = "idle" /\ \A u \in Threads \ {t} : at'[u] = at[u]
    BY <1>1, <1>4, StepIs DEF At
  <2>2. /\ hold' \in [Threads -> Clients \cup {None}] /\ hold'[t] = None
        /\ \A u \in Threads \ {t} : hold'[u] = hold[u]
    BY <1>1, <1>4, HoldIs
  <2>3. /\ \A u \in Threads : hold'[u] = None <=> at'[u] \in {"idle", "not found"}
        /\ \A s \in Sources : at'[s] \in {"found", "not found"} => routed'[s] < MaxMessages
    BY <1>1, <1>2, <2>1, <2>2, ThreadIs
  <2>4. closed' \subseteq Clients /\ got' \in [Clients -> Seq(Message)] /\ EndpointsAreSane'
    BY <1>1, <1>4, CloseIs, SaneSame
  <2> QED BY <1>2, <1>4, <2>1, <2>2, <2>3, <2>4 DEF IInv, Elsewhere
<1> QED BY <1>3, <1>4 DEF ConstructEndpoint

LEMMA TrackTyped ==
    ASSUME IInv, TrackClient
    PROVE  Typed'
<1> DEFINE t == "router"
           c == hold[t]
<1>1. t \in Threads /\ t \notin Sources
  BY Places
<1>2. /\ at[t] = "constructed" /\ at' \in [Threads -> At] /\ at'[t] = "idle"
      /\ \A u \in Threads \ {t} : at'[u] = at[u]
  BY <1>1, StepIs DEF TrackClient, At
<1>3. c \in Clients
  BY <1>1, <1>2, Places
<1>4. /\ hold' \in [Threads -> Clients \cup {None}] /\ hold'[t] = None
      /\ \A u \in Threads \ {t} : hold'[u] = hold[u]
  BY <1>1, HoldIs DEF TrackClient
<1>5. /\ \A u \in Threads : hold'[u] = None <=> at'[u] \in {"idle", "not found"}
      /\ \A s \in Sources : at'[s] \in {"found", "not found"} => routed'[s] < MaxMessages
  BY <1>1, <1>2, <1>4, ThreadIs DEF TrackClient
<1>6. EndpointsAreSane'
  <2>1. Set(c, QueueAll(ep[c], mPendingEnvelopes))
    BY DEF TrackClient
  <2>2. Sane(QueueAll(ep[c], mPendingEnvelopes))
    BY <1>3, QueueAllIsSane DEF IInv, EndpointsAreSane, Elsewhere
  <2> QED BY <1>3, <2>1, <2>2, SaneSet
<1>7. toService' \in Seq(Clients) /\ mClients' = c
  <2>1. toService' = Append(toService, c) /\ mClients' = c
    BY DEF TrackClient
  <2> QED BY <1>3, <2>1, AppendIs DEF IInv, Elsewhere
<1> QED BY <1>2, <1>3, <1>4, <1>5, <1>6, <1>7
    DEF TrackClient, IInv, Elsewhere, Typed, socketVars, connections

LEMMA DestroyTyped ==
    ASSUME IInv, DestroyEndpoint
    PROVE  Typed'
<1> DEFINE t == "router"
           c == Head(mEndpointsToDelete)
<1> USE DEF Typed, serviceVars, connections
<1>1. t \in Threads /\ t \notin Sources /\ at[t] = "idle"
  BY Places DEF DestroyEndpoint
<1>2. c \in Clients /\ c \in Range(mEndpointsToDelete) /\ mEndpointsToDelete' \in Seq(Clients)
  BY TailIs DEF DestroyEndpoint, IInv, Elsewhere
<1>3. Sane(ep[c]) /\ ep[c].state = "live"
  BY <1>2 DEF IInv, UsedIsAlive, EndpointsAreSane
<1>4. /\ mClients' = IF mClients = c THEN None ELSE mClients
      /\ UNCHANGED <<serviceVars, toRouter, mRoutingData, mPendingEnvelopes, backlog, routed>>
  BY DEF DestroyEndpoint
<1>5. CASE UNCHANGED <<ep, connections, at, hold>>
  <2>1. EndpointsAreSane'
    BY <1>5, SaneSame
  <2>2. mClients' \in Clients \cup {None}
    BY <1>4, Places
  <2> QED BY <1>2, <1>4, <1>5, <2>1, <2>2 DEF IInv, Elsewhere
<1>6. CASE Set(c, Stopped(ep[c])) /\ Close(c) /\ Step(t, "idle", "destroying") /\ Hold(t, c)
  <2>1. at' \in [Threads -> At] /\ at'[t] = "destroying" /\ \A u \in Threads \ {t} : at'[u] = at[u]
    BY <1>1, <1>6, StepIs DEF At
  <2>2. /\ hold' \in [Threads -> Clients \cup {None}] /\ hold'[t] = c
        /\ \A u \in Threads \ {t} : hold'[u] = hold[u]
    BY <1>1, <1>2, <1>6, HoldIs
  <2>3. /\ \A u \in Threads : hold'[u] = None <=> at'[u] \in {"idle", "not found"}
        /\ \A s \in Sources : at'[s] \in {"found", "not found"} => routed'[s] < MaxMessages
    <3>1. hold'[t] = None <=> at'[t] \in {"idle", "not found"}
      BY <1>2, <2>1, <2>2, NoneIsNoClient
    <3> QED BY <1>1, <1>4, <2>1, <2>2, <3>1, ThreadIs
  <2>4. closed' \subseteq Clients /\ got' \in [Clients -> Seq(Message)]
    BY <1>2, <1>6, CloseIs
  <2>5. EndpointsAreSane'
    BY <1>2, <1>3, <1>6, StoppedIsSane, SaneSet
  <2>6. mClients' \in Clients \cup {None}
    BY <1>4, Places
  <2> QED BY <1>2, <1>4, <2>1, <2>2, <2>3, <2>4, <2>5, <2>6 DEF IInv, Elsewhere
<1> QED BY <1>5, <1>6 DEF DestroyEndpoint

-----------------------------------------------------------------------------
(* Steps that move a pointer, begin an endpoint or end one.                *)

LEMMA WaitingIs ==
    ASSUME IInv, NEW c \in Range(backlog)
    PROVE  c \in Clients /\ ep[c].state = "none" /\ hold["router"] # c
BY Listed DEF IInv, NotAcceptedYet

LEMMA ToDeleteIs ==
    ASSUME IInv, NEW c \in Range(mEndpointsToDelete)
    PROVE  c \in Clients /\ ep[c].state = "live" /\ ep[c].mFlaggedForDestruction /\ Tracked(c)
BY Listed DEF IInv, FlaggedOnce, UsedIsAlive

LEMMA DestroyingIs ==
    ASSUME IInv, NEW t \in Threads, at[t] = "destroying"
    PROVE  /\ hold[t] \in Clients /\ hold[t] # None
           /\ ep[hold[t]].state = "stopped" /\ mClients # hold[t]
           /\ hold[t] \notin Range(mEndpointsToDelete)
           /\ \A u \in Threads \ {t} : hold[u] # hold[t]
BY Places DEF IInv, LastOwner

LEMMA HeldIs ==
    ASSUME IInv, NEW t \in Threads, at[t] \notin {"destroying", "checked"}, hold[t] # None
    PROVE  hold[t] \in Clients /\ ep[hold[t]].state = "live"
BY Places DEF IInv, UsedIsAlive

\* A thread other than the router takes the tracked endpoint or lets go of
\* one that another pointer keeps.
LEMMA HandStep ==
    ASSUME IInv, EndpointsAreSane', Elsewhere',
           UNCHANGED <<backlog, mClients, mEndpointsToDelete>>,
           \A c \in Clients : /\ ep'[c].state = ep[c].state
                             /\ ep'[c].mFlaggedForDestruction = ep[c].mFlaggedForDestruction,
           NEW t \in Threads \ {"router"}, at[t] \notin Making, at'[t] \notin Making,
           \A u \in Threads \ {t} : at'[u] = at[u] /\ hold'[u] = hold[u],
           hold'[t] \in {None, mClients}
    PROVE  IInv'
<1>1. "router" \in Threads \ {t} /\ mClients \in Clients \cup {None}
  BY Places
<1>2. at'["router"] = at["router"] /\ hold'["router"] = hold["router"]
  BY <1>1
<1>3. OnlyRouterCreates'
  <2>1. \A u \in Threads : at'[u] \in {"checked", "constructed"} => u = "router"
    BY DEF Making, IInv, OnlyRouterCreates
  <2> QED BY <1>2, <2>1 DEF IInv, OnlyRouterCreates
<1>4. NotAcceptedYet'
  <2>1. \A c \in Range(backlog') : ep'[c].state = "none" /\ hold'["router"] # c
    BY <1>2, WaitingIs
  <2>2. at["router"] = "checked" => hold["router"] \in Clients
    BY <1>1, Places
  <2> QED BY <1>2, <2>1, <2>2 DEF IInv, NotAcceptedYet
<1>5. \A c : Tracked(c)' <=> Tracked(c)
  BY <1>2 DEF Tracked
<1>6. FlaggedOnce'
  <2>1. \A c \in Range(mEndpointsToDelete') : ep'[c].mFlaggedForDestruction /\ Tracked(c)'
    BY <1>5, ToDeleteIs
  <2> QED BY <1>5, <2>1 DEF IInv, FlaggedOnce
<1>7. LastOwner'
  <2> SUFFICES ASSUME NEW u \in Threads, at'[u] = "destroying"
               PROVE  /\ ep'[hold'[u]].state = "stopped" /\ mClients # hold'[u]
                      /\ hold'[u] \notin Range(mEndpointsToDelete)
                      /\ \A w \in Threads \ {u} : hold'[w] # hold'[u]
    BY DEF LastOwner
  <2>1. u # t /\ at[u] = "destroying" /\ hold'[u] = hold[u]
    BY DEF Making
  <2>2. /\ hold[u] \in Clients /\ hold[u] # None /\ ep[hold[u]].state = "stopped" /\ mClients # hold[u]
        /\ hold[u] \notin Range(mEndpointsToDelete)
        /\ \A w \in Threads \ {u} : hold[w] # hold[u]
    BY <2>1, DestroyingIs
  <2> QED BY <2>1, <2>2
<1>8. UsedIsAlive'
  <2>1. mClients # None => ep'[mClients].state = "live"
    BY <1>1 DEF IInv, UsedIsAlive
  <2>2. \A c \in Range(mEndpointsToDelete') : ep'[c].state = "live"
    BY ToDeleteIs
  <2>3. ASSUME NEW u \in Threads, at'[u] \notin {"destroying", "checked"}, hold'[u] # None
        PROVE  ep'[hold'[u]].state = "live"
    <3>1. CASE u = t
      BY <2>1, <2>3, <3>1
    <3>2. CASE u # t
      BY <2>3, <3>2, HeldIs
    <3> QED BY <3>1, <3>2
  <2>4. ASSUME NEW c \in Clients, ep'[c].state = "stopped"
        PROVE  \E u \in Threads : at'[u] = "destroying" /\ hold'[u] = c
    <3>1. PICK u \in Threads : at[u] = "destroying" /\ hold[u] = c
      BY <2>4 DEF IInv, UsedIsAlive
    <3>2. u # t
      BY <3>1 DEF Making
    <3> QED BY <3>1, <3>2
  <2> QED BY <2>1, <2>2, <2>3, <2>4 DEF UsedIsAlive
<1> QED BY <1>3, <1>4, <1>6, <1>7, <1>8 DEF IInv

\* The last owner begins to destroy an endpoint.
LEMMA StopStep ==
    ASSUME IInv, EndpointsAreSane', Elsewhere',
           UNCHANGED <<backlog, mClients, mEndpointsToDelete, hold>>,
           NEW t \in Threads \ {"router"}, NEW c \in Clients,
           hold[t] = c, ~Held(c, t), ep[c].state = "live", at[t] \notin Making,
           ep'[c].state = "stopped", \A d \in Clients \ {c} : ep'[d] = ep[d],
           at'[t] = "destroying", \A u \in Threads \ {t} : at'[u] = at[u]
    PROVE  IInv'
<1>1. "router" \in Threads \ {t} /\ mClients \in Clients \cup {None}
  BY Places
<1>2. at'["router"] = at["router"]
  BY <1>1
<1>3. mClients # c /\ \A u \in Threads \ {t} : hold[u] # c
  BY DEF Held
<1>4. \A d : Tracked(d)' <=> Tracked(d)
  BY <1>2 DEF Tracked
<1>5. ~Tracked(c)
  BY <1>1, <1>3 DEF Tracked
<1>6. OnlyRouterCreates'
  BY <1>2 DEF Making, IInv, OnlyRouterCreates
<1>7. NotAcceptedYet'
  <2>1. \A d \in Range(backlog') : ep'[d].state = "none" /\ hold'["router"] # d
    BY WaitingIs
  <2>2. at["router"] = "checked" => hold["router"] \in Clients \ {c} /\ ep[hold["router"]].state = "none"
    BY <1>1, <1>3, Places DEF IInv, NotAcceptedYet
  <2> QED BY <1>2, <2>1, <2>2 DEF IInv, NotAcceptedYet
<1>8. \A d \in Range(mEndpointsToDelete) : d \in Clients \ {c}
  BY <1>5, ToDeleteIs
<1>9. FlaggedOnce'
  <2>1. \A d \in Range(mEndpointsToDelete') : ep'[d].mFlaggedForDestruction /\ Tracked(d)'
    BY <1>4, <1>8, ToDeleteIs
  <2>2. ASSUME NEW d \in Clients, ep'[d].state = "live", ~Tracked(d)' PROVE ep'[d].mFlaggedForDestruction
    BY <1>4, <2>2 DEF IInv, FlaggedOnce
  <2> QED BY <2>1, <2>2 DEF IInv, FlaggedOnce
<1>10. LastOwner'
  <2> SUFFICES ASSUME NEW u \in Threads, at'[u] = "destroying"
               PROVE  /\ ep'[hold[u]].state = "stopped" /\ mClients # hold[u]
                      /\ hold[u] \notin Range(mEndpointsToDelete)
                      /\ \A w \in Threads \ {u} : hold[w] # hold[u]
    BY DEF LastOwner
  <2>1. CASE u = t
    BY <1>3, <1>8, <2>1
  <2>2. CASE u # t
    <3>1. /\ hold[u] \in Clients /\ ep[hold[u]].state = "stopped" /\ mClients # hold[u]
          /\ hold[u] \notin Range(mEndpointsToDelete)
          /\ \A w \in Threads \ {u} : hold[w] # hold[u]
      BY <2>2, DestroyingIs
    <3> QED BY <1>3, <2>2, <3>1
  <2> QED BY <2>1, <2>2
<1>11. UsedIsAlive'
  <2>1. mClients # None => ep'[mClients].state = "live"
    BY <1>1, <1>3 DEF IInv, UsedIsAlive
  <2>2. \A d \in Range(mEndpointsToDelete') : ep'[d].state = "live"
    BY <1>8, ToDeleteIs
  <2>3. ASSUME NEW u \in Threads, at'[u] \notin {"destroying", "checked"}, hold[u] # None
        PROVE  ep'[hold[u]].state = "live"
    <3>1. u # t /\ hold[u] \in Clients /\ ep[hold[u]].state = "live"
      BY <2>3, HeldIs
    <3> QED BY <1>3, <3>1
  <2>4. ASSUME NEW d \in Clients, ep'[d].state = "stopped"
        PROVE  \E u \in Threads : at'[u] = "destroying" /\ hold[u] = d
    <3>1. CASE d = c
      BY <3>1
    <3>2. CASE d # c
      <4>1. PICK u \in Threads : at[u] = "destroying" /\ hold[u] = d
        BY <2>4, <3>2 DEF IInv, UsedIsAlive
      <4> QED BY <3>2, <4>1
    <3> QED BY <3>1, <3>2
  <2> QED BY <2>1, <2>2, <2>3, <2>4 DEF UsedIsAlive
<1> QED BY <1>6, <1>7, <1>9, <1>10, <1>11 DEF IInv

LEMMA GoneStep ==
    ASSUME IInv, EndpointsAreSane', Elsewhere',
           UNCHANGED <<backlog, mClients, mEndpointsToDelete>>,
           NEW t \in Threads, NEW c \in Clients, hold[t] = c, at[t] = "destroying",
           ep'[c].state = "gone", \A d \in Clients \ {c} : ep'[d] = ep[d],
           at'[t] = "idle", hold'[t] = None,
           \A u \in Threads \ {t} : at'[u] = at[u] /\ hold'[u] = hold[u]
    PROVE  IInv'
<1>1. "router" \in Threads /\ mClients \in Clients \cup {None} /\ None \notin Clients
  BY Places
<1>2. /\ ep[c].state = "stopped" /\ mClients # c /\ c \notin Range(mEndpointsToDelete)
      /\ \A u \in Threads \ {t} : hold[u] # c
  BY DestroyingIs
<1>3. \A d \in Clients : Tracked(d)' <=> Tracked(d)
  BY <1>1 DEF Tracked
<1>4. OnlyRouterCreates'
  <2>1. \A u \in Threads : at'[u] \in {"checked", "constructed"} => u = "router"
    BY DEF IInv, OnlyRouterCreates
  <2>2. at'["router"] \in {"checked", "constructed"} => mClients = None
    BY <1>1 DEF IInv, OnlyRouterCreates
  <2> QED BY <2>1, <2>2 DEF OnlyRouterCreates
<1>5. NotAcceptedYet'
  <2>1. \A d \in Range(backlog') : ep'[d].state = "none" /\ hold'["router"] # d
    BY <1>1, <1>2, WaitingIs
  <2>2. ASSUME at'["router"] = "checked" PROVE ep'[hold'["router"]].state = "none"
    <3>1. "router" # t /\ at["router"] = "checked" /\ hold["router"] \in Clients /\ hold["router"] # c
      BY <1>1, <1>2, <2>2, Places
    <3> QED BY <1>1, <3>1 DEF IInv, NotAcceptedYet
  <2> QED BY <2>1, <2>2 DEF IInv, NotAcceptedYet
<1>6. FlaggedOnce'
  <2>1. \A d \in Range(mEndpointsToDelete') : ep'[d].mFlaggedForDestruction /\ Tracked(d)'
    BY <1>2, <1>3, ToDeleteIs
  <2>2. ASSUME NEW d \in Clients, ep'[d].state = "live", ~Tracked(d)' PROVE ep'[d].mFlaggedForDestruction
    BY <1>3, <2>2 DEF IInv, FlaggedOnce
  <2> QED BY <2>1, <2>2 DEF IInv, FlaggedOnce
<1>7. LastOwner'
  <2> SUFFICES ASSUME NEW u \in Threads, at'[u] = "destroying"
               PROVE  /\ ep'[hold'[u]].state = "stopped" /\ mClients # hold'[u]
                      /\ hold'[u] \notin Range(mEndpointsToDelete)
                      /\ \A w \in Threads \ {u} : hold'[w] # hold'[u]
    BY DEF LastOwner
  <2>1. u # t /\ at[u] = "destroying" /\ hold'[u] = hold[u] /\ hold[u] # c
    BY <1>2
  <2>2. /\ hold[u] \in Clients /\ hold[u] # None /\ ep[hold[u]].state = "stopped" /\ mClients # hold[u]
        /\ hold[u] \notin Range(mEndpointsToDelete)
        /\ \A w \in Threads \ {u} : hold[w] # hold[u]
    BY <2>1, DestroyingIs
  <2> QED BY <2>1, <2>2
<1>8. UsedIsAlive'
  <2>1. mClients # None => ep'[mClients].state = "live"
    BY <1>1, <1>2 DEF IInv, UsedIsAlive
  <2>2. \A d \in Range(mEndpointsToDelete') : ep'[d].state = "live"
    BY <1>2, ToDeleteIs
  <2>3. ASSUME NEW u \in Threads, at'[u] \notin {"destroying", "checked"}, hold'[u] # None
        PROVE  ep'[hold'[u]].state = "live"
    <3>1. u # t /\ hold'[u] = hold[u] /\ hold[u] # c
      BY <1>2, <2>3
    <3>2. hold[u] \in Clients /\ ep[hold[u]].state = "live"
      BY <2>3, <3>1, HeldIs
    <3> QED BY <3>1, <3>2
  <2>4. ASSUME NEW d \in Clients, ep'[d].state = "stopped"
        PROVE  \E u \in Threads : at'[u] = "destroying" /\ hold'[u] = d
    <3>1. d # c
      BY <2>4
    <3>2. PICK u \in Threads : at[u] = "destroying" /\ hold[u] = d
      BY <2>4, <3>1 DEF IInv, UsedIsAlive
    <3> QED BY <3>1, <3>2
  <2> QED BY <2>1, <2>2, <2>3, <2>4 DEF UsedIsAlive
<1> QED BY <1>4, <1>5, <1>6, <1>7, <1>8 DEF IInv

\* The router thread untracks a flagged endpoint: while it is idle that is the
\* only one that can be flagged and tracked.
LEMMA DestroyStep ==
    ASSUME IInv, EndpointsAreSane', Elsewhere', DestroyEndpoint
    PROVE  IInv'
<1> DEFINE c == Head(mEndpointsToDelete)
           t == "router"
<1>1. t \in Threads /\ at[t] = "idle" /\ mClients \in Clients \cup {None} /\ None \notin Clients
  BY Places DEF DestroyEndpoint
<1>2. /\ c \in Range(mEndpointsToDelete) /\ c \notin Range(mEndpointsToDelete')
      /\ Range(mEndpointsToDelete') \subseteq Range(mEndpointsToDelete)
      /\ IsInjective(mEndpointsToDelete')
  BY TailIs DEF DestroyEndpoint, IInv, Elsewhere, FlaggedOnce
<1>3. /\ c \in Clients /\ ep[c].state = "live" /\ ep[c].mFlaggedForDestruction
      /\ \A d \in Range(mEndpointsToDelete) : d = mClients
  BY <1>1, <1>2, ToDeleteIs DEF Tracked
<1>4. mClients = c /\ mClients' = None /\ UNCHANGED backlog
  BY <1>2, <1>3 DEF DestroyEndpoint
<1>5. Range(mEndpointsToDelete') = {}
  BY <1>2, <1>3
<1>6. ASSUME at'[t] \in {"idle", "destroying"},
             \A u \in Threads \ {t} : at'[u] = at[u] /\ hold'[u] = hold[u],
             \A d \in Clients \ {c} : ep'[d] = ep[d],
             hold'[t] = IF at'[t] = "idle" THEN None ELSE c,
             at'[t] = "idle" => ep'[c] = ep[c],
             at'[t] = "destroying" => ep'[c].state = "stopped" /\ \A u \in Threads : hold[u] # c
      PROVE  IInv'
  <2>1. OnlyRouterCreates'
    BY <1>1, <1>4, <1>6 DEF IInv, OnlyRouterCreates
  <2>2. NotAcceptedYet'
    <3>1. \A d \in Range(backlog') : d # c /\ ep'[d].state = "none" /\ hold'[t] # d
      BY <1>1, <1>3, <1>4, <1>6, WaitingIs
    <3> QED BY <1>4, <1>6, <3>1 DEF IInv, NotAcceptedYet
  <2>3. FlaggedOnce'
    <3>1. ASSUME NEW d \in Clients, ep'[d].state = "live", ~Tracked(d)' PROVE ep'[d].mFlaggedForDestruction
      <4>1. CASE d = c
        BY <1>3, <1>6, <3>1, <4>1
      <4>2. CASE d # c
        BY <1>1, <1>4, <1>6, <3>1, <4>2 DEF IInv, FlaggedOnce, Tracked
      <4> QED BY <4>1, <4>2
    <3> QED BY <1>2, <1>5, <3>1 DEF FlaggedOnce
  <2>4. LastOwner'
    <3> SUFFICES ASSUME NEW u \in Threads, at'[u] = "destroying"
                 PROVE  /\ ep'[hold'[u]].state = "stopped" /\ mClients' # hold'[u]
                        /\ hold'[u] \notin Range(mEndpointsToDelete')
                        /\ \A w \in Threads \ {u} : hold'[w] # hold'[u]
      BY DEF LastOwner
    <3>1. CASE u = t
      BY <1>1, <1>3, <1>4, <1>5, <1>6, <3>1
    <3>2. CASE u # t
      <4>1. at[u] = "destroying" /\ hold'[u] = hold[u]
        BY <1>6, <3>2
      <4>2. /\ hold[u] \in Clients /\ hold[u] # None /\ ep[hold[u]].state = "stopped" /\ mClients # hold[u]
            /\ \A w \in Threads \ {u} : hold[w] # hold[u]
        BY <4>1, DestroyingIs
      <4> QED BY <1>4, <1>5, <1>6, <3>2, <4>1, <4>2
    <3> QED BY <3>1, <3>2
  <2>5. UsedIsAlive'
    <3>1. ASSUME NEW u \in Threads, at'[u] \notin {"destroying", "checked"}, hold'[u] # None
          PROVE  ep'[hold'[u]].state = "live"
      <4>1. u # t
        BY <1>6, <3>1
      <4>2. hold[u] \in Clients /\ ep[hold[u]].state = "live" /\ hold'[u] = hold[u]
        BY <1>6, <3>1, <4>1, HeldIs
      <4>3. CASE hold[u] = c
        BY <1>3, <1>6, <4>2, <4>3
      <4> QED BY <1>6, <4>2, <4>3
    <3>2. ASSUME NEW d \in Clients, ep'[d].state = "stopped"
          PROVE  \E u \in Threads : at'[u] = "destroying" /\ hold'[u] = d
      <4>1. CASE d = c
        BY <1>1, <1>3, <1>6, <3>2, <4>1
      <4>2. CASE d # c
        <5>1. PICK u \in Threads : at[u] = "destroying" /\ hold[u] = d
          BY <1>6, <3>2, <4>2 DEF IInv, UsedIsAlive
        <5> QED BY <1>1, <1>6, <5>1
      <4> QED BY <4>1, <4>2
    <3> QED BY <1>4, <1>5, <3>1, <3>2 DEF UsedIsAlive
  <2> QED BY <2>1, <2>2, <2>3, <2>4, <2>5 DEF IInv
<1>7. CASE UNCHANGED <<ep, connections, at, hold>>
  <2>1. hold[t] = None
    BY <1>1, Places
  <2> QED BY <1>1, <1>6, <1>7, <2>1
<1>8. CASE /\ \A u \in Threads : hold[u] # c
           /\ Set(c, Stopped(ep[c])) /\ Step(t, "idle", "destroying") /\ Hold(t, c)
  <2>1. Sane(ep[c])
    BY <1>3 DEF IInv, EndpointsAreSane
  <2>2. ep'[c].state = "stopped" /\ \A d \in Clients \ {c} : ep'[d] = ep[d]
    BY <1>3, <1>8, <2>1, StoppedIsSane, SaneSet
  <2>3. at'[t] = "destroying" /\ \A u \in Threads \ {t} : at'[u] = at[u]
    BY <1>1, <1>8 DEF Step, IInv, Elsewhere
  <2>4. hold'[t] = c /\ \A u \in Threads \ {t} : hold'[u] = hold[u]
    BY <1>1, <1>8 DEF Hold, IInv, Elsewhere
  <2> QED BY <1>6, <1>8, <2>2, <2>3, <2>4
<1> QED BY <1>7, <1>8 DEF DestroyEndpoint

\* The router thread begins an endpoint, or means to.
LEMMA BeginStep ==
    ASSUME IInv, EndpointsAreSane', Elsewhere', UNCHANGED <<mClients, mEndpointsToDelete>>,
           mClients = None, at["router"] \in {"idle", "checked"},
           NEW c \in Clients, ep[c].state = "none", c \notin Range(backlog'),
           Range(backlog') \subseteq Range(backlog), IsInjective(backlog'),
           hold'["router"] = c, at'["router"] \in {"checked", "constructed"},
           \A u \in Threads \ {"router"} : at'[u] = at[u] /\ hold'[u] = hold[u],
           \A d \in Clients \ {c} : ep'[d] = ep[d],
           at'["router"] = "checked" => ep'[c] = ep[c],
           at'["router"] = "constructed" => ep'[c].state = "live"
    PROVE  IInv'
<1> DEFINE t == "router"
<1>1. t \in Threads /\ None \notin Clients
  BY Places
<1>2. OnlyRouterCreates'
  BY DEF IInv, OnlyRouterCreates
<1>3. NotAcceptedYet'
  <2>1. \A d \in Range(backlog') : d # c /\ ep'[d].state = "none"
    BY WaitingIs
  <2> QED BY <2>1 DEF NotAcceptedYet
<1>4. Range(mEndpointsToDelete') = {}
  BY <1>1, ToDeleteIs DEF Tracked
<1>5. FlaggedOnce'
  <2>1. ASSUME NEW d \in Clients, ep'[d].state = "live", ~Tracked(d)' PROVE ep'[d].mFlaggedForDestruction
    <3>1. CASE d = c
      BY <2>1, <3>1 DEF Tracked
    <3>2. CASE d # c
      <4>1. ep[d].state = "live" /\ ~Tracked(d) /\ ep'[d] = ep[d]
        BY <1>1, <2>1, <3>2 DEF Tracked
      <4> QED BY <4>1 DEF IInv, FlaggedOnce
    <3> QED BY <3>1, <3>2
  <2> QED BY <1>4, <2>1 DEF IInv, FlaggedOnce
<1>6. ASSUME NEW u \in Threads, at'[u] = "destroying"
      PROVE  /\ u # t /\ at[u] = "destroying" /\ hold'[u] = hold[u]
             /\ hold[u] \in Clients /\ hold[u] # None /\ ep[hold[u]].state = "stopped"
             /\ hold[u] # c /\ \A w \in Threads \ {u} : hold[w] # hold[u]
  <2>1. u # t /\ at[u] = "destroying" /\ hold'[u] = hold[u]
    BY <1>6
  <2> QED BY <2>1, DestroyingIs
<1>7. LastOwner'
  BY <1>1, <1>4, <1>6 DEF LastOwner
<1>8. UsedIsAlive'
  <2>1. ASSUME NEW u \in Threads, at'[u] \notin {"destroying", "checked"}, hold'[u] # None
        PROVE  ep'[hold'[u]].state = "live"
    <3>1. CASE u = t
      BY <2>1, <3>1
    <3>2. CASE u # t
      <4>1. hold[u] \in Clients /\ ep[hold[u]].state = "live" /\ hold'[u] = hold[u]
        BY <2>1, <3>2, HeldIs
      <4> QED BY <4>1
    <3> QED BY <3>1, <3>2
  <2>2. ASSUME NEW d \in Clients, ep'[d].state = "stopped"
        PROVE  \E u \in Threads : at'[u] = "destroying" /\ hold'[u] = d
    <3>1. d # c
      BY <2>2
    <3>2. PICK u \in Threads : at[u] = "destroying" /\ hold[u] = d
      BY <2>2, <3>1 DEF IInv, UsedIsAlive
    <3> QED BY <3>2
  <2> QED BY <1>4, <2>1, <2>2 DEF UsedIsAlive
<1> QED BY <1>2, <1>3, <1>5, <1>7, <1>8 DEF IInv

\* The router thread turns a connection away before there is an endpoint.
LEMMA RefuseStep ==
    ASSUME IInv, EndpointsAreSane', Elsewhere', UNCHANGED <<ep, mClients, mEndpointsToDelete>>,
           at["router"] \in {"idle", "checked"},
           Range(backlog') \subseteq Range(backlog), IsInjective(backlog'),
           hold'["router"] = None, at'["router"] = "idle",
           \A u \in Threads \ {"router"} : at'[u] = at[u] /\ hold'[u] = hold[u]
    PROVE  IInv'
<1> DEFINE t == "router"
<1>1. t \in Threads /\ None \notin Clients
  BY Places
<1>2. OnlyRouterCreates'
  BY DEF IInv, OnlyRouterCreates
<1>3. NotAcceptedYet'
  <2>1. \A d \in Range(backlog') : d # None /\ ep'[d].state = "none"
    BY <1>1, WaitingIs
  <2> QED BY <2>1 DEF NotAcceptedYet
<1>4. \A d : Tracked(d)' <=> Tracked(d)
  BY DEF Tracked
<1>5. FlaggedOnce'
  BY <1>4, ToDeleteIs DEF IInv, FlaggedOnce
<1>6. ASSUME NEW u \in Threads, at'[u] = "destroying"
      PROVE  /\ u # t /\ at[u] = "destroying" /\ hold'[u] = hold[u]
             /\ hold[u] # None /\ ep[hold[u]].state = "stopped" /\ mClients # hold[u]
             /\ hold[u] \notin Range(mEndpointsToDelete)
             /\ \A w \in Threads \ {u} : hold[w] # hold[u]
  <2>1. u # t /\ at[u] = "destroying" /\ hold'[u] = hold[u]
    BY <1>6
  <2> QED BY <2>1, DestroyingIs
<1>7. LastOwner'
  BY <1>1, <1>6 DEF LastOwner
<1>8. UsedIsAlive'
  <2>1. ASSUME NEW u \in Threads, at'[u] \notin {"destroying", "checked"}, hold'[u] # None
        PROVE  ep'[hold'[u]].state = "live"
    <3>1. u # t
      BY <2>1
    <3> QED BY <2>1, <3>1, HeldIs
  <2>2. ASSUME NEW d \in Clients, ep'[d].state = "stopped"
        PROVE  \E u \in Threads : at'[u] = "destroying" /\ hold'[u] = d
    <3>1. PICK u \in Threads : at[u] = "destroying" /\ hold[u] = d
      BY <2>2 DEF IInv, UsedIsAlive
    <3> QED BY <3>1
  <2> QED BY <2>1, <2>2 DEF IInv, UsedIsAlive
<1> QED BY <1>2, <1>3, <1>5, <1>7, <1>8 DEF IInv

LEMMA AcceptStep ==
    ASSUME IInv, EndpointsAreSane', Elsewhere', AcceptClient
    PROVE  IInv'
<1> DEFINE c == Head(backlog)
           t == "router"
<1>1. t \in Threads /\ at[t] = "idle" /\ hold[t] = None
  BY Places DEF AcceptClient
<1>2. /\ c \in Range(backlog) /\ c \notin Range(backlog')
      /\ Range(backlog') \subseteq Range(backlog) /\ IsInjective(backlog')
  BY TailIs DEF AcceptClient, IInv, Elsewhere, NotAcceptedYet
<1>3. c \in Clients /\ ep[c].state = "none"
  BY <1>2, WaitingIs
<1>4. UNCHANGED <<mClients, mEndpointsToDelete>>
  BY DEF AcceptClient, tables
<1>5. CASE UNCHANGED <<ep, at, hold>>
  BY <1>1, <1>2, <1>4, <1>5, RefuseStep
<1>6. CASE /\ mClients = None /\ Step(t, "idle", "checked") /\ Hold(t, c) /\ UNCHANGED ep
  <2>1. /\ at'[t] = "checked" /\ hold'[t] = c
        /\ \A u \in Threads \ {t} : at'[u] = at[u] /\ hold'[u] = hold[u]
    BY <1>1, <1>6 DEF Step, Hold, IInv, Elsewhere
  <2> QED BY <1>1, <1>2, <1>3, <1>4, <1>6, <2>1, BeginStep
<1>7. CASE /\ mClients = None /\ Step(t, "idle", "constructed") /\ Hold(t, c) /\ Set(c, Endpoint(FALSE))
  <2>1. /\ at'[t] = "constructed" /\ hold'[t] = c
        /\ \A u \in Threads \ {t} : at'[u] = at[u] /\ hold'[u] = hold[u]
    BY <1>1, <1>7 DEF Step, Hold, IInv, Elsewhere
  <2>2. ep'[c].state = "live" /\ \A d \in Clients \ {c} : ep'[d] = ep[d]
    BY <1>3, <1>7, EndpointIsSane, SaneSet
  <2> QED BY <1>1, <1>2, <1>3, <1>4, <1>7, <2>1, <2>2, BeginStep
<1> QED BY <1>5, <1>6, <1>7 DEF AcceptClient

LEMMA ConstructStep ==
    ASSUME IInv, EndpointsAreSane', Elsewhere', ConstructEndpoint
    PROVE  IInv'
<1> DEFINE t == "router"
           c == hold[t]
<1>1. /\ t \in Threads /\ at[t] = "checked" /\ c \in Clients
      /\ mClients = None /\ ep[c].state = "none"
  BY Places DEF ConstructEndpoint, IInv, OnlyRouterCreates, NotAcceptedYet
<1>2. UNCHANGED <<mClients, mEndpointsToDelete, backlog>>
  BY DEF ConstructEndpoint, tables
<1>3. IsInjective(backlog) /\ c \notin Range(backlog)
  BY WaitingIs DEF IInv, NotAcceptedYet
<1>4. CASE Step(t, "checked", "constructed") /\ Set(c, Endpoint(TRUE)) /\ UNCHANGED hold
  <2>1. at'[t] = "constructed" /\ \A u \in Threads \ {t} : at'[u] = at[u]
    BY <1>1, <1>4 DEF Step, IInv, Elsewhere
  <2>2. ep'[c].state = "live" /\ \A d \in Clients \ {c} : ep'[d] = ep[d]
    BY <1>1, <1>4, EndpointIsSane, SaneSet
  <2> QED BY <1>1, <1>2, <1>3, <1>4, <2>1, <2>2, BeginStep
<1>5. CASE Step(t, "checked", "idle") /\ Hold(t, None) /\ UNCHANGED ep
  <2>1. /\ at'[t] = "idle" /\ hold'[t] = None
        /\ \A u \in Threads \ {t} : at'[u] = at[u] /\ hold'[u] = hold[u]
    BY <1>1, <1>5 DEF Step, Hold, IInv, Elsewhere
  <2> QED BY <1>1, <1>2, <1>3, <1>5, <2>1, RefuseStep
<1> QED BY <1>4, <1>5 DEF ConstructEndpoint

LEMMA TrackStep ==
    ASSUME IInv, EndpointsAreSane', Elsewhere', TrackClient
    PROVE  IInv'
<1> DEFINE t == "router"
           c == hold[t]
<1>1. /\ t \in Threads /\ None \notin Clients /\ at[t] = "constructed" /\ c \in Clients
      /\ mClients = None
  BY Places DEF TrackClient, Step, IInv, OnlyRouterCreates
<1>2. ep[c].state = "live"
  BY <1>1, HeldIs
<1>3. UNCHANGED <<backlog, mEndpointsToDelete>> /\ mClients' = c
  BY DEF TrackClient, socketVars
<1>4. /\ at'[t] = "idle" /\ hold'[t] = None
      /\ \A u \in Threads \ {t} : at'[u] = at[u] /\ hold'[u] = hold[u]
  BY <1>1 DEF TrackClient, Step, Hold, IInv, Elsewhere
<1>5. \A d \in Clients : /\ ep'[d].state = ep[d].state
                         /\ ep'[d].mFlaggedForDestruction = ep[d].mFlaggedForDestruction
  <2>1. Set(c, QueueAll(ep[c], mPendingEnvelopes)) /\ Sane(ep[c])
    BY <1>1, <1>3 DEF TrackClient, IInv, EndpointsAreSane
  <2>2. Sane(QueueAll(ep[c], mPendingEnvelopes)) /\ LikeBut(ep[c], QueueAll(ep[c], mPendingEnvelopes))
    BY <2>1, QueueAllIsSane DEF IInv, Elsewhere
  <2> QED BY <1>1, <2>1, <2>2, SaneSet DEF LikeBut
<1>6. \A d \in Clients : Tracked(d)' <=> Tracked(d)
  BY <1>1, <1>3, <1>4 DEF Tracked
<1>7. OnlyRouterCreates'
  BY <1>4 DEF IInv, OnlyRouterCreates
<1>8. NotAcceptedYet'
  <2>1. \A d \in Range(backlog') : ep'[d].state = "none" /\ hold'[t] # d
    BY <1>1, <1>3, <1>4, <1>5, WaitingIs
  <2> QED BY <1>3, <1>4, <2>1 DEF IInv, NotAcceptedYet
<1>9. FlaggedOnce'
  <2>1. \A d \in Range(mEndpointsToDelete') : ep'[d].mFlaggedForDestruction /\ Tracked(d)'
    BY <1>3, <1>5, <1>6, ToDeleteIs
  <2>2. ASSUME NEW d \in Clients, ep'[d].state = "live", ~Tracked(d)' PROVE ep'[d].mFlaggedForDestruction
    BY <1>5, <1>6, <2>2 DEF IInv, FlaggedOnce
  <2> QED BY <1>3, <2>1, <2>2 DEF IInv, FlaggedOnce
<1>10. ASSUME NEW u \in Threads, at'[u] = "destroying"
       PROVE  /\ u # t /\ at[u] = "destroying" /\ hold'[u] = hold[u]
              /\ hold[u] \in Clients /\ hold[u] # None /\ ep[hold[u]].state = "stopped" /\ hold[u] # c
              /\ hold[u] \notin Range(mEndpointsToDelete)
              /\ \A w \in Threads \ {u} : hold[w] # hold[u]
  <2>1. u # t /\ at[u] = "destroying" /\ hold'[u] = hold[u]
    BY <1>4, <1>10
  <2> QED BY <1>1, <2>1, DestroyingIs
<1>11. LastOwner'
  BY <1>1, <1>3, <1>4, <1>5, <1>10 DEF LastOwner
<1>12. UsedIsAlive'
  <2>1. \A d \in Range(mEndpointsToDelete') : ep'[d].state = "live"
    BY <1>3, <1>5, ToDeleteIs
  <2>2. ASSUME NEW u \in Threads, at'[u] \notin {"destroying", "checked"}, hold'[u] # None
        PROVE  ep'[hold'[u]].state = "live"
    <3>1. u # t
      BY <1>4, <2>2
    <3> QED BY <1>4, <1>5, <2>2, <3>1, HeldIs
  <2>3. ASSUME NEW d \in Clients, ep'[d].state = "stopped"
        PROVE  \E u \in Threads : at'[u] = "destroying" /\ hold'[u] = d
    <3>1. PICK u \in Threads : at[u] = "destroying" /\ hold[u] = d
      BY <1>5, <2>3 DEF IInv, UsedIsAlive
    <3> QED BY <1>1, <1>4, <3>1
  <2> QED BY <1>1, <1>2, <1>3, <1>5, <2>1, <2>2, <2>3 DEF UsedIsAlive
<1> QED BY <1>7, <1>8, <1>9, <1>11, <1>12 DEF IInv

LEMMA ConnectStep ==
    ASSUME IInv, EndpointsAreSane', Elsewhere', NEW c \in Clients, ClientConnects(c)
    PROVE  IInv'
<1>1. /\ ep[c].state = "none" /\ c \notin Range(backlog) /\ hold["router"] # c
      /\ backlog' = Append(backlog, c) /\ backlog \in Seq(Clients)
      /\ UNCHANGED <<mClients, mEndpointsToDelete, ep, at, hold>>
  BY DEF ClientConnects, tables, threadVars, IInv, Elsewhere
<1>2. Range(backlog') = Range(backlog) \cup {c} /\ IsInjective(backlog')
  BY <1>1, AppendIs DEF IInv, NotAcceptedYet
<1>3. OnlyRouterCreates' /\ LastOwner' /\ UsedIsAlive'
  BY <1>1 DEF IInv, OnlyRouterCreates, LastOwner, UsedIsAlive
<1>4. NotAcceptedYet'
  BY <1>1, <1>2 DEF IInv, NotAcceptedYet
<1>5. FlaggedOnce'
  BY <1>1 DEF IInv, FlaggedOnce, Tracked
<1> QED BY <1>3, <1>4, <1>5 DEF IInv

LEMMA EndpointThreadStep ==
    ASSUME IInv, EndpointsAreSane', Elsewhere', NEW c \in Clients, EndpointThread(c)
    PROVE  IInv'
<1>1. Sane(ep[c]) /\ ep \in [Clients -> ClientRemoteEndpoint]
  BY DEF IInv, EndpointsAreSane
<1>2. /\ UNCHANGED <<backlog, mClients, hold>>
      /\ \A t \in Threads : at'[t] = at[t] \/ (at[t] \notin Making /\ at'[t] \notin Making)
  BY DEF EndpointThread, PopMessage, SendEnvelope, ReceiveEnvelope, Receive, RouteReceived,
     ReceiveEnds, tables, socketVars, threadVars
<1>3. ASSUME UNCHANGED mEndpointsToDelete,
             NEW r, Set(c, r), r.state = ep[c].state,
             r.mFlaggedForDestruction = ep[c].mFlaggedForDestruction
      PROVE  IInv'
  <2>1. \A d \in Clients : /\ ep'[d].state = ep[d].state
                           /\ ep'[d].mFlaggedForDestruction = ep[d].mFlaggedForDestruction
    BY <1>1, <1>3 DEF Set
  <2> QED BY <1>2, <1>3, <2>1, Frame
<1>4. CASE PopMessage(c)
  <2>1. UNCHANGED mEndpointsToDelete
    BY <1>4 DEF PopMessage
  <2>2. CASE Set(c, [ep[c] EXCEPT !.sendAt = "done"])
    BY <1>1, <1>3, <2>1, <2>2 DEF ClientRemoteEndpoint
  <2>3. CASE Set(c, [ep[c] EXCEPT !.sendAt = "sending", !.sending = First(ep[c].mMessageQueue),
                                  !.mMessageQueue = Pop(ep[c].mMessageQueue)])
    BY <1>1, <1>3, <2>1, <2>3 DEF ClientRemoteEndpoint
  <2> QED BY <1>4, <2>2, <2>3 DEF PopMessage
<1>5. CASE SendEnvelope(c)
  <2> DEFINE r(to) == [[ep[c] EXCEPT !.sending = NoMessage] EXCEPT !.sendAt = to]
  <2>1. CASE Set(c, r("done")) /\ UNCHANGED mEndpointsToDelete
    BY <1>1, <1>3, <2>1 DEF ClientRemoteEndpoint
  <2>2. CASE Set(c, r("popping")) /\ UNCHANGED mEndpointsToDelete
    BY <1>1, <1>3, <2>2 DEF ClientRemoteEndpoint
  <2>3. CASE ~ep[c].mShutdown /\ Flag(c, r("done"))
    <3>1. ep[c].state = "live" /\ Sane(r("done")) /\ r("done").state = "live"
          /\ r("done").mFlaggedForDestruction = ep[c].mFlaggedForDestruction
      BY <1>1, <1>5, <2>3 DEF SendEnvelope, Sane, ClientRemoteEndpoint
    <3> HIDE DEF r
    <3> QED BY <1>2, <2>3, <3>1, FlagStep
  <2> QED BY <1>1, <1>5, <2>1, <2>2, <2>3 DEF SendEnvelope, ClientRemoteEndpoint
<1>6. CASE ReceiveEnds(c)
  <2> DEFINE r == [ep[c] EXCEPT !.receiveAt = "done"]
  <2>1. CASE Set(c, r) /\ UNCHANGED mEndpointsToDelete
    BY <1>1, <1>3, <2>1 DEF ClientRemoteEndpoint
  <2>2. CASE ~ep[c].mShutdown /\ Flag(c, r)
    <3>1. ep[c].state = "live" /\ Sane(r) /\ r.state = "live"
          /\ r.mFlaggedForDestruction = ep[c].mFlaggedForDestruction
      BY <1>1, <1>6, <2>2 DEF ReceiveEnds, Sane, ClientRemoteEndpoint
    <3> HIDE DEF r
    <3> QED BY <1>2, <2>2, <3>1, FlagStep
  <2> QED BY <1>6, <2>1, <2>2 DEF ReceiveEnds
<1>7. CASE Receives(c)
  BY <1>1, <1>3, <1>7, ReceivesIs
<1> QED BY <1>4, <1>5, <1>6, <1>7 DEF EndpointThread, Receive, Receives

\* An endpoint that takes a message, and one that is not touched.
LEMMA QueuedKeeps ==
    ASSUME IInv, NEW c \in Clients, NEW e \in Message \cup {STATUS}, Set(c, Queued(ep[c], e))
    PROVE  \A d \in Clients : /\ ep'[d].state = ep[d].state
                              /\ ep'[d].mFlaggedForDestruction = ep[d].mFlaggedForDestruction
<1>1. Sane(ep[c])
  BY DEF IInv, EndpointsAreSane
<1> QED BY <1>1, QueuedIsSane, SaneSet DEF LikeBut

\* What Release leaves, if r differs from the endpoint in its queue only.
LEMMA ReleaseStep ==
    ASSUME IInv, EndpointsAreSane', Elsewhere', UNCHANGED <<backlog, mClients, mEndpointsToDelete>>,
           NEW t \in Threads \ {"router"}, NEW c \in Clients, hold[t] = c, at[t] \notin Making,
           ep[c].state = "live", NEW r, Sane(r), r.state = "live",
           r.mFlaggedForDestruction = ep[c].mFlaggedForDestruction, Release(t, c, r)
    PROVE  IInv'
<1>1. CASE Held(c, t)
  <2>1. Set(c, r) /\ Hold(t, None) /\ at' = [at EXCEPT ![t] = "idle"]
    BY <1>1 DEF Release
  <2>2. \A d \in Clients : /\ ep'[d].state = ep[d].state
                           /\ ep'[d].mFlaggedForDestruction = ep[d].mFlaggedForDestruction
    BY <2>1, SaneSet
  <2>3. /\ at'[t] \notin Making /\ hold'[t] = None
        /\ \A u \in Threads \ {t} : at'[u] = at[u] /\ hold'[u] = hold[u]
    BY <2>1 DEF Hold, Making, IInv, Elsewhere
  <2> QED BY <2>2, <2>3, HandStep
<1>2. CASE ~Held(c, t)
  <2>1. Set(c, Stopped(r)) /\ at' = [at EXCEPT ![t] = "destroying"] /\ UNCHANGED hold
    BY <1>2 DEF Release
  <2>2. ep'[c].state = "stopped" /\ \A d \in Clients \ {c} : ep'[d] = ep[d]
    BY <2>1, StoppedIsSane, SaneSet
  <2>3. at'[t] = "destroying" /\ \A u \in Threads \ {t} : at'[u] = at[u]
    BY <2>1 DEF IInv, Elsewhere
  <2> QED BY <1>2, <2>1, <2>2, <2>3, StopStep
<1> QED BY <1>1, <1>2

LEMMA DestroyedStep ==
    ASSUME IInv, EndpointsAreSane', Elsewhere', NEW t \in Threads, Destroyed(t)
    PROVE  IInv'
<1> DEFINE c == hold[t]
<1>1. /\ c \in Clients /\ at[t] = "destroying" /\ Step(t, "destroying", "idle") /\ Hold(t, None)
      /\ UNCHANGED <<backlog, mClients, mEndpointsToDelete>>
  BY Places DEF Destroyed, Step, tables, socketVars
<1>2. ep'[c].state = "gone" /\ \A d \in Clients \ {c} : ep'[d] = ep[d]
  <2>1. [NoEndpoint EXCEPT !.state = "gone"].state = "gone"
    BY DEF NoEndpoint
  <2> QED BY <1>1, <2>1, NoEndpointIsSane, SaneSet DEF Destroyed
<1>3. /\ at'[t] = "idle" /\ hold'[t] = None
      /\ \A u \in Threads \ {t} : at'[u] = at[u] /\ hold'[u] = hold[u]
  BY <1>1 DEF Step, Hold, IInv, Elsewhere
<1> QED BY <1>1, <1>2, <1>3, GoneStep

LEMMA SourceStep ==
    ASSUME IInv, EndpointsAreSane', Elsewhere', NEW s \in Sources,
           FindClient(s) \/ QueueToClient(s) \/ StashEnvelope(s)
    PROVE  IInv'
<1>1. s \in Threads \ {"router"} /\ mClients \in Clients \cup {None}
  BY Places
<1>2. CASE FindClient(s)
  <2>1. /\ at[s] = "idle" /\ at'[s] \in {"found", "not found"} /\ hold'[s] = mClients
        /\ \A u \in Threads \ {s} : at'[u] = at[u] /\ hold'[u] = hold[u]
        /\ UNCHANGED <<backlog, mClients, mEndpointsToDelete, ep>>
    BY <1>1, <1>2 DEF FindClient, Step, Hold, IInv, Elsewhere, tables, socketVars
  <2> QED BY <1>1, <2>1, HandStep DEF Making
<1>3. CASE QueueToClient(s)
  <2> DEFINE c == hold[s]
             m == <<s, routed[s] + 1>>
  <2>1. at[s] = "found" /\ c \in Clients
    BY <1>1, <1>3, Places DEF QueueToClient
  <2>2. ep[c].state = "live" /\ Sane(ep[c])
    BY <1>1, <2>1, NoneIsNoClient, HeldIs DEF IInv, EndpointsAreSane
  <2>3. Sane(Queued(ep[c], m)) /\ LikeBut(ep[c], Queued(ep[c], m))
    BY <2>1, <2>2, NextMessage, QueuedIsSane
  <2>4. Release(s, c, Queued(ep[c], m)) /\ UNCHANGED <<backlog, mClients, mEndpointsToDelete>>
    BY <1>3 DEF QueueToClient, tables
  <2> HIDE DEF m
  <2>5. at[s] \notin Making
    BY <2>1 DEF Making
  <2> QED BY <1>1, <2>1, <2>2, <2>3, <2>4, <2>5, ReleaseStep DEF LikeBut
<1>4. CASE StashEnvelope(s)
  <2> DEFINE m == <<s, routed[s] + 1>>
  <2>1. /\ at[s] = "not found" /\ UNCHANGED <<backlog, mClients, mEndpointsToDelete, hold>>
        /\ at' = [at EXCEPT ![s] = "idle"] /\ Stash(m)
    BY <1>4 DEF StashEnvelope, Step, socketVars
  <2>2. \A t \in Threads : at'[t] = at[t] \/ (at[t] \notin Making /\ at'[t] \notin Making)
    BY <2>1 DEF Making, IInv, Elsewhere
  <2>3. \A d \in Clients : /\ ep'[d].state = ep[d].state
                           /\ ep'[d].mFlaggedForDestruction = ep[d].mFlaggedForDestruction
    <3>1. CASE mClients # None
      BY <1>1, <2>1, <3>1, NextMessage, QueuedKeeps DEF Stash
    <3>2. CASE mClients = None
      BY <2>1, <3>2 DEF Stash
    <3> QED BY <3>1, <3>2
  <2> QED BY <2>1, <2>2, <2>3, Frame
<1> QED BY <1>2, <1>3, <1>4

LEMMA ServiceToRouterStep ==
    ASSUME IInv, EndpointsAreSane', Elsewhere',
           KickClient \/ FlagKicked \/ ReleaseKicked \/ ClearStashedEnvelopes
    PROVE  IInv'
<1> DEFINE t == "service_to_router"
<1>1. t \in Threads \ {"router"} /\ mClients \in Clients \cup {None}
  BY Places
<1>2. CASE KickClient
  <2>1. /\ at[t] = "idle" /\ at'[t] \in {"not found", "status queued"} /\ hold'[t] = mClients
        /\ \A u \in Threads \ {t} : at'[u] = at[u] /\ hold'[u] = hold[u]
        /\ UNCHANGED <<backlog, mClients, mEndpointsToDelete>>
    BY <1>1, <1>2 DEF KickClient, Step, Hold, IInv, Elsewhere, tables, socketVars
  <2>2. \A d \in Clients : /\ ep'[d].state = ep[d].state
                           /\ ep'[d].mFlaggedForDestruction = ep[d].mFlaggedForDestruction
    <3>1. CASE mClients # None
      BY <1>1, <1>2, <3>1, QueuedKeeps DEF KickClient
    <3>2. CASE mClients = None
      BY <1>2, <3>2 DEF KickClient
    <3> QED BY <3>1, <3>2
  <2>3. at[t] \notin Making /\ at'[t] \notin Making
    BY <2>1 DEF Making
  <2> QED BY <1>1, <2>1, <2>2, <2>3, HandStep
<1>3. CASE FlagKicked
  <2> DEFINE c == hold[t]
  <2>1. /\ at[t] = "status queued" /\ at' = [at EXCEPT ![t] = "flagged"]
        /\ Flag(c, ep[c]) /\ UNCHANGED <<backlog, mClients, hold>>
    BY <1>3 DEF FlagKicked, Step, tables, socketVars
  <2>2. c \in Clients /\ ep[c].state = "live" /\ Sane(ep[c])
    BY <1>1, <2>1, Places, HeldIs DEF IInv, EndpointsAreSane
  <2>3. \A u \in Threads : at'[u] = at[u] \/ (at[u] \notin Making /\ at'[u] \notin Making)
    BY <2>1 DEF Making, IInv, Elsewhere
  <2> QED BY <2>1, <2>2, <2>3, FlagStep
<1>4. CASE ReleaseKicked
  <2> DEFINE c == hold[t]
  <2>1. /\ at[t] = "flagged" /\ Release(t, c, ep[c])
        /\ UNCHANGED <<backlog, mClients, mEndpointsToDelete>>
    BY <1>4 DEF ReleaseKicked, tables
  <2>2. c \in Clients /\ ep[c].state = "live" /\ Sane(ep[c])
    BY <1>1, <2>1, Places, HeldIs DEF IInv, EndpointsAreSane
  <2>3. at[t] \notin Making
    BY <2>1 DEF Making
  <2> QED BY <1>1, <2>1, <2>2, <2>3, ReleaseStep
<1>5. CASE ClearStashedEnvelopes
  <2>1. /\ at[t] = "not found" /\ at' = [at EXCEPT ![t] = "idle"]
        /\ UNCHANGED <<backlog, mClients, mEndpointsToDelete, hold, ep>>
    BY <1>5 DEF ClearStashedEnvelopes, Step, socketVars
  <2>2. \A u \in Threads : at'[u] = at[u] \/ (at[u] \notin Making /\ at'[u] \notin Making)
    BY <2>1 DEF Making, IInv, Elsewhere
  <2> QED BY <2>1, <2>2, Frame
<1> QED BY <1>2, <1>3, <1>4, <1>5

LEMMA OtherStep ==
    ASSUME IInv, EndpointsAreSane', Elsewhere',
           \/ HandleNotice \/ EndSession \/ DeleteSession \/ DeleteRoutingData
           \/ \E c \in Clients : ClientLeaves(c)
    PROVE  IInv'
<1>1. UNCHANGED <<backlog, mClients, mEndpointsToDelete, hold, ep, at>>
  BY DEF HandleNotice, EndSession, DeleteSession, ShutdownSession, BecomeDefunct,
         DeleteRoutingData, ClientLeaves, tables, socketVars, threadVars
<1> QED BY <1>1, Frame

LEMMA InvStep == IInv /\ [Next]_vars => IInv'
<1> SUFFICES ASSUME IInv, [Next]_vars PROVE IInv'
  OBVIOUS
<1> USE DEF Typed
<1>1. ASSUME NEW c \in Clients, ClientConnects(c) PROVE IInv'
  BY <1>1, ClientsTyped, ConnectStep
<1>2. ASSUME NEW c \in Clients, ClientLeaves(c) PROVE IInv'
  BY <1>2, ClientsTyped, OtherStep
<1>3. ASSUME NEW c \in Clients, EndpointThread(c) PROVE IInv'
  BY <1>3, EndpointThreadTyped, EndpointThreadStep
<1>4. ASSUME NEW s \in Sources, FindClient(s) \/ RouteMessage(s) PROVE IInv'
  <2>1. CASE Destroyed(s)
    <3>1. s \in Threads
      BY Places
    <3> QED BY <2>1, <3>1, DestroyedTyped, DestroyedStep
  <2> QED BY <1>4, <2>1, SourceTyped, SourceStep DEF RouteMessage
<1>5. CASE Router
  <2>1. CASE Destroyed("router")
    <3>1. "router" \in Threads
      BY Places
    <3> QED BY <2>1, <3>1, DestroyedTyped, DestroyedStep
  <2>2. CASE AcceptClient
    BY <2>2, AcceptTyped, AcceptStep
  <2>3. CASE ConstructEndpoint
    BY <2>3, ConstructTyped, ConstructStep
  <2>4. CASE TrackClient
    BY <2>4, TrackTyped, TrackStep
  <2>5. CASE DestroyEndpoint
    BY <2>5, DestroyTyped, DestroyStep
  <2> QED BY <1>5, <2>1, <2>2, <2>3, <2>4, <2>5 DEF Router
<1>6. CASE ServiceToRouter
  <2>1. CASE Destroyed("service_to_router")
    <3>1. "service_to_router" \in Threads
      BY Places
    <3> QED BY <2>1, <3>1, DestroyedTyped, DestroyedStep
  <2>2. CASE DeleteRoutingData
    BY <2>2, NodeServiceTyped, OtherStep
  <2>3. CASE KickClient \/ FlagKicked \/ ReleaseKicked \/ ClearStashedEnvelopes
    BY <2>3, ServiceToRouterTyped, ServiceToRouterStep
  <2> QED BY <1>6, <2>1, <2>2, <2>3 DEF ServiceToRouter
<1>7. CASE EndSession \/ DeleteSession \/ HandleNotice
  BY <1>7, NodeServiceTyped, OtherStep
<1>8. CASE UNCHANGED vars
  <2>1. UNCHANGED <<session, toRouter, toService, mRoutingData, backlog, closed, got, mClients,
                    mPendingEnvelopes, ep, mEndpointsToDelete, at, hold, routed>>
    BY <1>8 DEF vars, serviceVars, tables, socketVars, connections, threadVars
  <2>2. EndpointsAreSane' /\ Elsewhere'
    BY <2>1, SaneSame DEF IInv, Elsewhere
  <2> QED BY <2>1, <2>2, Frame
<1> QED BY <1>1, <1>2, <1>3, <1>4, <1>5, <1>6, <1>7, <1>8 DEF Next

LEMMA Invariance == Spec => []IInv
<1> QED BY InvInit, InvStep, PTL DEF Spec

-----------------------------------------------------------------------------
(* The theorems.                                                           *)

\* Every reachable state is well typed, and the queue, the threads and the
\* shutdown flag of every endpoint agree.
THEOREM TypeCorrect == Spec => []TypeOK
<1> QED BY Invariance, InvIsTyped, PTL

\* Whichever threads find, queue to, kick, flag, release and destroy the
\* endpoints of any number of clients: none is used once it was destroyed, and
\* the bare pointers in mEndpointsToDelete never dangle.
THEOREM EndpointsAreAlive == Spec => []UsedIsAlive
<1>1. IInv => UsedIsAlive
  BY DEF IInv
<1> QED BY <1>1, Invariance, PTL
-----------------------------------------------------------------------------
(* Order.  What was routed to a client is in a line: what the client has   *)
(* got, what its endpoint is sending, what is in the endpoint's queue.  In *)
(* front of the line of a client that is not there yet is the stash.       *)

\* Of two messages of a source the first was routed before the second; the
\* status of the node service and no message are in nobody's way.
Precedes(x, y) == x \in Message /\ y \in Message /\ x[1] = y[1] => x[2] < y[2]

Ordered(q) == \A i, j \in DOMAIN q : i < j => Precedes(q[i], q[j])

Items(r) == r.mMessageQueue.items

\* What is in the line of a client that has got g, with endpoint r.
Has(g, r) == Range(g) \cup {r.sending} \cup Range(Items(r))

InLine(g, r) ==
    /\ Ordered(g) /\ Ordered(Items(r))
    /\ \A x \in Range(g) : Precedes(x, r.sending)
    /\ \A y \in Range(Items(r)) : Precedes(r.sending, y)
    /\ \A x \in Range(g), y \in Range(Items(r)) : Precedes(x, y)

\* x is one of the n[s] messages that each source s has routed.
IsRouted(n, x) == x \in Message => x[2] <= n[x[1]]

Kept(g, r, n) == InLine(g, r) /\ \A x \in Has(g, r) : IsRouted(n, x)

StashIsKept(q, n) == Ordered(q) /\ \A x \in Range(q) : IsRouted(n, x)

OrderIsKept ==
    /\ \A c \in Clients : Kept(got[c], ep[c], routed)
    /\ StashIsKept(mPendingEnvelopes, routed)

NothingIn(c) == got[c] = <<>> /\ ep[c].sending = NoMessage /\ Items(ep[c]) = <<>>

\* There is nothing in the line of a client that is not tracked yet, and the
\* router alone knows of its endpoint.
NewHasNothing ==
    /\ \A c \in Clients : ep[c].state = "none" => NothingIn(c)
    /\ at["router"] = "constructed" =>
          /\ NothingIn(hold["router"])
          /\ \A t \in Threads \ {"router"} : hold[t] # hold["router"]

\* A client whose connection is closed has got nothing to compare; an endpoint
\* closes it when it is stopped.
ClosedHasNothing ==
    /\ \A c \in closed : got[c] = <<>>
    /\ \A c \in Clients : ep[c].state \in {"stopped", "gone"} => c \in closed

\* Until the session ends nobody is kicked and no stash cleared.
LiveIsQuiet ==
    session = "live" =>
        toRouter = <<>> /\ mRoutingData /\ at["service_to_router"] = "idle"

\* The first client of the session is not tracked yet.
Expected == ep[1].state = "none" \/ (at["router"] = "constructed" /\ hold["router"] = 1)

Everything == {m \in Message : m[2] <= routed[m[1]]}

\* The first client of the session is the only one there is, and whatever was
\* routed is in the stash or, from the moment the client is tracked, in its line.
Served ==
    /\ \A c \in Clients \ {1} : ep[c].state = "none"
    /\ ~ep[1].mFlaggedForDestruction
    /\ ep[1].state = "none" =>
          \A c \in Clients \ {1} : c \notin Range(backlog) /\ hold["router"] # c
    /\ \/ /\ Expected /\ mClients = None
          /\ \A t \in Threads \ {"router"} : hold[t] = None
          /\ Everything \subseteq Range(mPendingEnvelopes)
       \/ /\ mClients = 1
          /\ Everything \subseteq Has(got[1], ep[1])

\* While the session lives and its first client stays.
FirstIsServed == session = "live" /\ 1 \in Clients /\ 1 \notin closed => Served

OInv ==
    /\ OrderIsKept
    /\ NewHasNothing
    /\ ClosedHasNothing
    /\ LiveIsQuiet
    /\ FirstIsServed

-----------------------------------------------------------------------------
(* Lines, and what is done to them.                                        *)

LEMMA NothingPrecedes ==
    /\ \A x : Precedes(x, NoMessage) /\ Precedes(NoMessage, x)
    /\ \A x : Precedes(x, STATUS) /\ Precedes(STATUS, x)
    /\ \A n : IsRouted(n, NoMessage) /\ IsRouted(n, STATUS)
<1>1. NoMessage \notin Message
  BY NoMessageIsNone
<1>2. STATUS \notin Message
  <2>1. \A x \in Message : x[2] \in 1 .. MaxMessages
    BY DEF Message
  <2>2. STATUS[2] = 0 /\ 0 \notin 1 .. MaxMessages
    BY ClientsAssumption DEF STATUS
  <2> QED BY <2>1, <2>2
<1> QED BY <1>1, <1>2 DEF Precedes, IsRouted

LEMMA NothingOrdered == Ordered(<<>>) /\ Range(<<>>) = {}
BY DEF Ordered, Range

LEMMA OrderedAppend ==
    ASSUME NEW S, NEW q \in Seq(S), NEW m \in S, Ordered(q),
           \A x \in Range(q) : Precedes(x, m)
    PROVE  Ordered(Append(q, m))
<1>1. /\ Append(q, m) \in Seq(S)
      /\ DOMAIN q = 1 .. Len(q) /\ Len(q) \in Nat
      /\ DOMAIN Append(q, m) = 1 .. Len(q) + 1
      /\ \A i \in 1 .. Len(q) : Append(q, m)[i] = q[i]
      /\ Append(q, m)[Len(q) + 1] = m
  OBVIOUS
<1>2. \A i \in 1 .. Len(q) : q[i] \in Range(q)
  BY <1>1 DEF Range
<1> SUFFICES ASSUME NEW i \in 1 .. Len(q) + 1, NEW j \in 1 .. Len(q) + 1, i < j
             PROVE  Precedes(Append(q, m)[i], Append(q, m)[j])
  BY <1>1 DEF Ordered
<1>3. i \in 1 .. Len(q)
  BY <1>1
<1>4. CASE j = Len(q) + 1
  BY <1>1, <1>2, <1>3, <1>4
<1>5. CASE j # Len(q) + 1
  <2>1. j \in 1 .. Len(q)
    BY <1>1, <1>5
  <2> QED BY <1>1, <1>3, <2>1 DEF Ordered
<1> QED BY <1>4, <1>5

LEMMA OrderedTail ==
    ASSUME NEW S, NEW q \in Seq(S), q # <<>>, Ordered(q)
    PROVE  /\ Ordered(Tail(q))
           /\ \A y \in Range(Tail(q)) : Precedes(Head(q), y)
           /\ Range(q) = {Head(q)} \cup Range(Tail(q))
<1>1. /\ Head(q) = q[1] /\ DOMAIN q = 1 .. Len(q) /\ Len(q) \in Nat /\ 1 \in DOMAIN q
      /\ DOMAIN Tail(q) = 1 .. Len(q) - 1
      /\ \A i \in 1 .. Len(q) - 1 : Tail(q)[i] = q[i + 1]
  BY HeadTailProperties, EmptySeq
<1>2. \A i \in DOMAIN Tail(q) : i + 1 \in DOMAIN q /\ 1 < i + 1 /\ Tail(q)[i] = q[i + 1]
  BY <1>1
<1>3. \A i, j \in DOMAIN Tail(q) : i < j => i + 1 < j + 1
  BY <1>1
<1>4. \A i \in DOMAIN q : i = 1 \/ (i - 1 \in DOMAIN Tail(q) /\ Tail(q)[i - 1] = q[i])
  <2>1. \A i \in 1 .. Len(q) : i = 1 \/ (i - 1 \in 1 .. Len(q) - 1 /\ (i - 1) + 1 = i)
    BY <1>1
  <2> QED BY <1>1, <2>1
<1>5. Ordered(Tail(q))
  BY <1>2, <1>3 DEF Ordered
<1>6. \A y \in Range(Tail(q)) : Precedes(Head(q), y)
  <2> SUFFICES ASSUME NEW i \in DOMAIN Tail(q) PROVE Precedes(Head(q), Tail(q)[i])
    BY DEF Range
  <2> QED BY <1>1, <1>2 DEF Ordered
<1>7. Range(q) = {Head(q)} \cup Range(Tail(q))
  BY <1>1, <1>2, <1>4 DEF Range
<1> QED BY <1>5, <1>6, <1>7

\* Messages are lost, none is added.
LEMMA KeptLess ==
    ASSUME NEW g, NEW r, NEW n, Kept(g, r, n), NEW g2, NEW r2,
           g2 \in {g, <<>>}, r2.sending \in {r.sending, NoMessage},
           Items(r2) \in {Items(r), <<>>}
    PROVE  Kept(g2, r2, n)
<1>1. /\ Range(g2) \subseteq Range(g) /\ Range(Items(r2)) \subseteq Range(Items(r))
      /\ Ordered(g2) /\ Ordered(Items(r2))
  BY NothingOrdered DEF Kept, InLine
<1>2. InLine(g2, r2)
  BY <1>1, NothingPrecedes DEF Kept, InLine
<1>3. \A x \in Has(g2, r2) : IsRouted(n, x)
  BY <1>1, NothingPrecedes DEF Kept, Has
<1> QED BY <1>2, <1>3 DEF Kept

\* More is routed.
LEMMA KeptMore ==
    ASSUME NEW g, NEW r, NEW n, NEW k, \A x : IsRouted(n, x) => IsRouted(k, x)
    PROVE  Kept(g, r, n) => Kept(g, r, k)
BY DEF Kept

LEMMA StashMore ==
    ASSUME NEW q, NEW n, NEW k, \A x : IsRouted(n, x) => IsRouted(k, x)
    PROVE  StashIsKept(q, n) => StashIsKept(q, k)
BY DEF StashIsKept

\* A message that is behind all others is added to the queue.
LEMMA KeptAppend ==
    ASSUME NEW S, NEW g, NEW r, Items(r) \in Seq(S), NEW m \in S, NEW n, Kept(g, r, n), IsRouted(n, m),
           \A x \in Has(g, r) : Precedes(x, m),
           NEW r2, r2.sending = r.sending, Items(r2) = Append(Items(r), m)
    PROVE  Kept(g, r2, n) /\ Has(g, r2) = Has(g, r) \cup {m}
<1>1. Range(Items(r2)) = Range(Items(r)) \cup {m}
  BY AppendIs
<1>2. Has(g, r2) = Has(g, r) \cup {m}
  BY <1>1 DEF Has
<1>3. /\ \A x \in Range(g) : Precedes(x, m)
      /\ \A x \in Range(Items(r)) : Precedes(x, m)
      /\ Precedes(r.sending, m)
  BY DEF Has
<1>4. Ordered(Items(r2))
  BY <1>3, OrderedAppend DEF Kept, InLine
<1>5. InLine(g, r2)
  BY <1>1, <1>3, <1>4 DEF Kept, InLine
<1> QED BY <1>2, <1>5 DEF Kept

\* The front of the queue is taken for sending.
LEMMA KeptPop ==
    ASSUME NEW S, NEW g, NEW r, Items(r) \in Seq(S), Items(r) # <<>>, r.sending = NoMessage,
           NEW n, Kept(g, r, n),
           NEW r2, r2.sending = Head(Items(r)), Items(r2) = Tail(Items(r))
    PROVE  Kept(g, r2, n) /\ Has(g, r) \subseteq Has(g, r2) \cup {NoMessage}
<1>1. /\ Ordered(Items(r2))
      /\ \A y \in Range(Items(r2)) : Precedes(r2.sending, y)
      /\ Range(Items(r)) = {r2.sending} \cup Range(Items(r2))
  BY OrderedTail DEF Kept, InLine
<1>2. InLine(g, r2)
  BY <1>1 DEF Kept, InLine
<1>3. Has(g, r2) \subseteq Has(g, r) /\ Has(g, r) \subseteq Has(g, r2) \cup {NoMessage}
  BY <1>1 DEF Has
<1> QED BY <1>2, <1>3 DEF Kept

\* What was being sent arrives.
LEMMA KeptSent ==
    ASSUME NEW S, NEW g \in Seq(S), NEW r, r.sending \in S, NEW n, Kept(g, r, n),
           NEW r2, r2.sending = NoMessage, Items(r2) = Items(r)
    PROVE  LET h == Append(g, r.sending)
           IN  Kept(h, r2, n) /\ Has(g, r) \subseteq Has(h, r2)
<1> DEFINE h == Append(g, r.sending)
<1>1. Range(h) = Range(g) \cup {r.sending}
  BY AppendIs
<1>2. Ordered(h)
  BY OrderedAppend DEF Kept, InLine
<1> HIDE DEF h
<1>3. InLine(h, r2)
  BY <1>1, <1>2, NothingPrecedes DEF Kept, InLine
<1>4. Has(h, r2) = Has(g, r) \cup {NoMessage}
  BY <1>1 DEF Has
<1>5. \A x \in Has(h, r2) : IsRouted(n, x)
  BY <1>4, NothingPrecedes DEF Kept
<1> QED BY <1>3, <1>4, <1>5 DEF Kept, h

\* The stash is put into a line with nothing in it.
LEMMA KeptLoad ==
    ASSUME NEW stash, NEW n, StashIsKept(stash, n), NEW r2, r2.sending = NoMessage,
           Items(r2) = stash
    PROVE  Kept(<<>>, r2, n) /\ Range(stash) \subseteq Has(<<>>, r2)
<1>1. InLine(<<>>, r2)
  BY NothingPrecedes, NothingOrdered DEF InLine, StashIsKept
<1>2. Has(<<>>, r2) = {NoMessage} \cup Range(stash)
  BY NothingOrdered DEF Has
<1> QED BY <1>1, <1>2, NothingPrecedes DEF Kept, StashIsKept

LEMMA StashAppend ==
    ASSUME NEW S, NEW q \in Seq(S), NEW m \in S, NEW n, StashIsKept(q, n), IsRouted(n, m),
           \A x \in Range(q) : Precedes(x, m)
    PROVE  StashIsKept(Append(q, m), n)
BY AppendIs, OrderedAppend DEF StashIsKept

\* The next message of a source is behind all that it has routed.
LEMMA NextIsLast ==
    ASSUME IInv, NEW s \in Sources, routed' = [routed EXCEPT ![s] = @ + 1], NEW m,
           m = <<s, routed[s] + 1>>, m \in Message
    PROVE  /\ \A x : IsRouted(routed, x) => IsRouted(routed', x) /\ Precedes(x, m)
           /\ IsRouted(routed', m)
           /\ Everything' \subseteq Everything \cup {m}
<1>1. /\ routed \in [Sources -> 0 .. MaxMessages] /\ MaxMessages \in Nat
      /\ routed'[s] = routed[s] + 1 /\ \A u \in Sources \ {s} : routed'[u] = routed[u]
      /\ routed[s] \in Int
  <2>1. routed \in [Sources -> 0 .. MaxMessages] /\ MaxMessages \in Nat
    BY ClientsAssumption DEF IInv, Elsewhere
  <2>2. routed[s] \in 0 .. MaxMessages
    BY <2>1
  <2>3. routed[s] \in Int
    BY <2>1, <2>2
  <2> QED BY <2>1, <2>3
<1>2. \A x \in Message : x[1] \in Sources /\ x[2] \in Int /\ x = <<x[1], x[2]>>
  BY ClientsAssumption DEF Message
<1>3. ASSUME NEW x, IsRouted(routed, x) PROVE IsRouted(routed', x)
  <2>1. ASSUME x \in Message PROVE x[2] <= routed'[x[1]]
    <3>1. x[2] <= routed[x[1]] /\ x[1] \in Sources /\ x[2] \in Int
      BY <1>2, <1>3, <2>1 DEF IsRouted
    <3>2. CASE x[1] = s
      <4>1. x[2] <= routed[s]
        BY <3>1, <3>2
      <4>2. x[2] <= routed[s] + 1
        BY <1>1, <3>1, <4>1
      <4> QED BY <1>1, <3>2, <4>2
    <3>3. CASE x[1] # s
      BY <1>1, <3>1, <3>3
    <3> QED BY <3>2, <3>3
  <2> QED BY <2>1 DEF IsRouted
<1>4. ASSUME NEW x, IsRouted(routed, x) PROVE Precedes(x, m)
  <2>1. ASSUME x \in Message, x[1] = m[1] PROVE x[2] < m[2]
    <3>1. x[2] <= routed[s] /\ x[2] \in Int /\ m[2] = routed[s] + 1
      BY <1>2, <1>4, <2>1 DEF IsRouted
    <3> QED BY <1>1, <3>1
  <2> QED BY <2>1 DEF Precedes
<1>5. IsRouted(routed', m)
  BY <1>1 DEF IsRouted
<1>6. ASSUME NEW x \in Everything' PROVE x \in Everything \cup {m}
  <2>1. x \in Message /\ x[2] <= routed'[x[1]] /\ x[1] \in Sources /\ x[2] \in Int /\ x = <<x[1], x[2]>>
    BY <1>2, <1>6 DEF Everything
  <2>2. CASE x[1] = s
    <3>1. x[2] <= routed[s] + 1
      BY <1>1, <2>1, <2>2
    <3>2. x[2] <= routed[s] \/ x[2] = routed[s] + 1
      BY <1>1, <2>1, <3>1
    <3> QED BY <2>1, <2>2, <3>2 DEF Everything
  <2>3. CASE x[1] # s
    BY <1>1, <2>1, <2>3 DEF Everything
  <2> QED BY <2>2, <2>3
<1> QED BY <1>3, <1>4, <1>5, <1>6

-----------------------------------------------------------------------------
(* Whom a step touches.                                                    *)

\* What a step does to one client c and its endpoint.
Leaves(c) == Close(c) /\ UNCHANGED ep
Begins(c) ==
    /\ ep[c].state = "none"
    /\ \E valid \in BOOLEAN : Set(c, Endpoint(valid))
    /\ UNCHANGED connections
Takes(c) ==
    /\ ep[c].state = "live"
    /\ \E m \in Message \cup {STATUS} : Set(c, Queued(ep[c], m))
    /\ UNCHANGED connections
Flags(c) ==
    /\ ep[c].state = "live"
    /\ Set(c, [ep[c] EXCEPT !.mFlaggedForDestruction = TRUE])
    /\ UNCHANGED connections
Lets(c) == ep[c].state = "live" /\ Set(c, ep[c]) /\ UNCHANGED connections
Stops(c) ==
    /\ ep[c].state = "live"
    /\ \E r : Sane(r) /\ r.sending = ep[c].sending /\ r.state = "live" /\ Set(c, Stopped(r))
    /\ Close(c)
Ends(c) ==
    /\ ep[c].state = "stopped"
    /\ Set(c, [NoEndpoint EXCEPT !.state = "gone"])
    /\ UNCHANGED connections
Loads(c) == TrackClient /\ c = hold["router"]

\* All but the queueing of something new.
Quiet(c) ==
    \/ Leaves(c) \/ Begins(c) \/ Flags(c) \/ Lets(c) \/ Stops(c) \/ Ends(c)
    \/ Loads(c) \/ EndpointThread(c)

Effect(c) == Quiet(c) \/ Takes(c)

KicksSomeone == KickClient /\ mClients # None

LEMMA ReleaseEffect ==
    ASSUME IInv, NEW t \in Threads, NEW c \in Clients, NEW r, Sane(r), r.state = "live",
           r.sending = ep[c].sending, ep[c].state = "live", Release(t, c, r)
    PROVE  Stops(c) \/ (Set(c, r) /\ UNCHANGED connections)
BY DEF Release, Stops

LEMMA DestroyedEffect ==
    ASSUME IInv, NEW t \in Threads, Destroyed(t)
    PROVE  \E c \in Clients : Ends(c)
<1>1. hold[t] \in Clients /\ ep[hold[t]].state = "stopped"
  BY DestroyingIs DEF Destroyed, Step
<1>2. Ends(hold[t])
  BY <1>1 DEF Destroyed, Ends, socketVars
<1> QED BY <1>1, <1>2

LEMMA SourceEffect ==
    ASSUME IInv, NEW s \in Sources, FindClient(s) \/ RouteMessage(s)
    PROVE  UNCHANGED <<ep, connections>> \/ \E c \in Clients : Effect(c)
<1>1. s \in Threads /\ mClients \in Clients \cup {None}
  BY Places
<1>2. CASE FindClient(s)
  BY <1>2 DEF FindClient, socketVars
<1>3. CASE QueueToClient(s)
  <2> DEFINE m == <<s, routed[s] + 1>>
             r == Queued(ep[hold[s]], m)
  <2>1. at[s] = "found" /\ hold[s] \in Clients
    BY <1>1, <1>3, Places DEF QueueToClient
  <2>2. ep[hold[s]].state = "live" /\ Sane(ep[hold[s]]) /\ m \in Message
    BY <1>1, <2>1, NoneIsNoClient, HeldIs, NextMessage DEF IInv, EndpointsAreSane
  <2>3. Sane(r) /\ r.state = "live" /\ r.sending = ep[hold[s]].sending
    BY <2>2, QueuedIsSane DEF LikeBut
  <2>4. Release(s, hold[s], r)
    BY <1>3 DEF QueueToClient
  <2> HIDE DEF r, m
  <2>5. Stops(hold[s]) \/ (Set(hold[s], r) /\ UNCHANGED connections)
    BY <1>1, <2>1, <2>2, <2>3, <2>4, ReleaseEffect
  <2>6. Stops(hold[s]) \/ Takes(hold[s])
    BY <2>2, <2>5 DEF Takes, r
  <2> QED BY <2>1, <2>6 DEF Effect, Quiet
<1>4. CASE StashEnvelope(s)
  <2> DEFINE m == <<s, routed[s] + 1>>
  <2>1. Stash(m) /\ UNCHANGED connections /\ m \in Message
    BY <1>4, NextMessage DEF StashEnvelope, socketVars, Step
  <2>2. CASE mClients = None
    BY <2>1, <2>2 DEF Stash
  <2>3. CASE mClients # None
    <3>1. mClients \in Clients /\ ep[mClients].state = "live"
      BY <1>1, <2>3 DEF IInv, UsedIsAlive
    <3>2. Takes(mClients)
      BY <2>1, <2>3, <3>1 DEF Stash, Takes
    <3> QED BY <3>1, <3>2 DEF Effect, Quiet
  <2> QED BY <2>2, <2>3
<1>5. CASE Destroyed(s)
  BY <1>1, <1>5, DestroyedEffect DEF Effect, Quiet
<1> QED BY <1>2, <1>3, <1>4, <1>5 DEF RouteMessage

LEMMA RouterEffect ==
    ASSUME IInv, Router
    PROVE  UNCHANGED <<ep, connections>> \/ \E c \in Clients : Quiet(c)
<1>1. "router" \in Threads
  BY Places
<1>2. CASE AcceptClient
  <2>1. Head(backlog) \in Clients /\ Head(backlog) \in Range(backlog)
    BY <1>2, TailIs DEF AcceptClient, IInv, Elsewhere
  <2>2. ep[Head(backlog)].state = "none"
    BY <2>1, WaitingIs
  <2>3. \/ Close(Head(backlog)) /\ UNCHANGED ep
        \/ UNCHANGED <<ep, connections>>
        \/ Set(Head(backlog), Endpoint(FALSE)) /\ UNCHANGED connections
    BY <1>2 DEF AcceptClient
  <2> QED BY <2>1, <2>2, <2>3 DEF Quiet, Leaves, Begins
<1>3. CASE ConstructEndpoint
  <2>1. hold["router"] \in Clients /\ ep[hold["router"]].state = "none"
    BY <1>1, <1>3, Places DEF ConstructEndpoint, IInv, NotAcceptedYet
  <2>2. \/ Close(hold["router"]) /\ UNCHANGED ep
        \/ Set(hold["router"], Endpoint(TRUE)) /\ UNCHANGED connections
    BY <1>3 DEF ConstructEndpoint
  <2> QED BY <2>1, <2>2 DEF Quiet, Leaves, Begins
<1>4. CASE TrackClient
  <2>1. hold["router"] \in Clients
    BY <1>1, <1>4, Places DEF TrackClient, Step
  <2> QED BY <1>4, <2>1 DEF Quiet, Loads
<1>5. CASE DestroyEndpoint
  <2> DEFINE c == Head(mEndpointsToDelete)
  <2>1. c \in Clients /\ c \in Range(mEndpointsToDelete)
    BY <1>5, TailIs DEF DestroyEndpoint, IInv, Elsewhere
  <2>2. ep[c].state = "live" /\ Sane(ep[c])
    BY <2>1 DEF IInv, UsedIsAlive, EndpointsAreSane
  <2>3. UNCHANGED <<ep, connections>> \/ (Set(c, Stopped(ep[c])) /\ Close(c))
    BY <1>5 DEF DestroyEndpoint
  <2> HIDE DEF c
  <2>4. UNCHANGED <<ep, connections>> \/ Stops(c)
    BY <2>2, <2>3 DEF Stops
  <2> QED BY <2>1, <2>4 DEF Quiet
<1>6. CASE Destroyed("router")
  BY <1>1, <1>6, DestroyedEffect DEF Quiet
<1> QED BY <1>2, <1>3, <1>4, <1>5, <1>6 DEF Router

LEMMA ServiceEffect ==
    ASSUME IInv, ServiceToRouter
    PROVE  \/ UNCHANGED <<ep, connections>>
           \/ \E b \in Clients : Quiet(b)
           \/ KicksSomeone /\ \E b \in Clients : Takes(b)
<1> DEFINE t == "service_to_router"
           c == hold[t]
<1>1. t \in Threads /\ mClients \in Clients \cup {None}
  BY Places
<1>2. CASE DeleteRoutingData \/ ClearStashedEnvelopes
  BY <1>2 DEF DeleteRoutingData, ClearStashedEnvelopes, socketVars
<1>3. CASE KickClient
  <2>1. UNCHANGED connections
    BY <1>3 DEF KickClient, socketVars
  <2>2. CASE mClients = None
    BY <1>3, <2>1, <2>2 DEF KickClient
  <2>3. CASE mClients # None
    <3>1. mClients \in Clients /\ ep[mClients].state = "live"
      BY <1>1, <2>3 DEF IInv, UsedIsAlive
    <3>2. Takes(mClients)
      BY <1>3, <2>1, <2>3, <3>1 DEF KickClient, Takes
    <3> QED BY <1>3, <2>3, <3>1, <3>2 DEF KicksSomeone
  <2> QED BY <2>2, <2>3
<1>4. CASE FlagKicked \/ ReleaseKicked
  <2>1. at[t] \in {"status queued", "flagged"}
    BY <1>4 DEF FlagKicked, ReleaseKicked, Step
  <2>2. c \in Clients /\ ep[c].state = "live" /\ Sane(ep[c])
    BY <1>1, <2>1, Places, HeldIs DEF IInv, EndpointsAreSane
  <2>3. CASE FlagKicked
    <3>1. Flags(c)
      BY <2>2, <2>3 DEF FlagKicked, Flag, Flags, socketVars
    <3> QED BY <2>2, <3>1 DEF Quiet
  <2>4. CASE ReleaseKicked
    <3>1. Release(t, c, ep[c])
      BY <2>4 DEF ReleaseKicked
    <3>2. Stops(c) \/ Lets(c)
      BY <1>1, <2>2, <3>1, ReleaseEffect DEF Lets
    <3> QED BY <2>2, <3>2 DEF Quiet
  <2> QED BY <1>4, <2>3, <2>4
<1>5. CASE Destroyed(t)
  BY <1>1, <1>5, DestroyedEffect DEF Quiet
<1> QED BY <1>2, <1>3, <1>4, <1>5 DEF ServiceToRouter

\* A step changes nothing here, or one client that takes nothing new.
LEMMA QuietEffects ==
    ASSUME IInv, Next, ~KicksSomeone,
           ~\E s \in Sources : QueueToClient(s) \/ StashEnvelope(s)
    PROVE  UNCHANGED <<ep, connections>> \/ \E c \in Clients : Quiet(c)
<1>1. ASSUME NEW c \in Clients, ClientConnects(c) PROVE UNCHANGED <<ep, connections>>
  BY <1>1 DEF ClientConnects
<1>2. ASSUME NEW c \in Clients, ClientLeaves(c) PROVE Quiet(c)
  BY <1>2 DEF ClientLeaves, Quiet, Leaves
<1>3. ASSUME NEW c \in Clients, EndpointThread(c) PROVE Quiet(c)
  BY <1>3 DEF Quiet
<1>4. CASE EndSession \/ DeleteSession \/ HandleNotice
  BY <1>4 DEF EndSession, DeleteSession, HandleNotice, ShutdownSession, BecomeDefunct, socketVars
<1>5. ASSUME NEW s \in Sources, FindClient(s) \/ RouteMessage(s)
      PROVE  UNCHANGED <<ep, connections>> \/ \E c \in Clients : Quiet(c)
  <2>1. CASE FindClient(s)
    BY <2>1 DEF FindClient, socketVars
  <2>2. CASE Destroyed(s)
    <3>1. s \in Threads
      BY Places
    <3> QED BY <2>2, <3>1, DestroyedEffect DEF Quiet
  <2> QED BY <1>5, <2>1, <2>2 DEF RouteMessage
<1> QED BY <1>1, <1>2, <1>3, <1>4, <1>5, RouterEffect, ServiceEffect DEF Next

LEMMA Effects ==
    ASSUME IInv, Next
    PROVE  UNCHANGED <<ep, connections>> \/ \E c \in Clients : Effect(c)
<1>1. CASE \E s \in Sources : QueueToClient(s) \/ StashEnvelope(s)
  BY <1>1, SourceEffect DEF RouteMessage
<1>2. CASE KicksSomeone
  BY <1>2, ServiceEffect DEF KicksSomeone, ServiceToRouter, Effect
<1>3. CASE ~KicksSomeone /\ ~\E s \in Sources : QueueToClient(s) \/ StashEnvelope(s)
  BY <1>3, QuietEffects DEF Effect
<1> QED BY <1>1, <1>2, <1>3

\* What the threads of an endpoint do to the line.
Pops(c) ==
    /\ Items(ep[c]) # <<>> /\ ep[c].sending = NoMessage
    /\ ep'[c].sending = Head(Items(ep[c])) /\ Items(ep'[c]) = Tail(Items(ep[c]))
    /\ got' = got
Delivers(c) ==
    /\ ep[c].sending \in Message /\ c \notin closed
    /\ ep'[c].sending = NoMessage /\ Items(ep'[c]) = Items(ep[c])
    /\ got' = [got EXCEPT ![c] = Append(@, ep[c].sending)]
Loses(c) ==
    /\ ep'[c].sending \in {ep[c].sending, NoMessage}
    /\ Items(ep'[c]) \in {Items(ep[c]), <<>>}
    /\ got'[c] \in {got[c], <<>>}

LEMMA EndpointThreadIs ==
    ASSUME IInv, NEW c \in Clients, EndpointThread(c)
    PROVE  /\ \A d \in Clients \ {c} : ep'[d] = ep[d] /\ got'[d] = got[d]
           /\ closed' = closed
           /\ ep[c].state \notin {"none", "gone"} /\ ep'[c].state = ep[c].state
           /\ \/ Pops(c) \/ Delivers(c)
              \/ Loses(c) /\ got' = got
           /\ c \notin closed /\ ep[c].state = "live" =>
                 /\ ep'[c].mFlaggedForDestruction = ep[c].mFlaggedForDestruction
                 /\ \/ Pops(c) \/ Delivers(c)
                    \/ /\ Loses(c) /\ got' = got /\ Items(ep'[c]) = Items(ep[c])
                       /\ \/ ep'[c].sending = ep[c].sending
                          \/ ep'[c].sending = NoMessage /\ ep[c].sending = STATUS
<1>1. /\ Sane(ep[c]) /\ ep \in [Clients -> ClientRemoteEndpoint] /\ ep[c] \in ClientRemoteEndpoint
      /\ got \in [Clients -> Seq(Message)]
  BY DEF IInv, EndpointsAreSane, Elsewhere
<1>2. CASE PopMessage(c)
  <2>0. UNCHANGED connections /\ ep[c].sendAt = "popping"
    BY <1>2 DEF PopMessage, socketVars
  <2>1. ep[c].state \notin {"none", "gone"} /\ ep[c].sending = NoMessage
    BY <1>1, <2>0 DEF Sane
  <2>2. CASE ~Accepts(ep[c].mMessageQueue) /\ Set(c, [ep[c] EXCEPT !.sendAt = "done"])
    <3>1. /\ \A d \in Clients \ {c} : ep'[d] = ep[d]
          /\ ep'[c].state = ep[c].state /\ ep'[c].sending = ep[c].sending
          /\ ep'[c].mMessageQueue = ep[c].mMessageQueue
      BY <1>1, <2>2 DEF Set, ClientRemoteEndpoint
    <3>2. ep[c].state = "stopped"
      BY <1>1, <2>2 DEF Sane
    <3> QED BY <2>0, <2>1, <3>1, <3>2 DEF Loses, Items, connections
  <2>3. CASE /\ Poppable(ep[c].mMessageQueue)
             /\ Set(c, [ep[c] EXCEPT !.sendAt = "sending", !.sending = First(ep[c].mMessageQueue),
                                     !.mMessageQueue = Pop(ep[c].mMessageQueue)])
    <3>1. /\ \A d \in Clients \ {c} : ep'[d] = ep[d]
          /\ ep'[c].state = ep[c].state /\ ep'[c].sending = First(ep[c].mMessageQueue)
          /\ ep'[c].mMessageQueue = Pop(ep[c].mMessageQueue)
          /\ ep'[c].mFlaggedForDestruction = ep[c].mFlaggedForDestruction
      BY <1>1, <2>3 DEF Set, ClientRemoteEndpoint
    <3>2. Pop(ep[c].mMessageQueue).items = Tail(ep[c].mMessageQueue.items)
      BY <1>1 DEF Pop, ClientRemoteEndpoint, Queue
    <3>3. Pops(c)
      BY <2>0, <2>1, <2>3, <3>1, <3>2 DEF Pops, Items, First, Poppable, connections
    <3> QED BY <2>0, <2>1, <3>1, <3>3 DEF connections
  <2> QED BY <1>2, <2>2, <2>3 DEF PopMessage
<1>3. CASE SendEnvelope(c)
  <2> DEFINE r(to) == [[ep[c] EXCEPT !.sending = NoMessage] EXCEPT !.sendAt = to]
             m == ep[c].sending
  <2>0. closed' = closed /\ ep[c].sendAt = "sending"
    BY <1>3 DEF SendEnvelope
  <2>1. ep[c].state \notin {"none", "gone"} /\ m \in Message \cup {STATUS}
    BY <1>1, <2>0 DEF Sane, ClientRemoteEndpoint
  <2>2. ASSUME NEW to, NEW flagged, Set(c, [r(to) EXCEPT !.mFlaggedForDestruction = flagged])
        PROVE  /\ \A d \in Clients \ {c} : ep'[d] = ep[d]
               /\ ep'[c].state = ep[c].state /\ ep'[c].sending = NoMessage
               /\ Items(ep'[c]) = Items(ep[c])
               /\ ep'[c].mFlaggedForDestruction = flagged
    BY <1>1, <2>2 DEF Set, ClientRemoteEndpoint, Items
  <2>3. \A to : r(to) = [r(to) EXCEPT !.mFlaggedForDestruction = ep[c].mFlaggedForDestruction]
    BY <1>1 DEF ClientRemoteEndpoint
  <2>4. r("done").mShutdown = ep[c].mShutdown /\ ep[c].mShutdown \in BOOLEAN
        /\ [ep[c] EXCEPT !.sending = NoMessage].mShutdown = ep[c].mShutdown
    BY <1>1 DEF ClientRemoteEndpoint
  <2>5. CASE ep[c].mShutdown /\ Set(c, r("done")) /\ got' = got
    <3>1. ep[c].state = "stopped"
      BY <1>1, <2>5 DEF Sane
    <3> HIDE DEF r
    <3>2. /\ \A d \in Clients \ {c} : ep'[d] = ep[d]
          /\ ep'[c].state = ep[c].state /\ ep'[c].sending = NoMessage
          /\ Items(ep'[c]) = Items(ep[c])
      BY <2>2, <2>3, <2>5
    <3> QED BY <2>0, <2>1, <2>5, <3>1, <3>2 DEF Loses
  <2>6. CASE /\ ~ep[c].mShutdown /\ Set(c, r("popping"))
             /\ got' = IF c \notin closed /\ m # STATUS THEN [got EXCEPT ![c] = Append(@, m)] ELSE got
    <3> HIDE DEF r
    <3>1. /\ \A d \in Clients \ {c} : ep'[d] = ep[d]
          /\ ep'[c].state = ep[c].state /\ ep'[c].sending = NoMessage
          /\ Items(ep'[c]) = Items(ep[c])
          /\ ep'[c].mFlaggedForDestruction = ep[c].mFlaggedForDestruction
      BY <2>2, <2>3, <2>6
    <3>2. CASE c \notin closed /\ m # STATUS
      <4>1. Delivers(c)
        BY <2>1, <2>6, <3>1, <3>2 DEF Delivers
      <4>2. \A d \in Clients \ {c} : got'[d] = got[d]
        BY <1>1, <2>6, <3>2
      <4> QED BY <2>0, <2>1, <3>1, <4>1, <4>2
    <3>3. CASE ~(c \notin closed /\ m # STATUS)
      BY <2>0, <2>1, <2>6, <3>1, <3>3 DEF Loses
    <3> QED BY <3>2, <3>3
  <2>7. CASE ~ep[c].mShutdown /\ c \in closed /\ Flag(c, r("done")) /\ got' = got
    <3>1. Set(c, [r("done") EXCEPT !.mFlaggedForDestruction = TRUE])
      BY <2>7 DEF Flag
    <3> HIDE DEF r
    <3>2. /\ \A d \in Clients \ {c} : ep'[d] = ep[d]
          /\ ep'[c].state = ep[c].state /\ ep'[c].sending = NoMessage
          /\ Items(ep'[c]) = Items(ep[c])
      BY <2>2, <3>1
    <3> QED BY <2>0, <2>1, <2>7, <3>2 DEF Loses
  <2> QED BY <1>3, <2>4, <2>5, <2>6, <2>7 DEF SendEnvelope
<1>4. CASE ReceiveEnds(c)
  <2>0. UNCHANGED connections /\ ep[c].receiveAt = "reading"
    BY <1>4 DEF ReceiveEnds, socketVars
  <2>1. ep[c].state \notin {"none", "gone"}
    BY <1>1, <2>0 DEF Sane
  <2>2. ASSUME NEW flagged, Set(c, [[ep[c] EXCEPT !.receiveAt = "done"] EXCEPT !.mFlaggedForDestruction = flagged])
        PROVE  /\ \A d \in Clients \ {c} : ep'[d] = ep[d]
               /\ ep'[c].state = ep[c].state /\ ep'[c].sending = ep[c].sending
               /\ Items(ep'[c]) = Items(ep[c])
    BY <1>1, <2>2 DEF Set, ClientRemoteEndpoint, Items
  <2>3. [ep[c] EXCEPT !.receiveAt = "done"] = [[ep[c] EXCEPT !.receiveAt = "done"] EXCEPT !.mFlaggedForDestruction = ep[c].mFlaggedForDestruction]
    BY <1>1 DEF ClientRemoteEndpoint
  <2>4. ep[c].state = "stopped" \/ c \in closed
    BY <1>1, <1>4 DEF ReceiveEnds, Sane
  <2>5. \E flagged : Set(c, [[ep[c] EXCEPT !.receiveAt = "done"] EXCEPT !.mFlaggedForDestruction = flagged])
    BY <1>4, <2>3 DEF ReceiveEnds, Flag
  <2>6. /\ \A d \in Clients \ {c} : ep'[d] = ep[d]
        /\ ep'[c].state = ep[c].state /\ ep'[c].sending = ep[c].sending
        /\ Items(ep'[c]) = Items(ep[c])
    BY <2>2, <2>5
  <2> QED BY <2>0, <2>1, <2>4, <2>6 DEF Loses, connections
<1>5. CASE Receives(c)
  <2>1. UNCHANGED connections /\ ep[c].state \notin {"none", "gone"}
    BY <1>1, <1>5, ReceivesIs DEF socketVars
  <2>2. /\ \A d \in Clients \ {c} : ep'[d] = ep[d]
        /\ ep'[c].state = ep[c].state /\ ep'[c].sending = ep[c].sending
        /\ ep'[c].mMessageQueue = ep[c].mMessageQueue
        /\ ep'[c].mFlaggedForDestruction = ep[c].mFlaggedForDestruction
    BY <1>1, <1>5, ReceivesIs DEF Set
  <2> QED BY <2>1, <2>2 DEF Loses, Items, connections
<1> QED BY <1>2, <1>3, <1>4, <1>5 DEF EndpointThread, Receive, Receives

LEMMA EmptyEndpoints ==
    /\ \A valid : /\ Endpoint(valid).sending = NoMessage /\ Items(Endpoint(valid)) = <<>>
                  /\ Endpoint(valid).state = "live" /\ ~Endpoint(valid).mFlaggedForDestruction
                  /\ Accepts(Endpoint(valid).mMessageQueue)
    /\ [NoEndpoint EXCEPT !.state = "gone"].sending = NoMessage
    /\ Items([NoEndpoint EXCEPT !.state = "gone"]) = <<>>
    /\ [NoEndpoint EXCEPT !.state = "gone"].state = "gone"
    /\ NoEndpoint.sending = NoMessage /\ Items(NoEndpoint) = <<>> /\ NoEndpoint.state = "none"
    /\ ~NoEndpoint.mFlaggedForDestruction
BY DEF Endpoint, NoEndpoint, Items, NewQueue, Accepts

LEMMA StoppedIs ==
    ASSUME NEW r, Sane(r)
    PROVE  Stopped(r).sending = r.sending /\ Items(Stopped(r)) = <<>> /\ Stopped(r).state = "stopped"
BY DEF Sane, ClientRemoteEndpoint, Stopped, Items, Shut, NewQueue

LEMMA QueuedIs ==
    ASSUME NEW r, Sane(r), NEW m
    PROVE  /\ Queued(r, m).sending = r.sending
           /\ Queued(r, m).mFlaggedForDestruction = r.mFlaggedForDestruction
           /\ Queued(r, m).state = r.state
           /\ Items(Queued(r, m)) = IF Accepts(r.mMessageQueue) THEN Append(Items(r), m) ELSE Items(r)
<1>1. r \in ClientRemoteEndpoint /\ r.mMessageQueue \in Queue(Message \cup {STATUS})
  BY DEF Sane, ClientRemoteEndpoint
<1>2. Push(r.mMessageQueue, m).items = Append(r.mMessageQueue.items, m)
  BY <1>1 DEF Push, Queue
<1> QED BY <1>1, <1>2 DEF Queued, Items, ClientRemoteEndpoint

LEMMA LiveAccepts == ASSUME NEW r, Sane(r), r.state = "live" PROVE Accepts(r.mMessageQueue)
BY DEF Sane

LEMMA QueueAllIs ==
    ASSUME NEW r, Sane(r), r.state = "live", Items(r) = <<>>, NEW stash \in Seq(Message)
    PROVE  /\ QueueAll(r, stash).sending = r.sending
           /\ QueueAll(r, stash).mFlaggedForDestruction = r.mFlaggedForDestruction
           /\ QueueAll(r, stash).state = r.state
           /\ Items(QueueAll(r, stash)) = stash
<1>1. r \in ClientRemoteEndpoint /\ r.mMessageQueue \in Queue(Message \cup {STATUS})
  BY DEF Sane, ClientRemoteEndpoint
<1>2. <<>> \o stash = stash
  OBVIOUS
<1>3. Accepts(r.mMessageQueue)
  BY LiveAccepts
<1> QED BY <1>1, <1>2, <1>3 DEF QueueAll, Items, ClientRemoteEndpoint, Queue

\* What every effect has in common.
LEMMA EffectIs ==
    ASSUME IInv, NEW c \in Clients, Effect(c)
    PROVE  /\ \A d \in Clients \ {c} : ep'[d] = ep[d] /\ got'[d] = got[d]
           /\ closed' \in {closed, closed \cup {c}}
           /\ c \in closed' => got'[c] = <<>> \/ (c \in closed /\ got'[c] = got[c])
           /\ ep'[c].state = "none" =>
                 ep[c].state = "none" /\ ep'[c] = ep[c] /\ got'[c] \in {got[c], <<>>}
           /\ ep'[c].state \in {"stopped", "gone"} => ep[c].state \in {"stopped", "gone"} \/ c \in closed'
<1>1. Sane(ep[c]) /\ ep \in [Clients -> ClientRemoteEndpoint] /\ got \in [Clients -> Seq(Message)]
  BY DEF IInv, EndpointsAreSane, Elsewhere
<1>2. CASE Leaves(c)
  BY <1>1, <1>2 DEF Leaves, Close
<1>3. CASE Begins(c)
  BY <1>1, <1>3, EmptyEndpoints DEF Begins, Set, connections
<1>4. CASE Takes(c)
  <2>1. PICK m \in Message \cup {STATUS} : Set(c, Queued(ep[c], m))
    BY <1>4 DEF Takes
  <2>2. ep'[c].state = "live" /\ \A d \in Clients \ {c} : ep'[d] = ep[d]
    BY <1>1, <1>4, <2>1, QueuedIs DEF Set, Takes
  <2> QED BY <1>4, <2>2 DEF Takes, connections
<1>5. CASE Flags(c)
  <2>1. ep'[c].state = "live" /\ \A d \in Clients \ {c} : ep'[d] = ep[d]
    BY <1>1, <1>5 DEF Flags, Set, ClientRemoteEndpoint
  <2> QED BY <1>5, <2>1 DEF Flags, connections
<1>6. CASE Lets(c)
  BY <1>1, <1>6 DEF Lets, Set, connections
<1>7. CASE Stops(c)
  <2>1. ep'[c].state = "stopped" /\ \A d \in Clients \ {c} : ep'[d] = ep[d]
    BY <1>1, <1>7, StoppedIs DEF Stops, Set
  <2> QED BY <1>1, <1>7, <2>1 DEF Stops, Close
<1>8. CASE Ends(c)
  BY <1>1, <1>8, EmptyEndpoints DEF Ends, Set, connections
<1>9. CASE Loads(c)
  <2>1. /\ at["router"] = "constructed" /\ "router" \in Threads
        /\ Set(c, QueueAll(ep[c], mPendingEnvelopes)) /\ UNCHANGED connections
    BY <1>9, Places DEF Loads, TrackClient, Step, socketVars
  <2>2. ep[c].state = "live" /\ mPendingEnvelopes \in Seq(Message)
    BY <1>9, <2>1, HeldIs, NoneIsNoClient DEF Loads, IInv, Elsewhere
  <2>3. ep'[c].state = "live" /\ \A d \in Clients \ {c} : ep'[d] = ep[d]
    BY <1>1, <2>1, <2>2, QueueAllIsSane DEF Set, LikeBut
  <2> QED BY <2>1, <2>3 DEF connections
<1>10. CASE EndpointThread(c)
  <2>1. \A d \in Clients \ {c} : ep'[d] = ep[d] /\ got'[d] = got[d]
    BY <1>10, EndpointThreadIs
  <2>2. closed' = closed /\ ep[c].state \notin {"none", "gone"} /\ ep'[c].state = ep[c].state
    BY <1>10, EndpointThreadIs
  <2>3. c \in closed => got' = got
    BY <1>10, EndpointThreadIs DEF Pops, Delivers
  <2> QED BY <2>1, <2>2, <2>3
<1> QED BY <1>2, <1>3, <1>4, <1>5, <1>6, <1>7, <1>8, <1>9, <1>10 DEF Effect, Quiet

LEMMA ClosedStep == ASSUME IInv, ClosedHasNothing, Next PROVE ClosedHasNothing'
<1>1. CASE UNCHANGED <<ep, connections>>
  BY <1>1 DEF ClosedHasNothing, connections
<1>2. ASSUME NEW c \in Clients, Effect(c) PROVE ClosedHasNothing'
  <2>1. /\ \A d \in Clients \ {c} : ep'[d] = ep[d] /\ got'[d] = got[d]
        /\ closed' \in {closed, closed \cup {c}}
        /\ c \in closed' => got'[c] = <<>> \/ (c \in closed /\ got'[c] = got[c])
        /\ ep'[c].state \in {"stopped", "gone"} => ep[c].state \in {"stopped", "gone"} \/ c \in closed'
    BY <1>2, EffectIs
  <2>2. closed \subseteq Clients
    BY DEF IInv, Elsewhere
  <2> QED BY <2>1, <2>2 DEF ClosedHasNothing
<1> QED BY <1>1, <1>2, Effects

LEMMA LiveStep == ASSUME IInv, LiveIsQuiet, Next PROVE LiveIsQuiet'
<1>1. SUFFICES ASSUME session' = "live"
               PROVE  toRouter' = <<>> /\ mRoutingData' /\ at'["service_to_router"] = "idle"
  BY DEF LiveIsQuiet
<1>0. /\ "service_to_router" \in Threads /\ "service_to_router" # "router"
      /\ "router" \in Threads /\ Sources \subseteq Threads /\ "service_to_router" \notin Sources
      /\ at \in [Threads -> At]
  BY Places DEF IInv, Elsewhere
<1>2. CASE EndSession \/ DeleteSession
  BY <1>1, <1>2 DEF EndSession, DeleteSession, ShutdownSession, BecomeDefunct
<1>3. CASE ~(EndSession \/ DeleteSession)
  <2>1. session = "live"
    BY <1>1, <1>3 DEF Next, ClientConnects, ClientLeaves, EndpointThread, PopMessage, SendEnvelope,
       ReceiveEnvelope, Receive, RouteReceived,
     ReceiveEnds, FindClient, RouteMessage, QueueToClient, StashEnvelope, Destroyed, Router,
       AcceptClient, ConstructEndpoint, TrackClient, DestroyEndpoint, ServiceToRouter,
       DeleteRoutingData, KickClient, FlagKicked, ReleaseKicked, ClearStashedEnvelopes,
       HandleNotice, serviceVars
  <2>2. toRouter = <<>> /\ mRoutingData /\ at["service_to_router"] = "idle"
    BY <2>1 DEF LiveIsQuiet
  <2>3. ~ServiceToRouter
    BY <2>2 DEF ServiceToRouter, DeleteRoutingData, KickClient, FlagKicked, ReleaseKicked,
       ClearStashedEnvelopes, Destroyed, Step
  <2>4. UNCHANGED <<toRouter, mRoutingData>>
    BY <1>3, <2>1, <2>3 DEF Next, ClientConnects, ClientLeaves, EndpointThread, PopMessage,
       SendEnvelope, ReceiveEnvelope, Receive, RouteReceived,
     ReceiveEnds, FindClient, RouteMessage, QueueToClient, StashEnvelope, Destroyed,
       Router, AcceptClient, ConstructEndpoint, TrackClient, DestroyEndpoint,
       HandleNotice, MustGo, tables
  <2>5. at'["service_to_router"] = at["service_to_router"]
    <3>1. ASSUME NEW s \in Sources, FindClient(s) \/ RouteMessage(s)
          PROVE  at'["service_to_router"] = at["service_to_router"]
      BY <1>0, <3>1 DEF FindClient, RouteMessage, QueueToClient, Release, StashEnvelope, Destroyed, Step
    <3>2. CASE Router
      BY <1>0, <3>2 DEF Router, AcceptClient, ConstructEndpoint, TrackClient, DestroyEndpoint,
         Destroyed, Step
    <3>3. ASSUME ~Router, ~\E s \in Sources : FindClient(s) \/ RouteMessage(s) PROVE at' = at
      BY <1>3, <2>3, <3>3 DEF Next, ClientConnects, ClientLeaves, EndpointThread, PopMessage,
         SendEnvelope, ReceiveEnvelope, Receive, RouteReceived,
     ReceiveEnds, HandleNotice, threadVars
    <3> QED BY <3>1, <3>2, <3>3
  <2> QED BY <2>2, <2>4, <2>5
<1> QED BY <1>2, <1>3

-----------------------------------------------------------------------------
(* A client that is not there yet.                                         *)

\* Nobody but the router holds an endpoint that is not there.
LEMMA NoneIsUnheld ==
    ASSUME IInv, NEW c \in Clients, ep[c].state = "none", NEW t \in Threads \ {"router"}
    PROVE  hold[t] # c
<1> SUFFICES ASSUME hold[t] = c PROVE FALSE
  OBVIOUS
<1>1. CASE at[t] = "destroying"
  BY <1>1, DestroyingIs
<1>2. CASE at[t] # "destroying"
  <2>1. at[t] # "checked"
    BY DEF IInv, OnlyRouterCreates
  <2> QED BY <1>2, <2>1, HeldIs, NoneIsNoClient
<1> QED BY <1>1, <1>2

\* While the router has an endpoint that is not tracked, no other step adds to
\* its line or finds it.
LEMMA NewIsLeftAlone ==
    ASSUME IInv, NewHasNothing, Next, ~Router, at["router"] = "constructed",
           NEW c \in Clients, c = hold["router"]
    PROVE  /\ at'["router"] = "constructed" /\ hold'["router"] = c
           /\ NothingIn(c)'
           /\ \A t \in Threads \ {"router"} : hold'[t] # c
<1>0. /\ "router" \in Threads /\ "service_to_router" \in Threads \ {"router"} /\ None # c
      /\ Sources \subseteq Threads \ {"router"}
      /\ at \in [Threads -> At] /\ hold \in [Threads -> Clients \cup {None}]
      /\ mClients = None
  BY Places DEF IInv, Elsewhere, OnlyRouterCreates
<1>1. NothingIn(c) /\ \A t \in Threads \ {"router"} : hold[t] # c
  BY DEF NewHasNothing
<1>2. ASSUME UNCHANGED <<at, hold>>, NothingIn(c)'
      PROVE  /\ at'["router"] = "constructed" /\ hold'["router"] = c
             /\ NothingIn(c)'
             /\ \A t \in Threads \ {"router"} : hold'[t] # c
  BY <1>1, <1>2
<1>3. ASSUME NEW t \in Threads \ {"router"},
             NEW to, at' = [at EXCEPT ![t] = to],
             hold'["router"] = hold["router"], hold'[t] \in {hold[t], None},
             \A u \in Threads \ {t} : hold'[u] = hold[u],
             ep'[c] = ep[c], got'[c] \in {got[c], <<>>}
      PROVE  /\ at'["router"] = "constructed" /\ hold'["router"] = c
             /\ NothingIn(c)'
             /\ \A u \in Threads \ {"router"} : hold'[u] # c
  <2>1. at'["router"] = "constructed"
    BY <1>0, <1>3
  <2>2. NothingIn(c)'
    BY <1>1, <1>3 DEF NothingIn
  <2>3. \A u \in Threads \ {"router"} : hold'[u] # c
    BY <1>0, <1>1, <1>3
  <2> QED BY <1>3, <2>1, <2>2, <2>3
<1>4. ASSUME NEW t \in Threads \ {"router"}, NEW d \in Clients, hold[t] = d, NEW r, Release(t, d, r)
      PROVE  /\ at'["router"] = "constructed" /\ hold'["router"] = c
             /\ NothingIn(c)'
             /\ \A u \in Threads \ {"router"} : hold'[u] # c
  <2>1. d # c
    BY <1>1, <1>4
  <2>2. /\ \E to : at' = [at EXCEPT ![t] = to]
        /\ hold'["router"] = hold["router"] /\ hold'[t] \in {hold[t], None}
        /\ \A u \in Threads \ {t} : hold'[u] = hold[u]
    BY <1>0, <1>4 DEF Release, Hold
  <2>3. ep'[c] = ep[c] /\ got'[c] = got[c]
    BY <1>4, <2>1 DEF Release, Set, Close, connections, IInv, EndpointsAreSane, Elsewhere
  <2> QED BY <1>3, <2>2, <2>3
<1>5. ASSUME NEW t \in Threads \ {"router"}, Destroyed(t)
      PROVE  /\ at'["router"] = "constructed" /\ hold'["router"] = c
             /\ NothingIn(c)'
             /\ \A u \in Threads \ {"router"} : hold'[u] # c
  <2>1. hold[t] # c /\ at' = [at EXCEPT ![t] = "idle"] /\ hold' = [hold EXCEPT ![t] = None]
    BY <1>1, <1>5 DEF Destroyed, Step, Hold
  <2>2. ep'[c] = ep[c] /\ got'[c] = got[c]
    BY <1>5, <2>1 DEF Destroyed, Set, socketVars, connections, IInv, EndpointsAreSane
  <2>3. /\ hold'["router"] = hold["router"] /\ hold'[t] = None
        /\ \A u \in Threads \ {t} : hold'[u] = hold[u]
    BY <1>0, <2>1
  <2> QED BY <1>3, <2>1, <2>2, <2>3
<1>6. ASSUME NEW d \in Clients, ClientConnects(d) \/ ClientLeaves(d)
      PROVE  UNCHANGED <<at, hold>> /\ NothingIn(c)'
  BY <1>1, <1>6 DEF ClientConnects, ClientLeaves, Close, NothingIn, connections, threadVars,
     IInv, Elsewhere
<1>7. ASSUME NEW d \in Clients, EndpointThread(d)
      PROVE  UNCHANGED <<at, hold>> /\ NothingIn(c)'
  <2>1. UNCHANGED <<at, hold>>
    BY <1>7 DEF EndpointThread, PopMessage, SendEnvelope, ReceiveEnvelope, Receive, RouteReceived,
     ReceiveEnds, threadVars
  <2>2. \A b \in Clients \ {d} : ep'[b] = ep[b] /\ got'[b] = got[b]
    BY <1>7, EndpointThreadIs
  <2>3. CASE d # c
    BY <1>1, <2>1, <2>2, <2>3 DEF NothingIn
  <2>4. CASE d = c
    <3>1. Pops(c) \/ Delivers(c) \/ (Loses(c) /\ got' = got)
      BY <1>7, <2>4, EndpointThreadIs
    <3>2. ~Pops(c) /\ ~Delivers(c)
      BY <1>1, NoMessageIsNone DEF NothingIn, Pops, Delivers
    <3> QED BY <1>1, <2>1, <3>1, <3>2 DEF NothingIn, Loses
  <2> QED BY <2>3, <2>4
<1>8. ASSUME NEW s \in Sources, FindClient(s) \/ RouteMessage(s)
      PROVE  /\ at'["router"] = "constructed" /\ hold'["router"] = c
             /\ NothingIn(c)'
             /\ \A u \in Threads \ {"router"} : hold'[u] # c
  <2>0. s \in Threads \ {"router"}
    BY <1>0
  <2>1. CASE FindClient(s)
    <3>1. /\ at' = [at EXCEPT ![s] = "not found"] /\ hold' = [hold EXCEPT ![s] = None]
          /\ UNCHANGED <<ep, got>>
      BY <1>0, <2>1 DEF FindClient, Step, Hold, socketVars, connections
    <3>2. /\ hold'["router"] = hold["router"] /\ hold'[s] = None
          /\ \A u \in Threads \ {s} : hold'[u] = hold[u]
      BY <1>0, <2>0, <3>1
    <3> QED BY <1>3, <2>0, <3>1, <3>2
  <2>2. CASE QueueToClient(s)
    <3>1. at[s] = "found" /\ hold[s] \in Clients
      BY <2>0, <2>2, Places DEF QueueToClient
    <3> QED BY <1>4, <2>0, <2>2, <3>1 DEF QueueToClient
  <2>3. CASE StashEnvelope(s)
    <3>1. at' = [at EXCEPT ![s] = "idle"] /\ UNCHANGED <<hold, ep, got>>
      BY <1>0, <2>3 DEF StashEnvelope, Step, Stash, socketVars, connections
    <3> QED BY <1>3, <2>0, <3>1
  <2> QED BY <1>5, <1>8, <2>0, <2>1, <2>2, <2>3 DEF RouteMessage
<1>9. ASSUME ServiceToRouter
      PROVE  /\ at'["router"] = "constructed" /\ hold'["router"] = c
             /\ NothingIn(c)'
             /\ \A u \in Threads \ {"router"} : hold'[u] # c
  <2> DEFINE t == "service_to_router"
  <2>0. t \in Threads \ {"router"}
    BY <1>0
  <2>1. CASE DeleteRoutingData
    <3>1. UNCHANGED <<at, hold, ep, got>>
      BY <2>1 DEF DeleteRoutingData, socketVars, connections, threadVars
    <3> QED BY <1>1, <1>2, <3>1 DEF NothingIn
  <2>2. CASE KickClient
    <3>1. /\ at' = [at EXCEPT ![t] = "not found"] /\ hold' = [hold EXCEPT ![t] = None]
          /\ UNCHANGED <<ep, got>>
      BY <1>0, <2>2 DEF KickClient, Step, Hold, socketVars, connections
    <3>2. /\ hold'["router"] = hold["router"] /\ hold'[t] = None
          /\ \A u \in Threads \ {t} : hold'[u] = hold[u]
      BY <1>0, <2>0, <3>1
    <3> QED BY <1>3, <2>0, <3>1, <3>2
  <2>3. CASE FlagKicked
    <3>1. at' = [at EXCEPT ![t] = "flagged"] /\ UNCHANGED <<hold, got>> /\ hold[t] # c
      BY <1>1, <2>0, <2>3 DEF FlagKicked, Step, socketVars, connections
    <3>2. ep'[c] = ep[c]
      BY <2>3, <3>1 DEF FlagKicked, Flag, Set, IInv, EndpointsAreSane
    <3> QED BY <1>3, <2>0, <3>1, <3>2
  <2>4. CASE ReleaseKicked
    <3>1. at[t] = "flagged" /\ hold[t] \in Clients
      BY <2>0, <2>4, Places DEF ReleaseKicked
    <3> QED BY <1>4, <2>0, <2>4, <3>1 DEF ReleaseKicked
  <2>5. CASE ClearStashedEnvelopes
    <3>1. at' = [at EXCEPT ![t] = "idle"] /\ UNCHANGED <<hold, ep, got>>
      BY <2>5 DEF ClearStashedEnvelopes, Step, socketVars, connections
    <3> QED BY <1>3, <2>0, <3>1
  <2> QED BY <1>5, <1>9, <2>0, <2>1, <2>2, <2>3, <2>4, <2>5 DEF ServiceToRouter
<1>10. ASSUME EndSession \/ DeleteSession \/ HandleNotice
       PROVE  UNCHANGED <<at, hold>> /\ NothingIn(c)'
  BY <1>1, <1>10 DEF EndSession, DeleteSession, HandleNotice, ShutdownSession, BecomeDefunct, NothingIn,
     threadVars, socketVars, connections
<1> QED BY <1>2, <1>6, <1>7, <1>8, <1>9, <1>10 DEF Next

LEMMA NewStep == ASSUME IInv, NewHasNothing, Next PROVE NewHasNothing'
<1>0. /\ "router" \in Threads /\ at \in [Threads -> At] /\ hold \in [Threads -> Clients \cup {None}]
      /\ ep \in [Clients -> ClientRemoteEndpoint]
  BY Places DEF IInv, Elsewhere, EndpointsAreSane
<1>1. ASSUME NEW d \in Clients, ep'[d].state = "none" PROVE NothingIn(d)'
  <2>1. CASE UNCHANGED <<ep, connections>>
    BY <1>1, <2>1 DEF NewHasNothing, NothingIn, connections
  <2>2. ASSUME NEW c \in Clients, Effect(c) PROVE NothingIn(d)'
    <3>1. /\ \A b \in Clients \ {c} : ep'[b] = ep[b] /\ got'[b] = got[b]
          /\ ep'[c].state = "none" =>
                 ep[c].state = "none" /\ ep'[c] = ep[c] /\ got'[c] \in {got[c], <<>>}
      BY <2>2, EffectIs
    <3>2. ep[d].state = "none" /\ ep'[d] = ep[d] /\ got'[d] \in {got[d], <<>>}
      BY <1>1, <3>1
    <3> QED BY <3>2 DEF NewHasNothing, NothingIn
  <2> QED BY <2>1, <2>2, Effects
<1>2. ASSUME at'["router"] = "constructed"
      PROVE  /\ NothingIn(hold["router"])'
             /\ \A t \in Threads \ {"router"} : hold'[t] # hold'["router"]
  <2>1. CASE ~Router
    <3>1. at["router"] = "constructed"
      <4>0. /\ "service_to_router" \in Threads \ {"router"} /\ Sources \subseteq Threads \ {"router"}
            /\ \A t \in Threads \ {"router"} : \A to : at' = [at EXCEPT ![t] = to] => at'["router"] = at["router"]
        BY <1>0, Places
      <4>1. ASSUME NEW s \in Sources, FindClient(s) \/ RouteMessage(s)
            PROVE  at'["router"] = at["router"]
        <5>1. \E to : at' = [at EXCEPT ![s] = to]
          BY <4>1 DEF FindClient, RouteMessage, QueueToClient, Release, StashEnvelope, Destroyed, Step
        <5> QED BY <4>0, <5>1
      <4>2. CASE ServiceToRouter
        <5>1. at' = at \/ \E to : at' = [at EXCEPT !["service_to_router"] = to]
          BY <4>2 DEF ServiceToRouter, DeleteRoutingData, KickClient, FlagKicked,
             ReleaseKicked, Release, ClearStashedEnvelopes, Destroyed, Step, threadVars
        <5> QED BY <1>2, <4>0, <5>1
      <4>3. ASSUME ~ServiceToRouter, ~\E s \in Sources : FindClient(s) \/ RouteMessage(s)
            PROVE  at' = at
        BY <2>1, <4>3 DEF Next, ClientConnects, ClientLeaves, EndpointThread, PopMessage,
           SendEnvelope, ReceiveEnvelope, Receive, RouteReceived,
     ReceiveEnds, EndSession, DeleteSession, HandleNotice, ShutdownSession, BecomeDefunct, threadVars
      <4> QED BY <1>2, <4>1, <4>2, <4>3
    <3>2. PICK c \in Clients : c = hold["router"]
      BY <1>0, <3>1, Places
    <3>3. /\ hold'["router"] = c /\ NothingIn(c)'
          /\ \A t \in Threads \ {"router"} : hold'[t] # c
      BY <2>1, <3>1, <3>2, NewIsLeftAlone
    <3> QED BY <3>3 DEF NothingIn
  <2>2. ASSUME NEW c \in Clients, ep[c].state = "none", NEW valid, Set(c, Endpoint(valid)),
               hold'["router"] = c, \A t \in Threads \ {"router"} : hold'[t] = hold[t],
               UNCHANGED connections
        PROVE  /\ NothingIn(hold["router"])'
               /\ \A t \in Threads \ {"router"} : hold'[t] # hold'["router"]
    <3>1. \A t \in Threads \ {"router"} : hold[t] # c
      BY <2>2, NoneIsUnheld
    <3>2. ep'[c] = Endpoint(valid) /\ got'[c] = <<>>
      BY <1>0, <2>2 DEF Set, connections, NewHasNothing, NothingIn
    <3>3. NothingIn(hold["router"])'
      BY <2>2, <3>2, EmptyEndpoints DEF NothingIn
    <3> QED BY <2>2, <3>1, <3>3
  <2>3. CASE AcceptClient
    <3>1. Head(backlog) \in Clients /\ Head(backlog) \in Range(backlog)
      BY <2>3, TailIs DEF AcceptClient, IInv, Elsewhere
    <3>2. ep[Head(backlog)].state = "none"
      BY <3>1, WaitingIs
    <3>3. at'["router"] = "constructed" /\ at["router"] = "idle"
      BY <1>2, <2>3 DEF AcceptClient
    <3>4. /\ Set(Head(backlog), Endpoint(FALSE)) /\ UNCHANGED connections
          /\ hold' = [hold EXCEPT !["router"] = Head(backlog)]
      BY <1>0, <2>3, <3>3 DEF AcceptClient, Step, Hold
    <3>5. hold'["router"] = Head(backlog) /\ \A t \in Threads \ {"router"} : hold'[t] = hold[t]
      BY <1>0, <3>4
    <3> QED BY <2>2, <3>1, <3>2, <3>4, <3>5
  <2>4. CASE ConstructEndpoint
    <3>1. hold["router"] \in Clients /\ ep[hold["router"]].state = "none" /\ at["router"] = "checked"
      BY <1>0, <2>4, Places DEF ConstructEndpoint, IInv, NotAcceptedYet
    <3>2. Set(hold["router"], Endpoint(TRUE)) /\ UNCHANGED <<connections, hold>>
      BY <1>0, <1>2, <2>4 DEF ConstructEndpoint, Step
    <3> QED BY <2>2, <3>1, <3>2
  <2>5. CASE TrackClient \/ DestroyEndpoint \/ Destroyed("router")
    BY <1>0, <1>2, <2>5 DEF TrackClient, DestroyEndpoint, Destroyed, Step
  <2> QED BY <2>1, <2>3, <2>4, <2>5 DEF Router
<1> QED BY <1>1, <1>2 DEF NewHasNothing

-----------------------------------------------------------------------------
(* Every line is in order.                                                 *)

\* Only one line changes.
LEMMA OrderFrame ==
    ASSUME OrderIsKept, NEW c \in Clients,
           \A d \in Clients \ {c} : ep'[d] = ep[d] /\ got'[d] = got[d],
           \A x : IsRouted(routed, x) => IsRouted(routed', x),
           Kept(got'[c], ep'[c], routed'), StashIsKept(mPendingEnvelopes', routed')
    PROVE  OrderIsKept'
<1>1. ASSUME NEW d \in Clients \ {c} PROVE Kept(got'[d], ep'[d], routed')
  <2>1. Kept(got[d], ep[d], routed)
    BY DEF OrderIsKept
  <2>2. Kept(got[d], ep[d], routed')
    BY <2>1, KeptMore
  <2> QED BY <2>2
<1> QED BY <1>1 DEF OrderIsKept

LEMMA OrderSame ==
    ASSUME OrderIsKept, UNCHANGED <<ep, connections>>,
           \A x : IsRouted(routed, x) => IsRouted(routed', x),
           StashIsKept(mPendingEnvelopes', routed')
    PROVE  OrderIsKept'
<1>1. ASSUME NEW d \in Clients PROVE Kept(got'[d], ep'[d], routed')
  <2>1. Kept(got[d], ep[d], routed)
    BY DEF OrderIsKept
  <2>2. Kept(got[d], ep[d], routed')
    BY <2>1, KeptMore
  <2> QED BY <2>2 DEF connections
<1> QED BY <1>1 DEF OrderIsKept

\* Effects that add nothing to the line.
LEMMA LosesIs ==
    ASSUME IInv, NEW c \in Clients,
           Leaves(c) \/ Begins(c) \/ Flags(c) \/ Lets(c) \/ Stops(c) \/ Ends(c)
    PROVE  Loses(c)
<1>1. Sane(ep[c]) /\ ep \in [Clients -> ClientRemoteEndpoint] /\ got \in [Clients -> Seq(Message)]
  BY DEF IInv, EndpointsAreSane, Elsewhere
<1>2. CASE Leaves(c)
  BY <1>1, <1>2 DEF Leaves, Close, Loses
<1>3. CASE Begins(c)
  BY <1>1, <1>3, EmptyEndpoints DEF Begins, Set, connections, Loses
<1>4. CASE Flags(c)
  <2>1. ep'[c].sending = ep[c].sending /\ Items(ep'[c]) = Items(ep[c])
    BY <1>1, <1>4 DEF Flags, Set, ClientRemoteEndpoint, Items
  <2> QED BY <1>4, <2>1 DEF Flags, connections, Loses
<1>5. CASE Lets(c)
  BY <1>1, <1>5 DEF Lets, Set, connections, Loses
<1>6. CASE Stops(c)
  <2>1. ep'[c].sending = ep[c].sending /\ Items(ep'[c]) = <<>>
    BY <1>1, <1>6, StoppedIs DEF Stops, Set
  <2> QED BY <1>1, <1>6, <2>1 DEF Stops, Close, Loses
<1>7. CASE Ends(c)
  BY <1>1, <1>7, EmptyEndpoints DEF Ends, Set, connections, Loses
<1> QED BY <1>2, <1>3, <1>4, <1>5, <1>6, <1>7

\* The client that is tracked finds the stash in its queue.
LEMMA LoadsIs ==
    ASSUME IInv, NewHasNothing, NEW c \in Clients, Loads(c)
    PROVE  /\ \A d \in Clients \ {c} : ep'[d] = ep[d]
           /\ got' = got /\ got[c] = <<>>
           /\ ep'[c].sending = NoMessage /\ Items(ep'[c]) = mPendingEnvelopes
           /\ ep'[c].mFlaggedForDestruction = ep[c].mFlaggedForDestruction
           /\ ep'[c].state = ep[c].state
           /\ UNCHANGED <<routed, mPendingEnvelopes, closed>>
<1>1. /\ at["router"] = "constructed" /\ "router" \in Threads
      /\ Set(c, QueueAll(ep[c], mPendingEnvelopes)) /\ UNCHANGED <<got, closed, routed, mPendingEnvelopes>>
  BY Places DEF Loads, TrackClient, Step, socketVars, connections
<1>2. ep[c].state = "live" /\ mPendingEnvelopes \in Seq(Message) /\ NothingIn(c) /\ Sane(ep[c])
  BY <1>1, HeldIs, NoneIsNoClient DEF Loads, IInv, Elsewhere, EndpointsAreSane, NewHasNothing
<1>3. ep'[c] = QueueAll(ep[c], mPendingEnvelopes) /\ \A d \in Clients \ {c} : ep'[d] = ep[d]
  BY <1>1 DEF Set, IInv, EndpointsAreSane
<1> QED BY <1>1, <1>2, <1>3, QueueAllIs DEF NothingIn

\* A message, or the status, that all in the line precede is queued.
LEMMA QueuedIsKept ==
    ASSUME NEW g, NEW r, Sane(r), NEW m \in Message \cup {STATUS}, NEW n, Kept(g, r, n), IsRouted(n, m),
           \A x \in Has(g, r) : Precedes(x, m)
    PROVE  /\ Kept(g, Queued(r, m), n)
           /\ Accepts(r.mMessageQueue) => Has(g, Queued(r, m)) = Has(g, r) \cup {m}
<1>1. /\ Queued(r, m).sending = r.sending
      /\ Items(Queued(r, m)) = IF Accepts(r.mMessageQueue) THEN Append(Items(r), m) ELSE Items(r)
  BY QueuedIs
<1>2. Items(r) \in Seq(Message \cup {STATUS})
  BY DEF Sane, ClientRemoteEndpoint, Queue, Items
<1>3. CASE Accepts(r.mMessageQueue)
  <2> DEFINE S == Message \cup {STATUS}
             q == Queued(r, m)
  <2>1. Items(r) \in Seq(S) /\ m \in S /\ q.sending = r.sending /\ Items(q) = Append(Items(r), m)
    BY <1>1, <1>2, <1>3
  <2> HIDE DEF S, q
  <2>2. Kept(g, q, n) /\ Has(g, q) = Has(g, r) \cup {m}
    BY <2>1, KeptAppend
  <2> QED BY <2>2 DEF q
<1>4. CASE ~Accepts(r.mMessageQueue)
  BY <1>1, <1>4, KeptLess
<1> QED BY <1>3, <1>4

LEMMA EndpointThreadOrder ==
    ASSUME IInv, OrderIsKept, NEW c \in Clients, EndpointThread(c)
    PROVE  Kept(got'[c], ep'[c], routed)
<1>1. /\ Kept(got[c], ep[c], routed) /\ got \in [Clients -> Seq(Message)]
      /\ Items(ep[c]) \in Seq(Message \cup {STATUS})
  BY DEF OrderIsKept, IInv, EndpointsAreSane, Elsewhere, Sane, ClientRemoteEndpoint, Queue, Items
<1>2. CASE Pops(c)
  BY <1>1, <1>2, KeptPop DEF Pops
<1>3. CASE Delivers(c)
  <2>1. got'[c] = Append(got[c], ep[c].sending)
    BY <1>1, <1>3 DEF Delivers
  <2> QED BY <1>1, <1>3, <2>1, KeptSent DEF Delivers
<1>4. CASE Loses(c)
  BY <1>1, <1>4, KeptLess DEF Loses
<1> QED BY <1>2, <1>3, <1>4, EndpointThreadIs

\* A source routes its next message.
LEMMA SourceOrder ==
    ASSUME IInv, OrderIsKept, NEW s \in Sources, QueueToClient(s) \/ StashEnvelope(s)
    PROVE  OrderIsKept'
<1>1. s \in Threads /\ at[s] \in {"found", "not found"}
  BY Places DEF QueueToClient, StashEnvelope, Step
<1>2. PICK m : m = <<s, routed[s] + 1>>
  OBVIOUS
<1>3. m \in Message /\ routed' = [routed EXCEPT ![s] = @ + 1]
  BY <1>1, <1>2, NextMessage DEF QueueToClient, StashEnvelope
<1>4. /\ \A x : IsRouted(routed, x) => IsRouted(routed', x) /\ Precedes(x, m)
      /\ IsRouted(routed', m)
  BY <1>2, <1>3, NextIsLast
<1>5. ASSUME NEW c \in Clients
      PROVE  Sane(ep[c]) /\ Kept(got[c], Queued(ep[c], m), routed')
  <2>1. Sane(ep[c]) /\ Kept(got[c], ep[c], routed)
    BY DEF IInv, EndpointsAreSane, OrderIsKept
  <2>2. Kept(got[c], ep[c], routed') /\ \A x \in Has(got[c], ep[c]) : Precedes(x, m)
    BY <1>4, <2>1, KeptMore DEF Kept
  <2> QED BY <1>3, <1>4, <2>1, <2>2, QueuedIsKept
<1>6. /\ StashIsKept(mPendingEnvelopes, routed')
      /\ StashIsKept(Append(mPendingEnvelopes, m), routed')
  <2>1. StashIsKept(mPendingEnvelopes, routed) /\ mPendingEnvelopes \in Seq(Message)
    BY DEF OrderIsKept, IInv, Elsewhere
  <2>2. StashIsKept(mPendingEnvelopes, routed') /\ \A x \in Range(mPendingEnvelopes) : Precedes(x, m)
    BY <1>4, <2>1, StashMore DEF StashIsKept
  <2> QED BY <1>3, <1>4, <2>1, <2>2, StashAppend
<1>7. CASE QueueToClient(s)
  <2>1. PICK c \in Clients : c = hold[s]
    BY <1>1, <1>7, Places DEF QueueToClient
  <2>2. ep[c].state = "live"
    BY <1>1, <1>7, <2>1, HeldIs, NoneIsNoClient DEF QueueToClient
  <2>3. Release(s, c, Queued(ep[c], m)) /\ mPendingEnvelopes' = mPendingEnvelopes
    BY <1>2, <1>7, <2>1 DEF QueueToClient, tables
  <2>4. Sane(Queued(ep[c], m)) /\ Queued(ep[c], m).sending = ep[c].sending
    BY <1>3, <1>5, QueuedIsSane DEF LikeBut
  <2>5. /\ ep \in [Clients -> ClientRemoteEndpoint] /\ got \in [Clients -> Seq(Message)]
    BY DEF IInv, EndpointsAreSane, Elsewhere
  <2>6. CASE Set(c, Queued(ep[c], m)) /\ UNCHANGED got
    <3>1. ep'[c] = Queued(ep[c], m) /\ \A d \in Clients \ {c} : ep'[d] = ep[d]
      BY <2>5, <2>6 DEF Set
    <3> QED BY <1>4, <1>5, <1>6, <2>3, <2>6, <3>1, OrderFrame
  <2>7. CASE Set(c, Stopped(Queued(ep[c], m))) /\ Close(c)
    <3>1. /\ ep'[c] = Stopped(Queued(ep[c], m)) /\ got'[c] = <<>>
          /\ \A d \in Clients \ {c} : ep'[d] = ep[d] /\ got'[d] = got[d]
      BY <2>5, <2>7 DEF Set, Close
    <3>2. Kept(<<>>, ep'[c], routed')
      BY <1>5, <2>4, <3>1, StoppedIs, KeptLess
    <3> QED BY <1>4, <1>6, <2>3, <3>1, <3>2, OrderFrame
  <2> QED BY <2>3, <2>6, <2>7 DEF Release, connections
<1>8. CASE StashEnvelope(s)
  <2>1. Stash(m) /\ UNCHANGED connections
    BY <1>2, <1>8 DEF StashEnvelope, socketVars
  <2>2. CASE mClients = None
    <3>1. mPendingEnvelopes' = Append(mPendingEnvelopes, m) /\ UNCHANGED ep
      BY <2>1, <2>2 DEF Stash
    <3> QED BY <1>4, <1>6, <2>1, <3>1, OrderSame
  <2>3. CASE mClients # None
    <3>1. PICK c \in Clients : c = mClients
      BY <2>3, Places
    <3>2. /\ ep'[c] = Queued(ep[c], m) /\ \A d \in Clients \ {c} : ep'[d] = ep[d]
          /\ UNCHANGED <<mPendingEnvelopes, got>>
      BY <2>1, <2>3, <3>1 DEF Stash, Set, connections, IInv, EndpointsAreSane
    <3> QED BY <1>4, <1>5, <1>6, <3>1, <3>2, OrderFrame
  <2> QED BY <2>2, <2>3
<1> QED BY <1>7, <1>8

LEMMA OrderStep == ASSUME IInv, OrderIsKept, NewHasNothing, Next PROVE OrderIsKept'
<1>1. CASE \E s \in Sources : QueueToClient(s) \/ StashEnvelope(s)
  BY <1>1, SourceOrder
<1>2. CASE ~\E s \in Sources : QueueToClient(s) \/ StashEnvelope(s)
  <2>1. routed' = routed /\ mPendingEnvelopes' \in {mPendingEnvelopes, <<>>}
    BY <1>2 DEF Next, ClientConnects, ClientLeaves, EndpointThread, PopMessage, SendEnvelope,
       ReceiveEnvelope, Receive, RouteReceived,
     ReceiveEnds, FindClient, RouteMessage, Destroyed, Router, AcceptClient, ConstructEndpoint,
       TrackClient, DestroyEndpoint, ServiceToRouter, DeleteRoutingData, KickClient, FlagKicked,
       ReleaseKicked, ClearStashedEnvelopes, EndSession, DeleteSession, HandleNotice,
       ShutdownSession, BecomeDefunct, tables, threadVars
  <2>2. /\ \A x : IsRouted(routed, x) => IsRouted(routed', x)
        /\ StashIsKept(mPendingEnvelopes', routed')
    <3>1. StashIsKept(<<>>, routed)
      BY NothingOrdered DEF StashIsKept
    <3> QED BY <2>1, <3>1 DEF OrderIsKept
  <2>3. CASE UNCHANGED <<ep, connections>>
    BY <2>2, <2>3, OrderSame
  <2>4. CASE KicksSomeone
    <3>1. PICK c \in Clients : c = mClients
      BY <2>4, Places DEF KicksSomeone
    <3>2. /\ ep'[c] = Queued(ep[c], STATUS) /\ got' = got
          /\ \A d \in Clients \ {c} : ep'[d] = ep[d]
      BY <2>4, <3>1 DEF KicksSomeone, KickClient, Set, socketVars, connections, IInv, EndpointsAreSane
    <3>3. Sane(ep[c]) /\ Kept(got[c], ep[c], routed)
      BY DEF OrderIsKept, IInv, EndpointsAreSane
    <3>4. Kept(got[c], Queued(ep[c], STATUS), routed)
      BY <3>3, NothingPrecedes, QueuedIsKept
    <3> QED BY <2>1, <2>2, <3>2, <3>4, OrderFrame
  <2>5. ASSUME NEW c \in Clients, Quiet(c) PROVE OrderIsKept'
    <3>1. \A d \in Clients \ {c} : ep'[d] = ep[d] /\ got'[d] = got[d]
      BY <2>5, EffectIs DEF Effect
    <3>2. Kept(got[c], ep[c], routed)
      BY DEF OrderIsKept
    <3>3. CASE Loads(c)
      <4>1. Kept(got'[c], ep'[c], routed)
        BY <3>3, LoadsIs, KeptLoad DEF OrderIsKept
      <4> QED BY <2>1, <2>2, <3>1, <4>1, OrderFrame
    <3>4. CASE EndpointThread(c)
      BY <2>1, <2>2, <3>1, <3>4, EndpointThreadOrder, OrderFrame
    <3>5. CASE ~Loads(c) /\ ~EndpointThread(c)
      <4>1. Loses(c)
        BY <2>5, <3>5, LosesIs DEF Quiet
      <4>2. Kept(got'[c], ep'[c], routed)
        BY <3>2, <4>1, KeptLess DEF Loses
      <4> QED BY <2>1, <2>2, <3>1, <4>2, OrderFrame
    <3> QED BY <3>3, <3>4, <3>5
  <2> QED BY <2>3, <2>4, <2>5, QuietEffects, <1>2
<1> QED BY <1>1, <1>2

-----------------------------------------------------------------------------
(* The first client is served.                                             *)

\* While the first client is served no other endpoint is there, and none has
\* to be destroyed.
LEMMA ServedIs ==
    ASSUME IInv, 1 \in Clients, Served
    PROVE  /\ ep[1].state \in {"none", "live"}
           /\ mEndpointsToDelete = <<>>
           /\ \A t \in Threads : at[t] # "destroying"
           /\ \A c \in Clients : ep[c].state # "none" => c = 1
           /\ ep[1].state = "none" => mClients = None
           /\ at["router"] \in {"checked", "constructed"} => mClients = None
<1>0. "router" \in Threads /\ None \notin Clients
  BY Places
<1>1. \A c \in Clients : ep[c].state # "none" => c = 1
  BY DEF Served
<1>2. ep[1].state \in {"none", "live"}
  <2>1. CASE mClients = 1
    BY <1>0, <2>1 DEF IInv, UsedIsAlive
  <2>2. CASE at["router"] = "constructed" /\ hold["router"] = 1
    BY <1>0, <2>2, HeldIs
  <2> QED BY <2>1, <2>2 DEF Served, Expected
<1>3. ASSUME NEW t \in Threads, at[t] = "destroying" PROVE FALSE
  <2>1. hold[t] \in Clients /\ ep[hold[t]].state = "stopped"
    BY <1>3, DestroyingIs
  <2>2. hold[t] = 1
    BY <1>1, <2>1
  <2> QED BY <1>2, <2>1, <2>2
<1>4. mEndpointsToDelete = <<>>
  <2>1. mEndpointsToDelete \in Seq(Clients)
    BY DEF IInv, Elsewhere
  <2>2. ASSUME NEW c \in Range(mEndpointsToDelete) PROVE FALSE
    <3>1. c \in Clients /\ ep[c].mFlaggedForDestruction /\ ep[c].state = "live"
      BY Listed DEF IInv, FlaggedOnce, UsedIsAlive
    <3>2. c = 1
      BY <1>1, <3>1
    <3> QED BY <3>1, <3>2 DEF Served
  <2>3. ASSUME mEndpointsToDelete # <<>> PROVE FALSE
    BY <2>1, <2>2, <2>3, TailIs
  <2> QED BY <2>3
<1>5. ep[1].state = "none" => mClients = None
  BY <1>0 DEF Served, IInv, UsedIsAlive
<1>6. at["router"] \in {"checked", "constructed"} => mClients = None
  BY DEF IInv, OnlyRouterCreates
<1> QED BY <1>1, <1>2, <1>3, <1>4, <1>5, <1>6

\* A step that leaves endpoints and the first client alone.
LEMMA ServedSame ==
    ASSUME 1 \in Clients, Served, UNCHANGED <<ep, mClients, mPendingEnvelopes, routed>>,
           got'[1] = got[1], at'["router"] = at["router"], hold'["router"] = hold["router"],
           \A t \in Threads \ {"router"} : hold'[t] \in {hold[t], mClients},
           \A c \in Clients \ {1} : c \in Range(backlog') => c \in Range(backlog) \/ ep[1].state # "none"
    PROVE  Served'
<1>1. Expected' <=> Expected
  BY DEF Expected
<1>2. Everything' = Everything
  BY DEF Everything
<1>3. \/ /\ Expected' /\ mClients' = None
         /\ \A t \in Threads \ {"router"} : hold'[t] = None
         /\ Everything' \subseteq Range(mPendingEnvelopes')
      \/ /\ mClients' = 1
         /\ Everything' \subseteq Has(got'[1], ep'[1])
  BY <1>1, <1>2 DEF Served
<1> QED BY <1>3 DEF Served

\* Something is queued to the first client.
LEMMA ServedMore ==
    ASSUME IInv, 1 \in Clients, Served, mClients = 1, UNCHANGED mClients, NEW m \in Message,
           Set(1, Queued(ep[1], m)), UNCHANGED got, Everything' \subseteq Everything \cup {m},
           Kept(got[1], ep[1], routed), \A x : IsRouted(routed, x) => Precedes(x, m),
           IsRouted(routed', m), \A x : IsRouted(routed, x) => IsRouted(routed', x)
    PROVE  Served'
<1>1. /\ ep'[1] = Queued(ep[1], m) /\ Sane(ep[1]) /\ ep[1].state = "live"
      /\ \A c \in Clients \ {1} : ep'[c] = ep[c]
  BY Places DEF Set, IInv, EndpointsAreSane, UsedIsAlive
<1>2. Kept(got[1], ep[1], routed') /\ \A x \in Has(got[1], ep[1]) : Precedes(x, m)
  BY KeptMore DEF Kept
<1>3. Has(got[1], Queued(ep[1], m)) = Has(got[1], ep[1]) \cup {m}
  BY <1>1, <1>2, QueuedIsKept, LiveAccepts
<1>4. Everything \subseteq Has(got[1], ep[1])
  BY Places DEF Served
<1>5. ep'[1].state # "none" /\ ~ep'[1].mFlaggedForDestruction
  BY <1>1, QueuedIs DEF Served
<1>6. Everything' \subseteq Has(got'[1], ep'[1])
  BY <1>1, <1>3, <1>4
<1> QED BY <1>1, <1>5, <1>6 DEF Served

LEMMA ServedBySource ==
    ASSUME IInv, OrderIsKept, 1 \in Clients, Served, NEW s \in Sources,
           QueueToClient(s) \/ StashEnvelope(s)
    PROVE  Served'
<1>0. /\ s \in Threads \ {"router"} /\ at[s] \in {"found", "not found"}
      /\ Kept(got[1], ep[1], routed) /\ None \notin Clients
      /\ at \in [Threads -> At] /\ hold \in [Threads -> Clients \cup {None}]
      /\ mClients \in {None, 1} /\ "router" \in Threads
  BY Places DEF QueueToClient, StashEnvelope, Step, OrderIsKept, IInv, Elsewhere, Served
<1>1. PICK m : m = <<s, routed[s] + 1>>
  OBVIOUS
<1>2. m \in Message /\ routed' = [routed EXCEPT ![s] = @ + 1]
  BY <1>0, <1>1, NextMessage DEF QueueToClient, StashEnvelope
<1>3. /\ \A x : IsRouted(routed, x) => IsRouted(routed', x) /\ Precedes(x, m)
      /\ IsRouted(routed', m)
      /\ Everything' \subseteq Everything \cup {m}
  BY <1>1, <1>2, NextIsLast
<1>4. CASE QueueToClient(s)
  <2>1. at[s] = "found" /\ hold[s] \in Clients
    BY <1>0, <1>4, Places DEF QueueToClient
  <2>2. hold[s] = 1
    BY <1>0, <2>1, HeldIs, ServedIs
  <2>3. mClients = 1
    BY <1>0, <2>1 DEF Served
  <2>4. Set(1, Queued(ep[1], m)) /\ UNCHANGED <<got, mClients>>
    BY <1>1, <1>4, <2>2, <2>3 DEF QueueToClient, Release, Held, connections, tables
  <2> QED BY <1>0, <1>2, <1>3, <2>3, <2>4, ServedMore
<1>5. CASE StashEnvelope(s)
  <2>1. /\ Stash(m) /\ UNCHANGED <<backlog, got, mClients, hold>>
        /\ at' = [at EXCEPT ![s] = "idle"]
    BY <1>1, <1>5 DEF StashEnvelope, Step, socketVars, connections
  <2>2. CASE mClients = 1
    <3>1. Set(1, Queued(ep[1], m))
      BY <1>0, <2>1, <2>2 DEF Stash
    <3> QED BY <1>0, <1>2, <1>3, <2>1, <2>2, <3>1, ServedMore
  <2>3. CASE mClients = None
    <3>1. mPendingEnvelopes' = Append(mPendingEnvelopes, m) /\ UNCHANGED ep
      BY <2>1, <2>3 DEF Stash
    <3>2. Range(mPendingEnvelopes') = Range(mPendingEnvelopes) \cup {m}
      <4>1. mPendingEnvelopes \in Seq(Message)
        BY DEF IInv, Elsewhere
      <4> QED BY <1>2, <3>1, <4>1, AppendIs
    <3>3. Everything \subseteq Range(mPendingEnvelopes) /\ Expected
          /\ \A t \in Threads \ {"router"} : hold[t] = None
      BY <1>0, <2>3 DEF Served
    <3>4. Expected'
      <4>1. at'["router"] = at["router"]
        BY <1>0, <2>1
      <4> QED BY <2>1, <3>1, <3>3, <4>1 DEF Expected
    <3>5. Everything' \subseteq Range(mPendingEnvelopes')
      BY <1>3, <3>2, <3>3
    <3> QED BY <2>1, <2>3, <3>1, <3>3, <3>4, <3>5 DEF Served
  <2> QED BY <1>0, <2>2, <2>3
<1> QED BY <1>4, <1>5

LEMMA ServedByThread ==
    ASSUME IInv, OrderIsKept, 1 \in Clients, 1 \notin closed, Served,
           NEW c \in Clients, EndpointThread(c)
    PROVE  Served'
<1>1. ep[c].state \notin {"none", "gone"}
  BY EndpointThreadIs
<1>2. c = 1 /\ ep[1].state = "live"
  BY <1>1, ServedIs
<1>3. /\ \A d \in Clients \ {1} : ep'[d] = ep[d]
      /\ ep'[1].state = "live"
      /\ ep'[1].mFlaggedForDestruction = ep[1].mFlaggedForDestruction
  BY <1>2, EndpointThreadIs
<1>4. UNCHANGED <<mClients, mPendingEnvelopes, backlog, at, hold, routed>>
  BY DEF EndpointThread, PopMessage, SendEnvelope, ReceiveEnvelope, Receive, RouteReceived,
     ReceiveEnds, tables, socketVars, threadVars
<1>5. /\ Kept(got[1], ep[1], routed) /\ got \in [Clients -> Seq(Message)]
      /\ Items(ep[1]) \in Seq(Message \cup {STATUS})
  BY DEF OrderIsKept, IInv, EndpointsAreSane, Elsewhere, Sane, ClientRemoteEndpoint, Queue, Items
<1>6. Has(got[1], ep[1]) \cap Message \subseteq Has(got'[1], ep'[1])
  <2>1. \/ Pops(1) \/ Delivers(1)
        \/ /\ got' = got /\ Items(ep'[1]) = Items(ep[1])
           /\ ep'[1].sending = ep[1].sending \/ ep[1].sending = STATUS
    BY <1>2, EndpointThreadIs
  <2>2. CASE Pops(1)
    <3>1. Has(got[1], ep[1]) \subseteq Has(got[1], ep'[1]) \cup {NoMessage}
      BY <1>5, <2>2, KeptPop DEF Pops
    <3> QED BY <2>2, <3>1, NoMessageIsNone DEF Pops
  <2>3. CASE Delivers(1)
    <3>1. got'[1] = Append(got[1], ep[1].sending)
      BY <1>5, <2>3 DEF Delivers
    <3>2. Has(got[1], ep[1]) \subseteq Has(Append(got[1], ep[1].sending), ep'[1])
      <4> DEFINE g == got[1]
                 r == ep[1]
                 q == ep'[1]
      <4>1. /\ g \in Seq(Message) /\ r.sending \in Message /\ Kept(g, r, routed)
            /\ q.sending = NoMessage /\ Items(q) = Items(r)
        BY <1>5, <2>3 DEF Delivers
      <4> HIDE DEF g, r, q
      <4>2. Has(g, r) \subseteq Has(Append(g, r.sending), q)
        BY <4>1, KeptSent
      <4> QED BY <4>2 DEF g, r, q
    <3> QED BY <3>1, <3>2
  <2>4. CASE got' = got /\ Items(ep'[1]) = Items(ep[1]) /\ ep[1].sending = STATUS
    <3>1. STATUS \notin Message
      <4>1. \A x \in Message : x[2] \in 1 .. MaxMessages
        BY DEF Message
      <4>2. STATUS[2] = 0 /\ 0 \notin 1 .. MaxMessages
        BY ClientsAssumption DEF STATUS
      <4> QED BY <4>1, <4>2
    <3> QED BY <2>4, <3>1 DEF Has
  <2>5. CASE got' = got /\ Items(ep'[1]) = Items(ep[1]) /\ ep'[1].sending = ep[1].sending
    BY <2>5 DEF Has
  <2> QED BY <2>1, <2>2, <2>3, <2>4, <2>5
<1>7. Everything' = Everything /\ Everything \subseteq Message
  BY <1>4 DEF Everything
<1>8. Expected => Expected'
  BY <1>2, <1>4 DEF Expected
<1>9. \/ /\ Expected' /\ mClients' = None
         /\ \A t \in Threads \ {"router"} : hold'[t] = None
         /\ Everything' \subseteq Range(mPendingEnvelopes')
      \/ /\ mClients' = 1
         /\ Everything' \subseteq Has(got'[1], ep'[1])
  BY <1>4, <1>6, <1>7, <1>8 DEF Served
<1> QED BY <1>3, <1>9 DEF Served

LEMMA ServedByRouter ==
    ASSUME IInv, LiveIsQuiet, NewHasNothing, 1 \in Clients, session = "live", 1 \notin closed',
           Served, Router
    PROVE  Served'
<1>0. /\ "router" \in Threads /\ None \notin Clients /\ mRoutingData
      /\ at \in [Threads -> At] /\ hold \in [Threads -> Clients \cup {None}]
      /\ ep \in [Clients -> ClientRemoteEndpoint] /\ got \in [Clients -> Seq(Message)]
      /\ backlog \in Seq(Clients)
  BY Places DEF LiveIsQuiet, IInv, Elsewhere, EndpointsAreSane
<1>1. CASE AcceptClient
  <2>1. PICK c : c = Head(backlog)
    OBVIOUS
  <2>2. c \in Clients /\ c \in Range(backlog) /\ Range(backlog') \subseteq Range(backlog)
        /\ at["router"] = "idle"
    BY <1>0, <1>1, <2>1, TailIs DEF AcceptClient
  <2>3. UNCHANGED <<ep, mClients, mPendingEnvelopes, routed>>
    BY <1>0, <1>1 DEF AcceptClient, tables
  <2>4. CASE mClients # None /\ Close(c) /\ UNCHANGED <<at, hold>>
    <3>1. got'[1] = got[1]
      BY <1>0, <2>2, <2>4 DEF Close
    <3> QED BY <2>2, <2>3, <2>4, <3>1, ServedSame
  <2>5. CASE mClients = None /\ Step("router", "idle", "checked") /\ Hold("router", c) /\ UNCHANGED connections
    <3>1. ep[1].state = "none" /\ Expected
      BY <1>0, <2>2, <2>5 DEF Served, Expected
    <3>2. c = 1
      BY <2>2, <3>1 DEF Served
    <3>3. hold'["router"] = 1 /\ \A t \in Threads \ {"router"} : hold'[t] = hold[t]
      BY <1>0, <2>5, <3>2 DEF Hold
    <3>4. Everything' = Everything /\ Expected'
      BY <2>3, <3>1 DEF Everything, Expected
    <3> QED BY <1>0, <2>2, <2>3, <2>5, <3>1, <3>3, <3>4 DEF Served
  <2> QED BY <1>0, <1>1, <2>1, <2>4, <2>5 DEF AcceptClient
<1>2. CASE ConstructEndpoint
  <2>1. at["router"] = "checked" /\ mClients = None
    BY <1>2, ServedIs DEF ConstructEndpoint
  <2>2. ep[1].state = "none" /\ hold["router"] \in Clients
    BY <1>0, <2>1, Places DEF Served, Expected
  <2>3. hold["router"] = 1
    BY <2>2 DEF Served
  <2>4. /\ at' = [at EXCEPT !["router"] = "constructed"]
        /\ Set(1, Endpoint(TRUE)) /\ UNCHANGED <<hold, mClients, mPendingEnvelopes, routed>>
    BY <1>0, <1>2, <2>3 DEF ConstructEndpoint, Step, tables
  <2>5. /\ ep'[1] = Endpoint(TRUE) /\ \A c \in Clients \ {1} : ep'[c] = ep[c]
        /\ at'["router"] = "constructed"
    BY <1>0, <2>4 DEF Set
  <2>6. Everything' = Everything /\ Expected'
    BY <2>3, <2>4, <2>5 DEF Everything, Expected
  <2>7. ep'[1].state # "none" /\ ~ep'[1].mFlaggedForDestruction
    BY <2>5, EmptyEndpoints
  <2>8. /\ \A t \in Threads \ {"router"} : hold[t] = None
        /\ Everything \subseteq Range(mPendingEnvelopes)
        /\ \A c \in Clients \ {1} : ep[c].state = "none"
    BY <1>0, <2>1 DEF Served
  <2> QED BY <2>1, <2>4, <2>5, <2>6, <2>7, <2>8 DEF Served
<1>3. CASE TrackClient
  <2>1. at["router"] = "constructed" /\ mClients = None
    BY <1>3, ServedIs DEF TrackClient, Step
  <2>2. hold["router"] \in Clients /\ ep[hold["router"]].state = "live"
    BY <1>0, <2>1, Places, HeldIs
  <2>3. hold["router"] = 1
    BY <2>2, ServedIs
  <2>4. Loads(1) /\ mClients' = 1
    BY <1>3, <2>3 DEF Loads, TrackClient
  <2>5. /\ \A d \in Clients \ {1} : ep'[d] = ep[d]
        /\ got' = got /\ got[1] = <<>>
        /\ ep'[1].sending = NoMessage /\ Items(ep'[1]) = mPendingEnvelopes
        /\ ep'[1].mFlaggedForDestruction = ep[1].mFlaggedForDestruction
        /\ ep'[1].state = ep[1].state
        /\ UNCHANGED <<routed, mPendingEnvelopes, closed>>
    BY <2>4, LoadsIs
  <2>6. Everything' = Everything /\ Everything \subseteq Range(mPendingEnvelopes)
    BY <1>0, <2>1, <2>5 DEF Everything, Served
  <2>7. Range(mPendingEnvelopes) \subseteq Has(got'[1], ep'[1])
    BY <2>5 DEF Has
  <2>8. ep'[1].state # "none"
    BY <2>2, <2>3, <2>5
  <2> QED BY <2>4, <2>5, <2>6, <2>7, <2>8 DEF Served
<1>4. ~DestroyEndpoint /\ ~Destroyed("router")
  BY <1>0, ServedIs DEF DestroyEndpoint, Destroyed, Step
<1> QED BY <1>1, <1>2, <1>3, <1>4 DEF Router

LEMMA FirstStep ==
    ASSUME IInv, OrderIsKept, NewHasNothing, LiveIsQuiet, FirstIsServed, Next
    PROVE  FirstIsServed'
<1> SUFFICES ASSUME session' = "live", 1 \in Clients, 1 \notin closed' PROVE Served'
  BY DEF FirstIsServed
<1>1. session = "live"
  BY DEF Next, ClientConnects, ClientLeaves, EndpointThread, PopMessage, SendEnvelope,
     ReceiveEnvelope, Receive, RouteReceived,
     ReceiveEnds, FindClient, RouteMessage, QueueToClient, StashEnvelope, Destroyed, Router,
     AcceptClient, ConstructEndpoint, TrackClient, DestroyEndpoint, ServiceToRouter,
     DeleteRoutingData, KickClient, FlagKicked, ReleaseKicked, ClearStashedEnvelopes,
     EndSession, DeleteSession, HandleNotice, ShutdownSession, BecomeDefunct, serviceVars
<1>2. 1 \notin closed
  BY Effects, EffectIs DEF connections
<1>3. Served
  BY <1>1, <1>2 DEF FirstIsServed
<1>4. /\ "router" \in Threads /\ Sources \subseteq Threads \ {"router"}
      /\ at \in [Threads -> At] /\ hold \in [Threads -> Clients \cup {None}]
      /\ got \in [Clients -> Seq(Message)] /\ backlog \in Seq(Clients)
  BY Places DEF IInv, Elsewhere
<1>5. ASSUME NEW c \in Clients, ClientConnects(c) PROVE Served'
  <2>1. /\ UNCHANGED <<ep, mClients, mPendingEnvelopes, routed, got, at, hold>>
        /\ backlog' = Append(backlog, c)
        /\ \A d \in 1 .. c - 1 : ep[d].state # "none" \/ d \in closed
    BY <1>5 DEF ClientConnects, tables, connections, threadVars
  <2>2. Range(backlog') = Range(backlog) \cup {c}
    BY <1>4, <1>5, <2>1, AppendIs
  <2>3. c = 1 \/ ep[1].state # "none"
    <3>1. ASSUME c # 1 PROVE 1 \in 1 .. c - 1
      BY <3>1, ClientsAssumption DEF Clients
    <3> QED BY <1>2, <2>1, <3>1
  <2> QED BY <1>3, <2>1, <2>2, <2>3, ServedSame
<1>6. ASSUME NEW c \in Clients, ClientLeaves(c) PROVE Served'
  <2>1. /\ UNCHANGED <<ep, mClients, mPendingEnvelopes, routed, backlog, at, hold>>
        /\ Close(c)
    BY <1>6 DEF ClientLeaves, tables, threadVars
  <2>2. got'[1] = got[1]
    BY <1>4, <2>1 DEF Close
  <2> QED BY <1>3, <2>1, <2>2, ServedSame
<1>7. ASSUME NEW c \in Clients, EndpointThread(c) PROVE Served'
  BY <1>2, <1>3, <1>7, ServedByThread
<1>8. ASSUME NEW s \in Sources, FindClient(s) PROVE Served'
  <2>1. /\ UNCHANGED <<ep, mClients, mPendingEnvelopes, routed, backlog, got>>
        /\ hold' = [hold EXCEPT ![s] = mClients]
        /\ \E to : at' = [at EXCEPT ![s] = to]
    BY <1>8 DEF FindClient, Step, Hold, tables, socketVars, connections
  <2>2. /\ at'["router"] = at["router"] /\ hold'["router"] = hold["router"]
        /\ \A t \in Threads \ {"router"} : hold'[t] \in {hold[t], mClients}
    BY <1>4, <2>1
  <2> QED BY <1>3, <2>1, <2>2, ServedSame
<1>9. ASSUME NEW s \in Sources, RouteMessage(s) PROVE Served'
  <2>1. ~Destroyed(s)
    BY <1>3, <1>4, ServedIs DEF Destroyed, Step
  <2> QED BY <1>3, <1>9, <2>1, ServedBySource DEF RouteMessage
<1>10. CASE Router
  BY <1>1, <1>3, <1>10, ServedByRouter
<1>11. ~ServiceToRouter /\ ~EndSession /\ ~DeleteSession
  BY <1>1 DEF EndSession, LiveIsQuiet, ServiceToRouter, DeleteRoutingData, KickClient, FlagKicked,
     ReleaseKicked, ClearStashedEnvelopes, Destroyed, Step, DeleteSession, ShutdownSession,
     BecomeDefunct
<1>12. CASE HandleNotice
  <2>1. UNCHANGED <<ep, mClients, mPendingEnvelopes, routed, backlog, got, at, hold>>
    BY <1>12 DEF HandleNotice, tables, socketVars, connections, threadVars
  <2> QED BY <1>3, <2>1, ServedSame
<1> QED BY <1>5, <1>6, <1>7, <1>8, <1>9, <1>10, <1>11, <1>12 DEF Next

-----------------------------------------------------------------------------
(* The invariant, and the theorem.                                         *)

LEMMA OrderInit == Init => OInv
<1> SUFFICES ASSUME Init PROVE OInv
  OBVIOUS
<1>1. \A c \in Clients : got[c] = <<>> /\ ep[c] = NoEndpoint
  BY DEF Init
<1>2. \A c \in Clients : NothingIn(c)
  BY <1>1, EmptyEndpoints DEF NothingIn
<1>3. InLine(<<>>, NoEndpoint) /\ Has(<<>>, NoEndpoint) = {NoMessage}
  BY EmptyEndpoints, NothingOrdered, NothingPrecedes DEF InLine, Has
<1>4. OrderIsKept
  BY <1>1, <1>3, NothingOrdered, NothingPrecedes DEF Init, OrderIsKept, Kept, StashIsKept
<1>5. /\ at["router"] = "idle" /\ at["service_to_router"] = "idle" /\ hold["router"] = None
      /\ \A t \in Threads : hold[t] = None
  BY DEF Init, Threads
<1>6. NewHasNothing /\ LiveIsQuiet
  BY <1>2, <1>5 DEF Init, NewHasNothing, LiveIsQuiet
<1>7. ClosedHasNothing
  BY <1>1, EmptyEndpoints DEF Init, ClosedHasNothing
<1>8. FirstIsServed
  <2> SUFFICES ASSUME 1 \in Clients PROVE Served
    BY DEF FirstIsServed
  <2>1. Range(backlog) = {}
    BY NothingOrdered DEF Init
  <2>2. Everything = {}
    <3>1. ASSUME NEW m \in Everything PROVE FALSE
      <4>1. m[1] \in Sources /\ m[2] \in 1 .. MaxMessages /\ m[2] <= routed[m[1]]
        BY <3>1 DEF Everything, Message
      <4>2. routed[m[1]] = 0
        BY <4>1 DEF Init
      <4> QED BY <4>1, <4>2, ClientsAssumption
    <3> QED BY <3>1
  <2>3. \A c \in Clients : ep[c].state = "none" /\ ~ep[c].mFlaggedForDestruction
    BY <1>1, EmptyEndpoints
  <2>4. Expected /\ mClients = None /\ hold["router"] \notin Clients
    BY <1>5, <2>3, NoneIsNoClient DEF Init, Expected
  <2>5. \A t \in Threads \ {"router"} : hold[t] = None
    BY <1>5
  <2>6. Everything \subseteq Range(mPendingEnvelopes)
    BY <2>2
  <2>7. \A c \in Clients \ {1} : c \notin Range(backlog) /\ hold["router"] # c
    BY <2>1, <2>4
  <2> QED BY <2>3, <2>4, <2>5, <2>6, <2>7 DEF Served
<1> QED BY <1>4, <1>6, <1>7, <1>8 DEF OInv

LEMMA OInvStep == IInv /\ OInv /\ [Next]_vars => OInv'
<1> SUFFICES ASSUME IInv, OInv, [Next]_vars PROVE OInv'
  OBVIOUS
<1>1. CASE Next
  BY <1>1, OrderStep, NewStep, ClosedStep, LiveStep, FirstStep DEF OInv
<1>2. CASE UNCHANGED vars
  <2>1. UNCHANGED <<session, toRouter, mRoutingData, backlog, closed, got, mClients,
                    mPendingEnvelopes, ep, at, hold, routed>>
    BY <1>2 DEF vars, serviceVars, tables, socketVars, connections, threadVars
  <2>2. OrderIsKept' /\ NewHasNothing' /\ ClosedHasNothing' /\ LiveIsQuiet'
    BY <2>1 DEF OInv, OrderIsKept, NewHasNothing, NothingIn, ClosedHasNothing, LiveIsQuiet
  <2>3. FirstIsServed'
    BY <2>1 DEF OInv, FirstIsServed, Served, Expected, Everything
  <2> QED BY <2>2, <2>3 DEF OInv
<1> QED BY <1>1, <1>2

LEMMA OrderIsDelivered == IInv /\ OInv => DeliveredInOrder
<1> SUFFICES ASSUME IInv, OInv, NEW c \in Clients, NEW i \in DOMAIN got[c]
             PROVE  /\ \A j \in 1 .. i - 1 :
                          got[c][j][1] = got[c][i][1] => got[c][j][2] < got[c][i][2]
                    /\ c = 1 /\ session = "live" =>
                          \A n \in 1 .. got[c][i][2] - 1 :
                              \E j \in 1 .. i - 1 : got[c][j] = <<got[c][i][1], n>>
  BY DEF DeliveredInOrder
<1>0. got[c] \in Seq(Message)
  BY DEF IInv, Elsewhere
<1>1. /\ DOMAIN got[c] = 1 .. Len(got[c]) /\ Len(got[c]) \in Nat
      /\ \A j \in DOMAIN got[c] : got[c][j] \in Message
  BY <1>0
<1>2. \A j \in 1 .. i - 1 : j \in DOMAIN got[c] /\ j < i
  BY <1>1
<1>3. Kept(got[c], ep[c], routed)
  BY DEF OInv, OrderIsKept
<1>4. \A j \in 1 .. i - 1 : got[c][j][1] = got[c][i][1] => got[c][j][2] < got[c][i][2]
  BY <1>1, <1>2, <1>3 DEF Kept, InLine, Ordered, Precedes
<1>5. ASSUME c = 1, session = "live", NEW n \in 1 .. got[c][i][2] - 1
      PROVE  \E j \in 1 .. i - 1 : got[c][j] = <<got[c][i][1], n>>
  <2> DEFINE m == got[c][i]
             x == <<m[1], n>>
  <2>1. got[c] # <<>>
    BY <1>1
  <2>2. Served
    BY <1>5, <2>1 DEF OInv, ClosedHasNothing, FirstIsServed
  <2>3. m \in Message /\ m[1] \in Sources /\ m[2] \in 1 .. MaxMessages /\ IsRouted(routed, m)
        /\ m \in Range(got[c])
    BY <1>1, <1>3 DEF Kept, Has, Range, Message
  <2>4. x \in Message /\ x[1] = m[1] /\ x[2] = n /\ n < m[2] /\ n \in Int /\ m[2] \in Int
    BY <2>3, ClientsAssumption DEF Message
  <2>5. x \in Everything
    <3>1. m[2] <= routed[m[1]] /\ routed[m[1]] \in Int
      <4> HIDE DEF m
      <4>1. m[2] <= routed[m[1]]
        BY <2>3 DEF IsRouted
      <4>2. routed[m[1]] \in 0 .. MaxMessages /\ MaxMessages \in Nat
        BY <2>3, ClientsAssumption DEF IInv, Elsewhere
      <4> QED BY <4>1, <4>2
    <3> HIDE DEF m
    <3> QED BY <2>4, <3>1 DEF Everything
  <2>6. x \in Has(got[c], ep[c])
    <3>1. CASE Expected
      BY <1>5, <2>1, <3>1 DEF OInv, NewHasNothing, NothingIn, Expected
    <3>2. CASE mClients = 1 /\ Everything \subseteq Has(got[1], ep[1])
      BY <1>5, <2>5, <3>2
    <3> QED BY <2>2, <3>1, <3>2 DEF Served
  <2>7. ~Precedes(m, x)
    <3> HIDE DEF m
    <3> QED BY <2>3, <2>4 DEF Precedes
  <2>8. x \in Range(got[c])
    <3> HIDE DEF m, x
    <3> QED BY <1>3, <2>3, <2>6, <2>7 DEF Kept, InLine, Has
  <2>9. PICK j \in DOMAIN got[c] : got[c][j] = x
    BY <2>8 DEF Range
  <2>10. j # i /\ ~(i < j)
    <3>1. j # i
      BY <2>4, <2>9
    <3>2. ~(i < j)
      BY <1>3, <2>7, <2>9 DEF Kept, InLine, Ordered
    <3> QED BY <3>1, <3>2
  <2> QED BY <1>1, <2>9, <2>10
<1> QED BY <1>4, <1>5

LEMMA OrderInvariance == Spec => []OInv
<1>1. Spec => []IInv
  BY Invariance
<1> QED BY <1>1, OrderInit, OInvStep, PTL DEF Spec

\* A client gets the messages of a source in the order they were routed and each
\* once, whichever thread queues, stashes or loads them; and as long as the session
\* lives its first client misses none of those that were routed before it came.
THEOREM MessagesAreDeliveredInOrder == Spec => []DeliveredInOrder
<1> QED BY OrderIsDelivered, Invariance, OrderInvariance, PTL
=============================================================================
