---------------------------- MODULE NodeLinkProofs ----------------------------
(***************************************************************************)
(* Proofs about the messages of NodeLink, for any number of messages,      *)
(* endpoints and faults: what the nodes route to each other arrives as     *)
(* MessageLink promises.                                                   *)
(***************************************************************************)
EXTENDS NodeLinkControlProofs

-----------------------------------------------------------------------------
(* Where the messages are.                                                 *)

\* In an endpoint: what its sender is writing, and what waits.
Held(o, e) == Range(ep[o][e].mMessageQueue.items) \cup ({ep[o][e].sending} \ {None})

\* Of what o has routed to n there is one copy at most.
OneCopyOf(o, n) == \A e \in Endpoints :
    /\ Range(delivered[n]) \subseteq 1 .. routed[o]
    /\ Held(o, e) \subseteq 1 .. routed[o]
    /\ Held(o, e) \cap Range(delivered[n]) = {}
    /\ \A d \in Endpoints : d # e => Held(o, e) \cap Held(o, d) = {}
    /\ \A c \in Endpoints : Held(o, e) \cap Range(wire[c].to[n]) = {}
    /\ IsInjective(ep[o][e].mMessageQueue.items)
    /\ ep[o][e].sending \notin Range(ep[o][e].mMessageQueue.items)
    /\ Range(wire[e].to[n]) \subseteq 1 .. routed[o]
    /\ Range(wire[e].to[n]) \cap Range(delivered[n]) = {}
    /\ \A d \in Endpoints : d # e => Range(wire[e].to[n]) \cap Range(wire[d].to[n]) = {}
    /\ IsInjective(wire[e].to[n])
OneCopy == \A o \in Nodes : OneCopyOf(o, Other(o))

\* The way from o to the other node: the queue of the endpoint that is tracked,
\* what its sender holds, and the connection that is open.
Waiting(o) == IF mNodes[o] = None THEN <<>> ELSE ep[o][mNodes[o]].mMessageQueue.items
InHand(o) == IF mNodes[o] = None THEN None ELSE ep[o][mNodes[o]].sending
OnWire(n) == IF mNodes[2] = None THEN <<>> ELSE wire[mNodes[2]].to[n]

Increasing(s) == \A i, j \in DOMAIN s : i < j => s[i] < s[j]
Before(s, t) == \A x \in Range(s), y \in Range(t) : x < y

\* On the way to the lesser node messages keep their order.
Ordered(got, sent, held, queued) ==
    /\ Increasing(got) /\ Increasing(sent) /\ Increasing(queued)
    /\ Before(got, sent) /\ Before(got, queued) /\ Before(sent, queued)
    /\ held # None =>
        /\ \A x \in Range(got) \cup Range(sent) : x < held
        /\ \A x \in Range(queued) : held < x
OrderIsKept == Ordered(delivered[1], OnWire(1), InHand(2), Waiting(2))

\* Until something fails none is left out, either way.
Complete(got, sent, held, queued, last) ==
    LET before == Len(got) + Len(sent) + IF held = None THEN 0 ELSE 1
    IN  /\ \A i \in DOMAIN got : got[i] = i
        /\ \A i \in DOMAIN sent : sent[i] = Len(got) + i
        /\ held # None => held = before
        /\ \A i \in DOMAIN queued : queued[i] = before + i
        /\ last = before + Len(queued)
CompleteFrom(o, n) == Complete(delivered[n], OnWire(n), InHand(o), Waiting(o), routed[o])
NoGap == faults = 0 => \A o \in Nodes : CompleteFrom(o, Other(o))

IInv == Controlled /\ OneCopy /\ OrderIsKept /\ NoGap

-----------------------------------------------------------------------------
(* Messages in order, and none left out.                                   *)

LEMMA IncreasingSeqs ==
    ASSUME NEW s \in Seq(Message), Increasing(s)
    PROVE  /\ \A x \in Message : (\A y \in Range(s) : y < x) => Increasing(Append(s, x))
           /\ s # <<>> => Increasing(Tail(s)) /\ \A y \in Range(Tail(s)) : Head(s) < y
<1>1. ASSUME NEW x \in Message, \A y \in Range(s) : y < x PROVE Increasing(Append(s, x))
  <2>1. /\ DOMAIN s = 1 .. Len(s) /\ DOMAIN Append(s, x) = 1 .. Len(s) + 1 /\ Len(s) \in Nat
        /\ \A i \in 1 .. Len(s) : Append(s, x)[i] = s[i]
        /\ Append(s, x)[Len(s) + 1] = x
    BY AppendProperties
  <2>2. \A i \in 1 .. Len(s) : s[i] < x
    BY <1>1, <2>1 DEF Range
  <2> QED BY <2>1, <2>2 DEF Increasing
<1>2. ASSUME s # <<>> PROVE Increasing(Tail(s)) /\ \A y \in Range(Tail(s)) : Head(s) < y
  <2>1. /\ Head(s) = s[1] /\ Len(Tail(s)) = Len(s) - 1
        /\ \A i \in 1 .. Len(Tail(s)) : Tail(s)[i] = s[i + 1]
        /\ DOMAIN s = 1 .. Len(s) /\ DOMAIN Tail(s) = 1 .. Len(s) - 1
        /\ Len(s) \in Nat /\ Len(s) > 0
    BY <1>2, HeadTailProperties, LenProperties, EmptySeq
  <2>2. Increasing(Tail(s))
    BY <2>1 DEF Increasing
  <2>3. \A i \in 1 .. Len(s) - 1 : Head(s) < Tail(s)[i]
    BY <2>1 DEF Increasing
  <2> QED BY <2>1, <2>2, <2>3 DEF Range
<1> QED BY <1>1, <1>2

LEMMA EmptyIsOrdered ==
    /\ Range(<<>>) = {} /\ Increasing(<<>>) /\ IsInjective(<<>>)
    /\ \A s : Before(s, <<>>) /\ Before(<<>>, s)
<1>1. DOMAIN <<>> = {}
  OBVIOUS
<1>2. Range(<<>>) = {}
  BY <1>1 DEF Range
<1> QED BY <1>1, <1>2 DEF Increasing, IsInjective, Before

LEMMA OrderedShrinks ==
    ASSUME NEW got, NEW sent, NEW held, NEW queued, Ordered(got, sent, held, queued),
           NEW s \in {sent, <<>>}, NEW h \in {held, None}, NEW q \in {queued, <<>>}
    PROVE  Ordered(got, s, h, q)
BY EmptyIsOrdered DEF Ordered

LEMMA OrderedPops ==
    ASSUME NEW got, NEW sent, NEW queued \in Seq(Message), queued # <<>>,
           Ordered(got, sent, None, queued)
    PROVE  Ordered(got, sent, Head(queued), Tail(queued))
BY IncreasingSeqs, RangeOfTail DEF Ordered, Before

LEMMA OrderedSends ==
    ASSUME NEW got, NEW sent \in Seq(Message), NEW held \in Message, NEW queued,
           Ordered(got, sent, held, queued)
    PROVE  Ordered(got, Append(sent, held), None, queued)
BY MessageNumbers, IncreasingSeqs, RangeOfAppend DEF Ordered, Before

LEMMA OrderedReceives ==
    ASSUME NEW got \in Seq(Message), NEW sent \in Seq(Message), sent # <<>>, NEW held, NEW queued,
           Ordered(got, sent, held, queued)
    PROVE  /\ Ordered(Append(got, Head(sent)), Tail(sent), held, queued)
           /\ Ordered(got, Tail(sent), held, queued)
<1>1. /\ Head(sent) \in Message /\ Tail(sent) \in Seq(Message)
      /\ Range(sent) = Range(Tail(sent)) \cup {Head(sent)}
      /\ Increasing(Tail(sent)) /\ \A y \in Range(Tail(sent)) : Head(sent) < y
  BY IncreasingSeqs, RangeOfTail DEF Ordered
<1>2. /\ Range(Append(got, Head(sent))) = Range(got) \cup {Head(sent)}
      /\ Increasing(Append(got, Head(sent)))
  BY <1>1, IncreasingSeqs, RangeOfAppend DEF Ordered, Before
<1> QED BY <1>1, <1>2 DEF Ordered, Before

LEMMA OrderedQueues ==
    ASSUME NEW got, NEW sent, NEW held, NEW queued \in Seq(Message), NEW m \in Message,
           Ordered(got, sent, held, queued),
           \A x \in Range(got) \cup Range(sent) \cup Range(queued) : x < m,
           held # None => held < m
    PROVE  Ordered(got, sent, held, Append(queued, m))
BY IncreasingSeqs, RangeOfAppend DEF Ordered, Before

LEMMA CompletePops ==
    ASSUME NEW got \in Seq(Message), NEW sent \in Seq(Message), NEW queued \in Seq(Message),
           queued # <<>>, NEW last, Complete(got, sent, None, queued, last)
    PROVE  Complete(got, sent, Head(queued), Tail(queued), last)
<1>1. /\ Head(queued) = queued[1] /\ Len(Tail(queued)) = Len(queued) - 1
      /\ \A i \in 1 .. Len(queued) - 1 : Tail(queued)[i] = queued[i + 1]
      /\ DOMAIN queued = 1 .. Len(queued) /\ DOMAIN Tail(queued) = 1 .. Len(queued) - 1
      /\ Len(queued) \in Nat /\ Len(queued) > 0 /\ Head(queued) # None
  BY HeadTailProperties, LenProperties, EmptySeq, MessageNumbers
<1>2. Len(got) \in Nat /\ Len(sent) \in Nat
  BY LenProperties
<1> PICK b \in Nat : b = Len(got) + Len(sent)
  BY <1>2
<1>3. /\ \A i \in DOMAIN got : got[i] = i
      /\ \A i \in DOMAIN sent : sent[i] = Len(got) + i
      /\ \A i \in 1 .. Len(queued) : queued[i] = b + i
      /\ last = b + Len(queued)
  <2>1. /\ \A i \in DOMAIN got : got[i] = i
        /\ \A i \in DOMAIN sent : sent[i] = Len(got) + i
        /\ \A i \in DOMAIN queued : queued[i] = b + 0 + i
        /\ last = b + 0 + Len(queued)
    BY DEF Complete
  <2> QED BY <1>1, <2>1
<1>4. Head(queued) = b + 1
  BY <1>1, <1>3
<1>5. \A i \in 1 .. Len(queued) - 1 : Tail(queued)[i] = b + 1 + i
  BY <1>1, <1>3
<1>6. last = b + 1 + Len(Tail(queued))
  BY <1>1, <1>3
<1>7. \A i \in DOMAIN Tail(queued) : Tail(queued)[i] = b + 1 + i
  BY <1>1, <1>5
<1> QED BY <1>1, <1>3, <1>4, <1>6, <1>7 DEF Complete

LEMMA CompleteSends ==
    ASSUME NEW got \in Seq(Message), NEW sent \in Seq(Message), NEW queued \in Seq(Message),
           NEW held \in Message, NEW last, Complete(got, sent, held, queued, last)
    PROVE  Complete(got, Append(sent, held), None, queued, last)
<1>1. /\ DOMAIN sent = 1 .. Len(sent) /\ DOMAIN Append(sent, held) = 1 .. Len(sent) + 1
      /\ Len(sent) \in Nat /\ Len(Append(sent, held)) = Len(sent) + 1
      /\ \A i \in 1 .. Len(sent) : Append(sent, held)[i] = sent[i]
      /\ Append(sent, held)[Len(sent) + 1] = held
  BY AppendProperties
<1>2. Len(got) \in Nat /\ Len(queued) \in Nat /\ held # None
  BY LenProperties, MessageNumbers
<1> PICK b \in Nat : b = Len(got) + Len(sent) + 1
  BY <1>1, <1>2
<1>3. /\ \A i \in DOMAIN got : got[i] = i
      /\ \A i \in 1 .. Len(sent) : sent[i] = Len(got) + i
      /\ held = b
      /\ \A i \in DOMAIN queued : queued[i] = b + i
      /\ last = b + Len(queued)
  BY <1>1, <1>2 DEF Complete
<1>4. ASSUME NEW i \in 1 .. Len(sent) + 1 PROVE Append(sent, held)[i] = Len(got) + i
  <2>1. CASE i \in 1 .. Len(sent)
    BY <1>1, <1>3, <2>1
  <2>2. CASE i = Len(sent) + 1
    BY <1>1, <1>2, <1>3, <2>2
  <2> QED BY <1>1, <2>1, <2>2
<1>5. \A i \in DOMAIN Append(sent, held) : Append(sent, held)[i] = Len(got) + i
  BY <1>1, <1>4
<1>6. Len(got) + Len(Append(sent, held)) + 0 = b
  BY <1>1, <1>2
<1> QED BY <1>3, <1>5, <1>6 DEF Complete

LEMMA CompleteReceives ==
    ASSUME NEW got \in Seq(Message), NEW sent \in Seq(Message), NEW queued \in Seq(Message),
           sent # <<>>, NEW held \in {None} \cup Message, NEW last,
           Complete(got, sent, held, queued, last)
    PROVE  Complete(Append(got, Head(sent)), Tail(sent), held, queued, last)
<1>1. /\ Head(sent) = sent[1] /\ Len(Tail(sent)) = Len(sent) - 1
      /\ \A i \in 1 .. Len(sent) - 1 : Tail(sent)[i] = sent[i + 1]
      /\ DOMAIN sent = 1 .. Len(sent) /\ DOMAIN Tail(sent) = 1 .. Len(sent) - 1
      /\ Len(sent) \in Nat /\ Len(sent) > 0 /\ Head(sent) \in Message
  BY HeadTailProperties, LenProperties, EmptySeq
<1>2. /\ DOMAIN got = 1 .. Len(got) /\ DOMAIN Append(got, Head(sent)) = 1 .. Len(got) + 1
      /\ Len(got) \in Nat /\ Len(Append(got, Head(sent))) = Len(got) + 1
      /\ \A i \in 1 .. Len(got) : Append(got, Head(sent))[i] = got[i]
      /\ Append(got, Head(sent))[Len(got) + 1] = Head(sent)
  BY <1>1, AppendProperties
<1> PICK h \in Nat : h = IF held = None THEN 0 ELSE 1
  OBVIOUS
<1> PICK b \in Nat : b = Len(got) + Len(sent) + h
  BY <1>1, <1>2
<1>3. /\ \A i \in 1 .. Len(got) : got[i] = i
      /\ \A i \in 1 .. Len(sent) : sent[i] = Len(got) + i
      /\ held # None => held = b
      /\ \A i \in DOMAIN queued : queued[i] = b + i
      /\ last = b + Len(queued)
  BY <1>1, <1>2 DEF Complete
<1>4. Head(sent) = Len(got) + 1
  BY <1>1, <1>2, <1>3
<1>5. \A i \in 1 .. Len(got) + 1 : Append(got, Head(sent))[i] = i
  BY <1>2, <1>3, <1>4
<1>6. \A i \in 1 .. Len(sent) - 1 : Tail(sent)[i] = Len(got) + 1 + i
  BY <1>1, <1>2, <1>3
<1>7. Len(Append(got, Head(sent))) + Len(Tail(sent)) + h = b
  BY <1>1, <1>2
<1>8. /\ \A i \in DOMAIN Append(got, Head(sent)) : Append(got, Head(sent))[i] = i
      /\ \A i \in DOMAIN Tail(sent) : Tail(sent)[i] = Len(Append(got, Head(sent))) + i
  BY <1>1, <1>2, <1>5, <1>6
<1> QED BY <1>3, <1>7, <1>8 DEF Complete

LEMMA CompleteQueues ==
    ASSUME NEW got \in Seq(Message), NEW sent \in Seq(Message), NEW queued \in Seq(Message),
           NEW held \in {None} \cup Message, NEW last \in Nat, last + 1 \in Message,
           Complete(got, sent, held, queued, last)
    PROVE  Complete(got, sent, held, Append(queued, last + 1), last + 1)
<1>1. /\ DOMAIN queued = 1 .. Len(queued) /\ DOMAIN Append(queued, last + 1) = 1 .. Len(queued) + 1
      /\ Len(queued) \in Nat /\ Len(Append(queued, last + 1)) = Len(queued) + 1
      /\ \A i \in 1 .. Len(queued) : Append(queued, last + 1)[i] = queued[i]
      /\ Append(queued, last + 1)[Len(queued) + 1] = last + 1
  BY AppendProperties
<1>2. Len(got) \in Nat /\ Len(sent) \in Nat
  BY LenProperties
<1> QED BY <1>1, <1>2 DEF Complete

-----------------------------------------------------------------------------
(* One copy of a message.                                                  *)

LEMMA MessageTypes ==
    ASSUME Typed, NEW o \in Nodes
    PROVE  /\ delivered[o] \in Seq(Message) /\ routed[o] \in Nat
           /\ \A e \in Endpoints :
                /\ ep[o][e].mMessageQueue.items \in Seq(Message)
                /\ ep[o][e].sending \in {None} \cup Message
                /\ wire[e].to[o] \in Seq(Message)
<1>1. ASSUME NEW e \in Endpoints
      PROVE  /\ ep[o][e].mMessageQueue.items \in Seq(Message)
             /\ ep[o][e].sending \in {None} \cup Message
             /\ wire[e].to[o] \in Seq(Message)
  <2>1. ep[o][e] \in RemoteEndpoint /\ wire[e] \in Wire
    BY DEF Typed
  <2> QED BY <2>1, FieldTypes, QueueFields, WireIs
<1>2. delivered[o] \in Seq(Message) /\ routed[o] \in Nat
  BY DEF Typed
<1> QED BY <1>1, <1>2

\* Messages are lost or change hands within an endpoint.
LEMMA CopiesShrink ==
    ASSUME NEW o \in Nodes, NEW n \in Nodes, OneCopyOf(o, n),
           \A e \in Endpoints :
              /\ Held(o, e)' \subseteq Held(o, e)
              /\ Range(wire'[e].to[n]) \subseteq Range(wire[e].to[n])
              /\ IsInjective(ep'[o][e].mMessageQueue.items)
              /\ ep'[o][e].sending \notin Range(ep'[o][e].mMessageQueue.items)
              /\ IsInjective(wire'[e].to[n]),
           delivered'[n] = delivered[n], routed'[o] = routed[o]
    PROVE  OneCopyOf(o, n)'
<1> PICK H, G, W, V :
      /\ H = [e \in Endpoints |-> Held(o, e)] /\ G = [e \in Endpoints |-> Held(o, e)']
      /\ W = [e \in Endpoints |-> Range(wire[e].to[n])] /\ V = [e \in Endpoints |-> Range(wire'[e].to[n])]
  OBVIOUS
<1>1. \A e \in Endpoints :
        /\ H[e] = Held(o, e) /\ G[e] = Held(o, e)'
        /\ W[e] = Range(wire[e].to[n]) /\ V[e] = Range(wire'[e].to[n])
  OBVIOUS
<1>2. \A e \in Endpoints : G[e] \subseteq H[e] /\ V[e] \subseteq W[e]
  BY <1>1
<1> PICK D : D = Range(delivered[n])
  OBVIOUS
<1> PICK R : R = 1 .. routed[o]
  OBVIOUS
<1>3. \A e \in Endpoints :
        /\ D \subseteq R /\ H[e] \subseteq R /\ H[e] \cap D = {}
        /\ \A d \in Endpoints : d # e => H[e] \cap H[d] = {}
        /\ \A c \in Endpoints : H[e] \cap W[c] = {}
        /\ W[e] \subseteq R /\ W[e] \cap D = {}
        /\ \A d \in Endpoints : d # e => W[e] \cap W[d] = {}
  BY <1>1 DEF OneCopyOf
<1>4. ASSUME NEW e \in Endpoints
      PROVE  /\ D \subseteq R /\ G[e] \subseteq R /\ G[e] \cap D = {}
             /\ \A d \in Endpoints : d # e => G[e] \cap G[d] = {}
             /\ \A c \in Endpoints : G[e] \cap V[c] = {}
             /\ V[e] \subseteq R /\ V[e] \cap D = {}
             /\ \A d \in Endpoints : d # e => V[e] \cap V[d] = {}
  BY ONLY <1>2, <1>3, <1>4
<1>5. D = Range(delivered'[n]) /\ R = 1 .. routed'[o]
  OBVIOUS
<1> QED BY <1>1, <1>4, <1>5 DEF OneCopyOf

\* A message comes to be held, from e, by the connection c.
LEMMA CopySends ==
    ASSUME Typed, NEW o \in Nodes, NEW n \in Nodes, OneCopyOf(o, n), n = Other(o),
           NEW e \in Endpoints, NEW c \in Endpoints, Sends(o, e, c)
    PROVE  OneCopyOf(o, n)'
<1> PICK x \in Message : x = ep[o][e].sending
  BY MessageTypes DEF Sends
<1>0. x # None
  BY MessageNumbers
<1>1. /\ ep'[o][e].sending = None
      /\ ep'[o][e].mMessageQueue.items = ep[o][e].mMessageQueue.items
      /\ \A d \in Endpoints : d # e => Keeps(o, d)
      /\ \A d \in Endpoints : d # c => wire'[d].to[n] = wire[d].to[n]
      /\ wire'[c].to[n] = Append(wire[c].to[n], x)
      /\ UNCHANGED <<delivered, routed>>
  BY DEF Sends, OnlyAt
<1>2. x \notin Range(ep[o][e].mMessageQueue.items) /\ x \in Held(o, e)
  BY <1>0 DEF OneCopyOf, Held
<1>3. \A d \in Endpoints : Held(o, d)' = IF d = e THEN Held(o, d) \ {x} ELSE Held(o, d)
  BY <1>0, <1>1, <1>2 DEF Held, Keeps
<1>4. wire[c].to[n] \in Seq(Message) /\ x \notin Range(wire[c].to[n])
  BY <1>2, MessageTypes DEF OneCopyOf
<1>5. /\ Range(wire'[c].to[n]) = Range(wire[c].to[n]) \cup {x}
      /\ IsInjective(wire'[c].to[n])
  <2>1. IsInjective(wire[c].to[n])
    BY DEF OneCopyOf
  <2> QED BY <1>1, <1>4, <2>1, RangeOfAppend
<1>6. \A d \in Endpoints :
        Range(wire'[d].to[n]) = IF d = c THEN Range(wire[d].to[n]) \cup {x} ELSE Range(wire[d].to[n])
  BY <1>1, <1>5
<1>7. \A d \in Endpoints :
        /\ IsInjective(ep'[o][d].mMessageQueue.items)
        /\ ep'[o][d].sending \notin Range(ep'[o][d].mMessageQueue.items)
        /\ IsInjective(wire'[d].to[n])
  <2>1. None \notin Range(ep[o][e].mMessageQueue.items)
    BY MessageTypes, RangeOfSeq, MessageNumbers
  <2> QED BY <1>1, <1>5, <2>1 DEF OneCopyOf, Keeps
<1> PICK H, G, W, V :
      /\ H = [d \in Endpoints |-> Held(o, d)] /\ G = [d \in Endpoints |-> Held(o, d)']
      /\ W = [d \in Endpoints |-> Range(wire[d].to[n])] /\ V = [d \in Endpoints |-> Range(wire'[d].to[n])]
  OBVIOUS
<1>8. \A d \in Endpoints :
        /\ H[d] = Held(o, d) /\ G[d] = Held(o, d)'
        /\ W[d] = Range(wire[d].to[n]) /\ V[d] = Range(wire'[d].to[n])
  OBVIOUS
<1> PICK D, R : D = Range(delivered[n]) /\ R = 1 .. routed[o]
  OBVIOUS
<1>9. \A d \in Endpoints :
        /\ D \subseteq R /\ H[d] \subseteq R /\ H[d] \cap D = {}
        /\ \A f \in Endpoints : f # d => H[d] \cap H[f] = {}
        /\ \A f \in Endpoints : H[d] \cap W[f] = {}
        /\ W[d] \subseteq R /\ W[d] \cap D = {}
        /\ \A f \in Endpoints : f # d => W[d] \cap W[f] = {}
  BY <1>8 DEF OneCopyOf
<1>10. /\ x \in H[e]
       /\ \A d \in Endpoints : G[d] = IF d = e THEN H[d] \ {x} ELSE H[d]
       /\ \A d \in Endpoints : V[d] = IF d = c THEN W[d] \cup {x} ELSE W[d]
  BY <1>2, <1>3, <1>6, <1>8
<1>11. ASSUME NEW d \in Endpoints
       PROVE  /\ D \subseteq R /\ G[d] \subseteq R /\ G[d] \cap D = {}
              /\ \A f \in Endpoints : f # d => G[d] \cap G[f] = {}
              /\ \A f \in Endpoints : G[d] \cap V[f] = {}
              /\ V[d] \subseteq R /\ V[d] \cap D = {}
              /\ \A f \in Endpoints : f # d => V[d] \cap V[f] = {}
  <2>1. /\ x \in R /\ x \notin D
        /\ \A f \in Endpoints : x \notin W[f] /\ (f # e => x \notin H[f])
    BY ONLY <1>9, <1>10, e \in Endpoints
  <2>2. G[d] \subseteq H[d] /\ x \notin G[d] /\ V[d] \subseteq W[d] \cup {x}
    BY ONLY <1>10, <2>1, d \in Endpoints
  <2>3. ASSUME NEW f \in Endpoints
        PROVE  G[f] \subseteq H[f] /\ V[f] \subseteq W[f] \cup {x} /\ (f # c => V[f] = W[f])
    BY ONLY <1>10, <2>3
  <2>4. \A f \in Endpoints : f # d => G[d] \cap G[f] = {}
    BY ONLY <1>9, <2>2, <2>3, d \in Endpoints
  <2>5. \A f \in Endpoints : G[d] \cap V[f] = {}
    BY ONLY <1>9, <2>2, <2>3, d \in Endpoints
  <2>6. \A f \in Endpoints : f # d => V[d] \cap V[f] = {}
    BY ONLY <1>9, <1>10, <2>1, <2>2, <2>3, d \in Endpoints
  <2> QED BY ONLY <1>9, <2>1, <2>2, <2>4, <2>5, <2>6, d \in Endpoints
<1>12. D = Range(delivered'[n]) /\ R = 1 .. routed'[o]
  BY <1>1
<1> QED BY <1>7, <1>8, <1>11, <1>12 DEF OneCopyOf

\* A message of the connection c arrives, or is dropped on arrival.
LEMMA CopyReceives ==
    ASSUME Typed, NEW o \in Nodes, NEW n \in Nodes, OneCopyOf(o, n), n # o,
           NEW c \in Endpoints, Receives(n, c)
    PROVE  OneCopyOf(o, n)'
<1>1. /\ wire[c].to[n] # <<>> /\ wire'[c].to[n] = Tail(wire[c].to[n])
      /\ \A d \in Endpoints : d # c => wire'[d].to[n] = wire[d].to[n]
      /\ delivered'[n] = Append(delivered[n], Head(wire[c].to[n])) \/ delivered'[n] = delivered[n]
      /\ \A d \in Endpoints : Keeps(o, d)
      /\ UNCHANGED routed
  BY DEF Receives
<1>2. wire[c].to[n] \in Seq(Message) /\ IsInjective(wire[c].to[n]) /\ delivered[n] \in Seq(Message)
  BY MessageTypes DEF OneCopyOf
<1> PICK x \in Message : x = Head(wire[c].to[n])
  BY <1>1, <1>2, RangeOfTail
<1>3. /\ Range(wire[c].to[n]) = Range(wire'[c].to[n]) \cup {x}
      /\ IsInjective(wire'[c].to[n]) /\ x \notin Range(wire'[c].to[n])
  BY <1>1, <1>2, RangeOfTail
<1>4. Range(delivered'[n]) \subseteq Range(delivered[n]) \cup {x}
  <2>1. Range(Append(delivered[n], x)) = Range(delivered[n]) \cup {x}
    BY <1>2, RangeOfAppend
  <2>2. delivered'[n] = Append(delivered[n], x) \/ delivered'[n] = delivered[n]
    BY <1>1
  <2> QED BY <2>1, <2>2
<1>5. \A d \in Endpoints :
        /\ IsInjective(ep'[o][d].mMessageQueue.items)
        /\ ep'[o][d].sending \notin Range(ep'[o][d].mMessageQueue.items)
        /\ IsInjective(wire'[d].to[n])
  BY <1>1, <1>3 DEF OneCopyOf, Keeps
<1> PICK H, G, W, V :
      /\ H = [d \in Endpoints |-> Held(o, d)] /\ G = [d \in Endpoints |-> Held(o, d)']
      /\ W = [d \in Endpoints |-> Range(wire[d].to[n])] /\ V = [d \in Endpoints |-> Range(wire'[d].to[n])]
  OBVIOUS
<1>6. \A d \in Endpoints :
        /\ H[d] = Held(o, d) /\ G[d] = Held(o, d)' /\ G[d] = H[d]
        /\ W[d] = Range(wire[d].to[n]) /\ V[d] = Range(wire'[d].to[n])
  BY <1>1 DEF Held, Keeps
<1> PICK D, B, R : D = Range(delivered[n]) /\ B = Range(delivered'[n]) /\ R = 1 .. routed[o]
  OBVIOUS
<1>7. \A d \in Endpoints :
        /\ D \subseteq R /\ H[d] \subseteq R /\ H[d] \cap D = {}
        /\ \A f \in Endpoints : f # d => H[d] \cap H[f] = {}
        /\ \A f \in Endpoints : H[d] \cap W[f] = {}
        /\ W[d] \subseteq R /\ W[d] \cap D = {}
        /\ \A f \in Endpoints : f # d => W[d] \cap W[f] = {}
  BY <1>6 DEF OneCopyOf
<1>8. /\ x \in W[c] /\ B \subseteq D \cup {x}
      /\ \A d \in Endpoints : V[d] = IF d = c THEN W[d] \ {x} ELSE W[d]
  BY <1>1, <1>3, <1>4, <1>6
<1>9. ASSUME NEW d \in Endpoints
      PROVE  /\ B \subseteq R /\ G[d] \subseteq R /\ G[d] \cap B = {}
             /\ \A f \in Endpoints : f # d => G[d] \cap G[f] = {}
             /\ \A f \in Endpoints : G[d] \cap V[f] = {}
             /\ V[d] \subseteq R /\ V[d] \cap B = {}
             /\ \A f \in Endpoints : f # d => V[d] \cap V[f] = {}
  <2>1. x \in R /\ x \notin H[d]
    BY ONLY <1>7, <1>8, c \in Endpoints, d \in Endpoints
  <2>2. V[d] \subseteq W[d] /\ x \notin V[d]
    BY ONLY <1>7, <1>8, c \in Endpoints, d \in Endpoints
  <2>3. \A f \in Endpoints : V[f] \subseteq W[f]
    BY ONLY <1>8
  <2>4. \A f \in Endpoints : G[f] = H[f]
    BY <1>6
  <2> QED BY ONLY <1>7, <1>8, <2>1, <2>2, <2>3, <2>4, d \in Endpoints
<1>10. B = Range(delivered'[n]) /\ R = 1 .. routed'[o]
  BY <1>1
<1> QED BY <1>5, <1>6, <1>9, <1>10 DEF OneCopyOf

\* One more message is routed.
LEMMA CopyQueues ==
    ASSUME Typed, NEW o \in Nodes, NEW n \in Nodes, OneCopyOf(o, n),
           NEW e \in Endpoints, Pushes(o, e)
    PROVE  OneCopyOf(o, n)'
<1> PICK x \in Message : x = routed[o] + 1
  BY DEF Pushes
<1>0. routed[o] \in Nat /\ x # None
  BY MessageTypes, MessageNumbers
<1>1. /\ ep'[o][e].sending = ep[o][e].sending
      /\ \/ ep'[o][e].mMessageQueue.items = ep[o][e].mMessageQueue.items
         \/ ep'[o][e].mMessageQueue.items = Append(ep[o][e].mMessageQueue.items, x)
      /\ \A d \in Endpoints : d # e => Keeps(o, d)
      /\ \A d \in Endpoints : wire'[d].to[n] = wire[d].to[n]
      /\ delivered' = delivered /\ routed'[o] = x
  BY DEF Pushes, OnlyAt
<1>2. x \notin 1 .. routed[o] /\ x \in 1 .. routed'[o] /\ 1 .. routed[o] \subseteq 1 .. routed'[o]
  BY <1>0, <1>1
<1>3. /\ \A d \in Endpoints : x \notin Held(o, d) /\ x \notin Range(wire[d].to[n])
      /\ x \notin Range(delivered[n])
  BY <1>2 DEF OneCopyOf
<1>4. /\ ep[o][e].mMessageQueue.items \in Seq(Message)
      /\ x \notin Range(ep[o][e].mMessageQueue.items) /\ x # ep[o][e].sending
  BY <1>0, <1>3, MessageTypes DEF Held
<1>5. /\ Range(ep'[o][e].mMessageQueue.items) \subseteq Range(ep[o][e].mMessageQueue.items) \cup {x}
      /\ IsInjective(ep'[o][e].mMessageQueue.items)
  <2>1. IsInjective(ep[o][e].mMessageQueue.items)
    BY DEF OneCopyOf
  <2>2. /\ Range(Append(ep[o][e].mMessageQueue.items, x)) = Range(ep[o][e].mMessageQueue.items) \cup {x}
        /\ IsInjective(Append(ep[o][e].mMessageQueue.items, x))
    BY <1>4, <2>1, RangeOfAppend
  <2> QED BY <1>1, <2>1, <2>2
<1>6. \A d \in Endpoints :
        /\ Held(o, d)' \subseteq Held(o, d) \cup {x}
        /\ d # e => Held(o, d)' = Held(o, d)
  BY <1>1, <1>5 DEF Held, Keeps
<1>7. \A d \in Endpoints :
        /\ IsInjective(ep'[o][d].mMessageQueue.items)
        /\ ep'[o][d].sending \notin Range(ep'[o][d].mMessageQueue.items)
        /\ IsInjective(wire'[d].to[n])
  BY <1>1, <1>4, <1>5 DEF OneCopyOf, Keeps
<1> PICK H, G, W :
      /\ H = [d \in Endpoints |-> Held(o, d)] /\ G = [d \in Endpoints |-> Held(o, d)']
      /\ W = [d \in Endpoints |-> Range(wire[d].to[n])]
  OBVIOUS
<1>8. \A d \in Endpoints :
        /\ H[d] = Held(o, d) /\ G[d] = Held(o, d)'
        /\ W[d] = Range(wire[d].to[n]) /\ W[d] = Range(wire'[d].to[n])
  BY <1>1
<1> PICK D, R, S : D = Range(delivered[n]) /\ R = 1 .. routed[o] /\ S = 1 .. routed'[o]
  OBVIOUS
<1>9. \A d \in Endpoints :
        /\ D \subseteq R /\ H[d] \subseteq R /\ H[d] \cap D = {}
        /\ \A f \in Endpoints : f # d => H[d] \cap H[f] = {}
        /\ \A f \in Endpoints : H[d] \cap W[f] = {}
        /\ W[d] \subseteq R /\ W[d] \cap D = {}
        /\ \A f \in Endpoints : f # d => W[d] \cap W[f] = {}
  BY <1>8 DEF OneCopyOf
<1>10. /\ x \notin D /\ x \in S /\ R \subseteq S
       /\ \A d \in Endpoints :
            /\ x \notin H[d] /\ x \notin W[d]
            /\ G[d] \subseteq H[d] \cup {x} /\ (d # e => G[d] = H[d])
  BY <1>2, <1>3, <1>6, <1>8
<1>11. ASSUME NEW d \in Endpoints
       PROVE  /\ D \subseteq S /\ G[d] \subseteq S /\ G[d] \cap D = {}
              /\ \A f \in Endpoints : f # d => G[d] \cap G[f] = {}
              /\ \A f \in Endpoints : G[d] \cap W[f] = {}
              /\ W[d] \subseteq S /\ W[d] \cap D = {}
              /\ \A f \in Endpoints : f # d => W[d] \cap W[f] = {}
  <2>1. D \subseteq S /\ G[d] \subseteq S /\ G[d] \cap D = {} /\ W[d] \subseteq S /\ W[d] \cap D = {}
    BY ONLY <1>9, <1>10, d \in Endpoints
  <2>2. \A f \in Endpoints : f # d => G[d] \cap G[f] = {}
    BY ONLY <1>9, <1>10, d \in Endpoints
  <2>3. \A f \in Endpoints : G[d] \cap W[f] = {} /\ (f # d => W[d] \cap W[f] = {})
    BY ONLY <1>9, <1>10, d \in Endpoints
  <2> QED BY ONLY <2>1, <2>2, <2>3
<1>12. D = Range(delivered'[n])
  BY <1>1
<1> QED BY <1>7, <1>8, <1>11, <1>12 DEF OneCopyOf

LEMMA KeptCopies ==
    ASSUME NEW o \in Nodes, NEW n \in Nodes, OneCopyOf(o, n),
           \A e \in Endpoints : Keeps(o, e) /\ wire'[e].to[n] \in {wire[e].to[n], <<>>},
           delivered'[n] = delivered[n], routed'[o] = routed[o]
    PROVE  OneCopyOf(o, n)'
<1>1. \A e \in Endpoints :
        /\ Held(o, e)' = Held(o, e)
        /\ Range(wire'[e].to[n]) \subseteq Range(wire[e].to[n])
        /\ IsInjective(ep'[o][e].mMessageQueue.items)
        /\ ep'[o][e].sending \notin Range(ep'[o][e].mMessageQueue.items)
        /\ IsInjective(wire'[e].to[n])
  BY EmptyIsOrdered DEF OneCopyOf, Keeps, Held
<1> QED BY <1>1, CopiesShrink

LEMMA CopyPops ==
    ASSUME Typed, NEW o \in Nodes, NEW n \in Nodes, OneCopyOf(o, n), NEW e \in Endpoints,
           Pops(o, e) \/ Drops(o, e)
    PROVE  OneCopyOf(o, n)'
<1>1. /\ \A d \in Endpoints : d # e => Keeps(o, d)
      /\ UNCHANGED <<wire, delivered, routed>>
  BY DEF Pops, Drops, OnlyAt
<1>2. /\ ep[o][e].mMessageQueue.items \in Seq(Message) /\ IsInjective(ep[o][e].mMessageQueue.items)
      /\ None \notin Range(ep[o][e].mMessageQueue.items)
  BY MessageTypes, RangeOfSeq, MessageNumbers DEF OneCopyOf
<1>3. /\ Held(o, e)' \subseteq Held(o, e)
      /\ IsInjective(ep'[o][e].mMessageQueue.items)
      /\ ep'[o][e].sending \notin Range(ep'[o][e].mMessageQueue.items)
  <2>1. CASE Pops(o, e)
    <3> PICK s \in Seq(Message) : s = ep[o][e].mMessageQueue.items
      BY <1>2
    <3>1. /\ s # <<>> /\ ep'[o][e].sending = Head(s) /\ ep'[o][e].mMessageQueue.items = Tail(s)
      BY <2>1 DEF Pops
    <3>2. /\ Range(s) = Range(Tail(s)) \cup {Head(s)} /\ IsInjective(Tail(s))
          /\ Head(s) \notin Range(Tail(s))
      BY <1>2, <3>1, RangeOfTail
    <3> QED BY <3>1, <3>2 DEF Held
  <2>2. CASE Drops(o, e)
    BY <1>2, <2>2 DEF Drops, Held
  <2> QED BY <2>1, <2>2
<1>4. \A d \in Endpoints :
        /\ Held(o, d)' \subseteq Held(o, d)
        /\ Range(wire'[d].to[n]) \subseteq Range(wire[d].to[n])
        /\ IsInjective(ep'[o][d].mMessageQueue.items)
        /\ ep'[o][d].sending \notin Range(ep'[o][d].mMessageQueue.items)
        /\ IsInjective(wire'[d].to[n])
  <2>1. \A d \in Endpoints : d # e => Held(o, d)' = Held(o, d)
    BY <1>1 DEF Keeps, Held
  <2> QED BY <1>1, <1>3, <2>1 DEF OneCopyOf, Keeps
<1> QED BY <1>1, <1>4, CopiesShrink

LEMMA MovesKeepOneCopy ==
    ASSUME Typed, OneCopy, Moves PROVE OneCopy'
<1> SUFFICES ASSUME NEW o \in Nodes PROVE OneCopyOf(o, Other(o))'
  BY DEF OneCopy
<1> PICK n \in Nodes : n = Other(o) /\ n # o /\ \A m \in Nodes : m = o \/ m = n
  BY NodesAreTwo
<1>0. OneCopyOf(o, n)
  BY DEF OneCopy
<1>n. n = Other(o) /\ n # o /\ \A m \in Nodes : m = o \/ m = n
  OBVIOUS
<1>1. ASSUME Quiet \/ Untracks \/ \E m \in Nodes, e \in Endpoints : Tracks(m, e)
      PROVE  OneCopyOf(o, n)'
  <2>1. /\ \A e \in Endpoints : Keeps(o, e) /\ wire'[e].to[n] \in {wire[e].to[n], <<>>}
        /\ delivered'[n] = delivered[n] /\ routed'[o] = routed[o]
    BY <1>1 DEF Quiet, Untracks, Tracks, Keeps
  <2> QED BY <1>0, <2>1, KeptCopies
<1>2. ASSUME NEW c \in Endpoints, Empties(c) PROVE OneCopyOf(o, n)'
  <2>1. /\ \A e \in Endpoints : Keeps(o, e) /\ wire'[e].to[n] \in {wire[e].to[n], <<>>}
        /\ delivered'[n] = delivered[n] /\ routed'[o] = routed[o]
    BY <1>2 DEF Empties, Keeps
  <2> QED BY <1>0, <2>1, KeptCopies
<1>3. ASSUME NEW m \in Nodes, NEW e \in Endpoints, Pops(m, e) \/ Drops(m, e)
      PROVE  OneCopyOf(o, n)'
  <2>1. CASE m = o
    BY <1>0, <1>3, <2>1, CopyPops
  <2>2. CASE m # o
    <3>1. /\ \A d \in Endpoints : Keeps(o, d) /\ wire'[d].to[n] \in {wire[d].to[n], <<>>}
          /\ delivered'[n] = delivered[n] /\ routed'[o] = routed[o]
      BY <1>3, <2>2 DEF Pops, Drops, OnlyAt
    <3> QED BY <1>0, <3>1, KeptCopies
  <2> QED BY <2>1, <2>2
<1>4. ASSUME NEW m \in Nodes, NEW e \in Endpoints, Pushes(m, e)
      PROVE  OneCopyOf(o, n)'
  <2>1. CASE m = o
    BY <1>0, <1>4, <2>1, CopyQueues
  <2>2. CASE m # o
    <3>1. /\ \A d \in Endpoints : Keeps(o, d) /\ wire'[d].to[n] \in {wire[d].to[n], <<>>}
          /\ delivered'[n] = delivered[n] /\ routed'[o] = routed[o]
      BY <1>4, <2>2 DEF Pushes, OnlyAt
    <3> QED BY <1>0, <3>1, KeptCopies
  <2> QED BY <2>1, <2>2
<1>5. ASSUME NEW m \in Nodes, NEW e \in Endpoints, NEW c \in Endpoints, Sends(m, e, c)
      PROVE  OneCopyOf(o, n)'
  <2>1. CASE m = o
    BY <1>0, <1>5, <1>n, <2>1, CopySends
  <2>2. CASE m # o
    <3>1. /\ \A d \in Endpoints : Keeps(o, d) /\ wire'[d].to[n] \in {wire[d].to[n], <<>>}
          /\ delivered'[n] = delivered[n] /\ routed'[o] = routed[o]
      BY <1>5, <1>n, <2>2 DEF Sends, OnlyAt
    <3> QED BY <1>0, <3>1, KeptCopies
  <2> QED BY <2>1, <2>2
<1>6. ASSUME NEW m \in Nodes, NEW c \in Endpoints, Receives(m, c)
      PROVE  OneCopyOf(o, n)'
  <2>1. CASE m = n
    BY <1>0, <1>6, <1>n, <2>1, CopyReceives
  <2>2. CASE m # n
    <3>1. /\ \A d \in Endpoints : Keeps(o, d) /\ wire'[d].to[n] \in {wire[d].to[n], <<>>}
          /\ delivered'[n] = delivered[n] /\ routed'[o] = routed[o]
      BY <1>6, <2>2 DEF Receives, Keeps
    <3> QED BY <1>0, <3>1, KeptCopies
  <2> QED BY <2>1, <2>2
<1>7. OneCopyOf(o, n)'
  BY <1>1, <1>2, <1>3, <1>4, <1>5, <1>6 DEF Moves
<1> QED BY <1>7

-----------------------------------------------------------------------------
(* The way from one node to the other.                                     *)

LEMMA WayTypes ==
    ASSUME Typed, NEW o \in Nodes
    PROVE  /\ Waiting(o) \in Seq(Message) /\ InHand(o) \in {None} \cup Message
           /\ OnWire(o) \in Seq(Message)
<1>1. <<>> \in Seq(Message)
  BY EmptySeq
<1>2. mNodes[o] \in {None} \cup Endpoints /\ mNodes[2] \in {None} \cup Endpoints
  BY TableTypes, NodesAreTwo
<1> QED BY <1>1, <1>2, MessageTypes DEF Waiting, InHand, OnWire

\* The step leaves the way from o to n as it was, or cuts it.
LEMMA WayKept ==
    ASSUME Typed, NEW o \in Nodes, NEW n \in Nodes,
           mNodes'[o] \in {mNodes[o], None}, mNodes'[2] \in {mNodes[2], None},
           \A e \in Endpoints : /\ e = mNodes[o] => Keeps(o, e)
                               /\ wire'[e].to[n] \in {wire[e].to[n], <<>>}
    PROVE  /\ Waiting(o)' \in {Waiting(o), <<>>} /\ InHand(o)' \in {InHand(o), None}
           /\ OnWire(n)' \in {OnWire(n), <<>>}
<1>1. mNodes[o] \in {None} \cup Endpoints /\ mNodes[2] \in {None} \cup Endpoints
  BY TableTypes, NodesAreTwo
<1> QED BY <1>1 DEF Waiting, InHand, OnWire, Keeps

LEMMA WaySame ==
    ASSUME Typed, NEW o \in Nodes, NEW n \in Nodes,
           mNodes' = mNodes,
           \A e \in Endpoints : /\ e = mNodes[o] => Keeps(o, e)
                               /\ wire'[e].to[n] = wire[e].to[n]
    PROVE  Waiting(o)' = Waiting(o) /\ InHand(o)' = InHand(o) /\ OnWire(n)' = OnWire(n)
<1>1. mNodes[o] \in {None} \cup Endpoints /\ mNodes[2] \in {None} \cup Endpoints
  BY TableTypes, NodesAreTwo
<1> QED BY <1>1 DEF Waiting, InHand, OnWire, Keeps

\* A new endpoint holds nothing.
LEMMA WayTracked ==
    ASSUME Typed, NEW o \in Nodes, NEW n \in Nodes, NEW m \in Nodes, NEW e \in Endpoints,
           Tracks(m, e)
    PROVE  Waiting(o)' = Waiting(o) /\ InHand(o)' = InHand(o) /\ OnWire(n)' = OnWire(n)
<1>1. mNodes[o] \in {None} \cup Endpoints /\ mNodes[2] \in {None} \cup Endpoints
  BY TableTypes, NodesAreTwo
<1>2. /\ mNodes[m] = None /\ mNodes'[m] = e /\ e # None
      /\ \A k \in Nodes : k # m => mNodes'[k] = mNodes[k]
      /\ \A k \in Nodes, d \in Endpoints : Keeps(k, d)
      /\ m = 2 => wire[e] = NoWire
      /\ ep[m][e] = Unused /\ wire' = wire
  BY EndpointNumbers DEF Tracks
<1>3. ep'[m][e].mMessageQueue.items = <<>> /\ ep'[m][e].sending = None
  BY <1>2, UnusedFields DEF Keeps
<1>4. NoWire.to[n] = <<>>
  BY DEF NoWire
<1>5. Waiting(o)' = Waiting(o) /\ InHand(o)' = InHand(o)
  <2>1. CASE o = m
    BY <1>2, <1>3, <2>1 DEF Waiting, InHand
  <2>2. CASE o # m
    BY <1>1, <1>2, <2>2 DEF Waiting, InHand, Keeps
  <2> QED BY <2>1, <2>2
<1>6. OnWire(n)' = OnWire(n)
  <2>1. CASE m = 2
    BY <1>2, <1>4, <2>1 DEF OnWire
  <2>2. CASE m # 2
    BY <1>2, <2>2, NodesAreTwo DEF OnWire
  <2> QED BY <2>1, <2>2
<1> QED BY <1>5, <1>6

\* The endpoint e that o tracks changes, or the connection.
LEMMA WayPops ==
    ASSUME Typed, NEW o \in Nodes, NEW n \in Nodes, NEW e \in Endpoints, mNodes[o] = e, Pops(o, e)
    PROVE  /\ Waiting(o) # <<>> /\ InHand(o) = None
           /\ Waiting(o)' = Tail(Waiting(o)) /\ InHand(o)' = Head(Waiting(o))
           /\ OnWire(n)' = OnWire(n)
BY EndpointNumbers DEF Pops, Waiting, InHand, OnWire

LEMMA WaySends ==
    ASSUME Typed, NEW o \in Nodes, NEW n \in Nodes, n = Other(o), NEW e \in Endpoints,
           NEW c \in Endpoints, mNodes[o] = e, mNodes[2] = c, Sends(o, e, c)
    PROVE  /\ InHand(o) \in Message /\ InHand(o)' = None
           /\ Waiting(o)' = Waiting(o) /\ OnWire(n)' = Append(OnWire(n), InHand(o))
BY EndpointNumbers, MessageTypes DEF Sends, Waiting, InHand, OnWire

LEMMA WayReceives ==
    ASSUME Typed, NEW o \in Nodes, NEW n \in Nodes, NEW c \in Endpoints, mNodes[2] = c, Receives(n, c)
    PROVE  /\ Waiting(o)' = Waiting(o) /\ InHand(o)' = InHand(o)
           /\ OnWire(n) # <<>> /\ OnWire(n)' = Tail(OnWire(n))
           /\ Head(wire[c].to[n]) = Head(OnWire(n))
<1>1. \A d \in Endpoints : Keeps(o, d)
  BY DEF Receives
<1>2. mNodes' = mNodes /\ mNodes[o] \in {None} \cup Endpoints
  BY TableTypes DEF Receives
<1>3. Waiting(o)' = Waiting(o) /\ InHand(o)' = InHand(o)
  BY <1>1, <1>2 DEF Keeps, Waiting, InHand
<1>4. /\ OnWire(n) # <<>> /\ OnWire(n)' = Tail(OnWire(n))
      /\ Head(wire[c].to[n]) = Head(OnWire(n))
  BY <1>2, EndpointNumbers DEF Receives, OnWire
<1> QED BY <1>3, <1>4

LEMMA WayQueues ==
    ASSUME Typed, NEW o \in Nodes, NEW n \in Nodes, NEW e \in Endpoints, mNodes[o] = e, Pushes(o, e)
    PROVE  /\ InHand(o)' = InHand(o) /\ OnWire(n)' = OnWire(n)
           /\ Waiting(o)' \in {Waiting(o), Append(Waiting(o), routed[o] + 1)}
           /\ NothingFailed => Waiting(o)' = Append(Waiting(o), routed[o] + 1)
<1>1. mNodes[2] \in {None} \cup Endpoints
  BY TableTypes, NodesAreTwo
<1> QED BY <1>1, EndpointNumbers DEF Pushes, Waiting, InHand, OnWire

\* A connection that the lesser node reads, or a message is written to, is the
\* one that the greater node tracks.
LEMMA OpenIsTheOne ==
    ASSUME Control, NEW c \in Endpoints, wire[c].open = Nodes \/ 1 \in wire[c].open
    PROVE  mNodes[2] = c
BY DEF Control, Negotiated, OpenIsTracked

LEMMA MovesKeepOrder ==
    ASSUME Control, OneCopy, OrderIsKept, Moves PROVE OrderIsKept'
<1>0. /\ 1 \in Nodes /\ 2 \in Nodes /\ Other(2) = 1 /\ Other(1) = 2 /\ Typed
      /\ \A m \in Nodes : m = 1 \/ m = 2
  BY NodesAreTwo DEF Control
<1>o. OneCopyOf(2, 1)
  BY <1>0 DEF OneCopy
<1>i. Ordered(delivered[1], OnWire(1), InHand(2), Waiting(2))
  BY DEF OrderIsKept
<1>t. /\ Waiting(2) \in Seq(Message) /\ InHand(2) \in {None} \cup Message /\ OnWire(1) \in Seq(Message)
      /\ delivered[1] \in Seq(Message) /\ routed[2] \in Nat
  BY <1>0, WayTypes, MessageTypes
\* Most steps leave the way to the lesser node as it is, or cut it.
<1>1. ASSUME delivered'[1] = delivered[1],
             Waiting(2)' \in {Waiting(2), <<>>}, InHand(2)' \in {InHand(2), None},
             OnWire(1)' \in {OnWire(1), <<>>}
      PROVE  OrderIsKept'
  BY <1>i, <1>1, OrderedShrinks DEF OrderIsKept
<1>2. CASE Quiet \/ Untracks \/ \E c \in Endpoints : Empties(c)
  <2>1. /\ mNodes'[2] \in {mNodes[2], None} /\ delivered'[1] = delivered[1]
        /\ \A d \in Endpoints : Keeps(2, d) /\ wire'[d].to[1] \in {wire[d].to[1], <<>>}
    BY <1>0, <1>2 DEF Quiet, Untracks, Empties, Keeps
  <2> QED BY <1>0, <1>1, <2>1, WayKept
<1>3. ASSUME NEW m \in Nodes, NEW e \in Endpoints, Tracks(m, e) PROVE OrderIsKept'
  <2>1. delivered'[1] = delivered[1]
    BY <1>3 DEF Tracks
  <2> QED BY <1>0, <1>1, <1>3, <2>1, WayTracked
<1>4. ASSUME NEW m \in Nodes, NEW e \in Endpoints, m = 1 \/ mNodes[2] # e,
             Pops(m, e) \/ Drops(m, e) \/ Pushes(m, e)
      PROVE  OrderIsKept'
  <2>1. /\ mNodes' = mNodes /\ delivered' = delivered /\ OnlyAt(m, e)
        /\ \A d \in Endpoints : wire'[d].to[1] = wire[d].to[1]
    <3>1. CASE Pops(m, e)
      BY <3>1 DEF Pops
    <3>2. CASE Drops(m, e)
      BY <3>2 DEF Drops
    <3>3. CASE Pushes(m, e)
      BY <1>0, <3>3 DEF Pushes
    <3> QED BY <1>4, <3>1, <3>2, <3>3
  <2>2. ASSUME NEW d \in Endpoints, d = mNodes[2] PROVE Keeps(2, d)
    <3>1. 2 # m \/ d # e
      BY <1>4, <2>2
    <3> QED BY <1>0, <2>1, <3>1 DEF OnlyAt
  <2> QED BY <1>0, <1>1, <2>1, <2>2, WaySame
<1>5. ASSUME NEW e \in Endpoints, mNodes[2] = e, Pops(2, e) PROVE OrderIsKept'
  <2>1. delivered'[1] = delivered[1]
    BY <1>5 DEF Pops
  <2>2. /\ Waiting(2) # <<>> /\ InHand(2) = None
        /\ Waiting(2)' = Tail(Waiting(2)) /\ InHand(2)' = Head(Waiting(2))
        /\ OnWire(1)' = OnWire(1)
    BY <1>0, <1>5, WayPops
  <2> QED BY <1>i, <1>t, <2>1, <2>2, OrderedPops DEF OrderIsKept
<1>6. ASSUME NEW e \in Endpoints, mNodes[2] = e, Drops(2, e) PROVE OrderIsKept'
  <2>1. delivered'[1] = delivered[1]
    BY <1>6 DEF Drops
  <2>2. InHand(2)' = None /\ Waiting(2)' = Waiting(2) /\ OnWire(1)' = OnWire(1)
    BY <1>6, EndpointNumbers DEF Drops, InHand, Waiting, OnWire
  <2> QED BY <1>1, <2>1, <2>2
<1>7. ASSUME NEW e \in Endpoints, mNodes[2] = e, Pushes(2, e) PROVE OrderIsKept'
  <2> PICK x : x = routed[2] + 1
    OBVIOUS
  <2>1. delivered'[1] = delivered[1] /\ x \in Message
    BY <1>7 DEF Pushes
  <2>2. /\ InHand(2)' = InHand(2) /\ OnWire(1)' = OnWire(1)
        /\ Waiting(2)' \in {Waiting(2), Append(Waiting(2), x)}
    BY <1>0, <1>7, WayQueues
  <2>3. /\ Range(delivered[1]) \subseteq 1 .. routed[2]
        /\ Held(2, e) \subseteq 1 .. routed[2] /\ Range(wire[e].to[1]) \subseteq 1 .. routed[2]
    BY <1>o DEF OneCopyOf
  <2>4. /\ OnWire(1) = wire[e].to[1] /\ Waiting(2) = ep[2][e].mMessageQueue.items
        /\ InHand(2) = ep[2][e].sending
    BY <1>7, EndpointNumbers DEF OnWire, Waiting, InHand
  <2>5. /\ \A y \in Range(delivered[1]) \cup Range(OnWire(1)) \cup Range(Waiting(2)) : y \in 1 .. routed[2]
        /\ InHand(2) # None => InHand(2) \in 1 .. routed[2]
    BY <2>3, <2>4 DEF Held
  <2>6. /\ \A y \in Range(delivered[1]) \cup Range(OnWire(1)) \cup Range(Waiting(2)) : y < x
        /\ InHand(2) # None => InHand(2) < x
    BY <1>t, <2>5
  <2>7. CASE Waiting(2)' = Waiting(2)
    BY <1>1, <2>1, <2>2, <2>7
  <2>8. CASE Waiting(2)' = Append(Waiting(2), x)
    BY <1>i, <1>t, <2>1, <2>2, <2>6, <2>8, OrderedQueues DEF OrderIsKept
  <2> QED BY <2>2, <2>7, <2>8
<1>8. ASSUME NEW e \in Endpoints, NEW c \in Endpoints, Sends(2, e, c) PROVE OrderIsKept'
  <2>1. mNodes[2] = c /\ delivered'[1] = delivered[1]
    BY <1>8, OpenIsTheOne DEF Sends
  <2>2. c = e
    <3>1. IsSane(2, e, ep[2][e])
      BY <1>0, EndpointType
    <3>2. ep[2][e].mPeer \in {None, e}
      BY <3>1 DEF IsSane
    <3>3. c = ep[2][e].mPeer /\ c # None
      BY <1>8, EndpointNumbers DEF Sends
    <3> QED BY <3>2, <3>3
  <2>3. /\ InHand(2) \in Message /\ InHand(2)' = None
        /\ Waiting(2)' = Waiting(2) /\ OnWire(1)' = Append(OnWire(1), InHand(2))
    BY <1>0, <1>8, <2>1, <2>2, WaySends
  <2> QED BY <1>i, <1>t, <2>1, <2>3, OrderedSends DEF OrderIsKept
<1>9. ASSUME NEW e \in Endpoints, NEW c \in Endpoints, Sends(1, e, c) PROVE OrderIsKept'
  <2>1. /\ mNodes' = mNodes /\ delivered'[1] = delivered[1]
        /\ \A d \in Endpoints : Keeps(2, d) /\ wire'[d].to[1] = wire[d].to[1]
    <3>1. /\ mNodes' = mNodes /\ delivered' = delivered /\ OnlyAt(1, e)
          /\ \A d \in Endpoints, k \in Nodes : d # c \/ k = 1 => wire'[d].to[k] = wire[d].to[k]
      BY <1>9 DEF Sends
    <3>2. \A d \in Endpoints : Keeps(2, d)
      BY <1>0, <3>1 DEF OnlyAt
    <3>3. \A d \in Endpoints : wire'[d].to[1] = wire[d].to[1]
      BY <1>0, <3>1
    <3> QED BY <3>1, <3>2, <3>3
  <2> QED BY <1>0, <1>1, <2>1, WaySame
<1>10. ASSUME NEW c \in Endpoints, Receives(1, c) PROVE OrderIsKept'
  <2>1. mNodes[2] = c
    BY <1>10, OpenIsTheOne DEF Receives
  <2>2. /\ Waiting(2)' = Waiting(2) /\ InHand(2)' = InHand(2)
        /\ OnWire(1) # <<>> /\ OnWire(1)' = Tail(OnWire(1))
        /\ Head(wire[c].to[1]) = Head(OnWire(1))
    BY <1>0, <1>10, <2>1, WayReceives
  <2>3. \/ delivered'[1] = Append(delivered[1], Head(OnWire(1)))
        \/ delivered'[1] = delivered[1]
    BY <1>10, <2>2 DEF Receives
  <2> QED BY <1>i, <1>t, <2>2, <2>3, OrderedReceives DEF OrderIsKept
<1>11. ASSUME NEW c \in Endpoints, Receives(2, c) PROVE OrderIsKept'
  <2>1. /\ mNodes' = mNodes /\ delivered'[1] = delivered[1]
        /\ \A d \in Endpoints : Keeps(2, d) /\ wire'[d].to[1] = wire[d].to[1]
    BY <1>0, <1>11 DEF Receives, Keeps
  <2> QED BY <1>0, <1>1, <2>1, WaySame
<1>12. ASSUME NEW m \in Nodes, NEW e \in Endpoints, Pops(m, e) \/ Drops(m, e) \/ Pushes(m, e)
       PROVE  OrderIsKept'
  <2>1. CASE m = 1 \/ mNodes[2] # e
    BY <1>4, <1>12, <2>1
  <2>2. CASE m = 2 /\ mNodes[2] = e
    <3>1. Pops(2, e) \/ Drops(2, e) \/ Pushes(2, e)
      BY <1>12, <2>2
    <3> QED BY <1>5, <1>6, <1>7, <2>2, <3>1
  <2> QED BY <1>0, <2>1, <2>2
<1>13. ASSUME NEW m \in Nodes, NEW e \in Endpoints, NEW c \in Endpoints, Sends(m, e, c)
       PROVE  OrderIsKept'
  BY <1>0, <1>8, <1>9, <1>13
<1>14. ASSUME NEW m \in Nodes, NEW c \in Endpoints, Receives(m, c) PROVE OrderIsKept'
  BY <1>0, <1>10, <1>11, <1>14
<1> QED BY <1>2, <1>3, <1>12, <1>13, <1>14 DEF Moves

\* Where a node has been used, something is tracked for it until something fails.
LEMMA TrackedIs ==
    ASSUME Control, NothingFailed, NEW n \in Nodes, NEW e \in Endpoints,
           ep[n][e].mMessageQueue.items # <<>> \/ ep[n][e].sending # None \/ ep[n][e].mPeer # None
    PROVE  mNodes[n] = e
<1>1. IsSane(n, e, ep[n][e])
  BY EndpointType
<1>2. ep[n][e].state # "unused"
  BY <1>1, UnusedFields DEF IsSane
<1> QED BY <1>2 DEF NothingFailed

LEMMA MovesKeepNoGap ==
    ASSUME Control, OneCopy, NoFault, NoGap, Moves, faults \in Nat, faults' \in Nat, faults' >= faults
    PROVE  NoGap'
<1>0. /\ 1 \in Nodes /\ 2 \in Nodes /\ Typed
      /\ \A m \in Nodes : Other(m) \in Nodes /\ Other(m) # m
      /\ \A m, k \in Nodes : k = m \/ k = Other(m)
  BY NodesAreTwo DEF Control
<1> SUFFICES ASSUME faults' = 0, NEW o \in Nodes PROVE CompleteFrom(o, Other(o))'
  BY DEF NoGap
<1>f. faults = 0 /\ NothingFailed
  BY DEF NoFault
<1> PICK n \in Nodes : n = Other(o) /\ n # o /\ \A m \in Nodes : m = o \/ m = n
  BY <1>0
<1>c. Complete(delivered[n], OnWire(n), InHand(o), Waiting(o), routed[o])
  BY <1>f DEF NoGap, CompleteFrom
<1>t. /\ Waiting(o) \in Seq(Message) /\ InHand(o) \in {None} \cup Message /\ OnWire(n) \in Seq(Message)
      /\ delivered[n] \in Seq(Message) /\ routed[o] \in Nat
  BY <1>0, WayTypes, MessageTypes
<1> SUFFICES Complete(delivered'[n], OnWire(n)', InHand(o)', Waiting(o)', routed'[o])
  BY DEF CompleteFrom
<1>1. ASSUME delivered'[n] = delivered[n], routed'[o] = routed[o],
             Waiting(o)' = Waiting(o), InHand(o)' = InHand(o), OnWire(n)' = OnWire(n)
      PROVE  Complete(delivered'[n], OnWire(n)', InHand(o)', Waiting(o)', routed'[o])
  BY <1>c, <1>1
\* What another endpoint or node does leaves the way as it is.
<1>2. ASSUME mNodes' = mNodes, delivered'[n] = delivered[n], routed'[o] = routed[o],
             \A d \in Endpoints : Keeps(o, d) /\ wire'[d].to[n] = wire[d].to[n]
      PROVE  Complete(delivered'[n], OnWire(n)', InHand(o)', Waiting(o)', routed'[o])
  BY <1>0, <1>1, <1>2, WaySame
<1>3. CASE Quiet
  BY <1>2, <1>3 DEF Quiet, Keeps
<1>4. ASSUME NEW m \in Nodes, NEW e \in Endpoints, Tracks(m, e)
      PROVE  Complete(delivered'[n], OnWire(n)', InHand(o)', Waiting(o)', routed'[o])
  <2>1. delivered'[n] = delivered[n] /\ routed'[o] = routed[o]
    BY <1>4 DEF Tracks
  <2> QED BY <1>0, <1>1, <1>4, <2>1, WayTracked
<1>5. ASSUME NEW m \in Nodes, NEW e \in Endpoints, Pops(m, e)
      PROVE  Complete(delivered'[n], OnWire(n)', InHand(o)', Waiting(o)', routed'[o])
  <2>1. /\ mNodes' = mNodes /\ delivered' = delivered /\ routed' = routed /\ wire' = wire
        /\ OnlyAt(m, e) /\ ep[m][e].mMessageQueue.items # <<>>
    BY <1>5 DEF Pops
  <2>2. CASE m # o
    <3>1. \A d \in Endpoints : Keeps(o, d)
      BY <2>1, <2>2 DEF OnlyAt
    <3> QED BY <1>2, <2>1, <3>1
  <2>3. CASE m = o
    <3>1. mNodes[o] = e
      BY <1>f, <2>1, <2>3, TrackedIs
    <3>2. /\ Waiting(o) # <<>> /\ InHand(o) = None
          /\ Waiting(o)' = Tail(Waiting(o)) /\ InHand(o)' = Head(Waiting(o))
          /\ OnWire(n)' = OnWire(n)
      BY <1>0, <1>5, <2>3, <3>1, WayPops
    <3> QED BY <1>c, <1>t, <2>1, <3>2, CompletePops
  <2> QED BY <2>2, <2>3
<1>6. ASSUME NEW m \in Nodes, NEW e \in Endpoints, Pushes(m, e)
      PROVE  Complete(delivered'[n], OnWire(n)', InHand(o)', Waiting(o)', routed'[o])
  <2>1. /\ mNodes' = mNodes /\ delivered' = delivered /\ OnlyAt(m, e)
        /\ \A d \in Endpoints : wire'[d].to[n] = wire[d].to[n]
        /\ mNodes[m] = e /\ routed'[m] = routed[m] + 1 /\ routed[m] + 1 \in Message
        /\ \A k \in Nodes : k # m => routed'[k] = routed[k]
        /\ ep'[m][e].mMessageQueue.items = Append(ep[m][e].mMessageQueue.items, routed[m] + 1)
        /\ ep'[m][e].sending = ep[m][e].sending
    BY <1>6, <1>f DEF Pushes
  <2>2. CASE m # o
    <3>1. \A d \in Endpoints : Keeps(o, d)
      BY <2>1, <2>2 DEF OnlyAt
    <3> QED BY <1>2, <2>1, <2>2, <3>1
  <2>3. CASE m = o
    <3>1. mNodes[2] \in {None} \cup Endpoints
      BY <1>0, TableTypes
    <3>2. InHand(o)' = InHand(o) /\ Waiting(o)' = Append(Waiting(o), routed[o] + 1)
      BY <2>1, <2>3, EndpointNumbers DEF Waiting, InHand
    <3>3. OnWire(n)' = OnWire(n)
      BY <2>1, <3>1 DEF OnWire
    <3>4. Complete(delivered[n], OnWire(n), InHand(o), Append(Waiting(o), routed[o] + 1), routed[o] + 1)
      BY <1>c, <1>t, <2>1, <2>3, CompleteQueues
    <3> QED BY <2>1, <2>3, <3>2, <3>3, <3>4
  <2> QED BY <2>2, <2>3
<1>7. ASSUME NEW m \in Nodes, NEW e \in Endpoints, NEW c \in Endpoints, Sends(m, e, c)
      PROVE  Complete(delivered'[n], OnWire(n)', InHand(o)', Waiting(o)', routed'[o])
  <2>1. /\ mNodes' = mNodes /\ delivered' = delivered /\ routed' = routed /\ OnlyAt(m, e)
        /\ \A d \in Endpoints, k \in Nodes : d # c \/ k = m => wire'[d].to[k] = wire[d].to[k]
        /\ c = ep[m][e].mPeer /\ wire[c].open = Nodes
    BY <1>7 DEF Sends
  <2>2. CASE m # o
    <3>1. \A d \in Endpoints : Keeps(o, d)
      BY <2>1, <2>2 DEF OnlyAt
    <3>2. m = n
      BY <2>2
    <3> QED BY <1>2, <2>1, <3>1, <3>2
  <2>3. CASE m = o
    <3>1. mNodes[o] = e /\ mNodes[2] = c
      BY <1>f, <2>1, <2>3, TrackedIs, OpenIsTheOne, EndpointNumbers
    <3>2. /\ InHand(o) \in Message /\ InHand(o)' = None
          /\ Waiting(o)' = Waiting(o) /\ OnWire(n)' = Append(OnWire(n), InHand(o))
      BY <1>0, <1>7, <2>3, <3>1, WaySends
    <3> QED BY <1>c, <1>t, <2>1, <3>2, CompleteSends
  <2> QED BY <2>2, <2>3
<1>8. ASSUME NEW m \in Nodes, NEW c \in Endpoints, Receives(m, c), wire[c].open = Nodes
      PROVE  Complete(delivered'[n], OnWire(n)', InHand(o)', Waiting(o)', routed'[o])
  <2>1. /\ mNodes' = mNodes /\ routed' = routed /\ wire[c].to[m] # <<>>
        /\ \A d \in Endpoints, k \in Nodes : d # c \/ k # m => wire'[d].to[k] = wire[d].to[k]
    BY <1>8 DEF Receives
  <2>2. \A d \in Endpoints : Keeps(o, d)
    BY <1>8 DEF Receives
  <2>3. CASE m # n
    <3>1. delivered'[n] = delivered[n]
      BY <1>8, <2>3 DEF Receives
    <3> QED BY <1>2, <2>1, <2>2, <2>3, <3>1
  <2>4. CASE m = n
    <3>1. mNodes[2] = c
      BY <1>8, OpenIsTheOne
    <3>2. /\ Waiting(o)' = Waiting(o) /\ InHand(o)' = InHand(o)
          /\ OnWire(n) # <<>> /\ OnWire(n)' = Tail(OnWire(n))
          /\ Head(wire[c].to[n]) = Head(OnWire(n))
      BY <1>0, <1>8, <2>4, <3>1, WayReceives
    <3>3. known[n] = "known"
      <4>1. OneCopyOf(o, n)
        BY DEF OneCopy
      <4>2. Range(wire[c].to[n]) \subseteq 1 .. routed[o]
        BY <4>1 DEF OneCopyOf
      <4>3. wire[c].to[n] \in Seq(Message) /\ wire[c].to[n] # <<>>
        BY <1>0, <2>1, <2>4, MessageTypes
      <4>4. Head(wire[c].to[n]) \in Range(wire[c].to[n])
        BY <4>3, RangeOfTail
      <4>5. routed[o] > 0
        BY <1>t, <4>2, <4>4
      <4> QED BY <1>f, <4>5 DEF NothingFailed
    <3>4. delivered'[n] = Append(delivered[n], Head(OnWire(n)))
      <4>1. Receives(n, c)
        BY <1>8, <2>4
      <4>2. delivered'[n] = Append(delivered[n], Head(wire[c].to[n]))
        BY <3>3, <4>1 DEF Receives
      <4> QED BY <3>2, <4>2
    <3>5. OnWire(n) \in Seq(Message) /\ OnWire(n) # <<>>
      BY <1>t, <3>2
    <3>6. Complete(Append(delivered[n], Head(OnWire(n))), Tail(OnWire(n)), InHand(o), Waiting(o), routed[o])
      BY ONLY <1>c, <1>t, <3>5, CompleteReceives
    <3> QED BY <2>1, <3>2, <3>4, <3>6
  <2> QED BY <2>3, <2>4
<1> QED BY <1>3, <1>4, <1>5, <1>6, <1>7, <1>8, <1>f DEF Moves

LEMMA FaultsStayNat ==
    ASSUME Controlled, Controlled' PROVE faults \in Nat /\ faults' \in Nat
<1>1. faults' \in 0 .. MaxFaults /\ MaxFaults \in Nat
  BY LinkAssumption DEF Controlled, Control, Typed
<1>2. faults' \in Nat
  BY ONLY <1>1
<1> QED BY <1>2, FaultsAreNat DEF Controlled, Control

-----------------------------------------------------------------------------
(* The invariant, and what it says of the system.                          *)

LEMMA InitInvariant == Init => IInv
<1> SUFFICES ASSUME Init PROVE IInv
  OBVIOUS
<1>0. /\ NoWire.open = {} /\ \A n \in Nodes : NoWire.to[n] = <<>>
      /\ Range(<<>>) = {} /\ IsInjective(<<>>) /\ Len(<<>>) = 0 /\ DOMAIN <<>> = {}
  <2>1. Range(<<>>) = {} /\ IsInjective(<<>>)
    BY EmptyIsOrdered
  <2>2. Len(<<>>) = 0 /\ DOMAIN <<>> = {}
    BY ONLY EmptySeq
  <2> QED BY <2>1, <2>2 DEF NoWire
<1>1. /\ \A n \in Nodes, e \in Endpoints :
           ep[n][e] = Unused /\ wire[e] = NoWire /\ ep[n][e].mMessageQueue.items = <<>>
      /\ \A n \in Nodes :
           /\ mNodes[n] = None /\ known[n] = "not yet" /\ mEndpointsToDelete[n] = <<>>
           /\ backlog[n] = <<>> /\ destroying[n] = None
           /\ route[n].at = "idle" /\ route[n].ep = None
           /\ routed[n] = 0 /\ delivered[n] = <<>> /\ ~crashed[n]
      /\ faults = 0
  BY InitIs
<1>7. OneCopy
  <2>1. ASSUME NEW o \in Nodes, NEW n \in Nodes PROVE OneCopyOf(o, n)
    <3>1. \A e \in Endpoints : Held(o, e) = {} /\ ep[o][e].sending = None /\ wire[e].to[n] = <<>>
      BY <1>0, <1>1, UnusedFields DEF Held
    <3>2. \A e \in Endpoints : ep[o][e].mMessageQueue.items = <<>>
      BY <1>1
    <3>3. delivered[n] = <<>>
      BY <1>1
    <3> QED BY <1>0, <3>1, <3>2, <3>3 DEF OneCopyOf
  <2> QED BY <2>1, NodesAreTwo DEF OneCopy
<1>8. \A o \in Nodes : Waiting(o) = <<>> /\ InHand(o) = None /\ OnWire(o) = <<>>
  BY <1>1, NodesAreTwo DEF Waiting, InHand, OnWire
<1>9. OrderIsKept
  <2>1. delivered[1] = <<>> /\ OnWire(1) = <<>> /\ InHand(2) = None /\ Waiting(2) = <<>>
    BY <1>1, <1>8, NodesAreTwo
  <2> QED BY <2>1, EmptyIsOrdered DEF OrderIsKept, Ordered
<1>10. NoGap
  <2>1. \A o \in Nodes : routed[o] = 0 /\ delivered[Other(o)] = <<>> /\ OnWire(Other(o)) = <<>>
    BY <1>1, <1>8, NodesAreTwo
  <2>2. Complete(<<>>, <<>>, None, <<>>, 0)
    BY ONLY <1>0 DEF Complete
  <2>3. \A o \in Nodes : CompleteFrom(o, Other(o))
    BY ONLY <1>8, <2>1, <2>2 DEF CompleteFrom
  <2> QED BY <2>3 DEF NoGap
<1> QED BY <1>7, <1>9, <1>10, InitControlled DEF IInv

LEMMA NextInvariant == IInv /\ Next => IInv'
<1> SUFFICES ASSUME IInv, Next PROVE IInv'
  OBVIOUS
<1>0. Controlled /\ Control /\ Typed /\ NoFault /\ OneCopy /\ OrderIsKept /\ NoGap
  BY DEF IInv, Controlled, Control
<1>1. Controlled' /\ Moves /\ faults' >= faults
  BY <1>0, NextControlled, NextGoes DEF Goes
<1>2. faults \in Nat /\ faults' \in Nat
  BY <1>0, <1>1, FaultsStayNat
<1>3. OneCopy' /\ OrderIsKept'
  BY <1>0, <1>1, MovesKeepOneCopy, MovesKeepOrder
<1>4. NoGap'
  BY <1>0, <1>1, <1>2, MovesKeepNoGap
<1> QED BY <1>1, <1>3, <1>4 DEF IInv

LEMMA StutterInvariant == IInv /\ UNCHANGED vars => IInv'
<1> SUFFICES ASSUME IInv, UNCHANGED vars PROVE IInv'
  OBVIOUS
<1>1. Controlled'
  BY StutterControlled DEF IInv
<1>2. OneCopy'
  BY DEF IInv, vars, OneCopy, OneCopyOf, Held
<1>3. OrderIsKept'
  BY DEF IInv, vars, OrderIsKept, Ordered, Waiting, InHand, OnWire
<1>4. NoGap'
  BY DEF IInv, vars, NoGap, CompleteFrom, Waiting, InHand, OnWire
<1> QED BY <1>1, <1>2, <1>3, <1>4 DEF IInv

LEMMA Invariant == Spec => []IInv
<1>1. Init => IInv
  BY InitInvariant
<1>2. IInv /\ [Next]_vars => IInv'
  BY NextInvariant, StutterInvariant
<1> QED BY <1>1, <1>2, PTL DEF Spec

\* What arrives next is new; at the lesser node it is later than what arrived
\* before, and until something fails it is the next at both.
LEMMA ArrivesNext ==
    ASSUME IInv, NEW n \in Nodes, NEW c \in Endpoints, Receives(n, c), NothingFailed => wire[c].open = Nodes
    PROVE  /\ Head(wire[c].to[n]) \in (1 .. routed[Other(n)]) \ Link!Range(delivered[n])
           /\ n \in {1} => Head(wire[c].to[n]) > Link!LastGot(n)
           /\ faults > 0 \/ Head(wire[c].to[n]) = Link!LastGot(n) + 1
<1>0. /\ Control /\ Typed /\ faults \in Nat
      /\ Other(n) \in Nodes /\ Other(Other(n)) = n /\ n \in wire[c].open /\ wire[c].to[n] # <<>>
  BY NodesAreTwo, FaultsAreNat DEF IInv, Controlled, Control, Receives
<1>1. wire[c].to[n] \in Seq(Message) /\ delivered[n] \in Seq(Message)
  BY <1>0, MessageTypes
<1> PICK x : x = Head(wire[c].to[n])
  OBVIOUS
<1>2. x \in Message /\ x \in Range(wire[c].to[n]) /\ x = wire[c].to[n][1] /\ 1 \in DOMAIN wire[c].to[n]
  BY <1>0, <1>1, RangeOfTail, HeadTailProperties, LenProperties, EmptySeq
<1>3. OneCopyOf(Other(n), n)
  BY <1>0 DEF IInv, OneCopy
<1>4. x \in (1 .. routed[Other(n)]) \ Link!Range(delivered[n])
  <2>1. Range(wire[c].to[n]) \subseteq 1 .. routed[Other(n)] /\ Range(wire[c].to[n]) \cap Range(delivered[n]) = {}
    BY <1>3 DEF OneCopyOf
  <2> QED BY <1>2, <2>1 DEF Range, Link!Range
<1>l. /\ delivered[n] = <<>> => Link!LastGot(n) = 0
      /\ delivered[n] # <<>> => /\ Link!LastGot(n) = delivered[n][Len(delivered[n])]
                                /\ Len(delivered[n]) \in DOMAIN delivered[n]
      /\ Len(delivered[n]) \in Nat /\ (delivered[n] = <<>> <=> Len(delivered[n]) = 0)
  BY <1>1, LenProperties, EmptySeq DEF Link!LastGot, Link!Last
<1>5. ASSUME n = 1 PROVE x > Link!LastGot(n)
  <2>1. mNodes[2] = c
    BY <1>0, <1>5, OpenIsTheOne
  <2>2. OnWire(1) = wire[c].to[1]
    BY <2>1, EndpointNumbers DEF OnWire
  <2>3. Before(delivered[n], wire[c].to[n])
    BY <1>5, <2>2 DEF IInv, OrderIsKept, Ordered
  <2>4. \A i \in DOMAIN delivered[n] : delivered[n][i] < x
    BY <1>2, <2>3 DEF Before, Range
  <2>5. x > 0
    BY <1>2, MessageNumbers
  <2> QED BY <1>l, <2>4, <2>5
<1>6. ASSUME ~(faults > 0) PROVE x = Link!LastGot(n) + 1
  <2>1. faults = 0
    BY <1>0, <1>6
  <2>2. wire[c].open = Nodes
    BY <2>1 DEF IInv, Controlled, NoFault
  <2>3. mNodes[2] = c
    BY <1>0, <2>2, OpenIsTheOne
  <2>4. OnWire(n) = wire[c].to[n]
    BY <2>3, EndpointNumbers DEF OnWire
  <2>5. CompleteFrom(Other(n), n)
    BY <1>0, <2>1 DEF IInv, NoGap
  <2>6. /\ \A i \in DOMAIN delivered[n] : delivered[n][i] = i
        /\ \A i \in DOMAIN wire[c].to[n] : wire[c].to[n][i] = Len(delivered[n]) + i
    BY <2>4, <2>5 DEF CompleteFrom, Complete
  <2>7. Link!LastGot(n) = Len(delivered[n])
    BY <1>l, <2>6
  <2> QED BY <1>2, <2>6, <2>7
<1> QED BY <1>4, <1>5, <1>6

\* Every step is one of the link, or none of its.
LEMMA StepOfLink ==
    ASSUME IInv, IInv', Next PROVE [Link!Next]_(Link!vars)
<1>0. /\ Control /\ Control' /\ faults \in Nat /\ faults' \in Nat
      /\ routed \in [Nodes -> Nat] /\ routed' \in [Nodes -> Nat]
      /\ delivered \in [Nodes -> Seq(Message)] /\ delivered' \in [Nodes -> Seq(Message)]
  <2>1. Typed /\ Typed' /\ Control /\ Control' /\ Controlled /\ Controlled'
    BY DEF IInv, Controlled, Control
  <2> QED BY <2>1, FaultsStayNat DEF Typed
<1>1. Moves /\ faults' >= faults
  BY <1>0, NextGoes DEF Goes
<1>2. ASSUME UNCHANGED <<delivered, routed>> PROVE [Link!Next]_(Link!vars)
  <2>1. (faults > 0)' = (faults > 0) \/ (faults > 0)' = TRUE
    BY <1>0, <1>1
  <2> QED BY <1>2, <2>1 DEF Link!Next, Link!Fail, Link!vars
<1>3. ASSUME NEW n \in Nodes, NEW e \in Endpoints, Pushes(n, e) PROVE [Link!Next]_(Link!vars)
  <2>1. /\ routed'[n] = routed[n] + 1 /\ \A m \in Nodes : m # n => routed'[m] = routed[m]
        /\ delivered' = delivered /\ faults' = faults
    BY <1>3 DEF Pushes
  <2>2. routed' = [routed EXCEPT ![n] = @ + 1]
    BY <1>0, <2>1
  <2>3. Link!Send(n)
    BY <2>1, <2>2 DEF Link!Send
  <2> QED BY <2>3 DEF Link!Next
<1>4. ASSUME NEW n \in Nodes, NEW c \in Endpoints, Receives(n, c), NothingFailed => wire[c].open = Nodes
      PROVE  [Link!Next]_(Link!vars)
  <2> PICK x : x = Head(wire[c].to[n])
    OBVIOUS
  <2>1. routed' = routed /\ faults' = faults
    BY <1>4 DEF Receives
  <2>2. CASE known[n] # "known"
    BY <1>2, <1>4, <2>1, <2>2 DEF Receives
  <2>3. CASE known[n] = "known"
    <3>1. /\ delivered'[n] = Append(delivered[n], x)
          /\ \A m \in Nodes : m # n => delivered'[m] = delivered[m]
      BY <1>4, <2>3 DEF Receives
    <3>2. delivered' = [delivered EXCEPT ![n] = Append(@, x)]
      BY <1>0, <3>1
    <3>3. /\ x \in (1 .. routed[Other(n)]) \ Link!Range(delivered[n])
          /\ n \in {1} => x > Link!LastGot(n)
          /\ faults > 0 \/ x = Link!LastGot(n) + 1
      BY <1>4, ArrivesNext
    <3>4. Link!Deliver(n, x) /\ x \in 1 .. routed[Other(n)]
      BY <2>1, <3>2, <3>3 DEF Link!Deliver
    <3> QED BY <3>4 DEF Link!Next
  <2> QED BY <2>2, <2>3
<1>5. ASSUME NEW n \in Nodes, NEW e \in Endpoints, Pops(n, e) \/ Drops(n, e) \/ Tracks(n, e)
      PROVE  [Link!Next]_(Link!vars)
  BY <1>2, <1>5 DEF Pops, Drops, Tracks
<1>6. ASSUME NEW n \in Nodes, NEW e \in Endpoints, NEW c \in Endpoints, Sends(n, e, c)
      PROVE  [Link!Next]_(Link!vars)
  BY <1>2, <1>6 DEF Sends
<1>7. CASE Quiet \/ Untracks \/ \E c \in Endpoints : Empties(c)
  BY <1>2, <1>7 DEF Quiet, Untracks, Empties
<1> QED BY <1>1, <1>3, <1>4, <1>5, <1>6, <1>7 DEF Moves

\* ImplementsLink: queues, negotiation, endpoints that come and go and
\* connections that fail implement MessageLink.  A message arrives once at most;
\* in order and with none left out until something fails; and to the lesser
\* node in order even then.
THEOREM LinkIsImplemented == Spec => ImplementsLink
<1>1. Init => Link!Init
  <2> SUFFICES ASSUME Init PROVE Link!Init
    OBVIOUS
  <2>1. faults = 0 /\ routed = [n \in Nodes |-> 0] /\ delivered = [n \in Nodes |-> <<>>]
    BY DEF Init
  <2>2. ~(faults > 0)
    BY <2>1
  <2> QED BY <2>1, <2>2 DEF Link!Init
<1>2. IInv /\ IInv' /\ [Next]_vars => [Link!Next]_(Link!vars)
  BY StepOfLink DEF vars, Link!vars
<1> QED BY <1>1, <1>2, Invariant, PTL DEF Spec, ImplementsLink, Link!Spec
=============================================================================
