--------------------------- MODULE CoordinatorProofs ---------------------------
(***************************************************************************)
(* Proofs about Coordinator, for any number of nodes, sessions and         *)
(* computations with any requirements.  The sums of the accounts first:    *)
(* they are defined by recursion over a set, which the provers know        *)
(* nothing of, so that each of their laws is proved from the recursion,    *)
(* with a smallest set that would violate it.  Then the allocation, which  *)
(* is a recursion over the computations, and then the steps.               *)
(***************************************************************************)
EXTENDS Coordinator, FiniteSetTheorems, WellFoundedInduction, TLAPS

-----------------------------------------------------------------------------
(* The inductive invariant.                                                *)

\* Events, accounts, a session that runs on a node, one that has its nodes.
EventOf == [type : {"ready", "terminate"}, s : Sessions]
Account == [cores : Int, memory : Nat]
Running == {"Busy", "failed", "Free"}
Assigned(s) == nodeId[s] \in [CompsOf(s) -> Nodes]

\* The places of the reports of s that have not been taken.
Reports(s) == {x \in Nodes \X (Nat \ {0}) :
                  x[2] <= Len(events[x[1]]) /\ events[x[1]][x[2]] = [type |-> "ready", s |-> s]}

\* Types, with those of the history and of the events.
TypesAreKept ==
    /\ nodes \in Seq(Nodes) /\ IsInjective(nodes)
    /\ free \in [Nodes -> Account]
    /\ DOMAIN perSession = Nodes
    /\ \A n \in Nodes : perSession[n] \in [DOMAIN perSession[n] -> Account]
    /\ sessions \subseteq requested /\ requested \subseteq Sessions
    /\ nodeId = [s \in Sessions |-> nodeId[s]]
    /\ \A s \in Sessions : nodeId[s] \in [CompsOf(s) -> Nodes \cup {None}]
    /\ readyCount \in [Sessions -> Nat]
    /\ request \in Request
    /\ node \in [Nodes -> {"new", "up", "stopping", "down"}]
    /\ state \in [Nodes -> [Sessions -> SessionState]]
    /\ ready \in [Sessions -> SUBSET UNION {CompsOf(s) : s \in Sessions}]
    /\ \A s \in Sessions : ready[s] \subseteq CompsOf(s)
    /\ events \in [Nodes -> Seq(EventOf)]
    /\ launched = [s \in Sessions |-> launched[s]] /\ told = [s \in Sessions |-> told[s]]

\* A node registers once.
NewAreNotListed == \A n \in Nodes : node[n] = "new" => n \notin Range(nodes)

\* A session has no node before it is asked for.
NoneIsAssigned ==
    \A s \in Sessions : s \notin requested => \A i \in CompsOf(s) : nodeId[s][i] = None

\* As many reports were counted or wait to be, as computations are ready at most.
ReportsAreTrue ==
    \A s \in Sessions : /\ IsFiniteSet(Reports(s))
                         /\ readyCount[s] + Cardinality(Reports(s)) <= Cardinality(ready[s])

\* Nothing of a session is on a node that was not asked to launch it.
RunningIsLaunched ==
    \A n \in Nodes, s \in Sessions : state[n][s] \in Running => n \in launched[s]

\* Nodes are called for a session that has all of its nodes; they are told to run
\* it once all is ready, and those that were not told are still to be called.
RequestIsSound ==
    /\ request.op # "none" => request.s \in Sessions
    /\ request.op \in {"launch", "run"} =>
          Assigned(request.s) /\ Range(request.todo) \subseteq HostsOf(request.s)
    /\ request.op = "run" =>
          /\ ready[request.s] = CompsOf(request.s)
          /\ HostsOf(request.s) \subseteq told[request.s] \cup Range(request.todo)

\* Only nodes of a session are told to run it.
ToldAreHosts == \A s \in Sessions : told[s] \subseteq HostsOf(s)

\* What is ready has a node.
ReadyIsAssigned == \A s \in Sessions : \A i \in ready[s] : nodeId[s][i] \in Nodes

\* The memory that a computation needs, that those of a session need on a node, and
\* that a node's accounts say.
Memory(s, i) == Definition[s][i].memory
MemoryAt(s, comps, n) == [i \in CompsOf(s) |-> IF comps[i] = n THEN Memory(s, i) ELSE 0]
BookedBy(per) == [x \in DOMAIN per |-> per[x].memory]
BookedFor(s, per) == IF s \in DOMAIN per THEN per[s].memory ELSE 0

\* What is free on a node and what is on its accounts make its total.
AccountsBalance ==
    \A n \in Nodes :
        /\ IsFiniteSet(DOMAIN perSession[n])
        /\ free[n].memory + SumOver(BookedBy(perSession[n]), DOMAIN perSession[n]) = Total[n].memory

\* An account of a session has what its computations on the node need.
MemoryIsBooked ==
    \A n \in Nodes : \A s \in DOMAIN perSession[n] :
        s \in requested /\ SumOver(MemoryAt(s, nodeId[s], n), CompsOf(s)) <= perSession[n][s].memory

CoordInv ==
    /\ TypesAreKept
    /\ NewAreNotListed
    /\ NoneIsAssigned
    /\ ReportsAreTrue
    /\ RunningIsLaunched
    /\ RequestIsSound
    /\ ToldAreHosts
    /\ ReadyIsAssigned
    /\ AccountsBalance
    /\ MemoryIsBooked

-----------------------------------------------------------------------------
(* Sums.                                                                   *)

\* Of numbers there is a least.
LEMMA LeastNumber ==
    ASSUME NEW S, S \subseteq Nat, S # {}
    PROVE  \E x \in S : \A y \in S : x <= y
<1> DEFINE R == {ss \in Nat \X Nat : ss[1] < ss[2]}
<1>0. OpToRel(<, Nat) = R
  BY Zenon DEF OpToRel
<1>1. IsWellFoundedOn(R, Nat)
  BY Zenon, <1>0, NatLessThanWellFounded
<1>2. PICK x \in S : \A y \in S : ~ (<<y, x>> \in R)
  <2> HIDE DEF R
  <2> QED
    BY <1>1, WFMin
<1>3. ASSUME NEW y \in S PROVE x <= y
  <2>1. x \in Nat /\ y \in Nat
    BY <1>2
  <2>2. y < x => <<y, x>> \in R
    BY <2>1
  <2>3. ~ (y < x)
    BY <1>2, <2>2
  <2> QED
    BY <2>1, <2>3
<1> QED
  BY <1>3

\* The recursion of FoldFunctionOnSet, over the subsets in D.
Chosen(T) == CHOOSE x \in T : TRUE
Adds(f, D, g) == g = [T \in D |-> IF T = {} THEN 0 ELSE f[Chosen(T)] + g[T \ {Chosen(T)}]]

\* A sum is what the recursion gives for the whole set.
LEMMA SumIs ==
    ASSUME NEW f, NEW S
    PROVE  SumOver(f, S) = (CHOOSE g : Adds(f, SUBSET S, g))[S]
BY DEF SumOver, FoldFunctionOnSet, MapThenFoldSet, Adds, Chosen

\* What is left of a finite set without its chosen element.
LEMMA Smaller ==
    ASSUME NEW T, IsFiniteSet(T), T # {}
    PROVE  /\ Chosen(T) \in T
           /\ IsFiniteSet(T \ {Chosen(T)})
           /\ Cardinality(T) \in Nat \ {0}
           /\ Cardinality(T \ {Chosen(T)}) = Cardinality(T) - 1
<1>1. Chosen(T) \in T
  BY DEF Chosen
<1>2. Cardinality(T) \in Nat /\ Cardinality(T) # 0
  BY FS_CardinalityType, FS_EmptySet
<1> QED
  BY <1>1, <1>2, FS_RemoveElement

\* The recursion has a solution,
LEMMA AddsIsSolved ==
    ASSUME NEW f, NEW S, IsFiniteSet(S)
    PROVE  \E g : Adds(f, SUBSET S, g)
<1> DEFINE n == Cardinality(S)
           D(m) == {T \in SUBSET S : Cardinality(T) <= m}
           Without == {m \in 0 .. n : ~ \E g : Adds(f, D(m), g)}
<1>1. n \in Nat /\ \A T \in SUBSET S : IsFiniteSet(T) /\ Cardinality(T) \in Nat /\ Cardinality(T) <= n
  BY FS_Subset, FS_CardinalityType
<1>2. D(n) = SUBSET S
  BY <1>1
<1>3. SUFFICES ASSUME Without # {} PROVE FALSE
  <2>1. n \in 0 .. n
    BY <1>1
  <2>2. \E g : Adds(f, D(n), g)
    <3> HIDE DEF n, D
    <3> QED
      BY <2>1, <1>3
  <2> QED
    BY <1>2, <2>2
<1>4. PICK m \in Without : \A y \in Without : m <= y
  <2>1. Without \subseteq Nat
    BY <1>1
  <2> HIDE DEF Without
  <2> QED
    BY ONLY <1>3, <2>1, LeastNumber
<1>5. m \in 0 .. n /\ ~ \E g : Adds(f, D(m), g)
  BY <1>4
<1>6. CASE m = 0
  <2>1. \A T \in D(0) : T = {}
    BY <1>1, FS_EmptySet
  <2>2. Adds(f, D(0), [T \in D(0) |-> 0])
    BY <2>1 DEF Adds
  <2> QED
    BY <1>5, <1>6, <2>2
<1>7. CASE m # 0
  <2>1. m - 1 \in 0 .. n /\ m - 1 \notin Without /\ m \in Nat
    BY <1>1, <1>4, <1>5, <1>7
  <2>2. PICK g : Adds(f, D(m - 1), g)
    BY <2>1
  <2> DEFINE h == [T \in D(m) |-> IF T = {} THEN 0 ELSE f[Chosen(T)] + g[T \ {Chosen(T)}]]
  <2>3. ASSUME NEW T \in D(m), T # {} PROVE h[T \ {Chosen(T)}] = g[T \ {Chosen(T)}]
    <3> DEFINE U == T \ {Chosen(T)}
    <3>1. U \in SUBSET S /\ Cardinality(U) <= m - 1 /\ Cardinality(U) \in Nat
      BY <1>1, <2>1, <2>3, Smaller
    <3>2. U \in D(m) /\ U \in D(m - 1)
      BY <2>1, <3>1
    <3>3. h[U] = IF U = {} THEN 0 ELSE f[Chosen(U)] + g[U \ {Chosen(U)}]
      BY <3>2
    <3>4. g[U] = IF U = {} THEN 0 ELSE f[Chosen(U)] + g[U \ {Chosen(U)}]
      BY <2>2, <3>2 DEF Adds
    <3> QED
      BY <3>3, <3>4
  <2>4. Adds(f, D(m), h)
    <3> DEFINE W == [T \in D(m) |-> IF T = {} THEN 0 ELSE f[Chosen(T)] + h[T \ {Chosen(T)}]]
    <3>1. \A T \in D(m) : h[T] = W[T]
      BY <2>3
    <3>2. h = W
      BY <3>1
    <3> QED
      BY <3>2 DEF Adds
  <2> QED
    BY <1>5, <2>4
<1> QED
  BY <1>6, <1>7

\* and what it says of a set does not depend on where the set is taken from.
LEMMA AddsAgree ==
    ASSUME NEW f, NEW S, IsFiniteSet(S), NEW V \in SUBSET S, NEW g, NEW h,
           Adds(f, SUBSET S, g), Adds(f, SUBSET V, h)
    PROVE  g[V] = h[V]
<1> DEFINE Bad == {Cardinality(T) : T \in {U \in SUBSET V : g[U] # h[U]}}
<1>1. \A T \in SUBSET V : IsFiniteSet(T) /\ Cardinality(T) \in Nat
  BY FS_Subset, FS_CardinalityType
<1>2. SUFFICES ASSUME Bad # {} PROVE FALSE
  <2>1. V \in SUBSET V
    OBVIOUS
  <2> QED
    BY <1>2, <2>1
<1>3. PICK m \in Bad : \A y \in Bad : m <= y
  <2>1. Bad \subseteq Nat
    BY <1>1
  <2> HIDE DEF Bad
  <2> QED
    BY ONLY <1>2, <2>1, LeastNumber
<1>4. PICK T \in SUBSET V : g[T] # h[T] /\ Cardinality(T) = m
  BY <1>3
<1>5. /\ g[T] = IF T = {} THEN 0 ELSE f[Chosen(T)] + g[T \ {Chosen(T)}]
      /\ h[T] = IF T = {} THEN 0 ELSE f[Chosen(T)] + h[T \ {Chosen(T)}]
  <2>1. T \in SUBSET S
    OBVIOUS
  <2> QED
    BY <2>1, <1>4 DEF Adds
<1>6. T # {}
  BY <1>4, <1>5
<1>7. T \ {Chosen(T)} \in SUBSET V /\ Cardinality(T \ {Chosen(T)}) = m - 1 /\ m \in Nat
  BY <1>1, <1>4, <1>6, Smaller
<1>8. g[T \ {Chosen(T)}] = h[T \ {Chosen(T)}]
  <2>1. ~ (m <= m - 1)
    BY <1>7
  <2>2. m - 1 \notin Bad
    BY <1>3, <2>1
  <2> QED
    BY <1>7, <2>2
<1> QED
  BY <1>4, <1>5, <1>8

\* A sum is that of its chosen element and of the rest.
LEMMA SumOfChosen ==
    ASSUME NEW f, NEW S, IsFiniteSet(S)
    PROVE  SumOver(f, S) = IF S = {} THEN 0 ELSE f[Chosen(S)] + SumOver(f, S \ {Chosen(S)})
<1> DEFINE g == CHOOSE g : Adds(f, SUBSET S, g)
<1>1. Adds(f, SUBSET S, g)
  BY AddsIsSolved
<1>2. SumOver(f, S) = g[S]
  BY SumIs
<1>3. g[S] = IF S = {} THEN 0 ELSE f[Chosen(S)] + g[S \ {Chosen(S)}]
  <2> HIDE DEF g
  <2>1. S \in SUBSET S
    OBVIOUS
  <2> QED
    BY <1>1, <2>1 DEF Adds
<1>4. ASSUME S # {} PROVE g[S \ {Chosen(S)}] = SumOver(f, S \ {Chosen(S)})
  <2> DEFINE V == S \ {Chosen(S)}
             h == CHOOSE h : Adds(f, SUBSET V, h)
  <2>1. V \in SUBSET S /\ IsFiniteSet(V)
    BY <1>4, Smaller
  <2>2. Adds(f, SUBSET V, h)
    BY <2>1, AddsIsSolved
  <2>3. SumOver(f, V) = h[V]
    BY SumIs
  <2> HIDE DEF g, h, V
  <2>4. g[V] = h[V]
    BY <1>1, <2>1, <2>2, AddsAgree
  <2> QED
    BY <2>3, <2>4 DEF V
<1> QED
  BY <1>2, <1>3, <1>4

\* A sum of whole numbers is one.
LEMMA SumIsInt ==
    ASSUME NEW f, NEW S, IsFiniteSet(S), \A x \in S : f[x] \in Int
    PROVE  SumOver(f, S) \in Int
<1> DEFINE Bad == {Cardinality(T) : T \in {U \in SUBSET S : SumOver(f, U) \notin Int}}
<1>1. \A T \in SUBSET S : IsFiniteSet(T) /\ Cardinality(T) \in Nat
  BY FS_Subset, FS_CardinalityType
<1>2. SUFFICES ASSUME Bad # {} PROVE FALSE
  <2>1. S \in SUBSET S
    OBVIOUS
  <2> QED
    BY <1>2, <2>1
<1>3. PICK m \in Bad : \A y \in Bad : m <= y
  <2>1. Bad \subseteq Nat
    BY <1>1
  <2> HIDE DEF Bad
  <2> QED
    BY ONLY <1>2, <2>1, LeastNumber
<1>4. PICK T \in SUBSET S : SumOver(f, T) \notin Int /\ Cardinality(T) = m
  BY <1>3
<1>5. SumOver(f, T) = IF T = {} THEN 0 ELSE f[Chosen(T)] + SumOver(f, T \ {Chosen(T)})
  BY <1>1, SumOfChosen
<1>6. T # {}
  BY <1>4, <1>5
<1>7. /\ T \ {Chosen(T)} \in SUBSET S /\ Cardinality(T \ {Chosen(T)}) = m - 1 /\ m \in Nat
      /\ Chosen(T) \in S
  BY <1>1, <1>4, <1>6, Smaller
<1>8. SumOver(f, T \ {Chosen(T)}) \in Int
  <2>1. ~ (m <= m - 1)
    BY <1>7
  <2>2. m - 1 \notin Bad
    BY <1>3, <2>1
  <2> QED
    BY <1>7, <2>2
<1> QED
  BY <1>4, <1>5, <1>6, <1>7, <1>8

\* An element may be added in any order: it need not be the chosen one.
LEMMA SumWith ==
    ASSUME NEW f, NEW S, IsFiniteSet(S), \A x \in S : f[x] \in Int, NEW e \in S
    PROVE  SumOver(f, S) = f[e] + SumOver(f, S \ {e})
<1> DEFINE Wrong(T) == \E x \in T : SumOver(f, T) # f[x] + SumOver(f, T \ {x})
           Bad == {Cardinality(T) : T \in {U \in SUBSET S : Wrong(U)}}
<1>1. \A T \in SUBSET S : IsFiniteSet(T) /\ Cardinality(T) \in Nat /\ SumOver(f, T) \in Int
  BY FS_Subset, FS_CardinalityType, SumIsInt
<1>2. SUFFICES ASSUME Bad # {} PROVE FALSE
  <2>1. S \in SUBSET S
    OBVIOUS
  <2> QED
    BY <1>2, <2>1
<1>3. PICK m \in Bad : \A y \in Bad : m <= y
  <2>1. Bad \subseteq Nat
    BY <1>1
  <2> HIDE DEF Bad
  <2> QED
    BY ONLY <1>2, <2>1, LeastNumber
<1>4. PICK T \in SUBSET S : Wrong(T) /\ Cardinality(T) = m
  BY <1>3
<1>5. PICK x \in T : SumOver(f, T) # f[x] + SumOver(f, T \ {x})
  BY <1>4
<1> DEFINE c == Chosen(T)
<1>6. SumOver(f, T) = f[c] + SumOver(f, T \ {c}) /\ c \in T
  BY <1>1, SumOfChosen, Smaller
<1>7. x # c
  BY <1>5, <1>6
<1> HIDE DEF c
<1>8. ASSUME NEW y \in T, NEW z \in T, z # y
      PROVE  SumOver(f, T \ {y}) = f[z] + SumOver(f, (T \ {y}) \ {z})
  <2>1. T \ {y} \in SUBSET S /\ z \in T \ {y}
    BY <1>8
  <2>2. Cardinality(T \ {y}) = m - 1 /\ m \in Nat
    BY <1>1, <1>4, FS_RemoveElement
  <2>3. ~ (m <= m - 1)
    BY <2>2
  <2>4. m - 1 \notin Bad
    BY <1>3, <2>3
  <2>5. ~ Wrong(T \ {y})
    BY <2>1, <2>2, <2>4
  <2> QED
    BY <2>1, <2>5
<1>9. /\ SumOver(f, T \ {c}) = f[x] + SumOver(f, (T \ {c}) \ {x})
      /\ SumOver(f, T \ {x}) = f[c] + SumOver(f, (T \ {x}) \ {c})
  BY <1>6, <1>7, <1>8
<1>10. (T \ {c}) \ {x} = (T \ {x}) \ {c}
  OBVIOUS
<1>11. f[c] \in Int /\ f[x] \in Int /\ SumOver(f, (T \ {x}) \ {c}) \in Int
  <2>1. (T \ {x}) \ {c} \in SUBSET S /\ c \in S /\ x \in S
    BY <1>6
  <2> QED
    BY <1>1, <2>1
<1>12. SumOver(f, T) = f[x] + SumOver(f, T \ {x})
  BY ONLY <1>6, <1>9, <1>10, <1>11
<1> QED
  BY <1>5, <1>12

\* What is summed and where: only the values count, and more of more is more.
LEMMA SumGrows ==
    ASSUME NEW f, NEW g, NEW S, IsFiniteSet(S), NEW V \in SUBSET S,
           \A x \in S : g[x] \in Nat,
           \A x \in V : f[x] \in Int /\ f[x] <= g[x]
    PROVE  SumOver(f, V) <= SumOver(g, S)
<1> DEFINE Wrong(T) == ~ (SumOver(f, V \cap T) <= SumOver(g, T))
           Bad == {Cardinality(T) : T \in {U \in SUBSET S : Wrong(U)}}
<1>1. \A T \in SUBSET S : /\ IsFiniteSet(T) /\ Cardinality(T) \in Nat
                          /\ SumOver(g, T) \in Int /\ SumOver(f, V \cap T) \in Int
                          /\ IsFiniteSet(V \cap T)
  <2>1. ASSUME NEW T \in SUBSET S
        PROVE  IsFiniteSet(T) /\ Cardinality(T) \in Nat /\ IsFiniteSet(V \cap T)
    BY FS_Subset, FS_CardinalityType
  <2>2. ASSUME NEW T \in SUBSET S PROVE SumOver(g, T) \in Int
    <3>1. \A x \in T : g[x] \in Int
      OBVIOUS
    <3> QED
      BY <2>1, <3>1, SumIsInt
  <2>3. ASSUME NEW T \in SUBSET S PROVE SumOver(f, V \cap T) \in Int
    BY <2>1, SumIsInt
  <2> QED
    BY <2>1, <2>2, <2>3
<1>2. SUFFICES ASSUME Bad # {} PROVE FALSE
  <2>1. S \in SUBSET S /\ V \cap S = V
    OBVIOUS
  <2> QED
    BY <1>2, <2>1
<1>3. PICK m \in Bad : \A y \in Bad : m <= y
  <2>1. Bad \subseteq Nat
    BY <1>1
  <2> HIDE DEF Bad
  <2> QED
    BY ONLY <1>2, <2>1, LeastNumber
<1>4. PICK T \in SUBSET S : Wrong(T) /\ Cardinality(T) = m
  BY <1>3
<1>5. CASE T = {}
  <2>1. SumOver(f, V \cap T) = 0 /\ SumOver(g, T) = 0
    <3>1. V \cap T = {}
      BY <1>5
    <3> QED
      BY <1>5, <3>1, FS_EmptySet, SumOfChosen
  <2> QED
    BY <1>4, <2>1
<1>6. CASE T # {}
  <2> DEFINE c == Chosen(T)
             U == T \ {c}
  <2>1. c \in T /\ U \in SUBSET S /\ Cardinality(U) = m - 1 /\ m \in Nat
    BY <1>1, <1>4, <1>6, Smaller
  <2>2. SumOver(f, V \cap U) <= SumOver(g, U)
    <3>1. ~ (m <= m - 1)
      BY <2>1
    <3>2. m - 1 \notin Bad
      BY <1>3, <3>1
    <3> QED
      BY <2>1, <3>2
  <2>3. SumOver(g, T) = g[c] + SumOver(g, U)
    <3>1. \A x \in T : g[x] \in Int
      OBVIOUS
    <3>2. IsFiniteSet(T) /\ c \in T
      BY <1>1, <2>1
    <3> HIDE DEF c
    <3> QED
      BY <3>1, <3>2, SumWith
  <2>4. SumOver(f, V \cap T) <= g[c] + SumOver(f, V \cap U)
    <3>1. CASE c \in V
      <4>1. SumOver(f, V \cap T) = f[c] + SumOver(f, (V \cap T) \ {c})
        <5>1. c \in V \cap T /\ IsFiniteSet(V \cap T)
          BY <1>1, <2>1, <3>1
        <5> QED
          BY <5>1, SumWith
      <4>2. (V \cap T) \ {c} = V \cap U
        OBVIOUS
      <4>3. f[c] \in Int /\ g[c] \in Int /\ f[c] <= g[c] /\ SumOver(f, V \cap U) \in Int
        BY <1>1, <2>1, <3>1
      <4> QED
        BY <4>1, <4>2, <4>3
    <3>2. CASE c \notin V
      <4>1. V \cap T = V \cap U
        BY <3>2
      <4>2. g[c] \in Nat /\ SumOver(f, V \cap U) \in Int
        BY <1>1, <2>1
      <4>3. SumOver(f, V \cap U) <= g[c] + SumOver(f, V \cap U)
        BY <4>2
      <4> HIDE DEF U
      <4> QED
        BY <4>1, <4>3
    <3> QED
      BY <3>1, <3>2
  <2>5. /\ SumOver(f, V \cap T) \in Int /\ SumOver(f, V \cap U) \in Int
        /\ SumOver(g, U) \in Int /\ g[c] \in Int
    BY <1>1, <2>1
  <2>6. SumOver(f, V \cap T) <= SumOver(g, T)
    BY <2>2, <2>3, <2>4, <2>5
  <2> QED
    BY <1>4, <2>6
<1> QED
  BY <1>5, <1>6

\* Sums of the same numbers are the same.
LEMMA SumSame ==
    ASSUME NEW f, NEW g, NEW S, IsFiniteSet(S), \A x \in S : f[x] \in Nat /\ g[x] = f[x]
    PROVE  SumOver(f, S) = SumOver(g, S)
<1>1. SumOver(f, S) <= SumOver(g, S)
  <2>1. S \in SUBSET S /\ (\A x \in S : g[x] \in Nat) /\ \A x \in S : f[x] \in Int /\ f[x] <= g[x]
    OBVIOUS
  <2> QED
    BY <2>1, SumGrows
<1>2. SumOver(g, S) <= SumOver(f, S)
  <2>1. S \in SUBSET S /\ (\A x \in S : f[x] \in Nat) /\ \A x \in S : g[x] \in Int /\ g[x] <= f[x]
    OBVIOUS
  <2> QED
    BY <2>1, SumGrows
<1>3. SumOver(f, S) \in Int /\ SumOver(g, S) \in Int
  BY SumIsInt
<1> QED
  BY <1>1, <1>2, <1>3

\* One number of a sum grows, or a number is added to it.
LEMMA SumPut ==
    ASSUME NEW f, NEW g, NEW S, IsFiniteSet(S), NEW e, NEW d \in Int,
           NEW U, U = S \cup {e},
           \A x \in S : f[x] \in Nat, g[e] \in Nat,
           g[e] = (IF e \in S THEN f[e] ELSE 0) + d,
           \A x \in S \ {e} : g[x] = f[x]
    PROVE  SumOver(g, U) = SumOver(f, S) + d
<1> DEFINE R == S \ {e}
<1>1. IsFiniteSet(U) /\ IsFiniteSet(R) /\ e \in U /\ U \ {e} = R
  BY FS_AddElement, FS_RemoveElement
<1>2. (\A x \in U : g[x] \in Int) /\ (\A x \in R : f[x] \in Nat /\ g[x] = f[x])
      /\ (\A x \in S : f[x] \in Int) /\ (\A x \in R : f[x] \in Int)
  OBVIOUS
<1> HIDE DEF R
<1>3. SumOver(g, U) = g[e] + SumOver(g, R)
  BY <1>1, <1>2, SumWith
<1>4. SumOver(f, R) = SumOver(g, R) /\ SumOver(f, R) \in Int
  BY <1>1, <1>2, SumSame, SumIsInt
<1>5. CASE e \in S
  <2>1. SumOver(f, S) = f[e] + SumOver(f, R)
    BY <1>2, <1>5, SumWith DEF R
  <2>2. f[e] \in Int /\ g[e] = f[e] + d
    BY <1>5
  <2>3. SumOver(g, U) = SumOver(f, S) + d
    BY <1>3, <1>4, <2>1, <2>2
  <2> QED
    BY <2>3
<1>6. CASE e \notin S
  <2>1. R = S /\ g[e] = d
    BY <1>6 DEF R
  <2>2. SumOver(g, U) = SumOver(f, S) + d
    BY <1>3, <1>4, <2>1
  <2> QED
    BY <2>2
<1> QED
  BY <1>5, <1>6

-----------------------------------------------------------------------------
(* Allocations.                                                            *)

IsAllocation(s, a) ==
    /\ a = [ok |-> a.ok, free |-> a.free, perSession |-> a.perSession, comps |-> a.comps]
    /\ a.ok \in BOOLEAN
    /\ a.free \in [Nodes -> Account]
    /\ DOMAIN a.perSession = Nodes
    /\ \A n \in Nodes :
          /\ a.perSession[n] \in [DOMAIN a.perSession[n] -> Account]
          /\ IsFiniteSet(DOMAIN a.perSession[n])
          /\ a.free[n].memory + SumOver(BookedBy(a.perSession[n]), DOMAIN a.perSession[n]) = Total[n].memory
          /\ SumOver(MemoryAt(s, a.comps, n), CompsOf(s)) <= BookedFor(s, a.perSession[n])
          /\ DOMAIN a.perSession[n] \ {s} = DOMAIN perSession[n] \ {s}
          /\ \A x \in DOMAIN perSession[n] \ {s} : a.perSession[n][x] = perSession[n][x]
    /\ a.comps \in [CompsOf(s) -> Nodes \cup {None}]

\* The requirements of a session's computations.
LEMMA DefinitionIs ==
    ASSUME NEW s \in Sessions
    PROVE  /\ Len(Definition[s]) \in Nat /\ CompsOf(s) = 1 .. Len(Definition[s])
           /\ IsFiniteSet(CompsOf(s)) /\ Cardinality(CompsOf(s)) = Len(Definition[s])
           /\ \A i \in CompsOf(s) : Definition[s][i] \in Requirement /\ Memory(s, i) \in Nat
<1>1. Definition[s] \in Seq(Requirement)
  BY CoordinatorAssumption
<1>2. Len(Definition[s]) \in Nat /\ CompsOf(s) = 1 .. Len(Definition[s])
  BY <1>1 DEF CompsOf
<1>3. \A i \in CompsOf(s) : Definition[s][i] \in Requirement
  BY <1>1 DEF CompsOf
<1>4. \A i \in CompsOf(s) : Memory(s, i) \in Nat
  BY <1>3 DEF Requirement, Memory
<1> QED
  BY <1>2, <1>3, <1>4, FS_Interval

\* An allocation after one computation was put on a node.
Taken(s, a, i, n, take) ==
    [ok |-> TRUE,
     free |-> [a.free EXCEPT ![n] = Minus(@, take)],
     perSession |-> [a.perSession EXCEPT ![n] =
         Set(@, s, IF s \in DOMAIN a.perSession[n] THEN Plus(a.perSession[n][s], take) ELSE take)],
     comps |-> [a.comps EXCEPT ![i] = n]]

\* An allocation that does not fail takes what one computation needs from one node.
LEMMA AllocateOneIs ==
    ASSUME NEW s \in Sessions, NEW a, IsAllocation(s, a), NEW i \in CompsOf(s), nodes \in Seq(Nodes)
    PROVE  \/ AllocateOne(s, a, i) = [a EXCEPT !.ok = FALSE]
           \/ \E n \in Nodes, take \in Account :
                 /\ a.ok
                 /\ take.memory = Memory(s, i) /\ take.memory <= a.free[n].memory
                 /\ AllocateOne(s, a, i) = Taken(s, a, i, n, take)
<1> DEFINE req == Definition[s][i]
           fits == {k \in DOMAIN nodes : Satisfies(a.free[nodes[k]], req)}
           k == Min(fits)
           n == nodes[k]
           take == [cores |-> Cores(a.free[n], req), memory |-> req.memory]
<1>1. CASE ~ a.ok \/ fits = {}
  BY <1>1 DEF AllocateOne
<1>2. CASE a.ok /\ fits # {}
  <2>1. fits \subseteq Nat
    OBVIOUS
  <2>2. k \in fits
    <3> HIDE DEF fits
    <3>1. \E x \in fits : \A y \in fits : x <= y
      BY <1>2, <2>1, LeastNumber
    <3> QED
      BY <3>1 DEF Min
  <2>3. n \in Nodes /\ Satisfies(a.free[n], req)
    <3> HIDE DEF k
    <3>1. k \in DOMAIN nodes /\ Satisfies(a.free[nodes[k]], req)
      BY <2>2
    <3> QED
      BY <3>1
  <2>4. req \in Requirement /\ a.free[n] \in Account
    BY <2>3, DefinitionIs DEF IsAllocation
  <2>5. /\ take \in Account /\ take.memory = Memory(s, i)
        /\ take.memory <= a.free[n].memory
    <3>1. Cores(a.free[n], req) \in Int /\ req.memory \in Nat
      BY <2>4 DEF Cores, Requirement, Account
    <3> QED
      BY <2>3, <3>1 DEF Memory, Satisfies, Account
  <2>6. AllocateOne(s, a, i) = Taken(s, a, i, n, take)
    BY <1>2 DEF AllocateOne, Taken
  <2> HIDE DEF n, take
  <2> QED
    BY <1>2, <2>3, <2>5, <2>6
<1> QED
  BY <1>1, <1>2

\* Each step of an allocation keeps the accounts, and an assigned computation.
LEMMA AllocateOneKeeps ==
    ASSUME NEW s \in Sessions, NEW a, IsAllocation(s, a), NEW i \in CompsOf(s), nodes \in Seq(Nodes)
    PROVE  /\ IsAllocation(s, AllocateOne(s, a, i))
           /\ AllocateOne(s, a, i).ok =>
                 /\ a.ok
                 /\ AllocateOne(s, a, i).comps[i] \in Nodes
                 /\ \A j \in CompsOf(s) : a.comps[j] \in Nodes => AllocateOne(s, a, i).comps[j] \in Nodes
<1> DEFINE r == AllocateOne(s, a, i)
<1>1. CASE r = [a EXCEPT !.ok = FALSE]
  <2>1. r = [ok |-> FALSE, free |-> a.free, perSession |-> a.perSession, comps |-> a.comps]
    BY <1>1 DEF IsAllocation
  <2> HIDE DEF r
  <2>2. IsAllocation(s, r)
    BY <2>1 DEF IsAllocation
  <2> QED
    BY <2>1, <2>2 DEF r
<1>2. ASSUME NEW n \in Nodes, NEW take \in Account, a.ok,
             take.memory = Memory(s, i), take.memory <= a.free[n].memory,
             r = Taken(s, a, i, n, take)
      PROVE  /\ IsAllocation(s, r)
             /\ r.comps[i] \in Nodes
             /\ \A j \in CompsOf(s) : a.comps[j] \in Nodes => r.comps[j] \in Nodes
  <2> DEFINE per == a.perSession[n]
             new == IF s \in DOMAIN per THEN Plus(per[s], take) ELSE take
             per2 == r.perSession[n]
             mem == Memory(s, i)
  <2> HIDE DEF r
  <2>1. /\ a.free \in [Nodes -> Account] /\ DOMAIN a.perSession = Nodes
        /\ a.comps \in [CompsOf(s) -> Nodes \cup {None}]
        /\ per \in [DOMAIN per -> Account] /\ IsFiniteSet(DOMAIN per)
        /\ mem \in Nat
    BY DefinitionIs DEF IsAllocation
  <2>2. /\ r.ok = TRUE
        /\ r.free = [a.free EXCEPT ![n] = Minus(@, take)]
        /\ r.perSession = [a.perSession EXCEPT ![n] = Set(@, s, new)]
        /\ r.comps = [a.comps EXCEPT ![i] = n]
        /\ r = [ok |-> r.ok, free |-> r.free, perSession |-> r.perSession, comps |-> r.comps]
    BY <1>2 DEF Taken
  <2>3. /\ r.comps[i] = n
        /\ \A j \in CompsOf(s) : j # i => r.comps[j] = a.comps[j]
        /\ r.comps \in [CompsOf(s) -> Nodes \cup {None}]
    BY <2>1, <2>2
  <2>4. /\ \A m \in Nodes : m # n => r.free[m] = a.free[m] /\ r.perSession[m] = a.perSession[m]
        /\ r.free[n] = Minus(a.free[n], take)
        /\ DOMAIN r.perSession = Nodes /\ DOMAIN r.free = Nodes
        /\ per2 = Set(per, s, new)
    BY <2>1, <2>2
  <2>5. new \in Account /\ new.memory = BookedFor(s, per) + mem
    <3>1. CASE s \in DOMAIN per
      <4>1. per[s] \in Account
        BY <2>1, <3>1
      <4> QED
        BY <1>2, <3>1, <4>1 DEF Account, Plus, BookedFor
    <3>2. CASE s \notin DOMAIN per
      BY <1>2, <2>1, <3>2 DEF Account, BookedFor
    <3> QED
      BY <3>1, <3>2
  <2>6. /\ r.free[n] \in Account
        /\ r.free[n].memory = a.free[n].memory - mem
    <3>1. a.free[n] \in Account
      BY <2>1
    <3> QED
      BY <1>2, <2>4, <3>1 DEF Account, Minus
  <2>7. r.free \in [Nodes -> Account]
    <3>1. \A m \in Nodes : r.free[m] \in Account
      BY <2>1, <2>4, <2>6
    <3>2. r.free = [m \in Nodes |-> r.free[m]]
      BY <2>1, <2>2
    <3> QED
      BY <3>1, <3>2
  <2> HIDE DEF new
  <2>8. /\ DOMAIN per2 = DOMAIN per \cup {s}
        /\ per2[s] = new
        /\ \A x \in DOMAIN per \ {s} : per2[x] = per[x]
        /\ per2 \in [DOMAIN per2 -> Account]
    <3>1. per2 = [z \in DOMAIN per \cup {s} |-> IF z = s THEN new ELSE per[z]]
      BY <2>4 DEF Set
    <3> HIDE DEF per2
    <3> QED
      BY <2>1, <2>5, <3>1
  <2> HIDE DEF per2, per, mem
  <2>9. SumOver(BookedBy(per2), DOMAIN per2) = SumOver(BookedBy(per), DOMAIN per) + mem
    <3> DEFINE f == BookedBy(per)
               g == BookedBy(per2)
    <3>1. \A x \in DOMAIN per : f[x] = per[x].memory /\ f[x] \in Nat
      BY <2>1 DEF BookedBy, Account
    <3>2. \A x \in DOMAIN per2 : g[x] = per2[x].memory /\ g[x] \in Nat
      BY <2>8 DEF BookedBy, Account
    <3>3. g[s] \in Nat /\ g[s] = (IF s \in DOMAIN per THEN f[s] ELSE 0) + mem
      BY <2>5, <2>8, <3>1, <3>2 DEF BookedFor
    <3>4. \A x \in DOMAIN per \ {s} : g[x] = f[x]
      BY <2>8, <3>1, <3>2
    <3> DEFINE S == DOMAIN per
               U == DOMAIN per2
    <3> HIDE DEF f, g
    <3>5. /\ IsFiniteSet(S) /\ mem \in Int
          /\ \A x \in S : f[x] \in Nat
          /\ g[s] \in Nat /\ g[s] = (IF s \in S THEN f[s] ELSE 0) + mem
          /\ \A x \in S \ {s} : g[x] = f[x]
      BY <2>1, <3>1, <3>3, <3>4
    <3>6. U = S \cup {s}
      BY <2>8
    <3> HIDE DEF S, U
    <3>7. SumOver(g, U) = SumOver(f, S) + mem
      BY <3>5, <3>6, SumPut
    <3> QED
      BY <3>7 DEF f, g, S, U
  <2>10. ASSUME NEW m \in Nodes
         PROVE  SumOver(MemoryAt(s, r.comps, m), CompsOf(s))
                  <= SumOver(MemoryAt(s, a.comps, m), CompsOf(s)) + IF m = n THEN mem ELSE 0
    <3> DEFINE f == MemoryAt(s, a.comps, m)
               g == MemoryAt(s, r.comps, m)
               h == [j \in CompsOf(s) |-> IF j = i /\ m = n THEN mem + f[i] ELSE f[j]]
    <3>1. \A j \in CompsOf(s) : f[j] = (IF a.comps[j] = m THEN Memory(s, j) ELSE 0) /\ f[j] \in Nat
      BY DefinitionIs DEF MemoryAt
    <3>2. \A j \in CompsOf(s) : g[j] = (IF r.comps[j] = m THEN Memory(s, j) ELSE 0) /\ g[j] \in Nat
      BY DefinitionIs DEF MemoryAt
    <3> HIDE DEF f, g
    <3>3. /\ \A j \in CompsOf(s) : h[j] \in Nat
          /\ h[i] = f[i] + IF m = n THEN mem ELSE 0
          /\ \A j \in CompsOf(s) \ {i} : h[j] = f[j]
      BY <2>1, <3>1
    <3>4. \A j \in CompsOf(s) : g[j] \in Int /\ g[j] <= h[j]
      <4>1. \A j \in CompsOf(s) \ {i} : g[j] = f[j]
        BY <2>3, <3>1, <3>2
      <4>2. g[i] = (IF n = m THEN mem ELSE 0)
        BY <2>3, <3>2 DEF mem
      <4>3. f[i] \in Nat
        BY <3>1
      <4> QED
        BY <2>1, <3>2, <3>3, <4>1, <4>2, <4>3
    <3> HIDE DEF h
    <3>5. IsFiniteSet(CompsOf(s)) /\ CompsOf(s) \in SUBSET CompsOf(s)
      BY DefinitionIs
    <3>6. SumOver(g, CompsOf(s)) <= SumOver(h, CompsOf(s))
      BY <3>3, <3>4, <3>5, SumGrows
    <3>7. SumOver(h, CompsOf(s)) = SumOver(f, CompsOf(s)) + IF m = n THEN mem ELSE 0
      <4> DEFINE d == IF m = n THEN mem ELSE 0
                 S == CompsOf(s)
      <4>1. d \in Int /\ h[i] = f[i] + d
        BY <2>1, <3>3
      <4> HIDE DEF d, S
      <4>2. /\ IsFiniteSet(S) /\ d \in Int
            /\ \A j \in S : f[j] \in Nat
            /\ h[i] \in Nat /\ h[i] = (IF i \in S THEN f[i] ELSE 0) + d
            /\ \A j \in S \ {i} : h[j] = f[j]
        BY <3>1, <3>3, <3>5, <4>1 DEF S
      <4>3. S = S \cup {i}
        BY DEF S
      <4>4. SumOver(h, S) = SumOver(f, S) + d
        BY <4>2, <4>3, SumPut
      <4> QED
        BY <4>4 DEF d, S
    <3> QED
      BY <3>6, <3>7 DEF f, g
  <2>11. ASSUME NEW m \in Nodes
         PROVE  /\ r.perSession[m] \in [DOMAIN r.perSession[m] -> Account]
                /\ IsFiniteSet(DOMAIN r.perSession[m])
                /\ r.free[m].memory + SumOver(BookedBy(r.perSession[m]), DOMAIN r.perSession[m]) = Total[m].memory
                /\ SumOver(MemoryAt(s, r.comps, m), CompsOf(s)) <= BookedFor(s, r.perSession[m])
                /\ DOMAIN r.perSession[m] \ {s} = DOMAIN perSession[m] \ {s}
                /\ \A x \in DOMAIN perSession[m] \ {s} : r.perSession[m][x] = perSession[m][x]
    <3>1. /\ a.perSession[m] \in [DOMAIN a.perSession[m] -> Account]
          /\ IsFiniteSet(DOMAIN a.perSession[m])
          /\ a.free[m].memory + SumOver(BookedBy(a.perSession[m]), DOMAIN a.perSession[m]) = Total[m].memory
          /\ SumOver(MemoryAt(s, a.comps, m), CompsOf(s)) <= BookedFor(s, a.perSession[m])
          /\ DOMAIN a.perSession[m] \ {s} = DOMAIN perSession[m] \ {s}
          /\ \A x \in DOMAIN perSession[m] \ {s} : a.perSession[m][x] = perSession[m][x]
      BY DEF IsAllocation
    <3>2. /\ SumOver(MemoryAt(s, r.comps, m), CompsOf(s)) \in Int
          /\ SumOver(MemoryAt(s, a.comps, m), CompsOf(s)) \in Int
      <4>1. \A comps : \A j \in CompsOf(s) : MemoryAt(s, comps, m)[j] \in Int
        BY DefinitionIs DEF MemoryAt
      <4> QED
        BY <4>1, DefinitionIs, SumIsInt
    <3>3. CASE m # n
      <4>1. SumOver(MemoryAt(s, r.comps, m), CompsOf(s)) <= SumOver(MemoryAt(s, a.comps, m), CompsOf(s))
        BY <2>10, <3>2, <3>3
      <4>2. BookedFor(s, a.perSession[m]) \in Int
        BY <3>1 DEF BookedFor, Account
      <4>3. SumOver(MemoryAt(s, r.comps, m), CompsOf(s)) <= BookedFor(s, a.perSession[m])
        BY <3>1, <3>2, <4>1, <4>2
      <4> QED
        BY <2>4, <3>1, <3>3, <4>3
    <3>4. CASE m = n
      <4>1. SumOver(BookedBy(per), DOMAIN per) \in Int
        <5>1. \A x \in DOMAIN per : BookedBy(per)[x] \in Int
          BY <2>1 DEF BookedBy, Account
        <5> QED
          BY <2>1, <5>1, SumIsInt
      <4>2. a.free[n].memory \in Int
        BY <2>1 DEF Account
      <4>3. r.free[n].memory + SumOver(BookedBy(per2), DOMAIN per2) = Total[n].memory
        BY <2>1, <2>6, <2>9, <3>1, <3>4, <4>1, <4>2 DEF per
      <4>4. BookedFor(s, per2) = BookedFor(s, per) + mem /\ BookedFor(s, per) \in Int
        BY <2>1, <2>5, <2>8 DEF BookedFor, Account
      <4>5. SumOver(MemoryAt(s, r.comps, n), CompsOf(s)) <= BookedFor(s, per2)
        <5>1. SumOver(MemoryAt(s, r.comps, n), CompsOf(s)) <= SumOver(MemoryAt(s, a.comps, n), CompsOf(s)) + mem
          BY <2>10
        <5>2. SumOver(MemoryAt(s, a.comps, n), CompsOf(s)) <= BookedFor(s, per)
          BY <3>1, <3>4 DEF per
        <5> QED
          BY <2>1, <3>2, <3>4, <4>4, <5>1, <5>2
      <4>6. IsFiniteSet(DOMAIN per2)
        BY <2>1, <2>8, FS_AddElement
      <4>7. /\ DOMAIN per2 \ {s} = DOMAIN perSession[n] \ {s}
            /\ \A x \in DOMAIN perSession[n] \ {s} : per2[x] = perSession[n][x]
        <5>1. /\ DOMAIN per \ {s} = DOMAIN perSession[n] \ {s}
              /\ \A x \in DOMAIN perSession[n] \ {s} : per[x] = perSession[n][x]
          BY <3>1, <3>4 DEF per
        <5> QED
          BY <2>8, <5>1
      <4> QED
        BY <2>8, <3>4, <4>3, <4>5, <4>6, <4>7 DEF per2
    <3> QED
      BY <3>3, <3>4
  <2>12. IsAllocation(s, r)
    BY <2>2, <2>3, <2>4, <2>7, <2>11 DEF IsAllocation
  <2>13. \A j \in CompsOf(s) : a.comps[j] \in Nodes => r.comps[j] \in Nodes
    BY <2>3
  <2> QED
    BY <2>3, <2>12, <2>13
<1>3. CASE \E n \in Nodes, take \in Account :
                 /\ a.ok
                 /\ take.memory = Memory(s, i) /\ take.memory <= a.free[n].memory
                 /\ r = Taken(s, a, i, n, take)
  <2> HIDE DEF r
  <2>1. a.ok /\ IsAllocation(s, r) /\ r.comps[i] \in Nodes
        /\ \A j \in CompsOf(s) : a.comps[j] \in Nodes => r.comps[j] \in Nodes
    BY <1>2, <1>3
  <2> QED
    BY <2>1 DEF r
<1> HIDE DEF r
<1>4. \/ r = [a EXCEPT !.ok = FALSE]
      \/ \E n \in Nodes, take \in Account :
                 /\ a.ok
                 /\ take.memory = Memory(s, i) /\ take.memory <= a.free[n].memory
                 /\ r = Taken(s, a, i, n, take)
  BY AllocateOneIs DEF r
<1> QED
  BY <1>1, <1>3, <1>4 DEF r

\* One pass over the computations of a session, step by step.
LEMMA AllocateAllIs ==
    ASSUME NEW s \in Sessions, NEW a, NEW variable
    PROVE  \E after :
              /\ after[0] = a
              /\ \A i \in CompsOf(s) :
                    after[i] = IF Variable(Definition[s][i]) = variable
                               THEN AllocateOne(s, after[i - 1], i) ELSE after[i - 1]
              /\ AllocateAll(s, a, variable) = after[Len(Definition[s])]
<1> DEFINE n == Len(Definition[s])
           G(x, i) == IF Variable(Definition[s][i]) = variable THEN AllocateOne(s, x, i) ELSE x
           Steps(f, m) == f = [i \in 0 .. m |-> IF i = 0 THEN a ELSE G(f[i - 1], i)]
           Without == {m \in 0 .. n : ~ \E f : Steps(f, m)}
<1>1. n \in Nat /\ CompsOf(s) = 1 .. n
  BY DefinitionIs
<1>2. AllocateAll(s, a, variable) = (CHOOSE f : Steps(f, n))[n]
  BY DEF AllocateAll
<1> HIDE DEF n, G
<1>3. \E f : Steps(f, n)
  <2>1. SUFFICES ASSUME Without # {} PROVE FALSE
    <3>1. n \in 0 .. n
      BY <1>1
    <3> HIDE DEF Steps
    <3> QED
      BY <2>1, <3>1
  <2>2. PICK m \in Without : \A y \in Without : m <= y
    <3>1. Without \subseteq Nat
      BY <1>1
    <3> HIDE DEF Without
    <3> QED
      BY ONLY <2>1, <3>1, LeastNumber
  <2>3. CASE m = 0
    <3>1. Steps([i \in 0 .. 0 |-> a], 0)
      OBVIOUS
    <3> QED
      BY <2>3, <3>1
  <2>4. CASE m # 0
    <3>0. m \in 0 .. n
      OBVIOUS
    <3>1. m - 1 \in 0 .. n /\ m \in Nat /\ ~ (m <= m - 1)
      BY <1>1, <2>4, <3>0
    <3>2. PICK f : Steps(f, m - 1)
      <4> HIDE DEF Steps
      <4> QED
        BY <2>2, <3>1
    <3> DEFINE g == [i \in 0 .. m |-> IF i = 0 THEN a ELSE G(f[i - 1], i)]
    <3>3. ASSUME NEW i \in 0 .. m, i # 0 PROVE g[i - 1] = f[i - 1]
      <4>1. i - 1 \in 0 .. m /\ i - 1 \in 0 .. m - 1
        BY <3>1, <3>3
      <4>2. g[i - 1] = IF i - 1 = 0 THEN a ELSE G(f[i - 1 - 1], i - 1)
        BY <4>1
      <4>3. f[i - 1] = IF i - 1 = 0 THEN a ELSE G(f[i - 1 - 1], i - 1)
        BY <3>2, <4>1
      <4> QED
        BY <4>2, <4>3
    <3>4. g = [i \in 0 .. m |-> IF i = 0 THEN a ELSE G(g[i - 1], i)]
      BY <3>3
    <3> QED
      BY <3>4
  <2> QED
    BY <2>3, <2>4
<1> DEFINE after == CHOOSE f : Steps(f, n)
<1>4. Steps(after, n)
  <2> HIDE DEF Steps
  <2> QED
    BY <1>3
<1>5. AllocateAll(s, a, variable) = after[n]
  BY <1>2
<1> HIDE DEF after
<1>6. 0 \in 0 .. n /\ \A i \in CompsOf(s) : i \in 0 .. n /\ i # 0
  BY <1>1
<1>7. after[0] = a
  BY <1>4, <1>6
<1>8. \A i \in CompsOf(s) : after[i] = G(after[i - 1], i)
  BY <1>4, <1>6
<1> QED
  BY <1>5, <1>7, <1>8 DEF G, n

\* A pass that does not fail assigns every computation it is for.
LEMMA AllocateAllKeeps ==
    ASSUME NEW s \in Sessions, NEW a, IsAllocation(s, a), NEW variable, nodes \in Seq(Nodes)
    PROVE  /\ IsAllocation(s, AllocateAll(s, a, variable))
           /\ AllocateAll(s, a, variable).ok =>
                 /\ a.ok
                 /\ \A j \in CompsOf(s) :
                       a.comps[j] \in Nodes \/ Variable(Definition[s][j]) = variable =>
                           AllocateAll(s, a, variable).comps[j] \in Nodes
<1>1. PICK after :
              /\ after[0] = a
              /\ \A i \in CompsOf(s) :
                    after[i] = IF Variable(Definition[s][i]) = variable
                               THEN AllocateOne(s, after[i - 1], i) ELSE after[i - 1]
              /\ AllocateAll(s, a, variable) = after[Len(Definition[s])]
  BY AllocateAllIs
<1> DEFINE n == Len(Definition[s])
           Good(i) == /\ IsAllocation(s, after[i])
                      /\ after[i].ok =>
                           /\ a.ok
                           /\ \A j \in CompsOf(s) :
                                 a.comps[j] \in Nodes \/ (j <= i /\ Variable(Definition[s][j]) = variable) =>
                                     after[i].comps[j] \in Nodes
           Bad == {i \in 0 .. n : ~ Good(i)}
<1>2. n \in Nat /\ CompsOf(s) = 1 .. n
  BY DefinitionIs
<1>3. Good(n)
  <2>1. SUFFICES ASSUME Bad # {} PROVE FALSE
    <3>1. n \in 0 .. n
      BY <1>2
    <3> HIDE DEF Good, n
    <3> QED
      BY <2>1, <3>1
  <2>2. PICK m \in Bad : \A y \in Bad : m <= y
    <3>1. Bad \subseteq Nat
      BY <1>2
    <3> HIDE DEF Bad
    <3> QED
      BY ONLY <2>1, <3>1, LeastNumber
  <2>3. Good(0)
    <3>1. \A j \in CompsOf(s) : ~ (j <= 0)
      BY <1>2
    <3> QED
      BY <1>1, <3>1
  <2> HIDE DEF n
  <2>4. m \in CompsOf(s) /\ m \in Nat /\ ~ Good(m)
    <3>1. m \in 0 .. n /\ ~ Good(m)
      OBVIOUS
    <3>2. m # 0
      BY <2>3, <3>1
    <3> HIDE DEF Good
    <3> QED
      BY <1>2, <3>1, <3>2
  <2>5. Good(m - 1)
    <3>1. m - 1 \in 0 .. n /\ ~ (m <= m - 1)
      BY <1>2, <2>4
    <3> HIDE DEF Good
    <3> QED
      BY <2>2, <3>1
  <2>6. \A j \in CompsOf(s) : j <= m => j <= m - 1 \/ j = m
    BY <1>2, <2>4
  <2> DEFINE b == after[m - 1]
             c == after[m]
  <2>7. c = IF Variable(Definition[s][m]) = variable THEN AllocateOne(s, b, m) ELSE b
    BY <1>1, <2>4
  <2>8. IsAllocation(s, b)
    BY <2>5
  <2>9. b.ok =>
           /\ a.ok
           /\ \A j \in CompsOf(s) :
                 a.comps[j] \in Nodes \/ (j <= m - 1 /\ Variable(Definition[s][j]) = variable) =>
                     b.comps[j] \in Nodes
    BY <2>5
  <2> HIDE DEF b, c
  <2>10. CASE Variable(Definition[s][m]) = variable
    <3>1. c = AllocateOne(s, b, m)
      BY <2>7, <2>10
    <3>2. /\ IsAllocation(s, c)
          /\ c.ok => /\ b.ok
                     /\ c.comps[m] \in Nodes
                     /\ \A j \in CompsOf(s) : b.comps[j] \in Nodes => c.comps[j] \in Nodes
      BY <2>4, <2>8, <3>1, AllocateOneKeeps
    <3>3. c.ok =>
           /\ a.ok
           /\ \A j \in CompsOf(s) :
                 a.comps[j] \in Nodes \/ (j <= m /\ Variable(Definition[s][j]) = variable) =>
                     c.comps[j] \in Nodes
      BY <2>6, <2>9, <3>2
    <3> QED
      BY <2>4, <3>2, <3>3 DEF c
  <2>11. CASE Variable(Definition[s][m]) # variable
    <3>1. c = b
      BY <2>7, <2>11
    <3>3. c.ok =>
           /\ a.ok
           /\ \A j \in CompsOf(s) :
                 a.comps[j] \in Nodes \/ (j <= m /\ Variable(Definition[s][j]) = variable) =>
                     c.comps[j] \in Nodes
      BY <2>6, <2>9, <2>11, <3>1
    <3> QED
      BY <2>4, <2>8, <3>1, <3>3 DEF c
  <2> QED
    BY <2>10, <2>11
<1>4. \A j \in CompsOf(s) : j <= n
  BY <1>2
<1> DEFINE r == AllocateAll(s, a, variable)
<1>5. r = after[n]
  BY <1>1
<1>6. /\ IsAllocation(s, r)
      /\ r.ok =>
           /\ a.ok
           /\ \A j \in CompsOf(s) :
                 a.comps[j] \in Nodes \/ (j <= n /\ Variable(Definition[s][j]) = variable) =>
                     r.comps[j] \in Nodes
  <2> HIDE DEF r, n
  <2> QED
    BY <1>3, <1>5
<1> HIDE DEF n, r
<1>7. r.ok =>
           /\ a.ok
           /\ \A j \in CompsOf(s) :
                 a.comps[j] \in Nodes \/ Variable(Definition[s][j]) = variable =>
                     r.comps[j] \in Nodes
  BY <1>4, <1>6
<1> QED
  BY <1>6, <1>7 DEF r

\* A session that is allocated has a node for each of its computations.
LEMMA AllocationKeeps ==
    ASSUME NEW s \in Sessions, nodes \in Seq(Nodes),
           IsAllocation(s, [ok |-> TRUE, free |-> free, perSession |-> perSession, comps |-> nodeId[s]])
    PROVE  /\ IsAllocation(s, Allocation(s))
           /\ Allocation(s).ok => Allocation(s).comps \in [CompsOf(s) -> Nodes]
<1> DEFINE a == [ok |-> TRUE, free |-> free, perSession |-> perSession, comps |-> nodeId[s]]
           b == AllocateAll(s, a, FALSE)
           c == AllocateAll(s, b, TRUE)
<1>1. Allocation(s) = c
  BY DEF Allocation
<1> HIDE DEF a
<1>2. IsAllocation(s, a)
  BY DEF a
<1>3. /\ IsAllocation(s, b)
      /\ b.ok => \A j \in CompsOf(s) : Variable(Definition[s][j]) = FALSE => b.comps[j] \in Nodes
  BY <1>2, AllocateAllKeeps
<1> HIDE DEF b
<1>4. /\ IsAllocation(s, c)
      /\ c.ok =>
           /\ b.ok
           /\ \A j \in CompsOf(s) :
                 b.comps[j] \in Nodes \/ Variable(Definition[s][j]) = TRUE => c.comps[j] \in Nodes
  BY <1>3, AllocateAllKeeps
<1>5. \A j \in CompsOf(s) : Variable(Definition[s][j]) \in BOOLEAN
  BY DEF Variable
<1> HIDE DEF c
<1>6. c.ok => \A j \in CompsOf(s) : c.comps[j] \in Nodes
  BY <1>3, <1>4, <1>5
<1>7. c.comps \in [CompsOf(s) -> Nodes \cup {None}]
  BY <1>4 DEF IsAllocation
<1>8. c.ok => c.comps \in [CompsOf(s) -> Nodes]
  BY <1>6, <1>7
<1> QED
  BY <1>1, <1>4, <1>8

\* Of the nodes of a session each is in the sequence in which they are called,
\* and no other.
LEMMA InOrderIs ==
    ASSUME NEW n \in Nat, NEW S, NEW h \in [1 .. n -> S]
    PROVE  InOrder(h) \in Seq(S) /\ Range(InOrder(h)) = {h[i] : i \in 1 .. n}
<1> DEFINE G(q, k) == IF h[k] \in Range(q) THEN q ELSE Append(q, h[k])
           Steps(f, m) == f = [k \in 0 .. m |-> IF k = 0 THEN <<>> ELSE G(f[k - 1], k)]
           Good(q, k) == q \in Seq(S) /\ Range(q) = {h[i] : i \in 1 .. k}
           Without == {m \in 0 .. n : ~ \E f : Steps(f, m) /\ Good(f[m], m)}
<1>1. Len(h) = n
  OBVIOUS
<1>2. InOrder(h) = (CHOOSE f : Steps(f, n))[n]
  BY <1>1 DEF InOrder
<1>3. \A q \in Seq(S), x \in S : Append(q, x) \in Seq(S) /\ Range(Append(q, x)) = Range(q) \cup {x}
  <2> SUFFICES ASSUME NEW q \in Seq(S), NEW x \in S
               PROVE  Append(q, x) \in Seq(S) /\ Range(Append(q, x)) = Range(q) \cup {x}
    OBVIOUS
  <2>1. /\ Append(q, x) \in Seq(S) /\ Len(q) \in Nat
        /\ DOMAIN q = 1 .. Len(q) /\ DOMAIN Append(q, x) = 1 .. Len(q) + 1
        /\ Append(q, x)[Len(q) + 1] = x
        /\ \A i \in 1 .. Len(q) : Append(q, x)[i] = q[i]
    OBVIOUS
  <2>2. ASSUME NEW y PROVE y \in Range(Append(q, x)) <=> y \in Range(q) \/ y = x
    <3>1. y \in Range(Append(q, x)) <=> \E i \in 1 .. Len(q) + 1 : y = Append(q, x)[i]
      BY <2>1 DEF Range
    <3>2. y \in Range(q) <=> \E i \in 1 .. Len(q) : y = q[i]
      BY <2>1 DEF Range
    <3>3. \A i : i \in 1 .. Len(q) + 1 <=> i \in 1 .. Len(q) \/ i = Len(q) + 1
      BY <2>1
    <3> QED
      BY <2>1, <3>1, <3>2, <3>3
  <2> QED
    BY <2>1, <2>2
<1>4. \E f : Steps(f, n) /\ Good(f[n], n)
  <2>1. SUFFICES ASSUME Without # {} PROVE FALSE
    <3>1. n \in 0 .. n
      OBVIOUS
    <3> HIDE DEF Steps, Good
    <3> QED
      BY <2>1, <3>1
  <2>2. PICK m \in Without : \A y \in Without : m <= y
    <3>1. Without \subseteq Nat
      OBVIOUS
    <3> HIDE DEF Without
    <3> QED
      BY ONLY <2>1, <3>1, LeastNumber
  <2>3. CASE m = 0
    <3> DEFINE f == [k \in 0 .. 0 |-> <<>>]
    <3>1. Steps(f, 0)
      OBVIOUS
    <3>2. Good(f[0], 0)
      BY DEF Range
    <3> HIDE DEF Steps, Good, f
    <3> QED
      BY <2>3, <3>1, <3>2
  <2>4. CASE m # 0
    <3>0. m \in 0 .. n
      OBVIOUS
    <3>1. m - 1 \in 0 .. n /\ m \in Nat /\ m \in 1 .. n /\ ~ (m <= m - 1)
      BY <2>4, <3>0
    <3>2. PICK f : Steps(f, m - 1) /\ Good(f[m - 1], m - 1)
      <4> HIDE DEF Steps, Good
      <4> QED
        BY <2>2, <3>1
    <3> HIDE DEF G, Good
    <3> DEFINE g == [k \in 0 .. m |-> IF k = 0 THEN <<>> ELSE G(f[k - 1], k)]
    <3>3. ASSUME NEW k \in 0 .. m, k # 0 PROVE g[k - 1] = f[k - 1]
      <4>1. k - 1 \in 0 .. m /\ k - 1 \in 0 .. m - 1
        BY <3>1, <3>3
      <4>2. g[k - 1] = IF k - 1 = 0 THEN <<>> ELSE G(f[k - 1 - 1], k - 1)
        BY <4>1
      <4>3. f[k - 1] = IF k - 1 = 0 THEN <<>> ELSE G(f[k - 1 - 1], k - 1)
        BY <3>2, <4>1
      <4> QED
        BY <4>2, <4>3
    <3>4. g = [k \in 0 .. m |-> IF k = 0 THEN <<>> ELSE G(g[k - 1], k)]
      BY <3>3
    <3>5. g[m] = G(f[m - 1], m)
      BY <3>1, <2>4
    <3>6. Good(g[m], m)
      <4> DEFINE q == f[m - 1]
      <4> HIDE DEF q, g
      <4>1. q \in Seq(S) /\ Range(q) = {h[i] : i \in 1 .. m - 1} /\ h[m] \in S
        BY <3>1, <3>2 DEF Good, q
      <4>2. {h[i] : i \in 1 .. m} = {h[i] : i \in 1 .. m - 1} \cup {h[m]}
        <5>1. \A i : i \in 1 .. m <=> i \in 1 .. m - 1 \/ i = m
          BY <3>1
        <5> QED
          BY <5>1
      <4>3. Good(G(q, m), m)
        <5>1. CASE h[m] \in Range(q)
          BY <4>1, <4>2, <5>1 DEF G, Good
        <5>2. CASE h[m] \notin Range(q)
          BY <1>3, <4>1, <4>2, <5>2 DEF G, Good
        <5> QED
          BY <5>1, <5>2
      <4> QED
        BY <3>5, <4>3 DEF q
    <3> QED
      BY <3>4, <3>6
  <2> QED
    BY <2>3, <2>4
<1>5. \A f, g : Steps(f, n) /\ Steps(g, n) => f = g
  <2> SUFFICES ASSUME NEW f, NEW g, Steps(f, n), Steps(g, n) PROVE f = g
    OBVIOUS
  <2> HIDE DEF G
  <2> DEFINE Bad == {k \in 0 .. n : f[k] # g[k]}
  <2>1. CASE Bad # {}
    <3>1. PICK m \in Bad : \A y \in Bad : m <= y
      <4>1. Bad \subseteq Nat
        OBVIOUS
      <4> HIDE DEF Bad
      <4> QED
        BY ONLY <2>1, <4>1, LeastNumber
    <3>2. m \in 0 .. n /\ f[m] # g[m]
      OBVIOUS
    <3>3. CASE m = 0
      BY <3>2, <3>3
    <3>4. CASE m # 0
      <4>1. m - 1 \in 0 .. n /\ ~ (m <= m - 1)
        BY <3>2, <3>4
      <4>2. f[m - 1] = g[m - 1]
        BY <3>1, <4>1
      <4>3. f[m] = G(f[m - 1], m) /\ g[m] = G(g[m - 1], m)
        BY <3>2, <3>4
      <4> QED
        BY <3>2, <4>2, <4>3
    <3> QED
      BY <3>3, <3>4
  <2>2. CASE Bad = {}
    <3>1. \A k \in 0 .. n : f[k] = g[k]
      BY <2>2
    <3>2. f = [k \in 0 .. n |-> f[k]] /\ g = [k \in 0 .. n |-> g[k]]
      OBVIOUS
    <3> QED
      BY <3>1, <3>2
  <2> QED
    BY <2>1, <2>2
<1>6. Good(InOrder(h), n)
  <2> HIDE DEF Steps, Good
  <2>1. PICK f : Steps(f, n) /\ Good(f[n], n)
    BY <1>4
  <2>2. Steps(CHOOSE g : Steps(g, n), n)
    BY <2>1
  <2>3. (CHOOSE g : Steps(g, n)) = f
    BY <1>5, <2>1, <2>2
  <2> QED
    BY <1>2, <2>1, <2>3
<1> QED
  BY <1>6

-----------------------------------------------------------------------------
(* Every step preserves the invariant.                                     *)

\* What a step leaves alone it preserves.
LEMMA PartsKept ==
    ASSUME CoordInv
    PROVE  /\ UNCHANGED <<nodes, node>> => NewAreNotListed'
           /\ UNCHANGED <<requested, nodeId>> => NoneIsAssigned'
           /\ UNCHANGED <<readyCount, events, ready>> => ReportsAreTrue'
           /\ UNCHANGED <<state, launched>> => RunningIsLaunched'
           /\ UNCHANGED <<request, nodeId, ready, told>> => RequestIsSound'
           /\ request' = NoRequest => RequestIsSound'
           /\ UNCHANGED <<told, nodeId>> => ToldAreHosts'
           /\ UNCHANGED <<ready, nodeId>> => ReadyIsAssigned'
           /\ UNCHANGED <<free, perSession>> => AccountsBalance'
           /\ UNCHANGED <<perSession, requested, nodeId>> => MemoryIsBooked'
<1>1. UNCHANGED <<nodes, node>> => NewAreNotListed'
  BY DEF CoordInv, NewAreNotListed, Range
<1>2. UNCHANGED <<requested, nodeId>> => NoneIsAssigned'
  BY DEF CoordInv, NoneIsAssigned
<1>3. UNCHANGED <<readyCount, events, ready>> => ReportsAreTrue'
  BY DEF CoordInv, ReportsAreTrue, Reports
<1>4. UNCHANGED <<state, launched>> => RunningIsLaunched'
  BY DEF CoordInv, RunningIsLaunched
<1>5. UNCHANGED <<request, nodeId, ready, told>> => RequestIsSound'
  BY DEF CoordInv, RequestIsSound, Assigned, HostsOf, Range
<1>6. request' = NoRequest => RequestIsSound'
  BY DEF RequestIsSound, NoRequest
<1>7. UNCHANGED <<told, nodeId>> => ToldAreHosts'
  BY DEF CoordInv, ToldAreHosts, HostsOf
<1>10. UNCHANGED <<ready, nodeId>> => ReadyIsAssigned'
  BY DEF CoordInv, ReadyIsAssigned
<1>8. UNCHANGED <<free, perSession>> => AccountsBalance'
  BY DEF CoordInv, AccountsBalance, BookedBy
<1>9. UNCHANGED <<perSession, requested, nodeId>> => MemoryIsBooked'
  BY DEF CoordInv, MemoryIsBooked, MemoryAt
<1> QED
  BY <1>1, <1>2, <1>3, <1>4, <1>5, <1>6, <1>7, <1>8, <1>9, <1>10

\* An event that is no report leaves the reports alone, and so do those that are
\* never sent.
LEMMA ReportsWithout ==
    ASSUME CoordInv, UNCHANGED <<readyCount, ready>>, NEW n \in Nodes,
           \/ \E s \in Sessions : Send(n, "terminate", s)
           \/ events' = [events EXCEPT ![n] = <<>>]
    PROVE  ReportsAreTrue' /\ events' \in [Nodes -> Seq(EventOf)]
<1>1. events \in [Nodes -> Seq(EventOf)]
  BY DEF CoordInv, TypesAreKept
<1>2. ASSUME NEW q \in Seq(EventOf), events' = [events EXCEPT ![n] = q],
             \A k \in 1 .. Len(q) : q[k].type = "ready" => k \in 1 .. Len(events[n]) /\ q[k] = events[n][k]
      PROVE  ReportsAreTrue' /\ events' \in [Nodes -> Seq(EventOf)]
  <2>1. ASSUME NEW s \in Sessions PROVE Reports(s)' \subseteq Reports(s)
    <3> SUFFICES ASSUME NEW m \in Nodes, NEW k \in Nat \ {0}, <<m, k>> \in Reports(s)'
                 PROVE  <<m, k>> \in Reports(s)
      BY DEF Reports
    <3>1. k <= Len(events'[m]) /\ events'[m][k] = [type |-> "ready", s |-> s]
      BY DEF Reports
    <3>2. CASE m = n
      <4>1. events'[m] = q
        BY <1>1, <1>2, <3>2
      <4>2. k \in 1 .. Len(q) /\ q[k].type = "ready"
        BY <3>1, <4>1
      <4>3. k <= Len(events[n]) /\ q[k] = events[n][k]
        BY <1>2, <4>2
      <4> QED
        BY <3>1, <3>2, <4>1, <4>3 DEF Reports
    <3>3. CASE m # n
      BY <1>1, <1>2, <3>1, <3>3 DEF Reports
    <3> QED
      BY <3>2, <3>3
  <2>2. ASSUME NEW s \in Sessions
        PROVE  /\ IsFiniteSet(Reports(s)') /\ Cardinality(Reports(s)') \in Nat
               /\ Cardinality(Reports(s)) \in Nat
               /\ Cardinality(Reports(s)') <= Cardinality(Reports(s))
    BY <2>1, FS_Subset, FS_CardinalityType DEF CoordInv, ReportsAreTrue
  <2>3. ASSUME NEW s \in Sessions
        PROVE  /\ readyCount[s] \in Nat /\ Cardinality(ready[s]) \in Int
               /\ readyCount[s] + Cardinality(Reports(s)) <= Cardinality(ready[s])
    <3>1. ready[s] \subseteq CompsOf(s) /\ readyCount[s] \in Nat
      BY DEF CoordInv, TypesAreKept
    <3> QED
      BY <3>1, DefinitionIs, FS_Subset, FS_CardinalityType DEF CoordInv, ReportsAreTrue
  <2>4. ASSUME NEW s \in Sessions
        PROVE  readyCount[s] + Cardinality(Reports(s)') <= Cardinality(ready[s])
    BY <2>2, <2>3
  <2> QED
    BY <1>1, <1>2, <2>2, <2>4 DEF ReportsAreTrue
<1>3. CASE \E s \in Sessions : Send(n, "terminate", s)
  <2>1. PICK s \in Sessions : events' = [events EXCEPT ![n] = Append(events[n], [type |-> "terminate", s |-> s])]
    BY <1>1, <1>3 DEF Send
  <2> DEFINE e == [type |-> "terminate", s |-> s]
             q == Append(events[n], e)
  <2>2. e \in EventOf /\ events[n] \in Seq(EventOf) /\ e.type # "ready"
    BY <1>1 DEF EventOf
  <2> HIDE DEF e
  <2>3. q \in Seq(EventOf) /\ \A k \in 1 .. Len(q) : q[k].type = "ready" => k \in 1 .. Len(events[n]) /\ q[k] = events[n][k]
    BY <2>2
  <2> QED
    BY <1>2, <2>1, <2>3 DEF e
<1>4. CASE events' = [events EXCEPT ![n] = <<>>]
  <2>1. <<>> \in Seq(EventOf) /\ 1 .. Len(<<>>) = {}
    OBVIOUS
  <2>2. \A k \in 1 .. Len(<<>>) : <<>>[k].type = "ready" => k \in 1 .. Len(events[n]) /\ <<>>[k] = events[n][k]
    BY <2>1
  <2> QED
    BY ONLY <1>2, <1>4, <2>1, <2>2
<1> QED
  BY <1>3, <1>4

\* A computation that was not ready reports.
LEMMA ReportsWith ==
    ASSUME CoordInv, UNCHANGED readyCount, NEW n \in Nodes, NEW s \in Sessions, Send(n, "ready", s),
           NEW i \in CompsOf(s), i \notin ready[s], ready' = [ready EXCEPT ![s] = @ \cup {i}]
    PROVE  ReportsAreTrue' /\ events' \in [Nodes -> Seq(EventOf)]
<1> DEFINE e == [type |-> "ready", s |-> s]
           new == <<n, Len(events[n]) + 1>>
<1>1. events \in [Nodes -> Seq(EventOf)] /\ DOMAIN ready = Sessions
  BY DEF CoordInv, TypesAreKept
<1>2. /\ events' = [events EXCEPT ![n] = Append(events[n], e)]
      /\ e \in EventOf /\ events[n] \in Seq(EventOf) /\ Len(events[n]) \in Nat
  <2>1. events[n] \in Seq(EventOf)
    BY <1>1
  <2>2. e \in EventOf
    BY DEF EventOf
  <2>3. events' = [events EXCEPT ![n] = Append(@, e)]
    BY DEF Send
  <2> HIDE DEF e
  <2>4. events' = [events EXCEPT ![n] = Append(events[n], e)]
    BY <1>1, <2>3
  <2>5. Len(events[n]) \in Nat
    BY <2>1
  <2> QED
    BY <2>1, <2>2, <2>4, <2>5
<1> HIDE DEF e
<1>3. /\ Append(events[n], e) \in Seq(EventOf)
      /\ Len(Append(events[n], e)) = Len(events[n]) + 1
      /\ \A k \in 1 .. Len(events[n]) : Append(events[n], e)[k] = events[n][k]
      /\ Append(events[n], e)[Len(events[n]) + 1] = e
  BY <1>2
<1>4. /\ \A m \in Nodes : m # n => events'[m] = events[m]
      /\ Len(events'[n]) = Len(events[n]) + 1
      /\ \A k \in 1 .. Len(events[n]) : events'[n][k] = events[n][k]
      /\ events'[n][Len(events[n]) + 1] = e
      /\ events' \in [Nodes -> Seq(EventOf)]
  BY <1>1, <1>2, <1>3
<1>5. ASSUME NEW x \in Sessions
      PROVE  Reports(x)' = IF x = s THEN Reports(x) \cup {new} ELSE Reports(x)
  <2>1. ASSUME NEW m \in Nodes, NEW k \in Nat \ {0}
        PROVE  <<m, k>> \in Reports(x)' <=> <<m, k>> \in Reports(x) \/ (x = s /\ <<m, k>> = new)
    <3>1. <<m, k>> \in Reports(x)' <=> k <= Len(events'[m]) /\ events'[m][k] = [type |-> "ready", s |-> x]
      BY DEF Reports
    <3>2. <<m, k>> \in Reports(x) <=> k <= Len(events[m]) /\ events[m][k] = [type |-> "ready", s |-> x]
      BY DEF Reports
    <3>3. CASE m # n
      BY <1>4, <3>1, <3>2, <3>3
    <3>4. CASE m = n /\ k <= Len(events[n])
      <4>1. k \in 1 .. Len(events[n]) /\ k # Len(events[n]) + 1 /\ k <= Len(events[n]) + 1
        BY <1>2, <3>4
      <4> QED
        BY <1>4, <3>1, <3>2, <3>4, <4>1
    <3>5. CASE m = n /\ k = Len(events[n]) + 1
      <4>1. ~ (k <= Len(events[n])) /\ k <= Len(events'[n])
        BY <1>2, <1>4, <3>5
      <4>2. e = [type |-> "ready", s |-> x] <=> x = s
        BY DEF e
      <4> QED
        BY <1>4, <3>1, <3>2, <3>5, <4>1, <4>2
    <3>6. CASE m = n /\ k > Len(events[n]) + 1
      <4>1. ~ (k <= Len(events[n])) /\ ~ (k <= Len(events'[n])) /\ <<m, k>> # new
        BY <1>2, <1>4, <3>6
      <4> QED
        BY <3>1, <3>2, <3>6, <4>1
    <3> QED
      BY <1>2, <3>3, <3>4, <3>5, <3>6
  <2>2. /\ Reports(x) \subseteq Nodes \X (Nat \ {0})
        /\ Reports(x)' \subseteq Nodes \X (Nat \ {0})
    BY DEF Reports
  <2>3. new \in Nodes \X (Nat \ {0})
    BY <1>2
  <2> HIDE DEF new
  <2> QED
    BY <2>1, <2>2, <2>3
<1>6. new \notin Reports(s)
  BY <1>2 DEF Reports
<1> HIDE DEF new
<1>7. ASSUME NEW x \in Sessions
      PROVE  /\ IsFiniteSet(Reports(x)')
             /\ readyCount'[x] + Cardinality(Reports(x)') <= Cardinality(ready'[x])
  <2>1. /\ readyCount[x] \in Nat /\ IsFiniteSet(Reports(x)) /\ IsFiniteSet(ready[x])
        /\ Cardinality(Reports(x)) \in Nat /\ Cardinality(ready[x]) \in Nat
        /\ readyCount[x] + Cardinality(Reports(x)) <= Cardinality(ready[x])
    <3>1. ready[x] \subseteq CompsOf(x) /\ readyCount[x] \in Nat
      BY DEF CoordInv, TypesAreKept
    <3> QED
      BY <3>1, DefinitionIs, FS_Subset, FS_CardinalityType DEF CoordInv, ReportsAreTrue
  <2>2. CASE x = s
    <3>1. Reports(x)' = Reports(x) \cup {new} /\ ready'[x] = ready[x] \cup {i}
      BY <1>1, <1>5, <2>2
    <3>2. IsFiniteSet(Reports(x)') /\ Cardinality(Reports(x)') = Cardinality(Reports(x)) + 1
      BY <1>6, <2>1, <2>2, <3>1, FS_AddElement
    <3>3. Cardinality(ready'[x]) = Cardinality(ready[x]) + 1
      BY <2>1, <2>2, <3>1, FS_AddElement
    <3> QED
      BY <2>1, <3>2, <3>3
  <2>3. CASE x # s
    <3>1. Reports(x)' = Reports(x) /\ ready'[x] = ready[x]
      BY <1>1, <1>5, <2>3
    <3> QED
      BY <2>1, <3>1
  <2> QED
    BY <2>2, <2>3
<1> QED
  BY <1>4, <1>7 DEF ReportsAreTrue

\* Taking the event at the head of a queue is taking one report, if it is one.
LEMMA ReportsTaken ==
    ASSUME CoordInv, NEW n \in Nodes, events[n] # <<>>, events' = [events EXCEPT ![n] = Tail(@)],
           NEW x \in Sessions
    PROVE  /\ events' \in [Nodes -> Seq(EventOf)]
           /\ Head(events[n]) \in EventOf
           /\ IsFiniteSet(Reports(x)') /\ Cardinality(Reports(x)') \in Nat
           /\ Cardinality(Reports(x)) \in Nat
           /\ Cardinality(Reports(x)') <= Cardinality(Reports(x))
           /\ Head(events[n]) = [type |-> "ready", s |-> x] =>
                 Cardinality(Reports(x)') <= Cardinality(Reports(x)) - 1
<1> DEFINE q == events[n]
           r == Tail(q)
<1>1. events \in [Nodes -> Seq(EventOf)] /\ q \in Seq(EventOf)
  BY DEF CoordInv, TypesAreKept
<1>2. /\ r \in Seq(EventOf) /\ Len(q) \in Nat \ {0} /\ Len(r) = Len(q) - 1
      /\ \A k \in 1 .. Len(r) : r[k] = q[k + 1]
      /\ Head(q) = q[1] /\ Head(q) \in EventOf
  BY <1>1
<1>3. /\ \A m \in Nodes : m # n => events'[m] = events[m]
      /\ events'[n] = r
      /\ events' \in [Nodes -> Seq(EventOf)]
  BY <1>1, <1>2
<1> HIDE DEF r
<1> DEFINE Behind(y) == IF y[1] = n THEN <<n, y[2] + 1>> ELSE y
           f == [y \in Reports(x)' |-> Behind(y)]
           T == Reports(x) \ {<<n, 1>>}
<1>4. IsFiniteSet(Reports(x)) /\ Cardinality(Reports(x)) \in Nat /\ IsFiniteSet(T) /\ Cardinality(T) \in Nat
      /\ Cardinality(T) <= Cardinality(Reports(x))
  BY FS_Subset, FS_CardinalityType DEF CoordInv, ReportsAreTrue
<1>5. ASSUME NEW y \in Reports(x)' PROVE Behind(y) \in T
  <2>1. PICK m \in Nodes, k \in Nat \ {0} : y = <<m, k>>
    BY DEF Reports
  <2>2. k <= Len(events'[m]) /\ events'[m][k] = [type |-> "ready", s |-> x]
    BY <2>1 DEF Reports
  <2>3. CASE m = n
    <3>1. k \in 1 .. Len(r) /\ r[k] = [type |-> "ready", s |-> x]
      BY <1>3, <2>2, <2>3
    <3>2. k + 1 <= Len(q) /\ q[k + 1] = [type |-> "ready", s |-> x] /\ k + 1 \in Nat \ {0} /\ k + 1 # 1
      BY <1>2, <3>1
    <3>3. <<n, k + 1>> \in Reports(x)
      BY <3>2 DEF Reports
    <3> QED
      BY <2>1, <2>3, <3>2, <3>3
  <2>4. CASE m # n
    <3>1. <<m, k>> \in Reports(x)
      BY <1>3, <2>2, <2>4 DEF Reports
    <3> QED
      BY <2>1, <2>4, <3>1
  <2> QED
    BY <2>3, <2>4
<1>6. ASSUME NEW y \in Reports(x)', NEW z \in Reports(x)', Behind(y) = Behind(z) PROVE y = z
  <2>1. PICK m \in Nodes, k \in Nat \ {0} : y = <<m, k>>
    BY DEF Reports
  <2>2. PICK u \in Nodes, l \in Nat \ {0} : z = <<u, l>>
    BY DEF Reports
  <2> QED
    BY <1>6, <2>1, <2>2
<1>7. f \in Injection(Reports(x)', T)
  <2>1. f \in [Reports(x)' -> T]
    BY <1>5
  <2>2. \A y, z \in Reports(x)' : f[y] = f[z] => y = z
    BY <1>6
  <2> HIDE DEF f
  <2> QED
    BY <2>1, <2>2 DEF Injection, IsInjective
<1>8. IsFiniteSet(Reports(x)') /\ Cardinality(Reports(x)') <= Cardinality(T)
  BY <1>4, <1>7, FS_Injection
<1>9. Cardinality(Reports(x)') \in Nat
  BY <1>8, FS_CardinalityType
<1>10. ASSUME Head(q) = [type |-> "ready", s |-> x]
       PROVE  Cardinality(T) = Cardinality(Reports(x)) - 1
  <2>1. <<n, 1>> \in Reports(x)
    BY <1>2, <1>10 DEF Reports
  <2> QED
    BY <1>4, <2>1, FS_RemoveElement
<1> HIDE DEF T
<1> QED
  BY <1>2, <1>3, <1>4, <1>8, <1>9, <1>10

\* A sum of nothing is nothing.
LEMMA SumOfZeros ==
    ASSUME NEW f, NEW S, IsFiniteSet(S), \A x \in S : f[x] = 0
    PROVE  SumOver(f, S) = 0
<1> DEFINE Bad == {Cardinality(T) : T \in {U \in SUBSET S : SumOver(f, U) # 0}}
<1>1. \A T \in SUBSET S : IsFiniteSet(T) /\ Cardinality(T) \in Nat
  BY FS_Subset, FS_CardinalityType
<1>2. SUFFICES ASSUME Bad # {} PROVE FALSE
  <2>1. S \in SUBSET S
    OBVIOUS
  <2> QED
    BY <1>2, <2>1
<1>3. PICK m \in Bad : \A y \in Bad : m <= y
  <2>1. Bad \subseteq Nat
    BY <1>1
  <2> HIDE DEF Bad
  <2> QED
    BY ONLY <1>2, <2>1, LeastNumber
<1>4. PICK T \in SUBSET S : SumOver(f, T) # 0 /\ Cardinality(T) = m
  BY <1>3
<1>5. SumOver(f, T) = IF T = {} THEN 0 ELSE f[Chosen(T)] + SumOver(f, T \ {Chosen(T)})
  BY <1>1, SumOfChosen
<1>6. T # {}
  BY <1>4, <1>5
<1>7. /\ T \ {Chosen(T)} \in SUBSET S /\ Cardinality(T \ {Chosen(T)}) = m - 1 /\ m \in Nat
      /\ Chosen(T) \in S
  BY <1>1, <1>4, <1>6, Smaller
<1>8. SumOver(f, T \ {Chosen(T)}) = 0
  <2>1. ~ (m <= m - 1)
    BY <1>7
  <2>2. m - 1 \notin Bad
    BY <1>3, <2>1
  <2> QED
    BY <1>7, <2>2
<1>9. f[Chosen(T)] = 0
  BY <1>7
<1> QED
  BY <1>4, <1>5, <1>6, <1>8, <1>9

\* A node that unregisters leaves the others listed, each once.
LEMMA RemoveFirstIs ==
    ASSUME NEW S, NEW q \in Seq(S), NEW e
    PROVE  /\ RemoveFirst(q, e) \in Seq(S)
           /\ Range(RemoveFirst(q, e)) \subseteq Range(q)
           /\ IsInjective(q) => IsInjective(RemoveFirst(q, e))
<1>1. CASE ~ \E i \in 1 .. Len(q) : q[i] = e
  BY <1>1 DEF RemoveFirst
<1>2. CASE \E i \in 1 .. Len(q) : q[i] = e
  <2> DEFINE I == {i \in 1 .. Len(q) : q[i] = e}
             k == SelectInSeq(q, LAMBDA v : v = e)
             r == RemoveAt(q, k)
  <2>1. k \in I
    <3>1. k = Min(I)
      BY <1>2 DEF SelectInSeq
    <3>2. \E x \in I : \A y \in I : x <= y
      <4>1. I \subseteq Nat /\ I # {}
        BY <1>2
      <4> HIDE DEF I
      <4> QED
        BY <4>1, LeastNumber
    <3> HIDE DEF I, k
    <3> QED
      BY <3>1, <3>2 DEF Min
  <2>2. k \in 1 .. Len(q)
    BY <2>1
  <2> HIDE DEF k
  <2>3. /\ r \in Seq(S) /\ Len(r) = Len(q) - 1
        /\ \A i \in 1 .. Len(r) : r[i] = IF i < k THEN q[i] ELSE q[i + 1]
    <3> DEFINE n == Len(q)
               a == SubSeq(q, 1, k - 1)
               b == SubSeq(q, k + 1, n)
    <3>1. n \in Nat /\ k \in 1 .. n /\ r = a \o b /\ q \in [1 .. n -> S]
      BY <2>2 DEF RemoveAt
    <3>2. a \in Seq(S) /\ Len(a) = k - 1 /\ \A i \in 1 .. k - 1 : a[i] = q[i]
      <4>1. k - 1 \in 0 .. n /\ \A i \in 1 .. k - 1 : q[i] \in S
        BY <3>1
      <4> HIDE DEF n
      <4> QED
        BY <3>1, <4>1
    <3>3. b \in Seq(S) /\ Len(b) = n - k /\ \A i \in 1 .. n - k : b[i] = q[i + k]
      <4>1. n - k \in Nat /\ \A i \in 1 .. n - k : i + k \in 1 .. n
        BY <3>1
      <4> HIDE DEF n
      <4> QED
        BY <3>1, <4>1
    <3> HIDE DEF r, a, b, n
    <3>4. r \in Seq(S) /\ Len(r) = n - 1
      <4>1. a \o b \in Seq(S)
        BY ONLY <3>2, <3>3
      <4>2. Len(a \o b) = Len(a) + Len(b)
        <5>1. ASSUME NEW x \in Seq(S), NEW y \in Seq(S) PROVE Len(x \o y) = Len(x) + Len(y)
          OBVIOUS
        <5> QED
          BY <3>2, <3>3, <5>1
      <4> QED
        BY <3>1, <3>2, <3>3, <4>1, <4>2
    <3>5. ASSUME NEW i \in 1 .. n - 1 PROVE r[i] = IF i < k THEN q[i] ELSE q[i + 1]
      <4>1. CASE i < k
        BY <3>1, <3>2, <3>3, <4>1
      <4>2. CASE ~ (i < k)
        <5>1. i - (k - 1) \in 1 .. n - k /\ i - (k - 1) + k = i + 1
          BY <3>1, <4>2
        <5>2. r[i] = b[i - (k - 1)]
          BY <3>1, <3>2, <3>3, <4>2
        <5> QED
          BY <3>3, <4>2, <5>1, <5>2
      <4> QED
        BY <4>1, <4>2
    <3> QED
      BY <3>4, <3>5 DEF n
  <2>4. RemoveFirst(q, e) = r
    BY <1>2 DEF RemoveFirst, k
  <2> HIDE DEF r
  <2> DEFINE At(i) == IF i < k THEN i ELSE i + 1
  <2>5. \A i \in DOMAIN r : r[i] = q[At(i)] /\ At(i) \in DOMAIN q
    BY <2>2, <2>3
  <2>6. Range(r) \subseteq Range(q)
    BY <2>5 DEF Range
  <2>7. ASSUME IsInjective(q) PROVE IsInjective(r)
    <3> SUFFICES ASSUME NEW i \in DOMAIN r, NEW j \in DOMAIN r, r[i] = r[j] PROVE i = j
      BY DEF IsInjective
    <3>1. At(i) = At(j)
      BY <2>5, <2>7 DEF IsInjective
    <3>2. i \in Nat /\ j \in Nat /\ k \in Nat
      BY <2>2, <2>3
    <3> QED
      BY <3>1, <3>2
  <2> QED
    BY <2>3, <2>4, <2>6, <2>7
<1> QED
  BY <1>1, <1>2

\* A step of the promised startup, or none of it.
IsStartup == Startup!Next \/ UNCHANGED Startup!vars

\* Requests that end, whether they were answered or failed.
LEMMA RequestEnds ==
    ASSUME CoordInv, Launched \/ Terminated \/ \E n \in Nodes : CallFails(n)
    PROVE  CoordInv' /\ IsStartup
<1>1. /\ UNCHANGED <<nodes, node, requested, nodeId, readyCount, events, ready, state, launched,
                     told, free, perSession, engineReady>>
      /\ request' = NoRequest
      /\ sessions' \subseteq sessions
  BY DEF Launched, Terminated, CallFails, Fail, coordVars, resources, nodeVars, history
<1>2. NoRequest \in Request
  BY DEF Request, NoRequest
<1>3. TypesAreKept'
  BY <1>1, <1>2 DEF CoordInv, TypesAreKept
<1>4. IsStartup
  BY <1>1 DEF IsStartup, Startup!vars
<1> QED
  BY <1>1, <1>3, <1>4, PartsKept DEF CoordInv

\* What a request may be replaced with while its nodes are called: it keeps to
\* its type, with a node fewer to call.
LEMMA RequestCalled ==
    ASSUME CoordInv, NEW op \in {"launch", "run", "terminate"}, NEW n \in Nodes, Calling(op, n)
    PROVE  /\ request.op = op /\ request.s \in Sessions
           /\ request.todo # <<>> /\ n = Head(request.todo) /\ n \in Range(request.todo)
           /\ [request EXCEPT !.todo = Tail(@)] \in Request
           /\ [request EXCEPT !.todo = Tail(@)].op = op
           /\ [request EXCEPT !.todo = Tail(@)].s = request.s
           /\ Range(request.todo) = Range([request EXCEPT !.todo = Tail(@)].todo) \cup {n}
<1>1. request \in Request /\ request.op = op /\ request.todo # <<>> /\ n = Head(request.todo)
  BY DEF CoordInv, TypesAreKept, Calling
<1> DEFINE q == request.todo
           r == Tail(q)
<1>2. q \in Seq(Nodes) /\ q # <<>>
  BY <1>1 DEF Request
<1>3. /\ r \in Seq(Nodes) /\ Len(q) \in Nat \ {0} /\ Len(r) = Len(q) - 1
      /\ \A k \in 1 .. Len(r) : r[k] = q[k + 1]
      /\ Head(q) = q[1]
      /\ DOMAIN q = 1 .. Len(q) /\ DOMAIN r = 1 .. Len(r)
  BY <1>2
<1>4. request.s \in Sessions
  BY <1>1 DEF CoordInv, RequestIsSound
<1>5. /\ [request EXCEPT !.todo = Tail(@)] \in Request
      /\ [request EXCEPT !.todo = Tail(@)].op = op
      /\ [request EXCEPT !.todo = Tail(@)].s = request.s
      /\ [request EXCEPT !.todo = Tail(@)].todo = r
  BY <1>1, <1>3 DEF Request
<1> HIDE DEF r, q
<1>6. Range(q) = Range(r) \cup {n}
  <2>1. ASSUME NEW x \in Range(q) PROVE x \in Range(r) \cup {n}
    <3>1. PICK k \in 1 .. Len(q) : x = q[k]
      BY <1>3 DEF Range
    <3>2. CASE k = 1
      BY <1>1, <1>3, <3>1, <3>2 DEF q
    <3>3. CASE k # 1
      <4>1. k - 1 \in 1 .. Len(r) /\ q[k] = r[k - 1]
        BY <1>3, <3>3
      <4> QED
        BY <1>3, <3>1, <4>1 DEF Range
    <3> QED
      BY <3>2, <3>3
  <2>2. ASSUME NEW x \in Range(r) PROVE x \in Range(q)
    <3>1. PICK k \in 1 .. Len(r) : x = r[k]
      BY <1>3 DEF Range
    <3>2. k + 1 \in 1 .. Len(q) /\ x = q[k + 1]
      BY <1>3, <3>1
    <3> QED
      BY <1>3, <3>2 DEF Range
  <2>3. n \in Range(q)
    <3>1. 1 \in DOMAIN q /\ n = q[1]
      BY <1>1, <1>3 DEF q
    <3> QED
      BY <3>1 DEF Range
  <2> QED
    BY <2>1, <2>2, <2>3
<1> QED
  BY <1>1, <1>4, <1>5, <1>6 DEF q

\* A launched session is on a node from then on, whatever becomes of the request.
LEMMA LaunchKeeps ==
    ASSUME CoordInv, NEW n \in Nodes, LaunchOn(n)
    PROVE  CoordInv' /\ IsStartup
<1>0. PICK s \in Sessions : s = request.s
  BY RequestCalled DEF LaunchOn
<1> DEFINE r == [request EXCEPT !.todo = Tail(@)]
<1>1. /\ Calling("launch", n)
      /\ UNCHANGED <<nodes, free, perSession, sessions, nodeId, readyCount, requested, node, ready,
                     events, told, engineReady>>
  BY DEF LaunchOn, coordVars, resources
<1>2. /\ request.op = "launch" /\ s \in Sessions /\ n \in Range(request.todo)
      /\ r \in Request /\ r.op = "launch" /\ r.s = s
      /\ Range(request.todo) = Range(r.todo) \cup {n}
  BY <1>0, <1>1, RequestCalled
<1>3. Assigned(s) /\ Range(request.todo) \subseteq HostsOf(s)
  BY <1>0, <1>2 DEF CoordInv, RequestIsSound
<1>4. /\ launched = [x \in Sessions |-> launched[x]]
      /\ state \in [Nodes -> [Sessions -> SessionState]]
  BY DEF CoordInv, TypesAreKept
<1>5. CASE /\ SetState(n, s, "Busy")
           /\ launched' = [launched EXCEPT ![s] = @ \cup {n}]
           /\ request' = r
  <2>1. state' = [state EXCEPT ![n][s] = "Busy"]
    BY <1>5 DEF SetState
  <2>2. /\ state' \in [Nodes -> [Sessions -> SessionState]]
        /\ \A m \in Nodes, x \in Sessions : state'[m][x] = IF m = n /\ x = s THEN "Busy" ELSE state[m][x]
    BY <1>2, <1>4, <2>1 DEF SessionState
  <2>3. /\ launched' = [x \in Sessions |-> launched'[x]]
        /\ launched'[s] = launched[s] \cup {n}
        /\ \A x \in Sessions : launched[x] \subseteq launched'[x]
    BY <1>2, <1>4, <1>5
  <2> HIDE DEF r
  <2>4. TypesAreKept'
    BY <1>1, <1>2, <1>5, <2>2, <2>3 DEF CoordInv, TypesAreKept
  <2>5. RunningIsLaunched'
    BY <2>2, <2>3 DEF CoordInv, RunningIsLaunched
  <2>6. RequestIsSound'
    <3>1. Assigned(s)' /\ HostsOf(s)' = HostsOf(s)
      BY <1>1, <1>3 DEF Assigned, HostsOf
    <3>2. request'.op = "launch" /\ request'.s = s /\ Range(request'.todo) \subseteq HostsOf(s)'
      BY <1>2, <1>3, <1>5, <3>1
    <3> QED
      BY <1>2, <3>1, <3>2 DEF RequestIsSound, Assigned, HostsOf
  <2>7. IsStartup
    <3>1. CASE n \in launched[s]
      <4>1. launched' = launched
        <5>1. \A x \in Sessions : launched'[x] = launched[x]
          BY <1>4, <1>5, <3>1
        <5> QED
          BY <1>4, <2>3, <5>1
      <4> QED
        BY <1>1, <4>1 DEF IsStartup, Startup!vars
    <3>2. CASE n \notin launched[s]
      <4>1. n \in Startup!HostsOf(s)
        BY <1>2, <1>3 DEF HostsOf, Startup!HostsOf
      <4>2. Startup!Launch(s, n)
        BY <1>1, <1>5, <3>2, <4>1 DEF Startup!Launch
      <4> QED
        BY <1>2, <4>2 DEF IsStartup, Startup!Next
    <3> QED
      BY <3>1, <3>2
  <2> QED
    BY <1>1, <2>4, <2>5, <2>6, <2>7, PartsKept DEF CoordInv
<1>6. CASE request' = NoRequest /\ UNCHANGED <<state, launched>>
  <2>1. NoRequest \in Request
    BY DEF Request, NoRequest
  <2>2. TypesAreKept'
    BY <1>1, <1>6, <2>1 DEF CoordInv, TypesAreKept
  <2>3. IsStartup
    BY <1>1, <1>6 DEF IsStartup, Startup!vars
  <2> QED
    BY <1>1, <1>6, <2>2, <2>3, PartsKept DEF CoordInv
<1> QED
  BY <1>0, <1>5, <1>6 DEF LaunchOn, Fail, Called

\* Of a session whose computations are all ready its nodes are told one by one.
LEMMA RunKeeps ==
    ASSUME CoordInv, NEW n \in Nodes, RunOn(n)
    PROVE  CoordInv' /\ IsStartup
<1>0. PICK s \in Sessions : s = request.s
  BY RequestCalled DEF RunOn
<1> DEFINE r == [request EXCEPT !.todo = Tail(@)]
<1>1. /\ Calling("run", n)
      /\ UNCHANGED <<nodes, free, perSession, sessions, nodeId, readyCount, requested, node, state,
                     ready, events, launched, engineReady>>
  BY DEF RunOn, coordVars, resources, nodeVars
<1>2. /\ request.op = "run" /\ n \in Range(request.todo)
      /\ r \in Request /\ r.op = "run" /\ r.s = s
      /\ Range(request.todo) = Range(r.todo) \cup {n}
  BY <1>0, <1>1, RequestCalled
<1>3. /\ Assigned(s) /\ Range(request.todo) \subseteq HostsOf(s)
      /\ ready[s] = CompsOf(s)
      /\ HostsOf(s) \subseteq told[s] \cup Range(request.todo)
  BY <1>0, <1>2 DEF CoordInv, RequestIsSound
<1>4. told = [x \in Sessions |-> told[x]]
  BY DEF CoordInv, TypesAreKept
<1>5. CASE told' = [told EXCEPT ![s] = @ \cup {n}] /\ request' = r
  <2>1. /\ told' = [x \in Sessions |-> told'[x]]
        /\ told'[s] = told[s] \cup {n}
        /\ \A x \in Sessions \ {s} : told'[x] = told[x]
    BY <1>4, <1>5
  <2> HIDE DEF r
  <2>2. TypesAreKept'
    BY <1>1, <1>2, <1>5, <2>1 DEF CoordInv, TypesAreKept
  <2>3. \A x \in Sessions : HostsOf(x)' = HostsOf(x)
    BY <1>1 DEF HostsOf
  <2>4. RequestIsSound'
    <3>1. Assigned(s)'
      BY <1>1, <1>3 DEF Assigned
    <3>2. /\ request'.op = "run" /\ request'.s = s /\ Range(request'.todo) \subseteq HostsOf(s)'
          /\ ready'[s] = CompsOf(s)
          /\ HostsOf(s)' \subseteq told'[s] \cup Range(request'.todo)
      BY <1>1, <1>2, <1>3, <1>5, <2>1, <2>3
    <3> QED
      BY <3>1, <3>2 DEF RequestIsSound, Assigned, HostsOf
  <2>5. ToldAreHosts'
    <3>1. ASSUME NEW x \in Sessions PROVE told'[x] \subseteq HostsOf(x)'
      <4>1. told[x] \subseteq HostsOf(x)
        BY DEF CoordInv, ToldAreHosts
      <4>2. n \in HostsOf(s)
        BY <1>2, <1>3
      <4> QED
        BY <2>1, <2>3, <4>1, <4>2
    <3> QED
      BY <3>1 DEF ToldAreHosts
  <2>6. IsStartup
    <3>1. CASE n \in told[s]
      <4>1. told' = told
        <5>1. \A x \in Sessions : told'[x] = told[x]
          BY <2>1, <3>1
        <5> QED
          BY <1>4, <2>1, <5>1
      <4> QED
        BY <1>1, <4>1 DEF IsStartup, Startup!vars
    <3>2. CASE n \notin told[s]
      <4>1. n \in Startup!HostsOf(s)
        BY <1>2, <1>3 DEF HostsOf, Startup!HostsOf
      <4>2. Startup!Run(s, n)
        BY <1>1, <1>3, <1>5, <3>2, <4>1 DEF Startup!Run
      <4> QED
        BY <4>2 DEF IsStartup, Startup!Next
    <3> QED
      BY <3>1, <3>2
  <2> QED
    BY <1>1, <2>2, <2>4, <2>5, <2>6, PartsKept DEF CoordInv
<1>6. CASE request' = NoRequest /\ UNCHANGED told
  <2>1. NoRequest \in Request
    BY DEF Request, NoRequest
  <2>2. TypesAreKept'
    BY <1>1, <1>6, <2>1 DEF CoordInv, TypesAreKept
  <2>3. IsStartup
    BY <1>1, <1>6 DEF IsStartup, Startup!vars
  <2> QED
    BY <1>1, <1>6, <2>2, <2>3, PartsKept DEF CoordInv
<1> QED
  BY <1>0, <1>5, <1>6 DEF RunOn, Fail, Called

\* The engine is ready when every node of the session was told to run it: of a
\* request that fails at one of them nothing of it is left.
LEMMA SignalKeeps ==
    ASSUME CoordInv, NEW n \in Nodes, SignalEngineReady(n)
    PROVE  CoordInv' /\ IsStartup
<1>1. /\ request.op = "run" /\ request.todo = <<>> /\ request' = NoRequest
      /\ UNCHANGED <<nodes, free, perSession, sessions, nodeId, readyCount, requested, node, state,
                     ready, events, launched, told>>
      /\ engineReady' = IF state[n][request.s] = "Free" THEN engineReady \cup {request.s} ELSE engineReady
  BY DEF SignalEngineReady, coordVars, resources, nodeVars
<1>2. TypesAreKept'
  <2>1. NoRequest \in Request
    BY DEF Request, NoRequest
  <2> QED
    BY <1>1, <2>1 DEF CoordInv, TypesAreKept
<1>3. CASE engineReady' = engineReady
  <2>1. IsStartup
    BY <1>1, <1>3 DEF IsStartup, Startup!vars
  <2> QED
    BY <1>1, <1>2, <2>1, PartsKept DEF CoordInv
<1>4. CASE engineReady' # engineReady
  <2>1. PICK s \in Sessions : s = request.s
    BY <1>1 DEF CoordInv, RequestIsSound
  <2>2. engineReady' = engineReady \cup {s} /\ s \notin engineReady
    BY <1>1, <1>4, <2>1
  <2>3. Range(request.todo) = {}
    BY <1>1 DEF Range
  <2>4. Assigned(s) /\ HostsOf(s) \subseteq told[s]
    BY <1>1, <2>1, <2>3 DEF CoordInv, RequestIsSound
  <2>5. told[s] = HostsOf(s)
    BY <2>4 DEF CoordInv, ToldAreHosts
  <2>6. HostsOf(s) = Startup!HostsOf(s)
    <3>1. None \notin Nodes
      BY CoordinatorAssumption DEF None, Nodes
    <3> QED
      BY <2>4, <3>1 DEF Assigned, HostsOf, Startup!HostsOf
  <2>7. Startup!EngineReady(s)
    BY <1>1, <2>2, <2>5, <2>6 DEF Startup!EngineReady
  <2>8. IsStartup
    BY <2>7 DEF IsStartup, Startup!Next
  <2> QED
    BY <1>1, <1>2, <2>8, PartsKept DEF CoordInv
<1> QED
  BY <1>3, <1>4

\* What a session has on a node is given back once.
LEMMA DeleteKeeps ==
    ASSUME CoordInv, NEW n \in Nodes, DeleteOn(n)
    PROVE  CoordInv' /\ IsStartup
<1>0. PICK s \in Sessions : s = request.s
  BY RequestCalled DEF DeleteOn
<1> DEFINE r == [request EXCEPT !.todo = Tail(@)]
<1>1. /\ Calling("terminate", n)
      /\ UNCHANGED <<nodes, sessions, nodeId, readyCount, requested, node, ready, events, launched,
                     told, engineReady>>
  BY DEF DeleteOn, history
<1>2. /\ request.op = "terminate"
      /\ r \in Request /\ r.op = "terminate" /\ r.s = s
  BY <1>0, <1>1, RequestCalled
<1>3. /\ request' \in Request
      /\ request' = NoRequest \/ (request'.op = "terminate" /\ request'.s = s)
  <2>1. request' \in {r, NoRequest}
    BY DEF DeleteOn, Fail, Called
  <2>2. NoRequest \in Request
    BY DEF Request, NoRequest
  <2> HIDE DEF r
  <2> QED
    BY <1>2, <2>1, <2>2
<1>4. RequestIsSound'
  BY <1>3 DEF RequestIsSound, NoRequest
<1>5. /\ state' \in [Nodes -> [Sessions -> SessionState]]
      /\ \A m \in Nodes, x \in Sessions : state'[m][x] \in Running => state[m][x] \in Running
  <2>1. state \in [Nodes -> [Sessions -> SessionState]]
    BY DEF CoordInv, TypesAreKept
  <2>2. CASE UNCHANGED state
    BY <2>1, <2>2
  <2>3. CASE SetState(n, s, "Defunct")
    <3>1. state' = [state EXCEPT ![n][s] = "Defunct"]
      BY <2>3 DEF SetState
    <3>2. /\ state' \in [Nodes -> [Sessions -> SessionState]]
          /\ \A m \in Nodes, x \in Sessions : state'[m][x] = IF m = n /\ x = s THEN "Defunct" ELSE state[m][x]
      BY <2>1, <3>1 DEF SessionState
    <3> QED
      BY <3>2 DEF Running
  <2> QED
    BY <1>0, <2>2, <2>3 DEF DeleteOn
<1>6. RunningIsLaunched'
  BY <1>1, <1>5 DEF CoordInv, RunningIsLaunched
<1>7. IsStartup
  BY <1>1 DEF IsStartup, Startup!vars
<1>8. CASE UNCHANGED resources
  <2>1. UNCHANGED <<free, perSession>>
    BY <1>8 DEF resources
  <2>2. TypesAreKept'
    BY <1>1, <1>3, <1>5, <2>1 DEF CoordInv, TypesAreKept
  <2> QED
    BY <1>1, <1>4, <1>6, <1>7, <2>1, <2>2, PartsKept DEF CoordInv
<1>9. CASE s \in DOMAIN perSession[n] /\ Release(n, s)
  <2> DEFINE per == perSession[n]
             f == BookedBy(per)
             S == DOMAIN per
  <2>1. /\ free \in [Nodes -> Account] /\ DOMAIN perSession = Nodes
        /\ per \in [S -> Account] /\ IsFiniteSet(S)
        /\ free[n].memory + SumOver(f, S) = Total[n].memory
        /\ s \in S
    BY <1>9 DEF CoordInv, TypesAreKept, AccountsBalance
  <2>2. /\ free' = [free EXCEPT ![n] = Plus(free[n], per[s])]
        /\ perSession' = [perSession EXCEPT ![n] = [x \in S \ {s} |-> per[x]]]
    BY <1>9, <2>1 DEF Release
  <2>3. /\ \A m \in Nodes : m # n => free'[m] = free[m] /\ perSession'[m] = perSession[m]
        /\ free'[n] = Plus(free[n], per[s])
        /\ perSession'[n] = [x \in S \ {s} |-> per[x]]
        /\ DOMAIN perSession' = Nodes
    BY <2>1, <2>2
  <2>4. /\ free'[n] \in Account
        /\ free'[n].memory = free[n].memory + per[s].memory
        /\ free[n].memory \in Nat /\ per[s].memory \in Nat
    <3>1. free[n] \in Account /\ per[s] \in Account
      BY <2>1
    <3> QED
      BY <2>3, <3>1 DEF Account, Plus
  <2>5. free' \in [Nodes -> Account]
    BY <2>1, <2>2, <2>4
  <2>6. /\ DOMAIN perSession'[n] = S \ {s}
        /\ perSession'[n] \in [S \ {s} -> Account]
        /\ \A x \in S \ {s} : perSession'[n][x] = per[x]
    BY <2>1, <2>3
  <2>7. TypesAreKept'
    <3>1. \A m \in Nodes : perSession'[m] \in [DOMAIN perSession'[m] -> Account]
      BY <2>3, <2>6 DEF CoordInv, TypesAreKept
    <3> HIDE DEF per
    <3> QED
      BY <1>1, <1>3, <1>5, <2>3, <2>5, <3>1 DEF CoordInv, TypesAreKept
  <2>8. AccountsBalance'
    <3> DEFINE g == BookedBy(perSession'[n])
               T == S \ {s}
    <3>1. (\A x \in S : f[x] = per[x].memory /\ f[x] \in Nat) /\ \A x \in S : f[x] \in Int
      BY <2>1 DEF BookedBy, Account
    <3>2. \A x \in T : g[x] = per[x].memory
      BY <2>6 DEF BookedBy
    <3>3. IsFiniteSet(T)
      BY <2>1, FS_RemoveElement
    <3>4. \A x \in T : f[x] \in Nat /\ g[x] = f[x]
      BY <3>1, <3>2
    <3> HIDE DEF f, g
    <3>5. SumOver(f, S) = f[s] + SumOver(f, T)
      BY <2>1, <3>1, SumWith
    <3> HIDE DEF T
    <3>6. SumOver(f, T) = SumOver(g, T)
      BY <3>3, <3>4, SumSame
    <3>7. SumOver(f, T) \in Int
      <4>1. \A x \in T : f[x] \in Int
        BY <3>1, <3>4
      <4> QED
        BY <3>3, <4>1, SumIsInt
    <3>8. f[s] = per[s].memory
      BY <2>1, <3>1
    <3>9. free'[n].memory + SumOver(g, T) = Total[n].memory
      BY <2>1, <2>4, <3>5, <3>6, <3>7, <3>8
    <3>10. ASSUME NEW m \in Nodes
           PROVE  /\ IsFiniteSet(DOMAIN perSession'[m])
                  /\ free'[m].memory + SumOver(BookedBy(perSession'[m]), DOMAIN perSession'[m]) = Total[m].memory
      <4>1. CASE m = n
        BY <2>6, <3>3, <3>9, <4>1 DEF g, T
      <4>2. CASE m # n
        BY <2>3, <4>2 DEF CoordInv, AccountsBalance
      <4> QED
        BY <4>1, <4>2
    <3> QED
      BY <3>10 DEF AccountsBalance, BookedBy
  <2>9. MemoryIsBooked'
    <3>1. \A m \in Nodes : \A x \in DOMAIN perSession'[m] :
              x \in DOMAIN perSession[m] /\ perSession'[m][x] = perSession[m][x]
      BY <2>3, <2>6
    <3> QED
      BY <1>1, <3>1 DEF CoordInv, MemoryIsBooked, MemoryAt
  <2> QED
    BY <1>1, <1>4, <1>6, <1>7, <2>7, <2>8, <2>9, PartsKept DEF CoordInv
<1> QED
  BY <1>0, <1>8, <1>9 DEF DeleteOn

\* A computation reports once, from a node on which its session was launched.
LEMMA ReadyKeeps ==
    ASSUME CoordInv, NEW n \in Nodes, NEW s \in Sessions, NEW i \in CompsOf(s), ComputationReady(n, s, i)
    PROVE  CoordInv' /\ IsStartup
<1>1. /\ state[n][s] \in Running /\ nodeId[s][i] = n /\ i \notin ready[s]
      /\ ready' = [ready EXCEPT ![s] = @ \cup {i}]
      /\ Send(n, "ready", s)
      /\ UNCHANGED <<nodes, free, perSession, sessions, nodeId, readyCount, requested, request,
                     node, state, launched, told, engineReady>>
  BY DEF ComputationReady, Running, coordVars, resources, history
<1>2. ReportsAreTrue' /\ events' \in [Nodes -> Seq(EventOf)]
  BY <1>1, ReportsWith
<1>3. /\ ready \in [Sessions -> SUBSET UNION {CompsOf(x) : x \in Sessions}]
      /\ \A x \in Sessions : ready[x] \subseteq CompsOf(x)
  BY DEF CoordInv, TypesAreKept
<1>4. /\ ready'[s] = ready[s] \cup {i}
      /\ \A x \in Sessions \ {s} : ready'[x] = ready[x]
      /\ ready' \in [Sessions -> SUBSET UNION {CompsOf(x) : x \in Sessions}]
      /\ \A x \in Sessions : ready'[x] \subseteq CompsOf(x)
  <2>1. ready[s] \cup {i} \in SUBSET UNION {CompsOf(x) : x \in Sessions}
    BY <1>3
  <2> QED
    BY <1>1, <1>3, <2>1
<1>5. TypesAreKept'
  BY <1>1, <1>2, <1>4 DEF CoordInv, TypesAreKept, CompsOf
<1>6. RequestIsSound'
  <2>1. ASSUME request.op = "run" PROVE ready'[request.s] = CompsOf(request.s)
    <3>1. request.s \in Sessions /\ ready[request.s] = CompsOf(request.s)
      BY <2>1 DEF CoordInv, RequestIsSound
    <3>2. request.s # s
      BY <1>1, <3>1
    <3> QED
      BY <1>4, <3>1, <3>2
  <2> QED
    BY <1>1, <2>1 DEF CoordInv, RequestIsSound, Assigned, HostsOf, CompsOf, Range
<1>7. ReadyIsAssigned'
  BY <1>1, <1>4 DEF CoordInv, ReadyIsAssigned
<1>8. IsStartup
  <2>1. nodeId[s][i] \in launched[s]
    BY <1>1 DEF CoordInv, RunningIsLaunched
  <2>2. Startup!Ready(s, i)
    BY <1>1, <2>1 DEF Startup!Ready
  <2> QED
    BY <2>2 DEF IsStartup, Startup!Next
<1> QED
  BY <1>1, <1>2, <1>5, <1>6, <1>7, <1>8, PartsKept DEF CoordInv

\* What else happens to a session on its node: it never runs where it was not
\* launched, and no report is made up or forgotten but with its node.
LEMMA NodeKeeps ==
    ASSUME CoordInv, NEW n \in Nodes,
           \/ \E s \in Sessions : UpdateFails(n, s) \/ OperationEnds(n, s) \/ ClientLeaves(n, s)
           \/ StopNode(n) \/ Crash(n)
    PROVE  CoordInv' /\ IsStartup
<1>1. UNCHANGED <<nodes, free, perSession, sessions, nodeId, readyCount, requested, request, ready,
                  launched, told, engineReady>>
  BY DEF UpdateFails, OperationEnds, ClientLeaves, StopNode, Crash, coordVars, resources, history
<1>2. /\ node \in [Nodes -> {"new", "up", "stopping", "down"}]
      /\ state \in [Nodes -> [Sessions -> SessionState]]
      /\ events \in [Nodes -> Seq(EventOf)]
  BY DEF CoordInv, TypesAreKept
<1>3. ReportsAreTrue' /\ events' \in [Nodes -> Seq(EventOf)]
  <2>1. CASE UNCHANGED events
    BY <1>1, <1>2, <2>1, PartsKept
  <2>2. CASE \E s \in Sessions : Send(n, "terminate", s)
    BY <1>1, <2>2, ReportsWithout
  <2>3. CASE events' = [events EXCEPT ![n] = <<>>]
    BY <1>1, <2>3, ReportsWithout
  <2> QED
    BY <2>1, <2>2, <2>3 DEF UpdateFails, OperationEnds, ClientLeaves, StopNode, Crash
<1>4. /\ node' \in [Nodes -> {"new", "up", "stopping", "down"}]
      /\ \A m \in Nodes : node'[m] = "new" => node[m] = "new"
  <2>1. \/ UNCHANGED node
        \/ node' = [node EXCEPT ![n] = "stopping"]
        \/ node' = [node EXCEPT ![n] = "down"]
    BY DEF UpdateFails, OperationEnds, ClientLeaves, StopNode, Crash
  <2> QED
    BY <1>2, <2>1
<1>5. /\ state' \in [Nodes -> [Sessions -> SessionState]]
      /\ \A m \in Nodes, x \in Sessions : state'[m][x] \in Running => state[m][x] \in Running
  <2>1. CASE UNCHANGED state
    BY <1>2, <2>1
  <2>2. ASSUME NEW s \in Sessions, NEW st \in {"failed", "Free"}, SetState(n, s, st), state[n][s] \in Running
        PROVE  /\ state' \in [Nodes -> [Sessions -> SessionState]]
               /\ \A m \in Nodes, x \in Sessions : state'[m][x] \in Running => state[m][x] \in Running
    <3>1. state' = [state EXCEPT ![n][s] = st] /\ st \in SessionState
      BY <2>2 DEF SetState, SessionState
    <3>2. /\ state' \in [Nodes -> [Sessions -> SessionState]]
          /\ \A m \in Nodes, x \in Sessions : state'[m][x] = IF m = n /\ x = s THEN st ELSE state[m][x]
      BY <1>2, <3>1
    <3> QED
      BY <2>2, <3>2
  <2>3. CASE state' = [state EXCEPT ![n] = [s \in Sessions |-> "Defunct"]]
    <3>1. [s \in Sessions |-> "Defunct"] \in [Sessions -> SessionState]
      BY DEF SessionState
    <3>2. /\ state' \in [Nodes -> [Sessions -> SessionState]]
          /\ \A m \in Nodes, x \in Sessions : state'[m][x] = IF m = n THEN "Defunct" ELSE state[m][x]
      BY <1>2, <2>3, <3>1
    <3> QED
      BY <3>2 DEF Running
  <2>4. \/ UNCHANGED state
        \/ \E s \in Sessions, st \in {"failed", "Free"} : SetState(n, s, st) /\ state[n][s] \in Running
        \/ state' = [state EXCEPT ![n] = [s \in Sessions |-> "Defunct"]]
    BY DEF UpdateFails, OperationEnds, ClientLeaves, StopNode, Crash, Running
  <2> QED
    BY <2>1, <2>2, <2>3, <2>4
<1>6. TypesAreKept'
  BY <1>1, <1>3, <1>4, <1>5 DEF CoordInv, TypesAreKept
<1>7. NewAreNotListed'
  BY <1>1, <1>4 DEF CoordInv, NewAreNotListed, Range
<1>8. RunningIsLaunched'
  BY <1>1, <1>5 DEF CoordInv, RunningIsLaunched
<1>9. IsStartup
  BY <1>1 DEF IsStartup, Startup!vars
<1> QED
  BY <1>1, <1>3, <1>6, <1>7, <1>8, <1>9, PartsKept DEF CoordInv

\* Nodes come to the end of the list and leave it from anywhere.
LEMMA RegisterKeeps ==
    ASSUME CoordInv, NEW n \in Nodes, Register(n)
    PROVE  CoordInv' /\ IsStartup
<1>1. /\ node[n] = "new"
      /\ node' = [node EXCEPT ![n] = "up"]
      /\ nodes' = Append(nodes, n)
      /\ UNCHANGED <<free, perSession, sessions, nodeId, readyCount, requested, request, state,
                     ready, events, launched, told, engineReady>>
  BY DEF Register, resources, history
<1>2. /\ nodes \in Seq(Nodes) /\ IsInjective(nodes)
      /\ node \in [Nodes -> {"new", "up", "stopping", "down"}]
      /\ n \notin Range(nodes)
  BY <1>1 DEF CoordInv, TypesAreKept, NewAreNotListed
<1> DEFINE l == Len(nodes)
<1>3. /\ nodes' \in Seq(Nodes) /\ l \in Nat /\ Len(nodes') = l + 1
      /\ DOMAIN nodes = 1 .. l /\ DOMAIN nodes' = 1 .. l + 1
      /\ \A k \in 1 .. l : nodes'[k] = nodes[k]
      /\ nodes'[l + 1] = n
  BY <1>1, <1>2
<1> HIDE DEF l
<1>4. \A k \in 1 .. l : nodes[k] # n
  BY <1>2, <1>3 DEF Range
<1>5. IsInjective(nodes')
  <2> SUFFICES ASSUME NEW j \in 1 .. l + 1, NEW k \in 1 .. l + 1, nodes'[j] = nodes'[k] PROVE j = k
    BY <1>3 DEF IsInjective
  <2>1. CASE j \in 1 .. l /\ k \in 1 .. l
    BY <1>2, <1>3, <2>1 DEF IsInjective
  <2>2. CASE j = l + 1 /\ k = l + 1
    BY <2>2
  <2>3. CASE j = l + 1 /\ k \in 1 .. l
    BY <1>3, <1>4, <2>3
  <2>4. CASE j \in 1 .. l /\ k = l + 1
    BY <1>3, <1>4, <2>4
  <2> QED
    BY <1>3, <2>1, <2>2, <2>3, <2>4
<1>6. TypesAreKept'
  BY <1>1, <1>2, <1>3, <1>5 DEF CoordInv, TypesAreKept
<1>7. NewAreNotListed'
  <2> SUFFICES ASSUME NEW m \in Nodes, node'[m] = "new", m \in Range(nodes') PROVE FALSE
    BY DEF NewAreNotListed
  <2>1. m # n /\ node[m] = "new"
    BY <1>1, <1>2
  <2>2. PICK k \in 1 .. l + 1 : nodes'[k] = m
    BY <1>3 DEF Range
  <2>3. k \in 1 .. l /\ nodes[k] = m
    BY <1>3, <2>1, <2>2
  <2>4. m \in Range(nodes)
    BY <1>3, <2>3 DEF Range
  <2> QED
    BY <2>1, <2>4 DEF CoordInv, NewAreNotListed
<1>8. IsStartup
  BY <1>1 DEF IsStartup, Startup!vars
<1> QED
  BY <1>1, <1>6, <1>7, <1>8, PartsKept DEF CoordInv

\* A node that unregisters is not called any more; its reports go with it.
LEMMA UnregisterKeeps ==
    ASSUME CoordInv, NEW n \in Nodes, Unregister(n)
    PROVE  CoordInv' /\ IsStartup
<1>1. /\ node' = [node EXCEPT ![n] = "down"]
      /\ nodes' = RemoveFirst(nodes, n)
      /\ events' = [events EXCEPT ![n] = <<>>]
      /\ UNCHANGED <<free, perSession, sessions, nodeId, readyCount, requested, request, state,
                     ready, launched, told, engineReady>>
  BY DEF Unregister, resources, history
<1>2. /\ nodes \in Seq(Nodes) /\ IsInjective(nodes)
      /\ node \in [Nodes -> {"new", "up", "stopping", "down"}]
  BY DEF CoordInv, TypesAreKept
<1>3. nodes' \in Seq(Nodes) /\ Range(nodes') \subseteq Range(nodes) /\ IsInjective(nodes')
  <2>1. /\ RemoveFirst(nodes, n) \in Seq(Nodes)
        /\ Range(RemoveFirst(nodes, n)) \subseteq Range(nodes)
        /\ IsInjective(RemoveFirst(nodes, n))
    BY <1>2, RemoveFirstIs
  <2> QED
    BY <1>1, <2>1
<1>4. ReportsAreTrue' /\ events' \in [Nodes -> Seq(EventOf)]
  BY <1>1, ReportsWithout
<1>5. TypesAreKept'
  BY <1>1, <1>2, <1>3, <1>4 DEF CoordInv, TypesAreKept
<1>6. NewAreNotListed'
  <2>1. \A m \in Nodes : node'[m] = "new" => node[m] = "new"
    BY <1>1, <1>2
  <2> QED
    BY <1>3, <2>1 DEF CoordInv, NewAreNotListed
<1>7. IsStartup
  BY <1>1 DEF IsStartup, Startup!vars
<1> QED
  BY <1>1, <1>4, <1>5, <1>6, <1>7, PartsKept DEF CoordInv

\* The sequence in which the nodes of a session are called.
LEMMA CallsAreHosts ==
    ASSUME NEW s \in Sessions, NEW h \in [CompsOf(s) -> Nodes]
    PROVE  InOrder(h) \in Seq(Nodes) /\ Range(InOrder(h)) = {h[i] : i \in CompsOf(s)}
<1>1. Len(Definition[s]) \in Nat /\ CompsOf(s) = 1 .. Len(Definition[s])
  BY DefinitionIs
<1> DEFINE l == Len(Definition[s])
<1> HIDE DEF l
<1>2. l \in Nat /\ h \in [1 .. l -> Nodes]
  BY <1>1 DEF l
<1>3. InOrder(h) \in Seq(Nodes) /\ Range(InOrder(h)) = {h[i] : i \in 1 .. l}
  BY <1>2, InOrderIs
<1> QED
  BY <1>1, <1>3 DEF l

\* The report that makes the count complete is that of the last computation:
\* every one of them is ready then, and has a node.
LEMMA SignalIsTrue ==
    ASSUME CoordInv, NEW s \in Sessions, AllReady(s, readyCount[s] + 1),
           readyCount[s] + 1 <= Cardinality(ready[s])
    PROVE  ready[s] = CompsOf(s) /\ Assigned(s)
<1>1. /\ ready[s] \subseteq CompsOf(s)
      /\ IsFiniteSet(CompsOf(s)) /\ Cardinality(CompsOf(s)) = Len(Definition[s]) /\ Len(Definition[s]) \in Nat
  BY DefinitionIs DEF CoordInv, TypesAreKept
<1>2. Cardinality(ready[s]) \in Nat /\ Cardinality(ready[s]) <= Cardinality(CompsOf(s))
  BY <1>1, FS_Subset, FS_CardinalityType
<1>3. Cardinality(CompsOf(s)) = Cardinality(ready[s])
  <2>1. readyCount[s] + 1 = Len(Definition[s])
    BY DEF AllReady
  <2> QED
    BY <1>1, <1>2, <2>1
<1>4. ready[s] = CompsOf(s)
  BY <1>1, <1>3, FS_Subset
<1>5. nodeId[s] \in [CompsOf(s) -> Nodes \cup {None}] /\ \A i \in CompsOf(s) : nodeId[s][i] \in Nodes
  BY <1>4 DEF CoordInv, TypesAreKept, ReadyIsAssigned
<1> QED
  BY <1>4, <1>5 DEF Assigned

\* A report is counted, and the last one starts the session.
LEMMA SignalTaken ==
    ASSUME CoordInv, NEW n \in Nodes, ReadySignal(n)
    PROVE  CoordInv' /\ IsStartup
<1>1. /\ request = NoRequest /\ events[n] # <<>> /\ Head(events[n]).type = "ready"
      /\ events' = [events EXCEPT ![n] = Tail(@)]
      /\ UNCHANGED <<nodes, free, perSession, sessions, nodeId, requested, node, state, ready,
                     launched, told, engineReady>>
  BY DEF ReadySignal, TakeEvent, Idle, resources, nodeVars, history
<1>2. /\ events' \in [Nodes -> Seq(EventOf)]
      /\ Head(events[n]) \in EventOf
      /\ \A x \in Sessions :
            /\ IsFiniteSet(Reports(x)') /\ Cardinality(Reports(x)') \in Nat
            /\ Cardinality(Reports(x)) \in Nat
            /\ Cardinality(Reports(x)') <= Cardinality(Reports(x))
            /\ Head(events[n]) = [type |-> "ready", s |-> x] =>
                 Cardinality(Reports(x)') <= Cardinality(Reports(x)) - 1
  <2>1. /\ events' \in [Nodes -> Seq(EventOf)] /\ Head(events[n]) \in EventOf
    <3>1. events \in [Nodes -> Seq(EventOf)]
      BY DEF CoordInv, TypesAreKept
    <3>2. events[n] \in Seq(EventOf) /\ events[n] # <<>>
      BY <1>1, <3>1
    <3>3. Tail(events[n]) \in Seq(EventOf) /\ Head(events[n]) \in EventOf
      BY <3>2
    <3> QED
      BY <1>1, <3>1, <3>3
  <2> QED
    BY <1>1, <2>1, ReportsTaken
<1>3. PICK s \in Sessions : s = Head(events[n]).s /\ Head(events[n]) = [type |-> "ready", s |-> s]
  BY <1>1, <1>2 DEF EventOf
<1>4. \A x \in Sessions :
        /\ readyCount[x] \in Nat /\ Cardinality(ready[x]) \in Nat
        /\ readyCount[x] + Cardinality(Reports(x)) <= Cardinality(ready[x])
  <2>1. ASSUME NEW x \in Sessions PROVE Cardinality(ready[x]) \in Nat
    <3>1. ready[x] \subseteq CompsOf(x)
      BY DEF CoordInv, TypesAreKept
    <3> QED
      BY <3>1, DefinitionIs, FS_Subset, FS_CardinalityType
  <2> QED
    BY <2>1 DEF CoordInv, TypesAreKept, ReportsAreTrue
<1>5. /\ readyCount' \in [Sessions -> Nat]
      /\ \A x \in Sessions : readyCount'[x] = readyCount[x] \/ (x = s /\ readyCount'[x] = readyCount[x] + 1)
  <2>1. \/ readyCount' = readyCount
        \/ readyCount' = [readyCount EXCEPT ![s] = readyCount[s] + 1]
    BY <1>3 DEF ReadySignal
  <2>2. readyCount \in [Sessions -> Nat]
    BY DEF CoordInv, TypesAreKept
  <2> QED
    BY <2>1, <2>2
<1>6. ReportsAreTrue'
  <2>1. ASSUME NEW x \in Sessions
        PROVE  readyCount'[x] + Cardinality(Reports(x)') <= Cardinality(ready[x])
    <3> DEFINE before == Cardinality(Reports(x))
               after == Cardinality(Reports(x)')
               all == Cardinality(ready[x])
    <3>1. /\ before \in Nat /\ after \in Nat /\ all \in Nat /\ readyCount[x] \in Nat
          /\ after <= before /\ readyCount[x] + before <= all
      BY <1>2, <1>4
    <3>2. x = s => after <= before - 1
      BY <1>2, <1>3
    <3> HIDE DEF before, after, all
    <3>3. CASE readyCount'[x] = readyCount[x]
      <4>1. readyCount'[x] + after <= all
        BY <3>1, <3>3
      <4> QED
        BY <4>1 DEF after, all
    <3>4. CASE x = s /\ readyCount'[x] = readyCount[x] + 1
      <4>1. readyCount'[x] + after <= all
        BY <3>1, <3>2, <3>4
      <4> QED
        BY <4>1 DEF after, all
    <3> QED
      BY <1>5, <3>3, <3>4
  <2>2. ReportsAreTrue' <=> \A x \in Sessions : IsFiniteSet(Reports(x)') /\
                              readyCount'[x] + Cardinality(Reports(x)') <= Cardinality(ready'[x])
    BY DEF ReportsAreTrue
  <2> QED
    BY <1>1, <1>2, <2>1, <2>2
<1>7. \/ request' = request
      \/ /\ request' = [op |-> "run", s |-> s, todo |-> InOrder(nodeId[s]), from |-> n]
         /\ AllReady(s, readyCount[s] + 1)
  <2>1. s \in DOMAIN readyCount
    BY DEF CoordInv, TypesAreKept
  <2> QED
    BY <1>3, <2>1 DEF ReadySignal, Handle
<1>8. request' \in Request /\ RequestIsSound'
  <2>1. CASE request' = request
    <3>1. request' = NoRequest /\ NoRequest \in Request
      BY <1>1, <2>1 DEF Request, NoRequest
    <3> QED
      BY <3>1, PartsKept
  <2>2. CASE /\ request' = [op |-> "run", s |-> s, todo |-> InOrder(nodeId[s]), from |-> n]
             /\ AllReady(s, readyCount[s] + 1)
    <3>1. readyCount[s] + 1 <= Cardinality(ready[s])
      <4> DEFINE before == Cardinality(Reports(s))
                 after == Cardinality(Reports(s)')
                 all == Cardinality(ready[s])
      <4>1. /\ before \in Nat /\ after \in Nat /\ all \in Nat /\ readyCount[s] \in Nat
            /\ readyCount[s] + before <= all /\ after <= before - 1
        BY <1>2, <1>3, <1>4
      <4> HIDE DEF before, after, all
      <4>2. readyCount[s] + 1 <= all
        BY <4>1
      <4> QED
        BY <4>2 DEF all
    <3>2. ready[s] = CompsOf(s) /\ Assigned(s)
      BY <2>2, <3>1, SignalIsTrue
    <3> DEFINE q == InOrder(nodeId[s])
    <3>3. q \in Seq(Nodes) /\ Range(q) = {nodeId[s][i] : i \in CompsOf(s)}
      BY <3>2, CallsAreHosts DEF Assigned
    <3>4. HostsOf(s) = {nodeId[s][i] : i \in CompsOf(s)}
      <4>1. None \notin Nodes
        BY CoordinatorAssumption DEF None, Nodes
      <4> QED
        BY <3>2, <4>1 DEF Assigned, HostsOf
    <3> HIDE DEF q
    <3>5. request' = [op |-> "run", s |-> s, todo |-> q, from |-> n]
      BY <2>2 DEF q
    <3>6. request' \in Request
      BY <3>3, <3>5 DEF Request
    <3>7. /\ request'.op = "run" /\ request'.s = s /\ Range(request'.todo) = HostsOf(s)
          /\ HostsOf(s)' = HostsOf(s) /\ nodeId'[s] \in [CompsOf(s) -> Nodes] /\ ready'[s] = CompsOf(s)
      BY <1>1, <3>2, <3>3, <3>4, <3>5 DEF Assigned, HostsOf
    <3>8. RequestIsSound'
      BY <3>7 DEF RequestIsSound, Assigned, HostsOf
    <3> QED
      BY <3>6, <3>8
  <2> QED
    BY <1>7, <2>1, <2>2
<1>9. TypesAreKept'
  BY <1>1, <1>2, <1>5, <1>8 DEF CoordInv, TypesAreKept
<1>10. IsStartup
  BY <1>1 DEF IsStartup, Startup!vars
<1> QED
  BY <1>1, <1>6, <1>8, <1>9, <1>10, PartsKept DEF CoordInv

\* A request to terminate is taken, and its session's nodes are to be called.
LEMMA TerminationTaken ==
    ASSUME CoordInv, NEW n \in Nodes, TerminateRequest(n)
    PROVE  CoordInv' /\ IsStartup
<1>1. /\ request = NoRequest /\ events[n] # <<>>
      /\ events' = [events EXCEPT ![n] = Tail(@)]
      /\ UNCHANGED <<nodes, free, perSession, sessions, nodeId, readyCount, requested, node, state,
                     ready, launched, told, engineReady>>
  BY DEF TerminateRequest, TakeEvent, Idle, resources, nodeVars, history
<1>2. events' \in [Nodes -> Seq(EventOf)] /\ Head(events[n]) \in EventOf
  <2>1. events \in [Nodes -> Seq(EventOf)]
    BY DEF CoordInv, TypesAreKept
  <2>2. events[n] \in Seq(EventOf) /\ events[n] # <<>>
    BY <1>1, <2>1
  <2>3. Tail(events[n]) \in Seq(EventOf) /\ Head(events[n]) \in EventOf
    BY <2>2
  <2> QED
    BY <1>1, <2>1, <2>3
<1>3. ASSUME NEW x \in Sessions
      PROVE  /\ IsFiniteSet(Reports(x)')
             /\ readyCount[x] + Cardinality(Reports(x)') <= Cardinality(ready[x])
  <2>1. /\ IsFiniteSet(Reports(x)') /\ Cardinality(Reports(x)') \in Nat
        /\ Cardinality(Reports(x)) \in Nat
        /\ Cardinality(Reports(x)') <= Cardinality(Reports(x))
    BY <1>1, ReportsTaken
  <2>2. ready[x] \subseteq CompsOf(x) /\ readyCount[x] \in Nat
    BY DEF CoordInv, TypesAreKept
  <2>3. Cardinality(ready[x]) \in Nat
    BY <2>2, DefinitionIs, FS_Subset, FS_CardinalityType
  <2>4. readyCount[x] + Cardinality(Reports(x)) <= Cardinality(ready[x])
    BY DEF CoordInv, ReportsAreTrue
  <2> QED
    BY <2>1, <2>2, <2>3, <2>4
<1>4. ReportsAreTrue'
  <2>1. ReportsAreTrue' <=> \A x \in Sessions : IsFiniteSet(Reports(x)') /\
                              readyCount'[x] + Cardinality(Reports(x)') <= Cardinality(ready'[x])
    BY DEF ReportsAreTrue
  <2> QED
    BY <1>1, <1>3, <2>1
<1>5. request' \in Request /\ RequestIsSound'
  <2>1. CASE request' = request
    <3>1. request' = NoRequest /\ NoRequest \in Request
      BY <1>1, <2>1 DEF Request, NoRequest
    <3> QED
      BY <3>1, PartsKept
  <2>2. ASSUME NEW s \in Sessions, NEW todo \in SetToSeqs(HostsOf(s)), Handle("terminate", s, todo, n)
        PROVE  request' \in Request /\ RequestIsSound'
    <3>1. HostsOf(s) \subseteq Nodes
      BY DEF CoordInv, TypesAreKept, HostsOf
    <3>2. IsFiniteSet(Nodes)
      BY CoordinatorAssumption, FS_Interval DEF Nodes
    <3>3. Cardinality(HostsOf(s)) \in Nat
      BY <3>1, <3>2, FS_Subset, FS_CardinalityType
    <3>4. todo \in [1 .. Cardinality(HostsOf(s)) -> HostsOf(s)]
      BY DEF SetToSeqs
    <3>5. todo \in Seq(Nodes)
      <4>1. todo \in [1 .. Cardinality(HostsOf(s)) -> Nodes]
        BY <3>1, <3>4
      <4> QED
        BY <3>3, <4>1
    <3>6. request' = [op |-> "terminate", s |-> s, todo |-> todo, from |-> n]
      BY <2>2 DEF Handle
    <3> QED
      BY <3>5, <3>6 DEF Request, RequestIsSound
  <2>3. Head(events[n]).s \in Sessions
    BY <1>2 DEF EventOf
  <2> QED
    BY <2>1, <2>2, <2>3 DEF TerminateRequest
<1>6. TypesAreKept'
  BY <1>1, <1>2, <1>5 DEF CoordInv, TypesAreKept
<1>7. IsStartup
  BY <1>1 DEF IsStartup, Startup!vars
<1> QED
  BY <1>1, <1>4, <1>5, <1>6, <1>7, PartsKept DEF CoordInv

\* A session that was never asked for has nothing anywhere.
LEMMA NewIsAllocation ==
    ASSUME CoordInv, NEW s \in Sessions, s \notin requested
    PROVE  IsAllocation(s, [ok |-> TRUE, free |-> free, perSession |-> perSession, comps |-> nodeId[s]])
<1> DEFINE a == [ok |-> TRUE, free |-> free, perSession |-> perSession, comps |-> nodeId[s]]
<1>1. /\ free \in [Nodes -> Account] /\ DOMAIN perSession = Nodes
      /\ nodeId[s] \in [CompsOf(s) -> Nodes \cup {None}]
      /\ \A i \in CompsOf(s) : nodeId[s][i] = None
  BY DEF CoordInv, TypesAreKept, NoneIsAssigned
<1>2. ASSUME NEW n \in Nodes
      PROVE  /\ perSession[n] \in [DOMAIN perSession[n] -> Account]
             /\ IsFiniteSet(DOMAIN perSession[n])
             /\ free[n].memory + SumOver(BookedBy(perSession[n]), DOMAIN perSession[n]) = Total[n].memory
             /\ SumOver(MemoryAt(s, nodeId[s], n), CompsOf(s)) <= BookedFor(s, perSession[n])
  <2>1. s \notin DOMAIN perSession[n]
    BY DEF CoordInv, MemoryIsBooked
  <2>2. BookedFor(s, perSession[n]) = 0
    BY <2>1 DEF BookedFor
  <2>3. None # n
    BY CoordinatorAssumption DEF None, Nodes
  <2> DEFINE f == MemoryAt(s, nodeId[s], n)
  <2>4. \A i \in CompsOf(s) : f[i] = 0
    BY <1>1, <2>3 DEF MemoryAt
  <2>5. IsFiniteSet(CompsOf(s))
    BY DefinitionIs
  <2> HIDE DEF f
  <2>6. SumOver(f, CompsOf(s)) = 0
    BY <2>4, <2>5, SumOfZeros
  <2>7. SumOver(f, CompsOf(s)) <= BookedFor(s, perSession[n])
    BY <2>2, <2>6
  <2> QED
    BY <2>7 DEF f, CoordInv, TypesAreKept, AccountsBalance
<1>3. /\ a = [ok |-> a.ok, free |-> a.free, perSession |-> a.perSession, comps |-> a.comps]
      /\ a.ok = TRUE /\ a.free = free /\ a.perSession = perSession /\ a.comps = nodeId[s]
  OBVIOUS
<1> HIDE DEF a
<1>4. IsAllocation(s, a)
  BY <1>1, <1>2, <1>3 DEF IsAllocation
<1> QED
  BY <1>4 DEF a

\* An allocation that fails half-way leaves the accounts right all the same.
LEMMA CreateKeeps ==
    ASSUME CoordInv, NEW s \in Sessions, CreateSession(s)
    PROVE  CoordInv' /\ IsStartup
<1> DEFINE a == Allocation(s)
<1>1. /\ request = NoRequest /\ s \notin requested
      /\ requested' = requested \cup {s} /\ sessions' = sessions \cup {s}
      /\ free' = a.free /\ perSession' = a.perSession
      /\ IF a.ok
         THEN /\ nodeId' = [nodeId EXCEPT ![s] = a.comps]
              /\ request' = [op |-> "launch", s |-> s, todo |-> InOrder(a.comps), from |-> None]
         ELSE UNCHANGED <<nodeId, request>>
      /\ UNCHANGED <<nodes, readyCount, node, state, ready, events, launched, told, engineReady>>
  BY DEF CreateSession, Idle, Handle, nodeVars, history
<1>2. IsAllocation(s, a) /\ (a.ok => a.comps \in [CompsOf(s) -> Nodes])
  <2>1. nodes \in Seq(Nodes)
    BY DEF CoordInv, TypesAreKept
  <2> QED
    BY <1>1, <2>1, NewIsAllocation, AllocationKeeps
<1> HIDE DEF a
<1>3. /\ free' \in [Nodes -> Account] /\ DOMAIN perSession' = Nodes
      /\ \A n \in Nodes :
          /\ perSession'[n] \in [DOMAIN perSession'[n] -> Account]
          /\ IsFiniteSet(DOMAIN perSession'[n])
          /\ free'[n].memory + SumOver(BookedBy(perSession'[n]), DOMAIN perSession'[n]) = Total[n].memory
          /\ SumOver(MemoryAt(s, a.comps, n), CompsOf(s)) <= BookedFor(s, perSession'[n])
          /\ DOMAIN perSession'[n] \ {s} = DOMAIN perSession[n] \ {s}
          /\ \A x \in DOMAIN perSession[n] \ {s} : perSession'[n][x] = perSession[n][x]
  BY <1>1, <1>2 DEF IsAllocation
<1>4. /\ nodeId = [x \in Sessions |-> nodeId[x]]
      /\ \A x \in Sessions : nodeId[x] \in [CompsOf(x) -> Nodes \cup {None}]
      /\ \A i \in CompsOf(s) : nodeId[s][i] = None
  BY <1>1 DEF CoordInv, TypesAreKept, NoneIsAssigned
<1>5. /\ nodeId' = [x \in Sessions |-> nodeId'[x]]
      /\ \A x \in Sessions : nodeId'[x] \in [CompsOf(x) -> Nodes \cup {None}]
      /\ \A x \in Sessions \ {s} : nodeId'[x] = nodeId[x]
      /\ a.ok => nodeId'[s] = a.comps
      /\ ~ a.ok => nodeId'[s] = nodeId[s]
  BY <1>1, <1>2, <1>4
<1>6. ASSUME a.ok
      PROVE  /\ InOrder(a.comps) \in Seq(Nodes)
             /\ Range(InOrder(a.comps)) = {a.comps[i] : i \in CompsOf(s)}
  BY <1>2, <1>6, CallsAreHosts
<1>7. request' \in Request /\ RequestIsSound'
  <2>1. CASE a.ok
    <3> DEFINE q == InOrder(a.comps)
    <3>1. q \in Seq(Nodes) /\ Range(q) = {a.comps[i] : i \in CompsOf(s)}
      BY <1>6, <2>1
    <3> HIDE DEF q
    <3>2. request' = [op |-> "launch", s |-> s, todo |-> q, from |-> None]
      BY <1>1, <2>1 DEF q
    <3>3. None \notin Nodes
      BY CoordinatorAssumption DEF None, Nodes
    <3>4. /\ nodeId'[s] \in [CompsOf(s) -> Nodes]
          /\ Range(q) \subseteq HostsOf(s)'
      BY <1>2, <1>5, <2>1, <3>1, <3>3 DEF HostsOf
    <3>5. request' \in Request
      BY <3>1, <3>2 DEF Request
    <3>6. request'.op = "launch" /\ request'.s = s /\ request'.todo = q
      BY <3>2
    <3>7. RequestIsSound'
      BY <3>4, <3>6 DEF RequestIsSound, Assigned, HostsOf
    <3> QED
      BY <3>5, <3>7
  <2>2. CASE ~ a.ok
    <3>1. request' = NoRequest /\ NoRequest \in Request
      BY <1>1, <2>2 DEF Request, NoRequest
    <3> QED
      BY <3>1, PartsKept
  <2> QED
    BY <2>1, <2>2
<1>8. TypesAreKept'
  BY <1>1, <1>3, <1>5, <1>7 DEF CoordInv, TypesAreKept
<1>9. NoneIsAssigned'
  BY <1>1, <1>5 DEF CoordInv, NoneIsAssigned
<1>10. ToldAreHosts'
  <2>1. \A x \in Sessions \ {s} : HostsOf(x)' = HostsOf(x)
    BY <1>5 DEF HostsOf
  <2>2. told[s] = {}
    <3>1. told[s] \subseteq HostsOf(s)
      BY DEF CoordInv, ToldAreHosts
    <3> QED
      BY <1>4, <3>1 DEF HostsOf
  <2>3. \A x \in Sessions : told'[x] \subseteq HostsOf(x)'
    BY <1>1, <2>1, <2>2 DEF CoordInv, ToldAreHosts
  <2> QED
    BY <2>3 DEF ToldAreHosts
<1>11. ReadyIsAssigned'
  <2>1. ready[s] \subseteq CompsOf(s) /\ None \notin Nodes
    BY CoordinatorAssumption DEF CoordInv, TypesAreKept, None, Nodes
  <2>2. ready[s] = {}
    BY <1>4, <2>1 DEF CoordInv, ReadyIsAssigned
  <2> QED
    BY <1>1, <1>5, <2>2 DEF CoordInv, ReadyIsAssigned
<1>12. AccountsBalance'
  BY <1>3 DEF AccountsBalance, BookedBy
<1>13. MemoryIsBooked'
  <2>1. ASSUME NEW n \in Nodes
        PROVE  SumOver(MemoryAt(s, nodeId'[s], n), CompsOf(s)) <= BookedFor(s, perSession'[n])
    <3>1. CASE a.ok
      BY <1>3, <1>5, <3>1
    <3>2. CASE ~ a.ok
      <4> DEFINE f == MemoryAt(s, nodeId[s], n)
                 g == MemoryAt(s, a.comps, n)
      <4>1. \A i \in CompsOf(s) : g[i] \in Nat /\ f[i] = 0
        <5>1. None # n
          BY CoordinatorAssumption DEF None, Nodes
        <5> QED
          BY <1>4, <5>1, DefinitionIs DEF MemoryAt
      <4> HIDE DEF f, g
      <4>2. (\A i \in CompsOf(s) : g[i] \in Nat) /\ (\A i \in CompsOf(s) : f[i] \in Int /\ f[i] <= g[i])
            /\ (\A i \in CompsOf(s) : g[i] \in Int /\ f[i] \in Int)
        BY <4>1
      <4>3. IsFiniteSet(CompsOf(s)) /\ CompsOf(s) \in SUBSET CompsOf(s)
        BY DefinitionIs
      <4>4. SumOver(f, CompsOf(s)) <= SumOver(g, CompsOf(s))
        BY <4>2, <4>3, SumGrows
      <4>5. SumOver(f, CompsOf(s)) \in Int /\ SumOver(g, CompsOf(s)) \in Int
        BY <4>2, <4>3, SumIsInt
      <4>6. SumOver(g, CompsOf(s)) <= BookedFor(s, perSession'[n]) /\ BookedFor(s, perSession'[n]) \in Int
        BY <1>3 DEF g, BookedFor, Account
      <4>7. SumOver(f, CompsOf(s)) <= BookedFor(s, perSession'[n])
        BY <4>4, <4>5, <4>6
      <4> QED
        BY <1>5, <3>2, <4>7 DEF f
    <3> QED
      BY <3>1, <3>2
  <2>2. ASSUME NEW n \in Nodes, NEW x \in DOMAIN perSession'[n]
        PROVE  x \in requested' /\ SumOver(MemoryAt(x, nodeId'[x], n), CompsOf(x)) <= perSession'[n][x].memory
    <3>1. CASE x = s
      BY <1>1, <2>1, <2>2, <3>1 DEF BookedFor
    <3>2. CASE x # s
      <4>1. x \in DOMAIN perSession[n] /\ perSession'[n][x] = perSession[n][x]
        BY <1>3, <3>2
      <4>2. x \in requested /\ SumOver(MemoryAt(x, nodeId[x], n), CompsOf(x)) <= perSession[n][x].memory
        BY <4>1 DEF CoordInv, MemoryIsBooked
      <4>3. x \in Sessions
        BY <4>2 DEF CoordInv, TypesAreKept
      <4> QED
        BY <1>1, <1>5, <3>2, <4>1, <4>2, <4>3
    <3> QED
      BY <3>1, <3>2
  <2> QED
    BY <2>2 DEF MemoryIsBooked, MemoryAt
<1>14. IsStartup
  <2>1. CASE a.ok /\ CompsOf(s) # {}
    <3>1. None \in Startup!HostsOf(s)
      BY <1>4, <2>1 DEF Startup!HostsOf
    <3>2. Startup!Allocate(s)
      BY <1>1, <1>2, <2>1, <3>1 DEF Startup!Allocate
    <3> QED
      BY <3>2 DEF IsStartup, Startup!Next
  <2>2. CASE ~ a.ok \/ CompsOf(s) = {}
    <3>1. nodeId'[s] = nodeId[s]
      BY <1>4, <1>5, <2>2
    <3>2. nodeId' = nodeId
      <4>1. \A x \in Sessions : nodeId'[x] = nodeId[x]
        BY <1>5, <3>1
      <4> QED
        BY <1>4, <1>5, <4>1
    <3> QED
      BY <1>1, <3>2 DEF IsStartup, Startup!vars
  <2> QED
    BY <2>1, <2>2
<1> QED
  BY <1>1, <1>7, <1>8, <1>9, <1>10, <1>11, <1>12, <1>13, <1>14, PartsKept DEF CoordInv

\* It holds at the start.
LEMMA InitHolds ==
    ASSUME Init
    PROVE  CoordInv /\ Startup!Init
<1>1. None \notin Nodes /\ None = 0 /\ Nodes = 1 .. N
  BY CoordinatorAssumption DEF None, Nodes
<1>2. TypesAreKept
  <2>1. nodes \in Seq(Nodes) /\ IsInjective(nodes)
    BY DEF Init, IsInjective
  <2>2. free \in [Nodes -> Account]
    BY <1>1, CoordinatorAssumption DEF Init, Account
  <2>3. NoRequest \in Request
    BY DEF Request, NoRequest
  <2>4. <<>> \in Seq(EventOf)
    OBVIOUS
  <2> QED
    BY <2>1, <2>2, <2>3, <2>4 DEF Init, TypesAreKept, SessionState
<1>3. NewAreNotListed
  BY DEF Init, NewAreNotListed, Range
<1>4. NoneIsAssigned
  BY DEF Init, NoneIsAssigned
<1>5. ReportsAreTrue
  <2>1. ASSUME NEW s \in Sessions PROVE Reports(s) = {}
    <3>1. \A n \in Nodes : events[n] = <<>> /\ Len(events[n]) = 0
      BY DEF Init
    <3> QED
      BY <3>1 DEF Reports
  <2>2. ASSUME NEW s \in Sessions
        PROVE  IsFiniteSet(Reports(s)) /\ readyCount[s] + Cardinality(Reports(s)) <= Cardinality(ready[s])
    <3>1. IsFiniteSet(Reports(s)) /\ Cardinality(Reports(s)) = 0
      BY <2>1, FS_EmptySet
    <3>2. readyCount[s] = 0 /\ Cardinality(ready[s]) = 0
      BY FS_EmptySet DEF Init
    <3> QED
      BY <3>1, <3>2
  <2> QED
    BY <2>2 DEF ReportsAreTrue
<1>6. RunningIsLaunched
  BY DEF Init, RunningIsLaunched, Running
<1>7. RequestIsSound
  BY DEF Init, RequestIsSound, NoRequest
<1>8. ToldAreHosts /\ ReadyIsAssigned
  BY DEF Init, ToldAreHosts, ReadyIsAssigned
<1>9. AccountsBalance
  <2>1. ASSUME NEW n \in Nodes
        PROVE  /\ IsFiniteSet(DOMAIN perSession[n])
               /\ free[n].memory + SumOver(BookedBy(perSession[n]), DOMAIN perSession[n]) = Total[n].memory
    <3>1. DOMAIN perSession[n] = {} /\ free[n] = Total[n]
      BY DEF Init
    <3>2. SumOver(BookedBy(perSession[n]), {}) = 0
      BY FS_EmptySet, SumOfChosen
    <3>3. Total[n].memory \in Nat
      BY <1>1, CoordinatorAssumption
    <3> QED
      BY <3>1, <3>2, <3>3, FS_EmptySet
  <2> QED
    BY <2>1 DEF AccountsBalance
<1>10. MemoryIsBooked
  <2>1. \A n \in Nodes : DOMAIN perSession[n] = {}
    BY DEF Init
  <2> QED
    BY <2>1 DEF MemoryIsBooked
<1>11. Startup!Init
  BY DEF Init, Startup!Init
<1> QED
  BY <1>2, <1>3, <1>4, <1>5, <1>6, <1>7, <1>8, <1>9, <1>10, <1>11 DEF CoordInv

\* Every step preserves it, and is a step of the promised startup or none.
LEMMA StepHolds ==
    ASSUME CoordInv, [Next]_vars
    PROVE  CoordInv' /\ IsStartup
<1>1. CASE HandleRequest
  BY <1>1, RequestEnds, LaunchKeeps, RunKeeps, SignalKeeps, DeleteKeeps DEF HandleRequest
<1>2. ASSUME NEW s \in Sessions, CreateSession(s) PROVE CoordInv' /\ IsStartup
  BY <1>2, CreateKeeps
<1>3. ASSUME NEW n \in Nodes, Event(n) PROVE CoordInv' /\ IsStartup
  BY <1>3, SignalTaken, TerminationTaken DEF Event
<1>4. ASSUME NEW n \in Nodes, Register(n) \/ Unregister(n) PROVE CoordInv' /\ IsStartup
  BY <1>4, RegisterKeeps, UnregisterKeeps
<1>5. ASSUME NEW n \in Nodes, StopNode(n) \/ Crash(n) PROVE CoordInv' /\ IsStartup
  BY <1>5, NodeKeeps
<1>6. ASSUME NEW n \in Nodes, NEW s \in Sessions,
             UpdateFails(n, s) \/ OperationEnds(n, s) \/ ClientLeaves(n, s)
      PROVE  CoordInv' /\ IsStartup
  BY <1>6, NodeKeeps
<1>7. ASSUME NEW n \in Nodes, NEW s \in Sessions, NEW i \in CompsOf(s), ComputationReady(n, s, i)
      PROVE  CoordInv' /\ IsStartup
  BY <1>7, ReadyKeeps
<1>8. CASE UNCHANGED vars
  <2>1. UNCHANGED <<nodes, free, perSession, sessions, nodeId, readyCount, requested, request,
                    node, state, ready, events, launched, told, engineReady>>
    BY <1>8 DEF vars, coordVars, resources, nodeVars, history
  <2>2. TypesAreKept'
    BY <2>1 DEF CoordInv, TypesAreKept
  <2>3. IsStartup
    BY <2>1 DEF IsStartup, Startup!vars
  <2> QED
    BY <2>1, <2>2, <2>3, PartsKept DEF CoordInv
<1> QED
  BY <1>1, <1>2, <1>3, <1>4, <1>5, <1>6, <1>7, <1>8 DEF Next

-----------------------------------------------------------------------------
(* The theorems.                                                           *)

\* The invariant holds in every state.
THEOREM CoordInvariant == Spec => []CoordInv
<1>1. Init => CoordInv
  BY InitHolds
<1>2. CoordInv /\ [Next]_vars => CoordInv'
  BY StepHolds
<1> QED
  BY <1>1, <1>2, PTL DEF Spec

\* The Coordinator's variables keep their types; free memory is never negative, and
\* no more computations are counted ready than are.
THEOREM TypeCorrect == Spec => []TypeOK
<1>1. CoordInv => TypeOK
  <2> SUFFICES ASSUME CoordInv PROVE TypeOK
    OBVIOUS
  <2>1. TypesAreKept
    BY DEF CoordInv
  <2>2. \A n \in Nodes : perSession[n] \in [DOMAIN perSession[n] -> Resources]
    <3>1. \A x \in Account : x \in Resources
      BY DEF Account, Resources
    <3> QED
      BY <2>1, <3>1 DEF TypesAreKept
  <2>3. \A s \in Sessions : readyCount[s] \in 0 .. Cardinality(ready[s])
    <3> SUFFICES ASSUME NEW s \in Sessions PROVE readyCount[s] \in 0 .. Cardinality(ready[s])
      OBVIOUS
    <3>1. ready[s] \subseteq CompsOf(s) /\ readyCount[s] \in Nat
      BY <2>1 DEF TypesAreKept
    <3>2. Cardinality(ready[s]) \in Nat
      BY <3>1, DefinitionIs, FS_Subset, FS_CardinalityType
    <3>3. IsFiniteSet(Reports(s)) /\ readyCount[s] + Cardinality(Reports(s)) <= Cardinality(ready[s])
      BY DEF CoordInv, ReportsAreTrue
    <3>4. Cardinality(Reports(s)) \in Nat
      BY <3>3, FS_CardinalityType
    <3> DEFINE before == Cardinality(Reports(s))
               all == Cardinality(ready[s])
    <3>5. before \in Nat /\ all \in Nat /\ readyCount[s] + before <= all
      BY <3>2, <3>3, <3>4
    <3> HIDE DEF before, all
    <3>6. readyCount[s] \in 0 .. all
      BY <3>1, <3>5
    <3> QED
      BY <3>6 DEF all
  <2> QED
    BY <2>1, <2>2, <2>3 DEF TypesAreKept, TypeOK, Account
<1> QED
  BY <1>1, CoordInvariant, PTL

\* What runs on a node and is on an account, and what is free, fit in its memory:
\* allocations and terminations that fail half-way give no memory away twice.
THEOREM MemoryIsBookedOnce == Spec => []BookedOnce
<1>1. CoordInv => BookedOnce
  <2> SUFFICES ASSUME CoordInv, NEW n \in Nodes
               PROVE  free[n].memory + SumOver(MemoryIn(n), RunningOn(n) \cap DOMAIN perSession[n]) <= Total[n].memory
    BY DEF BookedOnce
  <2> DEFINE f == MemoryIn(n)
             g == BookedBy(perSession[n])
             S == DOMAIN perSession[n]
             V == RunningOn(n) \cap S
  <2>1. /\ free[n] \in Account /\ perSession[n] \in [S -> Account]
        /\ IsFiniteSet(S) /\ free[n].memory + SumOver(g, S) = Total[n].memory
        /\ requested \subseteq Sessions
    BY DEF CoordInv, TypesAreKept, AccountsBalance
  <2>2. \A x \in S : g[x] \in Nat
    BY <2>1 DEF BookedBy, Account
  <2>3. ASSUME NEW x \in V PROVE f[x] \in Int /\ f[x] <= g[x]
    <3>1. x \in S /\ x \in Sessions
      BY DEF RunningOn
    <3>2. f[x] = SumOver(MemoryAt(x, nodeId[x], n), CompsOf(x))
      BY <3>1 DEF MemoryIn, MemoryOf, MemoryAt, Memory
    <3>3. g[x] = perSession[n][x].memory
      BY <3>1 DEF BookedBy
    <3>4. SumOver(MemoryAt(x, nodeId[x], n), CompsOf(x)) <= perSession[n][x].memory
      BY <3>1 DEF CoordInv, MemoryIsBooked
    <3> DEFINE h == MemoryAt(x, nodeId[x], n)
    <3>5. \A i \in CompsOf(x) : h[i] \in Int
      BY <3>1, DefinitionIs DEF MemoryAt
    <3>6. IsFiniteSet(CompsOf(x))
      BY <3>1, DefinitionIs
    <3> HIDE DEF h
    <3>7. SumOver(h, CompsOf(x)) \in Int
      BY <3>5, <3>6, SumIsInt
    <3> QED
      BY <3>2, <3>3, <3>4, <3>7 DEF h
  <2>4. V \in SUBSET S
    OBVIOUS
  <2> HIDE DEF f, g, V, S
  <2>5. SumOver(f, V) <= SumOver(g, S)
    BY <2>1, <2>2, <2>3, <2>4, SumGrows
  <2>6. SumOver(f, V) \in Int /\ SumOver(g, S) \in Int
    <3>1. IsFiniteSet(V)
      BY <2>1, <2>4, FS_Subset
    <3>2. (\A x \in V : f[x] \in Int) /\ (\A x \in S : g[x] \in Int)
      BY <2>2, <2>3
    <3> QED
      BY <2>1, <3>1, <3>2, SumIsInt
  <2>7. free[n].memory \in Int
    BY <2>1 DEF Account
  <2>8. free[n].memory + SumOver(f, V) <= Total[n].memory
    BY <2>1, <2>5, <2>6, <2>7
  <2> QED
    BY <2>8 DEF f, V, S
<1> QED
  BY <1>1, CoordInvariant, PTL

\* The Coordinator, its nodes and the events between them implement the promised
\* startup: nothing runs before all is ready, nor is the client told before.
THEOREM StartupIsImplemented == Spec => ImplementsStartup
<1>1. Init => Startup!Init
  BY InitHolds
<1>2. CoordInv /\ [Next]_vars => [Startup!Next]_(Startup!vars)
  BY StepHolds DEF IsStartup
<1> QED
  BY <1>1, <1>2, CoordInvariant, PTL DEF Spec, ImplementsStartup, Startup!Spec
=============================================================================
