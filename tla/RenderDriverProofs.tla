-------------------------- MODULE RenderDriverProofs --------------------------
(***************************************************************************)
(* Proofs about RenderDriver and its TileWorkQueue, for any number of      *)
(* threads, tiles, passes and samples.  First the queue: the counter of    *)
(* the groups that were let through and the offset at which the next group *)
(* is cut agree, though no step of a thread changes both.  Then the frame: *)
(* every tile is rendered once in every pass, none is missed, and the      *)
(* driver implements what RenderContext.h promises (RenderedFrame).        *)
(***************************************************************************)
EXTENDS RenderDriver, FiniteSetTheorems, WellFoundedInduction, TLAPS

-----------------------------------------------------------------------------
(* The inductive invariant.                                                *)

NumPasses(s) == Cardinality(Passes(s))

\* What mOffset may be; the number of the first group of a pass; the number of
\* groups the tiles of a pass make.
Offset == [pass : Nat, tile : Tiles]
StartOf(infos, p) == IF p = 0 THEN 0 ELSE infos[p - 1].mEndGroupIdx
GroupsIn(infos, p) == RoundUpDivision(NumTiles, infos[p].mTilesPerGroup)

\* What init computes, seen from reserveNextTileGroup: each pass ends as many
\* groups after the one before as its tiles can be cut into.
GoodInfos(infos, n) ==
    /\ DOMAIN infos = 0 .. n - 1
    /\ \A p \in 0 .. n - 1 :
          /\ infos[p].mTilesPerGroup \in Nat \ {0}
          /\ infos[p].mEndGroupIdx \in Nat
          /\ infos[p].mEndGroupIdx = StartOf(infos, p) + GroupsIn(infos, p)

\* Groups that were cut, of all passes, when the next one begins at o.
GroupsCut(infos, o) ==
    StartOf(infos, o.pass)
    + IF o.pass \in DOMAIN infos
      THEN GroupsIn(infos, o.pass) - GroupsLeft(o, infos[o.pass].mTilesPerGroup)
      ELSE 0

\* Past the last pass there is one offset; an offset within a pass comes after
\* at least one of its groups.
OffsetIsSane(infos, n, o) ==
    /\ o \in Offset
    /\ o.pass \in 0 .. n
    /\ o.pass = n => o.tile = 0
    /\ o.pass # n /\ o.tile # 0 =>
          GroupsLeft(o, infos[o.pass].mTilesPerGroup) < GroupsIn(infos, o.pass)

\* Threads that were let through and have not cut their group; calls of
\* renderPasses; places until the first pass is shown.
In(w, places) == {t \in Threads : w[t] \in places}
Reserving == {"letThrough", "reserving"}
Taking == {"firstPassTaken", "nextPassTaken", "allPassesTaken"}
BeforeShown == {"firstPass", "firstPassTaken", "displayable"}

\* The handshake of the application and the render thread; threads run only
\* within a call of renderPasses.
ThreadsAgree ==
    /\ app = "idle" => mRenderThreadState = "READY_TO_RENDER"
    /\ app = "gone" => mRenderThreadState \in {"KILL_RENDER_THREAD", "DEAD"}
    /\ app \in {"rendering", "stopping"} =>
          mRenderThreadState \in {"REQUEST_RENDER", "RENDERING", "RENDERING_DONE"}
    /\ at # "waiting" <=> mRenderThreadState = "RENDERING"
    /\ at \notin Taking => \A t \in Threads : worker[t] = "off"

\* numTBBThreads counts no thread twice.
AwakeAreCounted ==
    numTBBThreads + Cardinality(In(worker, {"started"})) <= Cardinality(Threads)

\* If the passes that are left are rendered one by one there is one left.
CoarseIsKnown ==
    /\ at \in BeforeShown => clampPass = 0
    /\ at \in BeforeShown => mCoarsePassesComplete \/ mLastCoarsePassIdx[mFs.mode] # MaxRenderPasses
    /\ at = "displayable" => mCoarsePassesComplete \/ mLastCoarsePassIdx[mFs.mode] > 0

\* The queue was initialised for the frame that is rendered.
InfosAreKnown ==
    mRenderThreadState \in {"REQUEST_RENDER", "RENDERING"} =>
        mPassInfos = PassInfos(SamplesPerTile[mFs.mode])

\* The heart of it: the groups that were cut and the threads that are about to
\* cut one are the groups that were let through.
QueueAgrees ==
    at # "waiting" =>
        /\ clampPass \in Passes(mFs)
        /\ mGroupClampIdx = mPassInfos[clampPass].mEndGroupIdx
        /\ OffsetIsSane(mPassInfos, NumPasses(mFs), mOffset)
        /\ GroupsCut(mPassInfos, mOffset) + Cardinality(In(worker, Reserving)) = mGlobalGroupIdx

\* A group that is being rendered is not empty and of a pass that may be.
GroupsAreSane ==
    /\ seenOffset \in [Threads -> Offset]
    /\ group \in [Threads -> [pass : Nat, from : Nat, to : 0 .. NumTiles, size : Nat]]
    /\ \A t \in Threads : worker[t] = "rendering" =>
          group[t].from < group[t].to /\ group[t].pass <= clampPass

\* Nothing was rendered of a later pass.
NothingBeyond ==
    at # "waiting" => \A x \in DOMAIN film :
                         x[1] \in Nat /\ (x[1] > clampPass => film[x] = 0)

QueueInv ==
    /\ TypeOK
    /\ mOffset \in Offset
    /\ mGroupClampIdx \in Nat
    /\ ThreadsAgree
    /\ AwakeAreCounted
    /\ CoarseIsKnown
    /\ InfosAreKnown
    /\ QueueAgrees
    /\ GroupsAreSane
    /\ NothingBeyond

-----------------------------------------------------------------------------
(* The passes and their groups.                                            *)

\* A set of numbers that is not empty has a least one: the form in which the
\* proofs below argue by induction, with a least counterexample.
LEMMA LeastNumber ==
    ASSUME NEW S, S \subseteq Nat, S # {}
    PROVE  \E x \in S : \A y \in S : x <= y
<1> DEFINE R == {ss \in Nat \X Nat : ss[1] < ss[2]}
<1>0. OpToRel(<, Nat) = R
  BY Zenon DEF OpToRel
<1>1. IsWellFoundedOn(R, Nat)
  BY Zenon, <1>0, NatLessThanWellFounded
<1>2. PICK x \in S : \A y \in S : ~ (<<y, x>> \in R)
  <2> HIDE DEF R
  <2> QED
    BY <1>1, WFMin
<1>3. ASSUME NEW y \in S PROVE x <= y
  <2>1. x \in Nat /\ y \in Nat
    BY <1>2
  <2>2. y < x => <<y, x>> \in R
    BY <2>1
  <2>3. ~ (y < x)
    BY <1>2, <2>2
  <2> QED
    BY <2>1, <2>3
<1> QED
  BY <1>3

\* A group has at least one tile.
LEMMA TilesPerGroupIsPositive ==
    ASSUME NEW n \in Nat \ {0}
    PROVE  TilesPerGroup(n) \in Nat \ {0}
<1> DEFINE rounded == (2 * DesiredSamples + n) \div (2 * n)
<1>1. rounded \in Nat
  BY QueueAssumption
<1>2. MaxTilesPerGroup \in Nat \ {0}
  BY QueueAssumption
<1>3. TilesPerGroup(n) = CASE rounded < 1 -> 1 [] rounded > MaxTilesPerGroup -> MaxTilesPerGroup [] OTHER -> rounded
  BY DEF TilesPerGroup
<1> HIDE DEF rounded
<1> QED
  BY <1>1, <1>2, <1>3

\* The recursion of init over the passes has a solution, and EndGroupIdx is one.
LEMMA EndIsDefined ==
    ASSUME NEW n \in Nat \ {0}, NEW samples \in [0 .. n - 1 -> Nat \ {0}]
    PROVE  EndGroupIdx(samples) =
             [p \in 0 .. n - 1 |->
                 RoundUpDivision(NumTiles, TilesPerGroup(samples[p]))
                 + IF p = 0 THEN 0 ELSE EndGroupIdx(samples)[p - 1]]
<1> DEFINE G(p) == RoundUpDivision(NumTiles, TilesPerGroup(samples[p]))
           Sums(f, m) == f = [p \in 0 .. m - 1 |-> G(p) + IF p = 0 THEN 0 ELSE f[p - 1]]
           Without == {m \in 0 .. n : ~ \E f : Sums(f, m)}
<1>0. EndGroupIdx(samples) = CHOOSE f : f = [p \in DOMAIN samples |-> G(p) + IF p = 0 THEN 0 ELSE f[p - 1]]
  BY DEF EndGroupIdx
<1>01. DOMAIN samples = 0 .. n - 1
  OBVIOUS
<1>02. EndGroupIdx(samples) = CHOOSE f : Sums(f, n)
  BY <1>0, <1>01
<1>1. SUFFICES \E f : Sums(f, n)
  BY <1>02
<1>2. SUFFICES ASSUME Without # {} PROVE FALSE
  <2>1. n \in 0 .. n
    OBVIOUS
  <2> HIDE DEF Sums
  <2> QED
    BY <2>1
<1>3. Without \subseteq Nat
  OBVIOUS
<1>4. PICK m \in Without : \A y \in Without : m <= y
  BY ONLY <1>2, <1>3, LeastNumber
<1>5. CASE m = 0
  <2>1. Sums([p \in 0 .. -1 |-> 0], 0)
    OBVIOUS
  <2> QED
    BY <2>1, <1>5
<1>6. CASE m # 0
  <2>1. m - 1 \in 0 .. n /\ m - 1 \notin Without
    BY <1>4, <1>6
  <2>2. PICK f : Sums(f, m - 1)
    BY <2>1
  <2> DEFINE g == [p \in 0 .. m - 1 |-> G(p) + IF p = 0 THEN 0 ELSE f[p - 1]]
  <2>3. ASSUME NEW p \in 0 .. m - 1, p # 0 PROVE g[p - 1] = f[p - 1]
    <3>0. p - 1 \in 0 .. m - 1 /\ p - 1 \in 0 .. (m - 1) - 1
      BY <2>3, <2>1
    <3>1. g[p - 1] = G(p - 1) + IF p - 1 = 0 THEN 0 ELSE f[p - 1 - 1]
      BY <3>0
    <3>2. f[p - 1] = G(p - 1) + IF p - 1 = 0 THEN 0 ELSE f[p - 1 - 1]
      BY <2>2, <3>0
    <3> QED
      BY <3>1, <3>2
  <2>4. g = [p \in 0 .. m - 1 |-> G(p) + IF p = 0 THEN 0 ELSE g[p - 1]]
    <3> HIDE DEF G
    <3> QED
    BY <2>3
  <2> QED
    BY <2>4
<1> QED
  BY <1>5, <1>6

\* Rounding up: enough groups of k, and no group too many.
LEMMA RoundUp ==
    ASSUME NEW n \in Nat, NEW k \in Nat \ {0}
    PROVE  /\ RoundUpDivision(n, k) \in Nat
           /\ n <= k * RoundUpDivision(n, k)
           /\ k * RoundUpDivision(n, k) < n + k
BY DEF RoundUpDivision

\* What is not nothing makes at least one group.
LEMMA RoundUpPositive ==
    ASSUME NEW n \in Nat \ {0}, NEW k \in Nat \ {0}
    PROVE  RoundUpDivision(n, k) \in Nat \ {0}
BY DEF RoundUpDivision

\* reserveNextTileGroup cuts an even share of the tiles that are left, which is
\* not a whole group of k: one group less is left all the same.
LEMMA CutIsOneGroup ==
    ASSUME NEW L \in Nat \ {0}, NEW k \in Nat \ {0}, RoundUpDivision(L, k) > 1
    PROVE  /\ L \div RoundUpDivision(L, k) \in 1 .. L - 1
           /\ RoundUpDivision(L - (L \div RoundUpDivision(L, k)), k) = RoundUpDivision(L, k) - 1
BY DEF RoundUpDivision

\* TileWorkQueue::init, for any passes: the groups it counts are those that the
\* tiles of each pass can be cut into.
LEMMA PassInfosAreGood ==
    ASSUME NEW n \in Nat \ {0}, NEW samples \in [0 .. n - 1 -> Nat \ {0}]
    PROVE  GoodInfos(PassInfos(samples), n)
<1> DEFINE end == EndGroupIdx(samples)
           infos == PassInfos(samples)
           G(p) == RoundUpDivision(NumTiles, TilesPerGroup(samples[p]))
           NotNat == {p \in 0 .. n - 1 : end[p] \notin Nat}
<1>0. DOMAIN samples = 0 .. n - 1
  OBVIOUS
<1>1. infos = [p \in 0 .. n - 1 |->
            [mStartGroupIdx |-> IF p = 0 THEN 0 ELSE end[p - 1],
             mEndGroupIdx   |-> end[p],
             mTilesPerGroup |-> TilesPerGroup(samples[p])]]
  BY <1>0 DEF PassInfos
<1>2. end = [p \in 0 .. n - 1 |-> G(p) + IF p = 0 THEN 0 ELSE end[p - 1]]
  BY EndIsDefined
<1> HIDE DEF end, infos
<1>3. ASSUME NEW p \in 0 .. n - 1
      PROVE  /\ infos[p].mTilesPerGroup = TilesPerGroup(samples[p])
             /\ infos[p].mEndGroupIdx = end[p]
             /\ infos[p].mTilesPerGroup \in Nat \ {0}
  <2>1. TilesPerGroup(samples[p]) \in Nat \ {0}
    BY TilesPerGroupIsPositive
  <2> QED
    BY <1>1, <2>1
<1>4. ASSUME NEW p \in 0 .. n - 1
      PROVE  G(p) \in Nat /\ G(p) = GroupsIn(infos, p)
  <2>1. TilesPerGroup(samples[p]) \in Nat \ {0}
    BY TilesPerGroupIsPositive
  <2>2. NumTiles \in Nat
    BY QueueAssumption
  <2> QED
    BY <1>3, <2>1, <2>2, RoundUp DEF GroupsIn
<1> HIDE DEF G
<1>5. \A p \in 0 .. n - 1 : end[p] \in Nat
  <2>1. SUFFICES ASSUME NotNat # {} PROVE FALSE
    OBVIOUS
  <2>2. PICK p \in NotNat : \A q \in NotNat : p <= q
    <3>1. NotNat \subseteq Nat
      OBVIOUS
    <3> QED
      BY ONLY <2>1, <3>1, LeastNumber
  <2>3. end[p] = G(p) + IF p = 0 THEN 0 ELSE end[p - 1]
    BY <1>2
  <2>4. p # 0 => end[p - 1] \in Nat
    BY <2>2
  <2> QED
    BY <1>4, <2>3, <2>4
<1>6. ASSUME NEW p \in 0 .. n - 1
      PROVE  infos[p].mEndGroupIdx = StartOf(infos, p) + GroupsIn(infos, p)
  <2>1. end[p] = G(p) + IF p = 0 THEN 0 ELSE end[p - 1]
    BY <1>2
  <2>2. StartOf(infos, p) = IF p = 0 THEN 0 ELSE end[p - 1]
    BY <1>3 DEF StartOf
  <2>3. StartOf(infos, p) \in Nat
    BY <2>2, <1>5
  <2> QED
    BY <1>3, <1>4, <2>1, <2>2, <2>3
<1>7. DOMAIN infos = 0 .. n - 1
  BY <1>1
<1> QED
  BY <1>3, <1>5, <1>6, <1>7 DEF GoodInfos, infos

\* A pass begins where the one before ends, and has a group.
LEMMA StartsAndEnds ==
    ASSUME NEW n \in Nat \ {0}, NEW infos, GoodInfos(infos, n), NEW p \in 0 .. n - 1
    PROVE  /\ StartOf(infos, p) \in Nat
           /\ StartOf(infos, p + 1) = infos[p].mEndGroupIdx
           /\ GroupsIn(infos, p) \in Nat \ {0}
           /\ infos[p].mEndGroupIdx \in Nat
           /\ infos[p].mEndGroupIdx = StartOf(infos, p) + GroupsIn(infos, p)
<1>1. GroupsIn(infos, p) \in Nat \ {0}
  BY QueueAssumption, RoundUpPositive DEF GoodInfos, GroupsIn
<1> QED
  BY <1>1 DEF GoodInfos, StartOf

\* Later passes begin at later groups.
LEMMA StartsGrow ==
    ASSUME NEW n \in Nat \ {0}, NEW infos, GoodInfos(infos, n),
           NEW p \in 0 .. n, NEW q \in 0 .. n, p < q
    PROVE  /\ StartOf(infos, p) \in Nat /\ StartOf(infos, q) \in Nat
           /\ StartOf(infos, p) < StartOf(infos, q)
<1> DEFINE S(r) == StartOf(infos, r)
           NotAbove == {r \in 0 .. n : p < r /\ ~ (S(p) < S(r))}
<1>1. \A r \in 0 .. n : S(r) \in Nat
  BY DEF GoodInfos, StartOf
<1>2. \A r \in 0 .. n - 1 : S(r) < S(r + 1)
  BY StartsAndEnds
<1> HIDE DEF S
<1>3. SUFFICES ASSUME NotAbove # {} PROVE FALSE
  BY <1>1 DEF S
<1>4. PICK r \in NotAbove : \A x \in NotAbove : r <= x
  <2>1. NotAbove \subseteq Nat
    OBVIOUS
  <2> QED
    BY ONLY <1>3, <2>1, LeastNumber
<1>5. r - 1 \in 0 .. n - 1 /\ p <= r - 1
  BY <1>4
<1>6. S(r - 1) < S(r)
  BY <1>2, <1>5
<1>7. p = r - 1 \/ S(p) < S(r - 1)
  BY <1>4, <1>5
<1> QED
  BY <1>1, <1>4, <1>5, <1>6, <1>7

\* A clamp at a later pass is not lower.
LEMMA EndsGrow ==
    ASSUME NEW n \in Nat \ {0}, NEW infos, GoodInfos(infos, n),
           NEW p \in 0 .. n - 1, NEW q \in 0 .. n - 1, p <= q
    PROVE  infos[p].mEndGroupIdx <= infos[q].mEndGroupIdx
<1>1. /\ StartOf(infos, p + 1) = infos[p].mEndGroupIdx
      /\ StartOf(infos, q + 1) = infos[q].mEndGroupIdx
      /\ infos[p].mEndGroupIdx \in Nat
  BY StartsAndEnds
<1>2. CASE p = q
  BY <1>1, <1>2
<1>3. CASE p < q
  <2>1. p + 1 \in 0 .. n /\ q + 1 \in 0 .. n /\ p + 1 < q + 1
    BY <1>3
  <2> QED
    BY <1>1, <2>1, StartsGrow
<1> QED
  BY <1>2, <1>3

\* More tiles make no fewer groups.
LEMMA RoundUpGrows ==
    ASSUME NEW k \in Nat \ {0}, NEW a \in Nat, NEW b \in Nat, a <= b
    PROVE  RoundUpDivision(a, k) <= RoundUpDivision(b, k)
BY DEF RoundUpDivision

\* How many groups were cut when the next one begins at o.
LEMMA CutBounds ==
    ASSUME NEW n \in Nat \ {0}, NEW infos, GoodInfos(infos, n), NEW o, OffsetIsSane(infos, n, o)
    PROVE  /\ GroupsCut(infos, o) \in Nat
           /\ StartOf(infos, o.pass) <= GroupsCut(infos, o)
           /\ o.pass # n => GroupsCut(infos, o) < StartOf(infos, o.pass + 1)
           /\ GroupsCut(infos, o) = StartOf(infos, o.pass) => o.tile = 0
<1>1. /\ o.pass \in 0 .. n /\ o.tile \in Tiles
      /\ DOMAIN infos = 0 .. n - 1
      /\ NumTiles \in Nat \ {0}
  BY QueueAssumption DEF OffsetIsSane, Offset, GoodInfos
<1>2. CASE o.pass = n
  <2>1. n - 1 \in 0 .. n - 1 /\ o.pass \notin DOMAIN infos
    BY <1>1, <1>2
  <2>2. StartOf(infos, n) \in Nat
    BY <2>1, StartsAndEnds DEF StartOf
  <2> QED
    BY <1>1, <1>2, <2>1, <2>2 DEF OffsetIsSane, GroupsCut
<1>3. CASE o.pass # n
  <2> DEFINE p == o.pass
             k == infos[p].mTilesPerGroup
             L == NumTiles - o.tile
  <2>1. p \in 0 .. n - 1
    BY <1>1, <1>3
  <2>2. /\ StartOf(infos, p) \in Nat
        /\ StartOf(infos, p + 1) = StartOf(infos, p) + GroupsIn(infos, p)
        /\ GroupsIn(infos, p) \in Nat
    BY <2>1, StartsAndEnds
  <2>3. k \in Nat \ {0}
    BY <2>1 DEF GoodInfos
  <2>4. L \in Nat \ {0} /\ L <= NumTiles
    BY <1>1 DEF Tiles
  <2>5. GroupsLeft(o, k) = RoundUpDivision(L, k) /\ GroupsIn(infos, p) = RoundUpDivision(NumTiles, k)
    BY DEF GroupsLeft, TilesLeft, GroupsIn
  <2>6. GroupsLeft(o, k) \in Nat \ {0} /\ GroupsLeft(o, k) <= GroupsIn(infos, p)
    <3> HIDE DEF L, k
    <3> QED
      BY <1>1, <2>3, <2>4, <2>5, RoundUpPositive, RoundUpGrows
  <2>7. GroupsCut(infos, o) = StartOf(infos, p) + (GroupsIn(infos, p) - GroupsLeft(o, k))
    BY <1>1, <2>1 DEF GroupsCut
  <2>8. o.tile # 0 => GroupsLeft(o, k) < GroupsIn(infos, p)
    BY <1>3 DEF OffsetIsSane
  <2> HIDE DEF k, L
  <2> QED
    BY <1>3, <2>2, <2>6, <2>7, <2>8
<1> QED
  BY <1>2, <1>3

\* As long as fewer groups were cut than the clamp allows, the next one is of a
\* pass up to the clamped one.
LEMMA WithinClamp ==
    ASSUME NEW n \in Nat \ {0}, NEW infos, GoodInfos(infos, n), NEW o, OffsetIsSane(infos, n, o),
           NEW c \in 0 .. n - 1, GroupsCut(infos, o) < infos[c].mEndGroupIdx
    PROVE  o.pass \in 0 .. c
<1>1. /\ o.pass \in 0 .. n /\ c + 1 \in 0 .. n
  BY DEF OffsetIsSane
<1>2. /\ GroupsCut(infos, o) \in Nat
      /\ StartOf(infos, o.pass) <= GroupsCut(infos, o)
  BY CutBounds
<1>3. StartOf(infos, c + 1) = infos[c].mEndGroupIdx
  BY StartsAndEnds
<1>4. o.pass = c + 1 \/ c + 1 < o.pass \/ o.pass <= c
  BY <1>1
<1>5. c + 1 < o.pass => StartOf(infos, c + 1) \in Nat /\ StartOf(infos, c + 1) < StartOf(infos, o.pass)
                          /\ StartOf(infos, o.pass) \in Nat
  BY <1>1, StartsGrow
<1>6. StartOf(infos, o.pass) \in Nat /\ StartOf(infos, c + 1) \in Nat
  BY <1>1, StartsAndEnds DEF StartOf, GoodInfos
<1> QED
  BY <1>1, <1>2, <1>3, <1>4, <1>5, <1>6

\* When as many groups were cut as the clamp allows, the clamped pass was cut up.
LEMMA ClampReached ==
    ASSUME NEW n \in Nat \ {0}, NEW infos, GoodInfos(infos, n), NEW o, OffsetIsSane(infos, n, o),
           NEW c \in 0 .. n - 1, GroupsCut(infos, o) = infos[c].mEndGroupIdx
    PROVE  o = [pass |-> c + 1, tile |-> 0]
<1>1. /\ o.pass \in 0 .. n /\ c + 1 \in 0 .. n /\ o \in Offset
  BY DEF OffsetIsSane
<1>2. /\ GroupsCut(infos, o) \in Nat
      /\ StartOf(infos, o.pass) <= GroupsCut(infos, o)
      /\ o.pass # n => GroupsCut(infos, o) < StartOf(infos, o.pass + 1)
      /\ GroupsCut(infos, o) = StartOf(infos, o.pass) => o.tile = 0
  BY CutBounds
<1>3. StartOf(infos, c + 1) = infos[c].mEndGroupIdx
  BY StartsAndEnds
<1>4. ASSUME c + 1 < o.pass PROVE FALSE
  <2>1. StartOf(infos, c + 1) \in Nat /\ StartOf(infos, c + 1) < StartOf(infos, o.pass)
                          /\ StartOf(infos, o.pass) \in Nat
    BY <1>1, <1>4, StartsGrow
  <2> QED
    BY <1>2, <1>3, <2>1
<1>5. ASSUME o.pass < c + 1 PROVE FALSE
  <2>1. o.pass + 1 \in 0 .. n /\ o.pass # n /\ o.pass + 1 <= c + 1
    BY <1>1, <1>5
  <2>2. GroupsCut(infos, o) < StartOf(infos, o.pass + 1)
    BY <1>2, <2>1
  <2>3. o.pass + 1 < c + 1 => StartOf(infos, o.pass + 1) < StartOf(infos, c + 1)
                              /\ StartOf(infos, o.pass + 1) \in Nat /\ StartOf(infos, c + 1) \in Nat
    BY <1>1, <2>1, StartsGrow
  <2> QED
    BY <1>1, <1>2, <1>3, <1>5, <2>1, <2>2, <2>3
<1>6. o.pass = c + 1
  BY <1>1, <1>4, <1>5
<1>7. o.tile = 0
  BY <1>2, <1>3, <1>6
<1> QED
  BY <1>1, <1>6, <1>7 DEF Offset

\* Cutting a group moves the offset by one group; the group is not empty.
LEMMA CuttingCountsOne ==
    ASSUME NEW n \in Nat \ {0}, NEW infos, GoodInfos(infos, n), NEW o, OffsetIsSane(infos, n, o),
           o.pass # n, NEW next, next = NextOffset(o, infos[o.pass].mTilesPerGroup)
    PROVE  /\ OffsetIsSane(infos, n, next)
           /\ GroupsCut(infos, next) = GroupsCut(infos, o) + 1
           /\ GroupBetween(o, next).pass = o.pass
           /\ GroupBetween(o, next).from = o.tile
           /\ GroupBetween(o, next).to \in 1 .. NumTiles
           /\ o.tile < GroupBetween(o, next).to
           /\ \/ next.pass = o.pass + 1 /\ next.tile = 0
              \/ next.pass = o.pass /\ next.tile = GroupBetween(o, next).to
<1> DEFINE p == o.pass
           k == infos[p].mTilesPerGroup
           L == NumTiles - o.tile
           G == RoundUpDivision(L, k)
<1>1. /\ o \in Offset /\ p \in 0 .. n - 1 /\ o.tile \in Tiles
      /\ DOMAIN infos = 0 .. n - 1
      /\ NumTiles \in Nat \ {0}
  BY QueueAssumption DEF OffsetIsSane, Offset, GoodInfos
<1>2. k \in Nat \ {0} /\ GroupsIn(infos, p) = RoundUpDivision(NumTiles, k)
  BY <1>1 DEF GoodInfos, GroupsIn
<1>3. L \in Nat \ {0} /\ L <= NumTiles /\ o.tile \in Nat /\ o.tile < NumTiles
  BY <1>1 DEF Tiles
<1>4. TilesLeft(o) = L /\ GroupsLeft(o, k) = G
  BY DEF TilesLeft, GroupsLeft
<1>5. /\ StartOf(infos, p) \in Nat
      /\ StartOf(infos, p + 1) = StartOf(infos, p) + GroupsIn(infos, p)
      /\ GroupsIn(infos, p) \in Nat \ {0}
  BY <1>1, StartsAndEnds
<1>6. GroupsCut(infos, o) = StartOf(infos, p) + (GroupsIn(infos, p) - G)
  BY <1>1, <1>4 DEF GroupsCut
<1>7. G \in Nat \ {0} /\ G <= GroupsIn(infos, p)
  <2> HIDE DEF L, k
  <2> QED
    BY <1>1, <1>2, <1>3, RoundUpPositive, RoundUpGrows
<1>8. CASE G <= 1
  <2>1. next = [pass |-> p + 1, tile |-> 0]
    BY <1>4, <1>8 DEF NextOffset
  <2>2. next.pass = p + 1 /\ next.tile = 0 /\ next \in Offset
    BY <1>1, <2>1 DEF Offset, Tiles
  <2>3. OffsetIsSane(infos, n, next)
    BY <1>1, <2>2 DEF OffsetIsSane
  <2>4. GroupsCut(infos, next) = StartOf(infos, p + 1)
    <3>1. CASE p + 1 = n
      BY <1>1, <1>5, <2>2, <3>1 DEF GroupsCut
    <3>2. CASE p + 1 # n
      <4>1. p + 1 \in 0 .. n - 1
        BY <1>1, <3>2
      <4>2. infos[p + 1].mTilesPerGroup \in Nat \ {0}
        BY <4>1 DEF GoodInfos
      <4>3. GroupsLeft(next, infos[p + 1].mTilesPerGroup) = GroupsIn(infos, p + 1)
        BY <1>1, <2>2 DEF GroupsLeft, TilesLeft, GroupsIn
      <4>4. GroupsIn(infos, p + 1) \in Nat /\ StartOf(infos, p + 1) \in Nat
        BY <4>1, StartsAndEnds
      <4> QED
        BY <1>1, <2>2, <4>1, <4>3, <4>4 DEF GroupsCut
    <3> QED
      BY <3>1, <3>2
  <2>5. GroupBetween(o, next) = [pass |-> p, from |-> o.tile, to |-> NumTiles]
    BY <2>2 DEF GroupBetween
  <2> HIDE DEF G, L, k, p
  <2> QED
    BY <1>1, <1>3, <1>5, <1>6, <1>7, <1>8, <2>2, <2>3, <2>4, <2>5 DEF p
<1>9. CASE G > 1
  <2> DEFINE q == L \div G
  <2>1. q \in 1 .. L - 1 /\ RoundUpDivision(L - q, k) = G - 1
    <3> HIDE DEF L, k
    <3> QED
      BY <1>2, <1>3, <1>9, CutIsOneGroup
  <2>2. next = [o EXCEPT !.tile = @ + q]
    BY <1>4, <1>7, <1>9 DEF NextOffset
  <2>3. next.pass = p /\ next.tile = o.tile + q /\ DOMAIN next = {"pass", "tile"}
    BY <1>1, <2>2 DEF Offset
  <2>4. next \in Offset
    BY <1>1, <1>3, <2>1, <2>2, <2>3 DEF Offset, Tiles
  <2>5. TilesLeft(next) = L - q
    BY <1>3, <2>1, <2>3, <1>1 DEF TilesLeft
  <2>6. GroupsLeft(next, k) = G - 1
    BY <2>1, <2>5 DEF GroupsLeft
  <2>7. OffsetIsSane(infos, n, next)
    BY <1>1, <1>7, <2>3, <2>4, <2>6, <1>5 DEF OffsetIsSane
  <2>8. GroupsCut(infos, next) = StartOf(infos, p) + (GroupsIn(infos, p) - (G - 1))
    BY <1>1, <2>3, <2>6 DEF GroupsCut
  <2>9. GroupBetween(o, next) = [pass |-> p, from |-> o.tile, to |-> o.tile + q]
    BY <1>3, <2>1, <2>3 DEF GroupBetween
  <2>10. o.tile + q \in 1 .. NumTiles /\ o.tile < o.tile + q
    BY <1>1, <1>3, <2>1
  <2> HIDE DEF G, L, k, p, q
  <2> QED
    BY <1>5, <1>6, <1>7, <2>3, <2>7, <2>8, <2>9, <2>10 DEF p
<1> QED
  BY <1>7, <1>8, <1>9

\* A step of one thread changes a count of threads by one at most.
LEMMA InMoves ==
    ASSUME worker \in [Threads -> WorkerState],
           NEW t \in Threads, NEW from, NEW to, Move(t, from, to), NEW W
    PROVE  /\ Cardinality(In(worker, W)) \in Nat
           /\ (from \in W <=> to \in W) => In(worker', W) = In(worker, W)
           /\ from \notin W /\ to \in W => Cardinality(In(worker', W)) = Cardinality(In(worker, W)) + 1
           /\ from \in W /\ to \notin W => Cardinality(In(worker', W)) = Cardinality(In(worker, W)) - 1
<1>1. worker[t] = from /\ worker'[t] = to /\ \A u \in Threads : u # t => worker'[u] = worker[u]
  BY DEF Move
<1>2. IsFiniteSet(In(worker, W)) /\ Cardinality(In(worker, W)) \in Nat
  BY RenderAssumption, FS_Subset, FS_CardinalityType DEF In
<1>3. (from \in W <=> to \in W) => In(worker', W) = In(worker, W)
  BY <1>1 DEF In
<1>4. ASSUME from \notin W, to \in W
      PROVE  Cardinality(In(worker', W)) = Cardinality(In(worker, W)) + 1
  <2>1. In(worker', W) = In(worker, W) \cup {t} /\ t \notin In(worker, W)
    BY <1>1, <1>4 DEF In
  <2> QED
    BY ONLY <1>2, <2>1, FS_AddElement
<1>5. ASSUME from \in W, to \notin W
      PROVE  Cardinality(In(worker', W)) = Cardinality(In(worker, W)) - 1
  <2>1. In(worker', W) = In(worker, W) \ {t} /\ t \in In(worker, W)
    BY <1>1, <1>5 DEF In
  <2> QED
    BY ONLY <1>2, <2>1, FS_RemoveElement
<1> QED
  BY <1>2, <1>3, <1>4, <1>5

\* The passes of a frame are numbered from 0.
LEMMA PassesOfSettings ==
    ASSUME NEW s \in Settings
    PROVE  /\ NumPasses(s) \in 1 .. MaxRenderPasses
           /\ Passes(s) = 0 .. NumPasses(s) - 1
           /\ SamplesPerTile[s.mode] \in [0 .. NumPasses(s) - 1 -> Nat \ {0}]
           /\ mLastCoarsePassIdx[s.mode] \in 0 .. NumPasses(s) - 1 \cup {MaxRenderPasses}
<1>1. PICK n \in 1 .. MaxRenderPasses :
          /\ SamplesPerTile[s.mode] \in [0 .. n - 1 -> Nat \ {0}]
          /\ mLastCoarsePassIdx[s.mode] \in 0 .. n - 1 \cup {MaxRenderPasses}
  BY RenderAssumption
<1>2. Passes(s) = 0 .. n - 1
  BY <1>1 DEF Passes
<1>3. n \in Nat /\ n - 1 \in Int /\ 0 <= n - 1
  BY <1>1 DEF MaxRenderPasses
<1>4. Cardinality(0 .. n - 1) = n
  BY <1>3, FS_Interval
<1>5. NumPasses(s) = n
  BY <1>2, <1>4 DEF NumPasses
<1> QED
  BY <1>1, <1>2, <1>5

\* What the queue knows of the passes, while a frame is requested or rendered.
LEMMA InfosAreGood ==
    ASSUME mFs \in Settings, InfosAreKnown, mRenderThreadState \in {"REQUEST_RENDER", "RENDERING"}
    PROVE  /\ GoodInfos(mPassInfos, NumPasses(mFs))
           /\ NumPasses(mFs) \in Nat \ {0}
           /\ Passes(mFs) = 0 .. NumPasses(mFs) - 1
<1>1. /\ NumPasses(mFs) \in 1 .. MaxRenderPasses
      /\ Passes(mFs) = 0 .. NumPasses(mFs) - 1
      /\ SamplesPerTile[mFs.mode] \in [0 .. NumPasses(mFs) - 1 -> Nat \ {0}]
  BY PassesOfSettings
<1>2. NumPasses(mFs) \in Nat \ {0}
  <2>1. MaxRenderPasses \in Nat
    BY DEF MaxRenderPasses
  <2> QED
    BY ONLY <1>1, <2>1
<1> QED
  BY <1>1, <1>2, PassInfosAreGood DEF InfosAreKnown

-----------------------------------------------------------------------------
(* Steps of the threads of renderPasses.                                   *)

\* What a step of a thread keeps that leaves the render thread alone.
LEMMA ThreadKeeps ==
    ASSUME QueueInv, NEW t \in Threads, NEW from, NEW to, Move(t, from, to), from # "off",
           UNCHANGED <<app, mFs, mRenderThreadState, at, clampPass, mPassInfos>>,
           mCoarsePassesComplete => mCoarsePassesComplete'
    PROVE  ThreadsAgree' /\ CoarseIsKnown' /\ InfosAreKnown'
<1>1. at \in Taking
  BY DEF QueueInv, ThreadsAgree, Move
<1>2. ThreadsAgree'
  BY <1>1 DEF QueueInv, ThreadsAgree
<1>3. CoarseIsKnown'
  BY DEF QueueInv, CoarseIsKnown
<1>4. InfosAreKnown'
  BY DEF QueueInv, InfosAreKnown
<1> QED
  BY <1>2, <1>3, <1>4

\* A thread that neither wakes up nor reserves leaves the counts alone.
LEMMA SameCounts ==
    ASSUME QueueInv, NEW t \in Threads, NEW from, NEW to, Move(t, from, to),
           from # "started", to # "started", from \in Reserving <=> to \in Reserving
    PROVE  /\ In(worker', {"started"}) = In(worker, {"started"})
           /\ In(worker', Reserving) = In(worker, Reserving)
<1>1. worker \in [Threads -> WorkerState]
  BY DEF QueueInv, TypeOK
<1>2. from \in {"started"} <=> to \in {"started"}
  OBVIOUS
<1> QED
  BY <1>1, <1>2, InMoves

\* Who neither wakes up nor is started leaves numTBBThreads as it is.
LEMMA CountIsKept ==
    ASSUME AwakeAreCounted, UNCHANGED numTBBThreads,
           In(worker', {"started"}) = In(worker, {"started"})
    PROVE  AwakeAreCounted'
BY DEF AwakeAreCounted

\* Who leaves the queue and the counts alone keeps it.
LEMMA QueueIsKept ==
    ASSUME QueueAgrees, UNCHANGED <<queueVars, mFs, at, clampPass>>,
           In(worker', Reserving) = In(worker, Reserving)
    PROVE  QueueAgrees'
BY DEF QueueAgrees, queueVars, Passes, NumPasses
\* TLState::isCanceled leaves one of the states of TLState.
LEMMA CancelCheckType ==
    ASSUME QueueInv, NEW t \in Threads
    PROVE  CancelCheck(t) \in CancellationState
BY DEF QueueInv, TypeOK, CancelCheck, CancellationState

\* A thread that wakes up leaves those that are still to wake up.
LEMMA WakeUpStep ==
    ASSUME QueueInv, NEW t \in Threads, WakeUp(t)
    PROVE  QueueInv'
<1>1. Move(t, "started", "awake") /\ numTBBThreads' = numTBBThreads + 1
  BY DEF WakeUp
<1>2. /\ worker \in [Threads -> WorkerState] /\ numTBBThreads \in Nat
      /\ Cardinality(Threads) \in Nat
  BY RenderAssumption, FS_CardinalityType DEF QueueInv, TypeOK
<1>3. /\ Cardinality(In(worker, {"started"})) \in Nat
      /\ Cardinality(In(worker', {"started"})) = Cardinality(In(worker, {"started"})) - 1
      /\ Cardinality(In(worker', {"started"})) \in Nat
  <2>1. /\ Cardinality(In(worker, {"started"})) \in Nat
        /\ Cardinality(In(worker', {"started"})) = Cardinality(In(worker, {"started"})) - 1
    BY <1>1, <1>2, InMoves
  <2>2. t \in In(worker, {"started"})
    BY <1>1 DEF In, Move
  <2>3. IsFiniteSet(In(worker, {"started"}))
    BY RenderAssumption, FS_Subset DEF In
  <2>4. Cardinality(In(worker, {"started"})) # 0
    BY ONLY <2>2, <2>3, FS_EmptySet
  <2> QED
    BY <2>1, <2>4
<1>4. AwakeAreCounted'
  BY <1>1, <1>2, <1>3 DEF QueueInv, AwakeAreCounted
<1>5. numTBBThreads' \in 0 .. Cardinality(Threads)
  BY <1>1, <1>2, <1>3, <1>4 DEF AwakeAreCounted
<1>6. TypeOK'
  BY <1>1, <1>5 DEF QueueInv, TypeOK, WakeUp, Move, queueVars, appVars, flags, driverVars, WorkerState
<1>7. ThreadsAgree' /\ CoarseIsKnown' /\ InfosAreKnown'
  BY <1>1, ThreadKeeps DEF WakeUp, queueVars, appVars, flags, driverVars
<1>8. QueueAgrees'
  <2>1. "started" \notin Reserving /\ "awake" \notin Reserving
    BY DEF Reserving
  <2>2. In(worker', Reserving) = In(worker, Reserving)
    BY <1>1, <1>2, <2>1, InMoves
  <2> QED
    BY <2>2, QueueIsKept DEF QueueInv, WakeUp, appVars, driverVars
<1>9. GroupsAreSane' /\ NothingBeyond' /\ mOffset' \in Offset /\ mGroupClampIdx' \in Nat
  BY <1>1 DEF QueueInv, GroupsAreSane, NothingBeyond, WakeUp, Move, queueVars, driverVars, TypeOK
<1> QED
  BY <1>4, <1>6, <1>7, <1>8, <1>9 DEF QueueInv

\* Leaving the barrier sets how the thread may be canceled, nothing of the queue.
LEMMA PassBarrierStep ==
    ASSUME QueueInv, NEW t \in Threads, PassBarrier(t)
    PROVE  QueueInv'
<1>1. Move(t, "awake", "betweenGroups")
  BY DEF PassBarrier
<1>2. PICK state \in CancellationState : SetCancellation(t, state)
  BY DEF PassBarrier, CancellationState
<1>3. TypeOK'
  <2>1. /\ mCancellationState' \in [Threads -> CancellationState]
        /\ mCurrentPassIdx' \in [Threads -> Nat]
    BY <1>2 DEF QueueInv, TypeOK, SetCancellation
  <2> QED
    BY <1>1, <2>1 DEF QueueInv, TypeOK, PassBarrier, Move, queueVars, appVars, flags, driverVars,
                      callVars, WorkerState
<1>4. ThreadsAgree' /\ CoarseIsKnown' /\ InfosAreKnown'
  BY <1>1, ThreadKeeps DEF PassBarrier, queueVars, appVars, flags, driverVars
<1>5. AwakeAreCounted' /\ QueueAgrees'
  BY <1>1, SameCounts, CountIsKept, QueueIsKept DEF QueueInv, PassBarrier, appVars, driverVars, callVars, Reserving
<1>6. GroupsAreSane' /\ NothingBeyond' /\ mOffset' \in Offset /\ mGroupClampIdx' \in Nat
  BY <1>1 DEF QueueInv, GroupsAreSane, NothingBeyond, PassBarrier, Move, queueVars, driverVars, TypeOK
<1> QED
  BY <1>3, <1>4, <1>5, <1>6 DEF QueueInv

\* A thread let out of the barrier has taken no group.
LEMMA CancelAtBarrierStep ==
    ASSUME QueueInv, NEW t \in Threads, CancelAtBarrier(t)
    PROVE  QueueInv'
<1>1. Move(t, "awake", "off")
  BY DEF CancelAtBarrier
<1>2. TypeOK'
  BY <1>1 DEF QueueInv, TypeOK, CancelAtBarrier, Move, queueVars, appVars, flags, driverVars, WorkerState
<1>3. ThreadsAgree' /\ CoarseIsKnown' /\ InfosAreKnown'
  BY <1>1, ThreadKeeps DEF CancelAtBarrier, queueVars, appVars, flags, driverVars
<1>4. AwakeAreCounted' /\ QueueAgrees'
  BY <1>1, SameCounts, CountIsKept, QueueIsKept DEF QueueInv, CancelAtBarrier, appVars, driverVars, Reserving
<1>5. GroupsAreSane' /\ NothingBeyond' /\ mOffset' \in Offset /\ mGroupClampIdx' \in Nat
  BY <1>1 DEF QueueInv, GroupsAreSane, NothingBeyond, CancelAtBarrier, Move, queueVars, driverVars, TypeOK
<1> QED
  BY <1>2, <1>3, <1>4, <1>5 DEF QueueInv

\* Reading the counter moves no group.
LEMMA LookForWorkStep ==
    ASSUME QueueInv, NEW t \in Threads, LookForWork(t)
    PROVE  QueueInv'
<1>1. PICK to \in {"leaving", "taking"} : Move(t, "betweenGroups", to)
  BY DEF LookForWork
<1>2. /\ mCancellationState' = [mCancellationState EXCEPT ![t] = CancelCheck(t)]
      /\ seenIdx' = seenIdx \/ seenIdx' = [seenIdx EXCEPT ![t] = mGlobalGroupIdx]
  BY DEF LookForWork
<1>3. seenIdx' \in [Threads -> Nat] /\ mCancellationState' \in [Threads -> CancellationState]
  BY <1>2, CancelCheckType DEF QueueInv, TypeOK
<1>4. TypeOK'
  BY <1>1, <1>3 DEF QueueInv, TypeOK, LookForWork, Move, queueVars, appVars, flags, driverVars,
                    callVars, WorkerState
<1>5. ThreadsAgree' /\ CoarseIsKnown' /\ InfosAreKnown'
  BY <1>1, ThreadKeeps DEF LookForWork, queueVars, appVars, flags, driverVars
<1>6. AwakeAreCounted' /\ QueueAgrees'
  BY <1>1, SameCounts, CountIsKept, QueueIsKept DEF QueueInv, LookForWork, appVars, driverVars, callVars, Reserving
<1>7. GroupsAreSane' /\ NothingBeyond' /\ mOffset' \in Offset /\ mGroupClampIdx' \in Nat
  BY <1>1 DEF QueueInv, GroupsAreSane, NothingBeyond, LookForWork, Move, queueVars, driverVars, TypeOK
<1> QED
  BY <1>4, <1>5, <1>6, <1>7 DEF QueueInv

\* A thread that finds the counter at the clamp leaves the queue alone.
LEMMA NoGroupLeftStep ==
    ASSUME QueueInv, NEW t \in Threads, NoGroupLeft(t)
    PROVE  QueueInv'
<1>1. Move(t, "taking", "leaving")
  BY DEF NoGroupLeft
<1>2. TypeOK'
  BY <1>1 DEF QueueInv, TypeOK, NoGroupLeft, Move, queueVars, appVars, flags, driverVars, callVars,
              WorkerState
<1>3. ThreadsAgree' /\ CoarseIsKnown' /\ InfosAreKnown'
  BY <1>1, ThreadKeeps DEF NoGroupLeft, queueVars, appVars, flags, driverVars
<1>4. AwakeAreCounted' /\ QueueAgrees'
  BY <1>1, SameCounts, CountIsKept, QueueIsKept DEF QueueInv, NoGroupLeft, appVars, driverVars, callVars, Reserving
<1>5. GroupsAreSane' /\ NothingBeyond' /\ mOffset' \in Offset /\ mGroupClampIdx' \in Nat
  BY <1>1 DEF QueueInv, GroupsAreSane, NothingBeyond, NoGroupLeft, Move, queueVars, driverVars, TypeOK
<1> QED
  BY <1>2, <1>3, <1>4, <1>5 DEF QueueInv

\* One more group is let through and one more thread is about to cut one.  The
\* counter was below the clamp, for it still has the value that was compared.
LEMMA LetThroughStep ==
    ASSUME QueueInv, NEW t \in Threads, LetThrough(t)
    PROVE  QueueInv'
<1>1. CASE mGlobalGroupIdx = seenIdx[t]
  <2>1. /\ Move(t, "taking", "letThrough")
        /\ mGlobalGroupIdx' = seenIdx[t] + 1
        /\ seenIdx' = seenIdx
        /\ ~ UsedUp(seenIdx[t])
    BY <1>1 DEF LetThrough
  <2>2. mGlobalGroupIdx' \in 0 .. mGroupClampIdx
    <3>1. mGlobalGroupIdx \in Nat /\ mGroupClampIdx \in Nat
      BY DEF QueueInv, TypeOK
    <3>2. mGlobalGroupIdx < mGroupClampIdx
      BY <1>1, <2>1, <3>1 DEF UsedUp
    <3> QED
      BY <1>1, <2>1, <3>1, <3>2
  <2>3. TypeOK'
    BY <2>1, <2>2 DEF QueueInv, TypeOK, LetThrough, Move, appVars, flags, driverVars, callVars, WorkerState
  <2>4. ThreadsAgree' /\ CoarseIsKnown' /\ InfosAreKnown'
    BY <2>1, ThreadKeeps DEF LetThrough, appVars, flags, driverVars
  <2>5. AwakeAreCounted'
    <3>1. worker \in [Threads -> WorkerState]
      BY DEF QueueInv, TypeOK
    <3>2. In(worker', {"started"}) = In(worker, {"started"})
      BY <2>1, <3>1, InMoves
    <3> QED
      BY <3>2, CountIsKept DEF QueueInv, LetThrough, callVars
  <2>6. QueueAgrees'
    <3>1. "taking" \notin Reserving /\ "letThrough" \in Reserving
      BY DEF Reserving
    <3>2. Cardinality(In(worker, Reserving)) \in Nat
          /\ Cardinality(In(worker', Reserving)) = Cardinality(In(worker, Reserving)) + 1
      BY <2>1, <3>1, InMoves DEF QueueInv, TypeOK
    <3>3. at # "waiting" => GroupsCut(mPassInfos, mOffset) \in Nat
      BY InfosAreGood, CutBounds DEF QueueInv, TypeOK, QueueAgrees, ThreadsAgree
    <3>4. UNCHANGED <<at, clampPass, mFs, mPassInfos, mGroupClampIdx, mOffset>>
      BY DEF LetThrough, appVars, driverVars
    <3>5. at # "waiting" =>
            GroupsCut(mPassInfos, mOffset) + Cardinality(In(worker', Reserving)) = mGlobalGroupIdx'
      BY <1>1, <2>1, <3>2, <3>3 DEF QueueInv, QueueAgrees
    <3>6. Passes(mFs)' = Passes(mFs) /\ NumPasses(mFs)' = NumPasses(mFs)
      BY <3>4 DEF Passes, NumPasses
    <3> QED
      BY <3>4, <3>5, <3>6 DEF QueueInv, QueueAgrees
  <2>7. GroupsAreSane' /\ NothingBeyond' /\ mOffset' \in Offset /\ mGroupClampIdx' \in Nat
    BY <2>1 DEF QueueInv, GroupsAreSane, NothingBeyond, LetThrough, Move, driverVars, TypeOK
  <2> QED
    BY <2>3, <2>4, <2>5, <2>6, <2>7 DEF QueueInv
<1>2. CASE mGlobalGroupIdx # seenIdx[t]
  <2>1. UNCHANGED <<queueVars, appVars, flags, driverVars, callVars, worker, seenOffset, group,
                    mCancellationState, mCurrentPassIdx, film>>
        /\ seenIdx' = [seenIdx EXCEPT ![t] = mGlobalGroupIdx]
    BY <1>2 DEF LetThrough, queueVars
  <2>2. seenIdx' \in [Threads -> Nat]
    BY <2>1 DEF QueueInv, TypeOK
  <2> QED
    BY <2>1, <2>2 DEF QueueInv, TypeOK, ThreadsAgree, AwakeAreCounted, CoarseIsKnown, InfosAreKnown,
                      QueueAgrees, GroupsAreSane, NothingBeyond, Passes, NumPasses,
                      queueVars, appVars, flags, driverVars, callVars
<1> QED
  BY <1>1, <1>2

\* A thread that has read the offset is still about to cut a group.
LEMMA ReadOffsetStep ==
    ASSUME QueueInv, NEW t \in Threads, ReadOffset(t)
    PROVE  QueueInv'
<1>1. Move(t, "letThrough", "reserving") /\ seenOffset' = [seenOffset EXCEPT ![t] = mOffset]
  BY DEF ReadOffset
<1>2. seenOffset' \in [Threads -> Offset]
  BY <1>1 DEF QueueInv, GroupsAreSane
<1>3. \A u \in Threads : seenOffset'[u].tile \in Tiles
  BY <1>2 DEF Offset
<1>4. TypeOK'
  BY <1>1, <1>3 DEF QueueInv, TypeOK, ReadOffset, Move, queueVars, appVars, flags, driverVars,
                    callVars, WorkerState
<1>5. ThreadsAgree' /\ CoarseIsKnown' /\ InfosAreKnown'
  BY <1>1, ThreadKeeps DEF ReadOffset, queueVars, appVars, flags, driverVars
<1>6. AwakeAreCounted' /\ QueueAgrees'
  BY <1>1, SameCounts, CountIsKept, QueueIsKept DEF QueueInv, ReadOffset, appVars, driverVars, callVars, Reserving
<1>7. GroupsAreSane' /\ NothingBeyond' /\ mOffset' \in Offset /\ mGroupClampIdx' \in Nat
  BY <1>1, <1>2 DEF QueueInv, GroupsAreSane, NothingBeyond, ReadOffset, Move, queueVars, driverVars, TypeOK
<1> QED
  BY <1>4, <1>5, <1>6, <1>7 DEF QueueInv

\* The offset moves by one group, and one thread less is about to cut one; the
\* group belongs to a pass that may be rendered, whoever was let through first.
LEMMA ReserveNextTileGroupStep ==
    ASSUME QueueInv, NEW t \in Threads, ReserveNextTileGroup(t)
    PROVE  QueueInv'
<1>1. CASE mOffset = seenOffset[t]
  <2> DEFINE n == NumPasses(mFs)
             g == GroupBetween(mOffset, mOffset')
             taken == [pass |-> g.pass, from |-> g.from, to |-> g.to, size |-> g.to - g.from]
  <2>1. /\ Move(t, "reserving", "rendering")
        /\ mOffset' = NextOffset(mOffset, TilesPerGroupOf(mOffset.pass))
        /\ group' = [group EXCEPT ![t] = taken]
        /\ mCurrentPassIdx' = [mCurrentPassIdx EXCEPT ![t] = mOffset.pass]
        /\ seenOffset' = seenOffset
        /\ UNCHANGED <<mPassInfos, mGroupClampIdx, mGlobalGroupIdx, appVars, flags, driverVars,
                       callVars, seenIdx, mCancellationState, film>>
    BY <1>1 DEF ReserveNextTileGroup
  <2>2. at # "waiting" /\ mRenderThreadState = "RENDERING"
    BY <2>1 DEF QueueInv, ThreadsAgree, Taking, Move
  <2>3. GoodInfos(mPassInfos, n) /\ n \in Nat \ {0} /\ Passes(mFs) = 0 .. n - 1
    BY <2>2, InfosAreGood DEF QueueInv, TypeOK
  <2>4. /\ clampPass \in 0 .. n - 1
        /\ mGroupClampIdx = mPassInfos[clampPass].mEndGroupIdx
        /\ OffsetIsSane(mPassInfos, n, mOffset)
        /\ GroupsCut(mPassInfos, mOffset) + Cardinality(In(worker, Reserving)) = mGlobalGroupIdx
    BY <2>2, <2>3 DEF QueueInv, QueueAgrees
  <2>5. /\ Cardinality(In(worker, Reserving)) \in Nat
        /\ Cardinality(In(worker', Reserving)) = Cardinality(In(worker, Reserving)) - 1
        /\ Cardinality(In(worker', Reserving)) \in Nat
    <3>1. "reserving" \in Reserving /\ "rendering" \notin Reserving
      BY DEF Reserving
    <3>2. worker \in [Threads -> WorkerState]
      BY DEF QueueInv, TypeOK
    <3>3. t \in In(worker, Reserving)
      BY <2>1, <3>1 DEF In, Move
    <3>4. IsFiniteSet(In(worker, Reserving))
      BY RenderAssumption, FS_Subset DEF In
    <3>5. Cardinality(In(worker, Reserving)) # 0
      BY ONLY <3>3, <3>4, FS_EmptySet
    <3> QED
      BY <2>1, <3>1, <3>2, <3>5, InMoves
  <2>6. mOffset.pass \in 0 .. clampPass
    <3>1. GroupsCut(mPassInfos, mOffset) \in Nat
      BY <2>3, <2>4, CutBounds
    <3>2. GroupsCut(mPassInfos, mOffset) < mPassInfos[clampPass].mEndGroupIdx
      BY <2>4, <2>5, <3>1 DEF QueueInv, TypeOK
    <3> QED
      BY <2>3, <2>4, <3>2, WithinClamp
  <2>7. /\ mOffset.pass # n
        /\ mOffset' = NextOffset(mOffset, mPassInfos[mOffset.pass].mTilesPerGroup)
    BY <2>1, <2>3, <2>4, <2>6 DEF TilesPerGroupOf, GoodInfos
  <2>8. /\ OffsetIsSane(mPassInfos, n, mOffset')
        /\ GroupsCut(mPassInfos, mOffset') = GroupsCut(mPassInfos, mOffset) + 1
        /\ g.pass = mOffset.pass /\ g.from = mOffset.tile
        /\ g.to \in 1 .. NumTiles /\ mOffset.tile < g.to
    BY <2>3, <2>4, <2>7, CuttingCountsOne
  <2>9. mOffset' \in Offset /\ mOffset'.tile \in Tiles
    BY <2>8 DEF OffsetIsSane, Offset
  <2>10. taken \in [pass : Nat, from : Nat, to : 0 .. NumTiles, size : Nat]
    <3>1. mOffset.tile \in Nat /\ mOffset.pass \in Nat /\ NumTiles \in Nat
      BY QueueAssumption DEF QueueInv, Offset, Tiles
    <3>2. g.to \in 0 .. NumTiles /\ g.to - g.from \in Nat
      BY <2>8, <3>1
    <3> QED
      BY <2>8, <3>1, <3>2
  <2>11. group' \in [Threads -> [pass : Nat, from : Nat, to : 0 .. NumTiles, size : Nat]]
    BY <2>1, <2>10 DEF QueueInv, GroupsAreSane
  <2>12. \A u \in Threads : group'[u].from \in Nat /\ group'[u].to \in 0 .. NumTiles
    BY <2>11
  <2>13. mCurrentPassIdx' \in [Threads -> Nat]
    BY <2>1 DEF QueueInv, TypeOK, Offset
  <2>14. TypeOK'
    BY <2>1, <2>9, <2>12, <2>13 DEF QueueInv, TypeOK, Move, appVars, flags, driverVars, callVars,
                                    WorkerState
  <2>15. ThreadsAgree' /\ CoarseIsKnown' /\ InfosAreKnown'
    BY <2>1, ThreadKeeps DEF appVars, flags, driverVars
  <2>16. AwakeAreCounted'
    <3>1. In(worker', {"started"}) = In(worker, {"started"})
      BY <2>1, InMoves DEF QueueInv, TypeOK
    <3> QED
      BY <2>1, <3>1, CountIsKept DEF QueueInv, callVars
  <2>17. QueueAgrees'
    <3>1. GroupsCut(mPassInfos, mOffset) \in Nat
      BY <2>3, <2>4, CutBounds
    <3>2. GroupsCut(mPassInfos, mOffset') + Cardinality(In(worker', Reserving)) = mGlobalGroupIdx
      BY <2>4, <2>5, <2>8, <3>1
    <3>3. UNCHANGED <<at, clampPass, mFs, mPassInfos, mGroupClampIdx, mGlobalGroupIdx>>
      BY <2>1 DEF appVars, driverVars
    <3>4. Passes(mFs)' = Passes(mFs) /\ NumPasses(mFs)' = n
      BY <3>3 DEF Passes, NumPasses
    <3> QED
      BY <2>3, <2>4, <2>8, <3>2, <3>3, <3>4 DEF QueueAgrees
  <2>18. GroupsAreSane'
    <3>1. worker'[t] = "rendering" /\ group'[t] = taken /\ clampPass' = clampPass
          /\ seenOffset' \in [Threads -> Offset]
      BY <2>1 DEF QueueInv, TypeOK, GroupsAreSane, Move, driverVars
    <3>2. group'[t].from < group'[t].to /\ group'[t].pass <= clampPass'
      BY <2>6, <2>8, <3>1
    <3>3. ASSUME NEW u \in Threads, u # t PROVE worker'[u] = worker[u] /\ group'[u] = group[u]
      BY <2>1, <3>3 DEF Move
    <3> QED
      BY <2>11, <3>1, <3>2, <3>3 DEF QueueInv, GroupsAreSane
  <2>19. NothingBeyond' /\ mGroupClampIdx' \in Nat
    BY <2>1 DEF QueueInv, NothingBeyond, driverVars
  <2> QED
    BY <2>9, <2>14, <2>15, <2>16, <2>17, <2>18, <2>19 DEF QueueInv
<1>2. CASE mOffset # seenOffset[t]
  <2>1. UNCHANGED <<queueVars, appVars, flags, driverVars, callVars, worker, seenIdx, group,
                    mCancellationState, mCurrentPassIdx, film>>
        /\ seenOffset' = [seenOffset EXCEPT ![t] = mOffset]
    BY <1>2 DEF ReserveNextTileGroup, queueVars
  <2>2. seenOffset' \in [Threads -> Offset]
    BY <2>1 DEF QueueInv, GroupsAreSane
  <2>3. \A u \in Threads : seenOffset'[u].tile \in Tiles
    BY <2>2 DEF Offset
  <2> QED
    BY <2>1, <2>2, <2>3 DEF QueueInv, TypeOK, ThreadsAgree, AwakeAreCounted, CoarseIsKnown, InfosAreKnown,
                      QueueAgrees, GroupsAreSane, NothingBeyond, Passes, NumPasses,
                      queueVars, appVars, flags, driverVars, callVars
<1> QED
  BY <1>1, <1>2

\* A tile is rendered of a pass up to the clamped one.
LEMMA RenderTileStep ==
    ASSUME QueueInv, NEW t \in Threads, RenderTile(t)
    PROVE  QueueInv'
<1>1. PICK to \in {"rendering", "finishedGroup"} : Move(t, "rendering", to)
  BY DEF RenderTile
<1>2. /\ mCancellationState' = [mCancellationState EXCEPT ![t] = CancelCheck(t)]
      /\ UNCHANGED <<queueVars, appVars, flags, driverVars, callVars, seenIdx, seenOffset, mCurrentPassIdx>>
  BY DEF RenderTile
<1>3. /\ worker \in [Threads -> WorkerState]
      /\ group \in [Threads -> [pass : Nat, from : Nat, to : 0 .. NumTiles, size : Nat]]
      /\ worker[t] = "rendering"
      /\ group[t].from < group[t].to
      /\ group[t].pass <= clampPass
  BY <1>1 DEF QueueInv, TypeOK, GroupsAreSane, Move
<1>4. group' = group \/ group' = [group EXCEPT ![t].from = @ + 1]
  BY DEF RenderTile
<1>5. group' \in [Threads -> [pass : Nat, from : Nat, to : 0 .. NumTiles, size : Nat]]
  <2>1. group[t] \in [pass : Nat, from : Nat, to : 0 .. NumTiles, size : Nat]
    BY <1>3
  <2>2. [group[t] EXCEPT !.from = @ + 1] \in [pass : Nat, from : Nat, to : 0 .. NumTiles, size : Nat]
    BY <2>1
  <2>3. group' = group \/ group' = [group EXCEPT ![t] = [group[t] EXCEPT !.from = @ + 1]]
    BY <1>3, <1>4
  <2> QED
    BY <1>3, <2>2, <2>3
<1>6. \A u \in Threads : group'[u].from \in Nat /\ group'[u].to \in 0 .. NumTiles
  BY <1>5
<1>7. TypeOK'
  <2>1. mCancellationState' \in [Threads -> CancellationState]
    BY <1>2, CancelCheckType DEF QueueInv, TypeOK
  <2> QED
    BY <1>1, <1>2, <1>6, <2>1 DEF QueueInv, TypeOK, Move, queueVars, appVars, flags, driverVars,
                                  callVars, WorkerState
<1>8. ThreadsAgree' /\ CoarseIsKnown' /\ InfosAreKnown'
  BY <1>1, <1>2, ThreadKeeps DEF queueVars, appVars, flags, driverVars
<1>9. AwakeAreCounted' /\ QueueAgrees'
  BY <1>1, <1>2, SameCounts, CountIsKept, QueueIsKept DEF QueueInv, appVars, driverVars, callVars, Reserving
<1>10. GroupsAreSane'
  <2>1. ASSUME worker'[t] = "rendering"
        PROVE  group'[t].from < group'[t].to /\ group'[t].pass = group[t].pass
    <3>1. CASE CancelCheck(t) = "CANCELED"
      BY <2>1, <3>1, <1>3 DEF RenderTile, Move
    <3>2. CASE CancelCheck(t) # "CANCELED"
      <4>1. group' = [group EXCEPT ![t].from = @ + 1] /\ group[t].from + 1 # group[t].to
        BY <2>1, <3>2, <1>3 DEF RenderTile, Move
      <4>2. group[t].from \in Nat /\ group[t].to \in Nat /\ group[t].from + 1 < group[t].to
        <5>1. group[t].from \in Nat /\ group[t].to \in 0 .. NumTiles
          BY <1>3
        <5>2. group[t].to \in Nat
          BY <5>1, QueueAssumption
        <5> QED
          BY <1>3, <4>1, <5>1, <5>2
      <4> QED
        BY <1>3, <4>1, <4>2
    <3> QED
      BY <3>1, <3>2
  <2>2. ASSUME NEW u \in Threads, u # t PROVE worker'[u] = worker[u] /\ group'[u] = group[u]
    BY <1>1, <1>3, <1>4, <2>2 DEF Move
  <2>3. clampPass' = clampPass /\ seenOffset' = seenOffset
    BY <1>2 DEF driverVars
  <2> QED
    BY <1>3, <1>5, <2>1, <2>2, <2>3 DEF QueueInv, GroupsAreSane
<1>11. NothingBeyond'
  <2>1. film' = film \/ film' = [film EXCEPT ![<<group[t].pass, group[t].from>>] = @ + 1]
    BY DEF RenderTile
  <2>2. DOMAIN film' = DOMAIN film
    BY <2>1
  <2>3. clampPass' = clampPass /\ at' = at
    BY <1>2 DEF driverVars
  <2>4. ASSUME NEW x \in DOMAIN film, x[1] > clampPass PROVE film'[x] = film[x]
    <3>1. x # <<group[t].pass, group[t].from>>
      <4>1. clampPass \in Nat /\ group[t].pass \in Nat
        BY <1>3 DEF QueueInv, TypeOK
      <4> QED
        BY <1>3, <2>4, <4>1
    <3> QED
      BY <2>1, <3>1
  <2> QED
    BY <2>2, <2>3, <2>4 DEF QueueInv, NothingBeyond
<1>12. mOffset' \in Offset /\ mGroupClampIdx' \in Nat
  BY <1>2 DEF QueueInv, queueVars
<1> QED
  BY <1>7, <1>8, <1>9, <1>10, <1>11, <1>12 DEF QueueInv

\* Counting what was rendered leaves the queue alone.
LEMMA FinishGroupStep ==
    ASSUME QueueInv, NEW t \in Threads, FinishGroup(t)
    PROVE  QueueInv'
<1>1. PICK to \in {"counted", "betweenGroups"} : Move(t, "finishedGroup", to)
  BY DEF FinishGroup
<1>2. finishedTilesCount' \in Nat
  <2>1. finishedTilesCount \in Nat /\ group[t].size \in Nat
    BY DEF QueueInv, TypeOK, GroupsAreSane
  <2> QED
    BY <2>1 DEF FinishGroup
<1>3. mCoarsePassesComplete' \in BOOLEAN /\ (mCoarsePassesComplete => mCoarsePassesComplete')
  <2>1. mCoarsePassesComplete \in BOOLEAN
    BY DEF QueueInv, TypeOK
  <2>2. mCoarsePassesComplete' = mCoarsePassesComplete
        \/ TransferProgress(t)
    BY DEF FinishGroup
  <2> QED
    BY <2>1, <2>2 DEF TransferProgress
<1>4. TypeOK'
  BY <1>1, <1>2, <1>3 DEF QueueInv, TypeOK, FinishGroup, Move, queueVars, appVars, driverVars, WorkerState
<1>5. ThreadsAgree' /\ CoarseIsKnown' /\ InfosAreKnown'
  BY <1>1, <1>3, ThreadKeeps DEF FinishGroup, queueVars, appVars, driverVars
<1>6. AwakeAreCounted' /\ QueueAgrees'
  BY <1>1, SameCounts, CountIsKept, QueueIsKept DEF QueueInv, FinishGroup, appVars, driverVars, Reserving
<1>7. GroupsAreSane' /\ NothingBeyond' /\ mOffset' \in Offset /\ mGroupClampIdx' \in Nat
  BY <1>1 DEF QueueInv, GroupsAreSane, NothingBeyond, FinishGroup, Move, queueVars, driverVars, TypeOK
<1> QED
  BY <1>4, <1>5, <1>6, <1>7 DEF QueueInv

\* So does comparing it with the machine's share,
LEMMA CountStep ==
    ASSUME QueueInv, NEW t \in Threads, Count(t)
    PROVE  QueueInv'
<1>1. PICK to \in {"showing", "betweenGroups"} : Move(t, "counted", to)
  BY DEF Count
<1>2. mCoarsePassesComplete' \in BOOLEAN /\ (mCoarsePassesComplete => mCoarsePassesComplete')
  <2>1. mCoarsePassesComplete \in BOOLEAN
    BY DEF QueueInv, TypeOK
  <2>2. mCoarsePassesComplete' = mCoarsePassesComplete
        \/ TransferProgress(t)
    BY DEF Count
  <2> QED
    BY <2>1, <2>2 DEF TransferProgress
<1>3. TypeOK'
  BY <1>1, <1>2 DEF QueueInv, TypeOK, Count, Move, queueVars, appVars, driverVars, WorkerState
<1>4. ThreadsAgree' /\ CoarseIsKnown' /\ InfosAreKnown'
  BY <1>1, <1>2, ThreadKeeps DEF Count, queueVars, appVars, driverVars
<1>5. AwakeAreCounted' /\ QueueAgrees'
  BY <1>1, SameCounts, CountIsKept, QueueIsKept DEF QueueInv, Count, appVars, driverVars, Reserving
<1>6. GroupsAreSane' /\ NothingBeyond' /\ mOffset' \in Offset /\ mGroupClampIdx' \in Nat
  BY <1>1 DEF QueueInv, GroupsAreSane, NothingBeyond, Count, Move, queueVars, driverVars, TypeOK
<1> QED
  BY <1>3, <1>4, <1>5, <1>6 DEF QueueInv

\* and showing that share.
LEMMA ShowShareStep ==
    ASSUME QueueInv, NEW t \in Threads, ShowShare(t)
    PROVE  QueueInv'
<1>1. Move(t, "showing", "betweenGroups")
  BY DEF ShowShare
<1>2. mCoarsePassesComplete' \in BOOLEAN /\ (mCoarsePassesComplete => mCoarsePassesComplete')
  BY DEF ShowShare, TransferProgress, QueueInv, TypeOK
<1>3. /\ mCancellationState' \in [Threads -> CancellationState]
      /\ mCurrentPassIdx' \in [Threads -> Nat]
  BY DEF ShowShare, SetCancellation, QueueInv, TypeOK, CancellationState
<1>4. TypeOK'
  BY <1>1, <1>2, <1>3 DEF QueueInv, TypeOK, ShowShare, Move, queueVars, appVars, driverVars, WorkerState
<1>5. ThreadsAgree' /\ CoarseIsKnown' /\ InfosAreKnown'
  BY <1>1, <1>2, ThreadKeeps DEF ShowShare, queueVars, appVars, driverVars
<1>6. AwakeAreCounted' /\ QueueAgrees'
  BY <1>1, SameCounts, CountIsKept, QueueIsKept DEF QueueInv, ShowShare, appVars, driverVars, Reserving
<1>7. GroupsAreSane' /\ NothingBeyond' /\ mOffset' \in Offset /\ mGroupClampIdx' \in Nat
  BY <1>1 DEF QueueInv, GroupsAreSane, NothingBeyond, ShowShare, Move, queueVars, driverVars, TypeOK
<1> QED
  BY <1>4, <1>5, <1>6, <1>7 DEF QueueInv

\* A thread that returns has given up its group.
LEMMA LeaveStep ==
    ASSUME QueueInv, NEW t \in Threads, Leave(t)
    PROVE  QueueInv'
<1>1. Move(t, "leaving", "off")
  BY DEF Leave
<1>2. canceled' \in BOOLEAN
  BY DEF Leave, QueueInv, TypeOK
<1>3. /\ mCancellationState' \in [Threads -> CancellationState]
      /\ mCurrentPassIdx' \in [Threads -> Nat]
  BY DEF Leave, SetCancellation, QueueInv, TypeOK, CancellationState
<1>4. /\ Start \in Offset
      /\ NoGroup \in [pass : Nat, from : Nat, to : 0 .. NumTiles, size : Nat]
  BY QueueAssumption DEF Start, NoGroup, Offset, Tiles
<1>5. /\ seenIdx' \in [Threads -> Nat]
      /\ seenOffset' \in [Threads -> Offset]
      /\ group' \in [Threads -> [pass : Nat, from : Nat, to : 0 .. NumTiles, size : Nat]]
  BY <1>4 DEF Leave, Return, QueueInv, TypeOK, GroupsAreSane
<1>6. /\ \A u \in Threads : seenOffset'[u].tile \in Tiles
      /\ \A u \in Threads : group'[u].from \in Nat /\ group'[u].to \in 0 .. NumTiles
  BY <1>5 DEF Offset
<1>7. TypeOK'
  BY <1>1, <1>2, <1>3, <1>5, <1>6 DEF QueueInv, TypeOK, Leave, Move, queueVars, appVars, flags,
                                      driverVars, WorkerState
<1>8. ThreadsAgree' /\ CoarseIsKnown' /\ InfosAreKnown'
  BY <1>1, ThreadKeeps DEF Leave, queueVars, appVars, flags, driverVars
<1>9. AwakeAreCounted' /\ QueueAgrees'
  BY <1>1, SameCounts, CountIsKept, QueueIsKept DEF QueueInv, Leave, appVars, driverVars, Reserving
<1>10. GroupsAreSane'
  <2>1. worker'[t] = "off" /\ \A u \in Threads : u # t => worker'[u] = worker[u] /\ group'[u] = group[u]
    BY <1>1 DEF QueueInv, TypeOK, GroupsAreSane, Leave, Return, Move
  <2>2. clampPass' = clampPass
    BY DEF Leave, driverVars
  <2> QED
    BY <1>5, <2>1, <2>2 DEF QueueInv, GroupsAreSane
<1>11. NothingBeyond' /\ mOffset' \in Offset /\ mGroupClampIdx' \in Nat
  BY DEF QueueInv, NothingBeyond, Leave, queueVars, driverVars
<1> QED
  BY <1>7, <1>8, <1>9, <1>10, <1>11 DEF QueueInv

-----------------------------------------------------------------------------
(* Steps of the application and of the render thread.                      *)

\* What a step keeps that moves neither the queue nor a thread that renders.
LEMMA OthersKeep ==
    ASSUME QueueInv, UNCHANGED <<queueVars, frames, mFs, at, clampPass, callVars, workerVars, film,
                                 mCoarsePassesComplete>>,
           app' \in {"idle", "rendering", "stopping", "gone"},
           mRenderThreadState' \in RenderThreadState,
           {gCancelFlag', mReadyForDisplay', mFrameComplete', mStopAtFrameReadyForDisplay',
            mRenderStopAtPassBoundary'} \subseteq BOOLEAN,
           ThreadsAgree', InfosAreKnown'
    PROVE  QueueInv'
<1>1. TypeOK'
  BY DEF QueueInv, TypeOK, queueVars, callVars, workerVars
<1>2. AwakeAreCounted' /\ CoarseIsKnown'
  BY DEF QueueInv, AwakeAreCounted, CoarseIsKnown, callVars, workerVars
<1>3. QueueAgrees'
  BY QueueIsKept DEF QueueInv, workerVars
<1>4. GroupsAreSane' /\ NothingBeyond' /\ mOffset' \in Offset /\ mGroupClampIdx' \in Nat
  BY DEF QueueInv, GroupsAreSane, NothingBeyond, queueVars, workerVars
<1> QED
  BY <1>1, <1>2, <1>3, <1>4 DEF QueueInv

\* What the application asks for, and the end of the render thread.
LEMMA RequestsStep ==
    ASSUME QueueInv,
           \/ RequestStop \/ RequestStopAtFrameReadyForDisplay \/ RequestStopRenderAtPassBoundary
           \/ StopFrame \/ Stopped \/ Destroy \/ Die
    PROVE  QueueInv'
<1>1. UNCHANGED <<queueVars, frames, mFs, at, clampPass, callVars, workerVars, film,
                  mCoarsePassesComplete>>
  BY DEF RequestStop, RequestStopAtFrameReadyForDisplay, RequestStopRenderAtPassBoundary,
         StopFrame, Stopped, Destroy, Die, appVars, driverVars, flags
<1>2. {gCancelFlag', mReadyForDisplay', mFrameComplete', mStopAtFrameReadyForDisplay',
       mRenderStopAtPassBoundary'} \subseteq BOOLEAN
  BY DEF RequestStop, RequestStopAtFrameReadyForDisplay, RequestStopRenderAtPassBoundary,
         StopFrame, Stopped, Destroy, Die, flags, QueueInv, TypeOK
<1>3. /\ app' \in {"idle", "rendering", "stopping", "gone"}
      /\ mRenderThreadState' \in RenderThreadState
      /\ ThreadsAgree'
      /\ mRenderThreadState' \in {"REQUEST_RENDER", "RENDERING"} => UNCHANGED mRenderThreadState
  <2>1. CASE RequestStop \/ RequestStopAtFrameReadyForDisplay \/ RequestStopRenderAtPassBoundary
    BY <1>1, <2>1 DEF RequestStop, RequestStopAtFrameReadyForDisplay, RequestStopRenderAtPassBoundary,
         QueueInv, TypeOK, ThreadsAgree, appVars, driverVars, workerVars
  <2>2. CASE StopFrame
    BY <1>1, <2>2 DEF StopFrame, QueueInv, TypeOK, ThreadsAgree, driverVars, workerVars
  <2>3. CASE Stopped \/ Destroy
    BY <1>1, <2>3 DEF Stopped, Destroy, QueueInv, TypeOK, ThreadsAgree, RenderThreadState, workerVars
  <2>4. CASE Die
    BY <1>1, <2>4 DEF Die, QueueInv, TypeOK, ThreadsAgree, RenderThreadState, appVars, workerVars
  <2> QED
    BY <2>1, <2>2, <2>3, <2>4
<1>4. InfosAreKnown'
  BY <1>1, <1>3 DEF QueueInv, InfosAreKnown, queueVars
<1> QED
  BY <1>1, <1>2, <1>3, <1>4, OthersKeep

\* A frame is started while the render thread waits and no thread runs.
LEMMA StartFrameStep ==
    ASSUME QueueInv, NEW s \in Settings, StartFrame(s)
    PROVE  QueueInv'
<1>1. at = "waiting" /\ at' = "waiting" /\ mRenderThreadState' = "REQUEST_RENDER"
      /\ \A t \in Threads : worker[t] = "off"
  BY DEF StartFrame, QueueInv, ThreadsAgree, Taking
<1>2. mFs' = s /\ mPassInfos' = PassInfos(SamplesPerTile[s.mode])
      /\ mGlobalGroupIdx' = 0 /\ mOffset' = Start /\ UnclampPasses(mPassInfos')
  BY DEF StartFrame, Reset
<1>3. mGroupClampIdx' \in Nat
  <2>1. GoodInfos(mPassInfos', NumPasses(s))
    <3>1. NumPasses(s) \in Nat \ {0}
      <4>1. MaxRenderPasses \in Nat
        BY DEF MaxRenderPasses
      <4> QED
        BY <4>1, PassesOfSettings
    <3> QED
      BY <1>2, <3>1, PassesOfSettings, PassInfosAreGood
  <2> QED
    BY <1>2, <2>1 DEF UnclampPasses, GoodInfos
<1>4. Start \in Offset /\ Start.tile \in Tiles
  BY QueueAssumption DEF Start, Offset, Tiles
<1>5. frames' \in 0 .. MaxFrames
  BY RenderAssumption DEF QueueInv, TypeOK, StartFrame
<1>6. TypeOK'
  <2>1. {gCancelFlag', mReadyForDisplay', mCoarsePassesComplete', mFrameComplete',
         mStopAtFrameReadyForDisplay', mRenderStopAtPassBoundary', canceled'} \subseteq BOOLEAN
    BY DEF StartFrame, QueueInv, TypeOK
  <2>2. app' = "rendering" /\ mRenderThreadState' \in RenderThreadState
    BY <1>1 DEF StartFrame, RenderThreadState
  <2>3. mGlobalGroupIdx' \in 0 .. mGroupClampIdx'
    BY <1>2, <1>3
  <2>4. UNCHANGED <<at, clampPass, numTBBThreads, finishedTilesCount, workerVars>>
    BY DEF StartFrame
  <2> QED
    BY <1>2, <1>4, <1>5, <2>1, <2>2, <2>3, <2>4 DEF QueueInv, TypeOK, workerVars
<1>7. ThreadsAgree' /\ AwakeAreCounted' /\ CoarseIsKnown' /\ NothingBeyond'
  BY <1>1 DEF QueueInv, ThreadsAgree, AwakeAreCounted, CoarseIsKnown, NothingBeyond, StartFrame,
              BeforeShown, workerVars
<1>8. InfosAreKnown' /\ QueueAgrees'
  BY <1>1, <1>2 DEF InfosAreKnown, QueueAgrees
<1>9. GroupsAreSane'
  BY <1>1 DEF QueueInv, GroupsAreSane, StartFrame, workerVars
<1> QED
  BY <1>2, <1>3, <1>4, <1>6, <1>7, <1>8, <1>9 DEF QueueInv

\* clampToPass, for a pass that there is.
LEMMA ClampedTo ==
    ASSUME NEW n, GoodInfos(mPassInfos, n), NEW p \in 0 .. n - 1, ClampToPass(mPassInfos, p)
    PROVE  mGroupClampIdx' = mPassInfos[p].mEndGroupIdx
<1>1. p \in DOMAIN mPassInfos
  BY DEF GoodInfos
<1> QED
  BY Zenon, <1>1 DEF ClampToPass

\* Between two calls of renderPasses nobody is about to cut a group.
LEMMA NobodyReserves ==
    ASSUME \A t \in Threads : worker[t] = "off"
    PROVE  Cardinality(In(worker, Reserving)) = 0
<1>1. In(worker, Reserving) = {}
  BY DEF In, Reserving
<1> QED
  BY <1>1, FS_EmptySet

\* The queue is reset and clamped before any thread runs.
LEMMA BeginFrameStep ==
    ASSUME QueueInv, BeginFrame
    PROVE  QueueInv'
<1> DEFINE n == NumPasses(mFs)
<1>1. /\ at = "waiting" /\ mRenderThreadState = "REQUEST_RENDER" /\ mRenderThreadState' = "RENDERING"
      /\ \A t \in Threads : worker[t] = "off"
      /\ app # "idle" /\ app # "gone"
  BY DEF BeginFrame, QueueInv, ThreadsAgree, Taking
<1>2. GoodInfos(mPassInfos, n) /\ n \in Nat \ {0} /\ Passes(mFs) = 0 .. n - 1
  BY <1>1, InfosAreGood DEF QueueInv, TypeOK
<1>3. UNCHANGED <<mPassInfos, appVars, gCancelFlag, mReadyForDisplay, mFrameComplete,
                  mStopAtFrameReadyForDisplay, mRenderStopAtPassBoundary, callVars, workerVars>>
      /\ mGlobalGroupIdx' = 0 /\ mOffset' = Start
      /\ mCoarsePassesComplete' = (mLastCoarsePassIdx[mFs.mode] = MaxRenderPasses)
      /\ film' = [x \in Samples(mFs) |-> 0]
  BY DEF BeginFrame
<1>4. /\ clampPass' \in 0 .. n - 1
      /\ mGroupClampIdx' = mPassInfos[clampPass'].mEndGroupIdx
      /\ at' = "allPasses" \/ (at' = "firstPass" /\ clampPass' = 0)
  <2>1. CASE mFs.mode = "BATCH"
    <3>1. at' = "allPasses" /\ clampPass' = n - 1 /\ UnclampPasses(mPassInfos)
      BY <2>1 DEF BeginFrame, NumPasses
    <3>2. PICK p \in 0 .. n - 1 : p + 1 \notin 0 .. n - 1 /\ mGroupClampIdx' = mPassInfos[p].mEndGroupIdx
      BY <1>2, <3>1 DEF UnclampPasses, GoodInfos
    <3>3. p = n - 1
      BY <1>2, <3>2
    <3> QED
      BY <1>2, <3>1, <3>2, <3>3
  <2>2. CASE mFs.mode # "BATCH"
    <3>1. at' = "firstPass" /\ clampPass' = 0 /\ ClampToPass(mPassInfos, 0)
      BY <2>2 DEF BeginFrame
    <3>2. 0 \in 0 .. n - 1
      BY <1>2
    <3>3. mGroupClampIdx' = mPassInfos[0].mEndGroupIdx
      BY <1>2, <3>1, <3>2, ClampedTo
    <3>4. mPassInfos[0] = mPassInfos[clampPass']
      BY <3>1
    <3> QED
      BY <3>1, <3>2, <3>3, <3>4
  <2> QED
    BY <2>1, <2>2
<1>5. mGroupClampIdx' \in Nat
  BY <1>2, <1>4 DEF GoodInfos
<1>6. Start \in Offset /\ Start.tile \in Tiles
  BY QueueAssumption DEF Start, Offset, Tiles
<1>7. TypeOK'
  <2>1. clampPass' \in Nat
    BY <1>4
  <2>2. at' \in RenderThreadAt /\ mRenderThreadState' \in RenderThreadState
    BY <1>1, <1>4 DEF RenderThreadAt, RenderThreadState
  <2>3. mGlobalGroupIdx' \in 0 .. mGroupClampIdx'
    BY <1>3, <1>5
  <2> QED
    BY <1>3, <1>6, <2>1, <2>2, <2>3 DEF QueueInv, TypeOK, appVars, callVars, workerVars
<1>8. ThreadsAgree' /\ AwakeAreCounted' /\ InfosAreKnown'
  BY <1>1, <1>3, <1>4 DEF QueueInv, ThreadsAgree, AwakeAreCounted, InfosAreKnown, appVars, callVars, workerVars
<1>9. CoarseIsKnown'
  BY <1>3, <1>4 DEF CoarseIsKnown, BeforeShown, appVars
<1>10. QueueAgrees'
  <2>1. OffsetIsSane(mPassInfos, n, Start)
    BY <1>2, <1>6 DEF OffsetIsSane, Start
  <2>2. GroupsCut(mPassInfos, Start) = 0
    <3>1. 0 \in DOMAIN mPassInfos /\ 0 \in 0 .. n - 1
      BY <1>2 DEF GoodInfos
    <3>2. GroupsLeft(Start, mPassInfos[0].mTilesPerGroup) = GroupsIn(mPassInfos, 0)
      <4>1. NumTiles - 0 = NumTiles
        BY QueueAssumption
      <4> QED
        BY <4>1 DEF GroupsLeft, TilesLeft, GroupsIn, Start
    <3>3. GroupsIn(mPassInfos, 0) \in Nat
      BY <1>2, <3>1, StartsAndEnds
    <3> QED
      BY <3>1, <3>2, <3>3 DEF GroupsCut, StartOf, Start
  <2>3. In(worker', Reserving) = In(worker, Reserving) /\ Cardinality(In(worker, Reserving)) = 0
    BY <1>1, <1>3, NobodyReserves DEF workerVars
  <2>4. Passes(mFs)' = 0 .. n - 1 /\ NumPasses(mFs)' = n
    BY <1>2, <1>3 DEF Passes, NumPasses, appVars
  <2> QED
    BY <1>3, <1>4, <2>1, <2>2, <2>3, <2>4 DEF QueueAgrees
<1>11. GroupsAreSane'
  BY <1>1, <1>3 DEF QueueInv, GroupsAreSane, workerVars
<1>12. NothingBeyond'
  <2>1. ASSUME NEW x \in Samples(mFs) PROVE x[1] \in Nat
    BY <1>2 DEF Samples
  <2> QED
    BY <1>3, <2>1 DEF NothingBeyond
<1> QED
  BY <1>3, <1>5, <1>6, <1>7, <1>8, <1>9, <1>10, <1>11, <1>12 DEF QueueInv

\* A call of renderPasses starts its threads with nothing cut in between.
LEMMA RenderPassesStep ==
    ASSUME QueueInv, RenderPasses
    PROVE  QueueInv'
<1>1. /\ at \notin Taking /\ at # "waiting" /\ at' \in Taking /\ at' # "waiting"
      /\ at' \in BeforeShown => at \in BeforeShown
      /\ at' # "displayable"
  BY DEF RenderPasses, Taken, Taking, BeforeShown
<1>2. worker' = [t \in Threads |-> "started"] /\ numTBBThreads' = 0
      /\ finishedTilesCount' = 0 /\ canceled' = FALSE
      /\ UNCHANGED <<queueVars, appVars, flags, mRenderThreadState, clampPass, mPrimaryRaysSubmitted,
                     seenIdx, seenOffset, group, mCancellationState, mCurrentPassIdx, film>>
  BY DEF RenderPasses
<1>3. \A t \in Threads : worker[t] = "off"
  BY <1>1 DEF QueueInv, ThreadsAgree
<1>4. Cardinality(Threads) \in Nat
  BY RenderAssumption, FS_CardinalityType
<1>5. TypeOK'
  <2>1. at' \in RenderThreadAt
    BY <1>1 DEF Taking, RenderThreadAt
  <2>2. worker' \in [Threads -> WorkerState]
    BY <1>2 DEF WorkerState
  <2>3. numTBBThreads' \in 0 .. Cardinality(Threads)
    BY <1>2, <1>4
  <2> QED
    BY <1>2, <2>1, <2>2, <2>3 DEF QueueInv, TypeOK, queueVars, appVars, flags
<1>6. AwakeAreCounted'
  <2>1. In(worker', {"started"}) = Threads
    BY <1>2 DEF In
  <2> QED
    BY <1>2, <1>4, <2>1 DEF AwakeAreCounted
<1>7. ThreadsAgree' /\ CoarseIsKnown' /\ InfosAreKnown'
  BY <1>1, <1>2 DEF QueueInv, ThreadsAgree, CoarseIsKnown, InfosAreKnown, queueVars, appVars, flags
<1>8. QueueAgrees'
  <2>1. In(worker', Reserving) = {} /\ In(worker, Reserving) = {}
    BY <1>2, <1>3 DEF In, Reserving
  <2>2. UNCHANGED <<mPassInfos, mGroupClampIdx, mOffset, mGlobalGroupIdx, mFs, clampPass>>
    BY <1>2 DEF queueVars, appVars
  <2>3. Passes(mFs)' = Passes(mFs) /\ NumPasses(mFs)' = NumPasses(mFs)
    BY <2>2 DEF Passes, NumPasses
  <2> QED
    BY <1>1, <2>1, <2>2, <2>3 DEF QueueInv, QueueAgrees
<1>9. GroupsAreSane' /\ NothingBeyond' /\ mOffset' \in Offset /\ mGroupClampIdx' \in Nat
  BY <1>1, <1>2 DEF QueueInv, GroupsAreSane, NothingBeyond, queueVars
<1> QED
  BY <1>5, <1>6, <1>7, <1>8, <1>9 DEF QueueInv

\* What the steps of the render thread between two calls leave alone.
Kept == UNCHANGED <<appVars, gCancelFlag, mStopAtFrameReadyForDisplay, mRenderStopAtPassBoundary,
                    mRenderThreadState, callVars, workerVars, film>>

\* What every outcome of a call has in common: the clamp never goes down.
LEMMA ProceedStep ==
    ASSUME QueueInv, Kept, \A t \in Threads : worker[t] = "off",
           UNCHANGED <<mPassInfos, mGlobalGroupIdx, mOffset>>,
           {mReadyForDisplay', mCoarsePassesComplete', mFrameComplete'} \subseteq BOOLEAN,
           at # "waiting", at' \in RenderThreadAt, at' # "waiting", CoarseIsKnown',
           clampPass <= clampPass', clampPass' \in Passes(mFs),
           mGroupClampIdx' = mPassInfos[clampPass'].mEndGroupIdx
    PROVE  QueueInv'
<1> DEFINE n == NumPasses(mFs)
<1>1. GoodInfos(mPassInfos, n) /\ n \in Nat \ {0} /\ Passes(mFs) = 0 .. n - 1
  BY InfosAreGood DEF QueueInv, TypeOK, ThreadsAgree
<1>2. /\ clampPass \in 0 .. n - 1 /\ clampPass' \in 0 .. n - 1
      /\ mGroupClampIdx = mPassInfos[clampPass].mEndGroupIdx
      /\ OffsetIsSane(mPassInfos, n, mOffset)
      /\ GroupsCut(mPassInfos, mOffset) + Cardinality(In(worker, Reserving)) = mGlobalGroupIdx
  BY <1>1 DEF QueueInv, QueueAgrees
<1>3. mGroupClampIdx \in Nat /\ mGroupClampIdx' \in Nat /\ mGroupClampIdx <= mGroupClampIdx'
  <2>1. mGroupClampIdx \in Nat /\ mGroupClampIdx' \in Nat
    BY <1>1, <1>2 DEF GoodInfos
  <2> QED
    BY <1>1, <1>2, <2>1, EndsGrow
<1>4. TypeOK'
  <2>1. clampPass' \in Nat
    BY <1>2
  <2>2. mGlobalGroupIdx' \in 0 .. mGroupClampIdx'
    BY <1>3 DEF QueueInv, TypeOK
  <2> QED
    BY <2>1, <2>2 DEF QueueInv, TypeOK, Kept, appVars, callVars, workerVars
<1>5. at' \notin Taking \/ \A t \in Threads : worker'[t] = "off"
  BY DEF Kept, workerVars
<1>6. ThreadsAgree' /\ AwakeAreCounted' /\ InfosAreKnown'
  BY DEF QueueInv, ThreadsAgree, AwakeAreCounted, InfosAreKnown, Kept, appVars, callVars, workerVars
<1>7. QueueAgrees'
  <2>1. UNCHANGED <<worker, mFs>>
    BY DEF Kept, appVars, workerVars
  <2>2. Passes(mFs)' = 0 .. n - 1 /\ NumPasses(mFs)' = n
    BY <1>1, <2>1 DEF Passes, NumPasses
  <2> QED
    BY <1>2, <2>1, <2>2 DEF QueueAgrees
<1>8. GroupsAreSane'
  BY DEF QueueInv, GroupsAreSane, Kept, workerVars
<1>9. NothingBeyond'
  <2>1. ASSUME NEW x \in DOMAIN film PROVE x[1] \in Nat /\ (x[1] > clampPass' => film[x] = 0)
    <3>1. x[1] \in Nat /\ (x[1] > clampPass => film[x] = 0)
      BY DEF QueueInv, NothingBeyond
    <3>2. clampPass \in Int /\ clampPass' \in Int
      BY <1>2
    <3> QED
      BY <3>1, <3>2
  <2> QED
    BY <2>1 DEF NothingBeyond, Kept
<1> QED
  BY <1>3, <1>4, <1>6, <1>7, <1>8, <1>9 DEF QueueInv

\* unclampPasses lets the groups of all passes through.
LEMMA UnclampedTo ==
    ASSUME NEW n \in Nat \ {0}, GoodInfos(mPassInfos, n), UnclampPasses(mPassInfos)
    PROVE  mGroupClampIdx' = mPassInfos[n - 1].mEndGroupIdx
<1>1. PICK p \in 0 .. n - 1 : p + 1 \notin 0 .. n - 1 /\ mGroupClampIdx' = mPassInfos[p].mEndGroupIdx
  BY DEF UnclampPasses, GoodInfos
<1>2. p = n - 1
  BY <1>1
<1> QED
  BY <1>1, <1>2

\* The render thread goes on to the next pass, to all, or ends the frame.
LEMMA OutcomeStep ==
    ASSUME QueueInv, Kept, \A t \in Threads : worker[t] = "off", at # "waiting",
           \/ at \in {"firstPass", "firstPassTaken"} /\ ShowFirstPass
           \/ CompleteFrame
           \/ GiveUp
           \/ clampPass + 1 \in Passes(mFs) /\ NextPass
           \/ AllPasses
    PROVE  QueueInv'
<1> DEFINE n == NumPasses(mFs)
<1>1. GoodInfos(mPassInfos, n) /\ n \in Nat \ {0} /\ Passes(mFs) = 0 .. n - 1
  BY InfosAreGood DEF QueueInv, TypeOK, ThreadsAgree
<1>2. /\ clampPass \in 0 .. n - 1
      /\ mGroupClampIdx = mPassInfos[clampPass].mEndGroupIdx
      /\ mFs' = mFs
  BY <1>1 DEF QueueInv, QueueAgrees, Kept, appVars
<1>3. {mReadyForDisplay, mCoarsePassesComplete, mFrameComplete} \subseteq BOOLEAN
  BY DEF QueueInv, TypeOK
<1>4. CASE at \in {"firstPass", "firstPassTaken"} /\ ShowFirstPass
  <2>1. at' = "displayable" /\ clampPass' = clampPass /\ UNCHANGED queueVars
        /\ {mReadyForDisplay', mCoarsePassesComplete', mFrameComplete'} \subseteq BOOLEAN
    BY <1>3, <1>4 DEF ShowFirstPass
  <2>2. CoarseIsKnown'
    <3>1. mLastCoarsePassIdx[mFs.mode] \in Nat
      <4>1. MaxRenderPasses \in Nat
        BY DEF MaxRenderPasses
      <4> QED
        BY <4>1, PassesOfSettings DEF QueueInv, TypeOK
    <3>2. mCoarsePassesComplete' = (mCoarsePassesComplete \/ mLastCoarsePassIdx[mFs.mode] < 1)
      BY <1>4 DEF ShowFirstPass
    <3>3. clampPass = 0 /\ (mCoarsePassesComplete \/ mLastCoarsePassIdx[mFs.mode] # MaxRenderPasses)
      BY <1>4 DEF QueueInv, CoarseIsKnown, BeforeShown
    <3>4. mCoarsePassesComplete' \/ mLastCoarsePassIdx[mFs.mode] # MaxRenderPasses
      BY <3>2, <3>3
    <3>5. mCoarsePassesComplete' \/ mLastCoarsePassIdx[mFs.mode] > 0
      <4>1. CASE mLastCoarsePassIdx[mFs.mode] < 1
        BY <3>2, <4>1
      <4>2. CASE mLastCoarsePassIdx[mFs.mode] >= 1
        BY <3>1, <4>2
      <4> QED
        BY <3>1, <4>1, <4>2
    <3> QED
      BY <1>2, <2>1, <3>3, <3>4, <3>5 DEF CoarseIsKnown
  <2> QED
    BY <1>1, <1>2, <2>1, <2>2, ProceedStep DEF queueVars, RenderThreadAt
<1>5. CASE CompleteFrame \/ GiveUp
  <2>1. at' = "over" /\ clampPass' = clampPass /\ UNCHANGED queueVars
        /\ {mReadyForDisplay', mCoarsePassesComplete', mFrameComplete'} \subseteq BOOLEAN
    BY <1>3, <1>5 DEF CompleteFrame, GiveUp
  <2>2. CoarseIsKnown'
    BY <2>1 DEF CoarseIsKnown, BeforeShown
  <2> QED
    BY <1>1, <1>2, <2>1, <2>2, ProceedStep DEF queueVars, RenderThreadAt
<1>6. CASE clampPass + 1 \in Passes(mFs) /\ NextPass
  <2>1. at' = "nextPass" /\ clampPass' = clampPass + 1 /\ ClampToPass(mPassInfos, clampPass + 1)
        /\ UNCHANGED <<mPassInfos, mGlobalGroupIdx, mOffset, mReadyForDisplay, mCoarsePassesComplete,
                       mFrameComplete>>
    BY <1>6 DEF NextPass
  <2>2. mGroupClampIdx' = mPassInfos[clampPass'].mEndGroupIdx
    BY <1>1, <1>6, <2>1, ClampedTo
  <2>3. CoarseIsKnown'
    BY <2>1 DEF CoarseIsKnown, BeforeShown
  <2>4. clampPass <= clampPass' /\ clampPass' \in Passes(mFs)
    BY <1>2, <1>6, <2>1
  <2> QED
    BY <1>3, <2>1, <2>2, <2>3, <2>4, ProceedStep DEF RenderThreadAt
<1>7. CASE AllPasses
  <2>1. at' = "allPasses" /\ clampPass' = n - 1 /\ UnclampPasses(mPassInfos)
        /\ UNCHANGED <<mPassInfos, mGlobalGroupIdx, mOffset, mReadyForDisplay, mCoarsePassesComplete,
                       mFrameComplete>>
    BY <1>7 DEF AllPasses, NumPasses
  <2>2. mGroupClampIdx' = mPassInfos[clampPass'].mEndGroupIdx
    BY <1>1, <2>1, UnclampedTo
  <2>3. CoarseIsKnown'
    BY <2>1 DEF CoarseIsKnown, BeforeShown
  <2>4. clampPass <= clampPass' /\ clampPass' \in Passes(mFs)
    BY <1>1, <1>2, <2>1
  <2> QED
    BY <1>3, <2>1, <2>2, <2>3, <2>4, ProceedStep DEF RenderThreadAt
<1> QED
  BY <1>4, <1>5, <1>6, <1>7

\* After a call the clamp goes up, or the frame is over.
LEMMA BetweenCallsStep ==
    ASSUME QueueInv, StopAtPassBoundary \/ PassesTaken \/ AfterFirstPass
    PROVE  QueueInv'
<1>1. Kept
  BY DEF StopAtPassBoundary, PassesTaken, AfterFirstPass, Kept
<1>2. CASE StopAtPassBoundary
  <2>1. at # "waiting" /\ at \notin Taking
    BY <1>2 DEF StopAtPassBoundary, Taking
  <2>2. \A t \in Threads : worker[t] = "off"
    BY <2>1 DEF QueueInv, ThreadsAgree
  <2>3. (at \in {"firstPass", "firstPassTaken"} /\ ShowFirstPass) \/ CompleteFrame
    BY <1>2 DEF StopAtPassBoundary
  <2> QED
    BY <1>1, <2>1, <2>2, <2>3, OutcomeStep
<1>3. CASE PassesTaken
  <2>1. at # "waiting" /\ \A t \in Threads : worker[t] = "off"
    BY <1>3 DEF PassesTaken
  <2>2. \/ at \in {"firstPass", "firstPassTaken"} /\ ShowFirstPass
        \/ CompleteFrame \/ GiveUp
        \/ clampPass + 1 \in Passes(mFs) /\ NextPass
    BY <1>3 DEF PassesTaken, MorePasses
  <2> QED
    BY <1>1, <2>1, <2>2, OutcomeStep
<1>4. CASE AfterFirstPass
  <2>1. at = "displayable"
    BY <1>4 DEF AfterFirstPass
  <2>2. \A t \in Threads : worker[t] = "off"
    BY <2>1 DEF QueueInv, ThreadsAgree, Taking
  <2>3. ~ mCoarsePassesComplete => clampPass + 1 \in Passes(mFs)
    <3>1. clampPass = 0 /\ (mCoarsePassesComplete \/ mLastCoarsePassIdx[mFs.mode] # MaxRenderPasses)
          /\ (mCoarsePassesComplete \/ mLastCoarsePassIdx[mFs.mode] > 0)
      BY <2>1 DEF QueueInv, CoarseIsKnown, BeforeShown
    <3>2. /\ Passes(mFs) = 0 .. NumPasses(mFs) - 1
          /\ mLastCoarsePassIdx[mFs.mode] \in 0 .. NumPasses(mFs) - 1 \cup {MaxRenderPasses}
          /\ NumPasses(mFs) \in Int
      <4>1. MaxRenderPasses \in Nat
        BY DEF MaxRenderPasses
      <4> QED
        BY <4>1, PassesOfSettings DEF QueueInv, TypeOK
    <3> QED
      BY <3>1, <3>2
  <2>4. GiveUp \/ (clampPass + 1 \in Passes(mFs) /\ NextPass) \/ AllPasses
    BY <1>4, <2>3 DEF AfterFirstPass
  <2> QED
    BY <1>1, <2>1, <2>2, <2>4, OutcomeStep
<1> QED
  BY <1>2, <1>3, <1>4

\* A frame that is over promises nothing of the queue.
LEMMA EndFrameStep ==
    ASSUME QueueInv, EndFrame
    PROVE  QueueInv'
<1>1. at = "over" /\ at' = "waiting" /\ mRenderThreadState' = "RENDERING_DONE" /\ mReadyForDisplay' = TRUE
      /\ UNCHANGED <<queueVars, appVars, gCancelFlag, mCoarsePassesComplete, mFrameComplete,
                     mStopAtFrameReadyForDisplay, mRenderStopAtPassBoundary, clampPass,
                     callVars, workerVars, film>>
  BY DEF EndFrame
<1>2. TypeOK'
  BY <1>1 DEF QueueInv, TypeOK, RenderThreadAt, RenderThreadState, queueVars, appVars, callVars, workerVars
<1>3. ThreadsAgree'
  BY <1>1 DEF QueueInv, ThreadsAgree, Taking, appVars, workerVars
<1>4. AwakeAreCounted' /\ CoarseIsKnown' /\ InfosAreKnown' /\ QueueAgrees' /\ NothingBeyond'
  BY <1>1 DEF QueueInv, AwakeAreCounted, CoarseIsKnown, BeforeShown, InfosAreKnown, QueueAgrees,
              NothingBeyond, callVars, workerVars
<1>5. GroupsAreSane' /\ mOffset' \in Offset /\ mGroupClampIdx' \in Nat
  BY <1>1 DEF QueueInv, GroupsAreSane, queueVars, workerVars
<1> QED
  BY <1>2, <1>3, <1>4, <1>5 DEF QueueInv

-----------------------------------------------------------------------------
(* All steps.                                                              *)

\* No frame has been requested, so the queue promises nothing yet.
LEMMA InitStep ==
    ASSUME Init
    PROVE  QueueInv
<1>1. /\ mGlobalGroupIdx = 0 /\ mGroupClampIdx = 0 /\ mOffset = Start
      /\ at = "waiting" /\ mRenderThreadState = "READY_TO_RENDER" /\ app = "idle"
      /\ worker = [t \in Threads |-> "off"] /\ numTBBThreads = 0
      /\ seenOffset = [t \in Threads |-> Start] /\ group = [t \in Threads |-> NoGroup]
  BY DEF Init, InitQueue
<1>2. Start \in Offset /\ Start.tile \in Tiles
  BY QueueAssumption DEF Start, Offset, Tiles
<1>3. Cardinality(Threads) \in Nat
  BY RenderAssumption, FS_CardinalityType
<1>4. NumTiles \in Nat
  BY QueueAssumption
<1>5. TypeOK
  <2>1. /\ app \in {"idle", "rendering", "stopping", "gone"}
        /\ mRenderThreadState \in RenderThreadState
        /\ at \in RenderThreadAt
        /\ worker \in [Threads -> WorkerState]
    BY <1>1 DEF RenderThreadState, RenderThreadAt, WorkerState
  <2>2. /\ frames \in 0 .. MaxFrames
        /\ mFs \in Settings
        /\ clampPass \in Nat
        /\ finishedTilesCount \in Nat
        /\ seenIdx \in [Threads -> Nat]
        /\ mCurrentPassIdx \in [Threads -> Nat]
    BY RenderAssumption DEF Init
  <2>3. {gCancelFlag, mReadyForDisplay, mCoarsePassesComplete, mFrameComplete,
         mStopAtFrameReadyForDisplay, mRenderStopAtPassBoundary, canceled} \subseteq BOOLEAN
    BY DEF Init
  <2>4. /\ numTBBThreads \in 0 .. Cardinality(Threads)
        /\ mGlobalGroupIdx \in 0 .. mGroupClampIdx
        /\ mOffset.tile \in Tiles
    BY <1>1, <1>2, <1>3
  <2>5. \A t \in Threads : seenOffset[t].tile \in Tiles
    BY <1>1, <1>2
  <2>6. \A t \in Threads : group[t].from \in Nat /\ group[t].to \in 0 .. NumTiles
    BY <1>1, <1>4 DEF NoGroup
  <2>7. mCancellationState \in [Threads -> CancellationState]
    BY DEF Init, CancellationState
  <2> QED
    BY <2>1, <2>2, <2>3, <2>4, <2>5, <2>6, <2>7 DEF TypeOK
<1>6. AwakeAreCounted
  <2>1. In(worker, {"started"}) = {}
    BY <1>1 DEF In
  <2> QED
    BY <1>1, <1>3, <2>1, FS_EmptySet DEF AwakeAreCounted
<1>7. ThreadsAgree /\ CoarseIsKnown /\ InfosAreKnown /\ QueueAgrees /\ NothingBeyond
  BY <1>1 DEF ThreadsAgree, CoarseIsKnown, BeforeShown, InfosAreKnown, QueueAgrees, NothingBeyond
<1>8. GroupsAreSane
  BY <1>1, <1>2, <1>4 DEF GroupsAreSane, NoGroup
<1> QED
  BY <1>1, <1>2, <1>5, <1>6, <1>7, <1>8 DEF QueueInv

\* Nothing changes.
LEMMA StutterStep ==
    ASSUME QueueInv, UNCHANGED vars
    PROVE  QueueInv'
<1>1. UNCHANGED <<queueVars, frames, mFs, at, clampPass, callVars, workerVars, film,
                  mCoarsePassesComplete>>
  BY DEF vars, appVars, flags, driverVars
<1>2. UNCHANGED <<app, mRenderThreadState, worker, mPassInfos>>
      /\ UNCHANGED <<gCancelFlag, mReadyForDisplay, mFrameComplete, mStopAtFrameReadyForDisplay,
                     mRenderStopAtPassBoundary>>
  BY DEF vars, appVars, flags, driverVars, workerVars, queueVars
<1>3. ThreadsAgree' /\ InfosAreKnown'
  BY <1>1, <1>2 DEF QueueInv, ThreadsAgree, InfosAreKnown
<1>4. /\ app' \in {"idle", "rendering", "stopping", "gone"}
      /\ mRenderThreadState' \in RenderThreadState
      /\ {gCancelFlag', mReadyForDisplay', mFrameComplete', mStopAtFrameReadyForDisplay',
          mRenderStopAtPassBoundary'} \subseteq BOOLEAN
  BY <1>2 DEF QueueInv, TypeOK
<1> QED
  BY <1>1, <1>3, <1>4, OthersKeep

\* Every step keeps the invariant.
LEMMA NextStep ==
    ASSUME QueueInv, [Next]_vars
    PROVE  QueueInv'
<1>1. CASE Application
  BY <1>1, StartFrameStep, RequestsStep DEF Application
<1>2. CASE RenderThread
  BY <1>2, BeginFrameStep, RenderPassesStep, BetweenCallsStep, EndFrameStep, RequestsStep
     DEF RenderThread
<1>3. ASSUME NEW t \in Threads, Worker(t)
      PROVE  QueueInv'
  BY <1>3, WakeUpStep, PassBarrierStep, CancelAtBarrierStep, LookForWorkStep, NoGroupLeftStep,
     LetThroughStep, ReadOffsetStep, ReserveNextTileGroupStep, RenderTileStep,
     FinishGroupStep, CountStep, ShowShareStep, LeaveStep
     DEF Worker
<1>4. CASE UNCHANGED vars
  BY <1>4, StutterStep
<1> QED
  BY <1>1, <1>2, <1>3, <1>4 DEF Next

\* The offset and the counter that agree bound what is rendered.
LEMMA ClampFollows ==
    ASSUME QueueInv
    PROVE  ClampHolds
<1>1. SUFFICES ASSUME at \in Taking
               PROVE  /\ \A x \in DOMAIN film : x[1] > clampPass => film[x] = 0
                      /\ \A t \in Threads : worker[t] = "rendering" => group[t].pass <= clampPass
                      /\ (/\ mGlobalGroupIdx = mGroupClampIdx
                          /\ \A t \in Threads : worker[t] \notin Reserving)
                             => mOffset = [pass |-> clampPass + 1, tile |-> 0]
  BY DEF ClampHolds, Taking, Reserving
<1>2. at # "waiting"
  BY <1>1 DEF Taking
<1>3. \A x \in DOMAIN film : x[1] > clampPass => film[x] = 0
  BY <1>2 DEF QueueInv, NothingBeyond
<1>4. \A t \in Threads : worker[t] = "rendering" => group[t].pass <= clampPass
  BY DEF QueueInv, GroupsAreSane
<1>5. ASSUME mGlobalGroupIdx = mGroupClampIdx, \A t \in Threads : worker[t] \notin Reserving
      PROVE  mOffset = [pass |-> clampPass + 1, tile |-> 0]
  <2>1. /\ GoodInfos(mPassInfos, NumPasses(mFs))
        /\ NumPasses(mFs) \in Nat \ {0}
        /\ Passes(mFs) = 0 .. NumPasses(mFs) - 1
    BY <1>2, InfosAreGood DEF QueueInv, TypeOK, ThreadsAgree
  <2>2. /\ clampPass \in Passes(mFs)
        /\ mGroupClampIdx = mPassInfos[clampPass].mEndGroupIdx
        /\ OffsetIsSane(mPassInfos, NumPasses(mFs), mOffset)
        /\ GroupsCut(mPassInfos, mOffset) + Cardinality(In(worker, Reserving)) = mGlobalGroupIdx
    BY <1>2 DEF QueueInv, QueueAgrees
  <2>3. In(worker, Reserving) = {}
    BY <1>5 DEF In
  <2>4. Cardinality(In(worker, Reserving)) = 0
    BY <2>3, FS_EmptySet
  <2>5. GroupsCut(mPassInfos, mOffset) \in Nat
    BY <2>1, <2>2, CutBounds
  <2>6. GroupsCut(mPassInfos, mOffset) = mPassInfos[clampPass].mEndGroupIdx
    BY <1>5, <2>2, <2>4, <2>5
  <2> QED
    BY <2>1, <2>2, <2>6, ClampReached
<1> QED
  BY <1>3, <1>4, <1>5

-----------------------------------------------------------------------------
(* The theorems about the queue.                                           *)

\* The strengthened invariant: in every state the groups that were cut and the
\* threads that are about to cut one are the groups that were let through.
THEOREM QueueInvariant == Spec => []QueueInv
<1>1. Init => QueueInv
  BY InitStep
<1>2. QueueInv /\ [Next]_vars => QueueInv'
  BY NextStep
<1> QED
  BY <1>1, <1>2, PTL DEF Spec

\* Every variable of the render driver keeps its type: no counter runs past its
\* end, not the awake threads, not the groups, not the tiles of a group.
THEOREM TypeCorrect == Spec => []TypeOK
<1>1. QueueInv => TypeOK
  BY DEF QueueInv
<1> QED
  BY <1>1, QueueInvariant, PTL

\* For any number of threads, tiles and passes: no tile of a pass beyond the
\* clamped one is rendered or reserved, and when the groups that may be let
\* through have run out and were cut, the offset is where the clamped pass ends.
THEOREM ClampAlwaysHolds == Spec => []ClampHolds
<1>1. QueueInv => ClampHolds
  BY ClampFollows
<1> QED
  BY <1>1, QueueInvariant, PTL

-----------------------------------------------------------------------------
(* What is rendered.  A sample is a pair of a pass and a tile; film tells  *)
(* how often each was rendered.  FrameInv relates it to the offset, to the *)
(* groups the threads hold and to the driver's position; it needs the      *)
(* queue's invariant, which says that the counter stands at the clamp      *)
(* exactly when the passes up to the clamp were cut.                       *)

\* The hypothesis of the refinement.  Where several machines share a BATCH
\* frame a stopped thread counts the group it gave up, and the one that shows
\* the frame forgets that it was canceled (RenderFramePasses.cc:302-309): the
\* promise is broken there, see MCRenderDriverShare.cfg.
BatchOnOneMachine == \A s \in Settings : s.mode = "BATCH" => s.nodes = 1

\* The sample x was cut when the next group begins at o; the samples of the
\* group a thread holds; the groups of passes after the first; a thread saw the
\* request to stop while it was taking groups.
Before(x, o) == x[1] < o.pass \/ (x[1] = o.pass /\ x[2] < o.tile)
Extent(t) == {group[t].pass} \X (group[t].to - group[t].size .. group[t].to - 1)
Holding == {"rendering", "finishedGroup"}
LaterTaking == {"nextPassTaken", "allPassesTaken"}
GaveUp == canceled \/ \E t \in Threads : mCancellationState[t] = "CANCELED"

\* No sample is rendered twice, and none before it was cut.
FilmIsExact ==
    at # "waiting" =>
        /\ film \in [Samples(mFs) -> {0, 1}]
        /\ \A x \in Samples(mFs) : ~ Before(x, mOffset) => film[x] = 0

\* A thread that holds a group has rendered exactly the tiles before its place
\* in it, and no two threads hold the same sample.
GroupsAreOwned ==
    /\ \A t \in Threads : worker[t] \in Holding =>
          /\ group[t].from \in group[t].to - group[t].size .. group[t].to
          /\ group[t].pass <= clampPass
          /\ group[t].size <= group[t].to
          /\ \A x \in Extent(t) :
                /\ Before(x, mOffset)
                /\ film[x] = IF x[2] < group[t].from THEN 1 ELSE 0
    /\ \A t, u \in Threads :
          worker[t] \in Holding /\ worker[u] \in Holding /\ t # u =>
              \A x \in Extent(t) : x \notin Extent(u)

\* A sample that was cut and not rendered is in the group of a thread that is
\* rendering, unless the frame was given up after the first pass.
NothingIsMissed ==
    at \notin {"waiting", "over"} =>
        \A x \in Samples(mFs) : Before(x, mOffset) /\ film[x] = 0 =>
            \/ \E t \in Threads : worker[t] = "rendering" /\ x \in Extent(t)
            \/ at \in LaterTaking /\ GaveUp

\* While groups are taken, somebody is still at work or the counter stands at
\* the clamp: the threads do not all go home with groups left.
WorkIsLeft ==
    at \in Taking =>
        /\ numTBBThreads + Cardinality(In(worker, {"started"})) = Cardinality(Threads)
        /\ \/ mGlobalGroupIdx = mGroupClampIdx
           \/ at \in LaterTaking /\ GaveUp
           \/ numTBBThreads # Cardinality(Threads)
           \/ \E t \in Threads : worker[t] \notin {"off", "started", "leaving"}
        /\ \A t \in Threads : worker[t] = "taking" => seenIdx[t] <= mGlobalGroupIdx

\* In a shared first pass the tiles that were counted are at most those that
\* were rendered by somebody who has put the group down.
CountedIsTaken ==
    at = "firstPassTaken" /\ Parallel =>
        /\ \A t \in Threads : worker[t] = "finishedGroup" => group[t].from = group[t].to
        /\ finishedTilesCount <= Cardinality({x \in Samples(mFs) : Before(x, mOffset)
               /\ \A t \in Threads : worker[t] \in Holding => x \notin Extent(t)})

\* Nobody can be canceled before the barrier or in the first pass, and whoever
\* gave up did so because the frame was asked to stop.
CancellationIsKept ==
    /\ \A t \in Threads : worker[t] \in {"off", "started", "awake"} =>
          mCancellationState[t] = "DISABLED" /\ mCurrentPassIdx[t] = 0
    /\ at = "firstPassTaken" => \A t \in Threads :
          mCancellationState[t] \in {"DISABLED", "WAITING_FOR_SAMPLE_PER_PIXEL"} /\ mCurrentPassIdx[t] = 0
    /\ at \in Taking /\ GaveUp => gCancelFlag
    /\ \A t \in Threads : worker[t] \in {"counted", "showing"} => Parallel
    /\ \A t \in Threads : worker[t] = "showing" =>
          at = "firstPassTaken" /\ finishedTilesCount >= MinTileTotal

\* What the driver's position says of the flags an application reads.
FlagsAreTrue ==
    /\ at \in BeforeShown => mFs.mode # "BATCH"
    /\ at \in {"displayable", "nextPass", "nextPassTaken", "allPasses", "allPassesTaken"} =>
          mReadyForDisplay \/ mFs.mode = "BATCH"
    /\ at \in {"allPasses", "allPassesTaken"} => clampPass + 1 = NumPasses(mFs)
    /\ at = "over" => mFrameComplete \/ gCancelFlag \/ mStopAtFrameReadyForDisplay

FrameInv ==
    /\ FilmIsExact
    /\ GroupsAreOwned
    /\ NothingIsMissed
    /\ WorkIsLeft
    /\ CountedIsTaken
    /\ CancellationIsKept
    /\ FlagsAreTrue

-----------------------------------------------------------------------------
\* A machine's share of the tiles is a tile at least.
LEMMA ShareIsPositive ==
    ASSUME NEW m \in Nat \ {0}, mFs.nodes = m
    PROVE  /\ NumTiles \div m \in Nat
           /\ MinTileTotal \in Nat \ {0}
           /\ MinTileTotal >= NumTiles \div m
<1>1. \A a \in Nat, b \in Nat \ {0} : a \div b \in Nat
  OBVIOUS
<1>2. NumTiles \in Nat
  BY QueueAssumption
<1> DEFINE share == NumTiles \div m
<1>3. share \in Nat
  BY <1>1, <1>2
<1>4. MinTileTotal = IF share = 0 THEN 1 ELSE share
  BY DEF MinTileTotal
<1> HIDE DEF share
<1>5. /\ share \in Nat
      /\ MinTileTotal \in Nat \ {0}
      /\ MinTileTotal >= share
  BY <1>3, <1>4
<1> QED
  BY <1>5 DEF share

\* A cut takes the tiles of its group from behind the offset to before it, and
\* no others.
LEMMA CutCovers ==
    ASSUME NEW n \in Nat \ {0}, NEW infos, GoodInfos(infos, n), NEW o, OffsetIsSane(infos, n, o),
           o.pass # n, NEW next, next = NextOffset(o, infos[o.pass].mTilesPerGroup),
           NEW p \in Nat, NEW i \in Tiles
    PROVE  Before(<<p, i>>, next) <=>
             \/ Before(<<p, i>>, o)
             \/ p = o.pass /\ i \in o.tile .. GroupBetween(o, next).to - 1
<1>1. /\ o.pass \in Nat /\ o.tile \in Nat /\ i \in Nat /\ i < NumTiles /\ NumTiles \in Nat
  BY QueueAssumption DEF OffsetIsSane, Offset, Tiles
<1>2. /\ GroupBetween(o, next).to \in 1 .. NumTiles
      /\ o.tile < GroupBetween(o, next).to
      /\ \/ next.pass = o.pass + 1 /\ next.tile = 0
         \/ next.pass = o.pass /\ next.tile = GroupBetween(o, next).to
  BY CuttingCountsOne
<1>3. next.tile = 0 => GroupBetween(o, next).to = NumTiles
  BY DEF GroupBetween
<1>4. GroupBetween(o, next).to \in Nat
  BY <1>1, <1>2
<1>5. /\ Before(<<p, i>>, o) <=> p < o.pass \/ (p = o.pass /\ i < o.tile)
      /\ Before(<<p, i>>, next) <=> p < next.pass \/ (p = next.pass /\ i < next.tile)
  BY DEF Before
<1>6. CASE next.pass = o.pass + 1 /\ next.tile = 0
  <2>1. GroupBetween(o, next).to = NumTiles
    BY <1>3, <1>6
  <2> QED
    BY <1>1, <1>5, <1>6, <2>1
<1>7. CASE next.pass = o.pass /\ next.tile = GroupBetween(o, next).to
  BY <1>1, <1>2, <1>4, <1>5, <1>7
<1> QED
  BY <1>2, <1>6, <1>7

\* isCanceled: who was canceled stays so; who may not be is not.
LEMMA ChecksAre ==
    ASSUME QueueInv, FrameInv, NEW t \in Threads
    PROVE  /\ mCancellationState[t] = "CANCELED" => CancelCheck(t) = "CANCELED"
           /\ CancelCheck(t) = "CANCELED" => gCancelFlag \/ mCancellationState[t] = "CANCELED"
           /\ at = "firstPassTaken" => CancelCheck(t) = mCancellationState[t]
<1>1. mCancellationState[t] \in CancellationState /\ mCurrentPassIdx[t] \in Nat
  BY DEF QueueInv, TypeOK
<1>2. mCancellationState[t] = "CANCELED" => CancelCheck(t) = "CANCELED"
  BY DEF CancelCheck
<1>3. CancelCheck(t) = "CANCELED" => gCancelFlag \/ mCancellationState[t] = "CANCELED"
  BY DEF CancelCheck
<1>4. at = "firstPassTaken" => CancelCheck(t) = mCancellationState[t]
  <2>1. at = "firstPassTaken" =>
           mCancellationState[t] \in {"DISABLED", "WAITING_FOR_SAMPLE_PER_PIXEL"} /\ mCurrentPassIdx[t] = 0
    BY DEF FrameInv, CancellationIsKept
  <2> QED
    BY <2>1 DEF CancelCheck
<1> QED
  BY <1>2, <1>3, <1>4

\* What a step keeps of a thread that has no group, before and after it.
LEMMA IdleMove ==
    ASSUME QueueInv, FrameInv, NEW t \in Threads,
           worker[t] \notin Holding, worker'[t] \notin Holding,
           \A u \in Threads : u # t => worker'[u] = worker[u] /\ group'[u] = group[u],
           UNCHANGED <<film, mOffset, mFs, at, clampPass, finishedTilesCount>>,
           at \in LaterTaking /\ GaveUp => GaveUp'
    PROVE  FilmIsExact' /\ GroupsAreOwned' /\ NothingIsMissed' /\ CountedIsTaken'
<1>1. Samples(mFs)' = Samples(mFs) /\ (Parallel' <=> Parallel)
  BY DEF Samples, Passes, Parallel
<1>2. \A x : Before(x, mOffset)' <=> Before(x, mOffset)
  BY DEF Before
<1>3. ASSUME NEW u \in Threads
      PROVE  /\ worker'[u] \in Holding <=> worker[u] \in Holding
             /\ worker[u] \in Holding =>
                  worker'[u] = worker[u] /\ group'[u] = group[u] /\ Extent(u)' = Extent(u)
  BY DEF Extent
<1>4. FilmIsExact'
  BY <1>1, <1>2 DEF FrameInv, FilmIsExact
<1>5. GroupsAreOwned'
  BY <1>2, <1>3 DEF FrameInv, GroupsAreOwned
<1>6. NothingIsMissed'
  BY <1>1, <1>2, <1>3 DEF FrameInv, NothingIsMissed, Holding
<1>7. CountedIsTaken'
  <2> DEFINE counted == {x \in Samples(mFs) : Before(x, mOffset)
               /\ \A u \in Threads : worker[u] \in Holding => x \notin Extent(u)}
  <2>1. counted' = counted
    BY <1>1, <1>2, <1>3
  <2>2. at = "firstPassTaken" /\ Parallel =>
          /\ \A u \in Threads : worker[u] = "finishedGroup" => group[u].from = group[u].to
          /\ finishedTilesCount <= Cardinality(counted)
    BY DEF FrameInv, CountedIsTaken
  <2> HIDE DEF counted
  <2>3. /\ at' = "firstPassTaken" /\ Parallel' => finishedTilesCount' <= Cardinality(counted')
        /\ at' = "firstPassTaken" /\ Parallel' =>
             \A u \in Threads : worker'[u] = "finishedGroup" => group'[u].from = group'[u].to
    BY <1>1, <1>3, <2>1, <2>2 DEF Holding
  <2> QED
    BY <2>3 DEF CountedIsTaken, counted
<1> QED
  BY <1>4, <1>5, <1>6, <1>7

\* No flag is taken back while the render thread is where it was.
LEMMA FlagsKept ==
    ASSUME FlagsAreTrue, UNCHANGED <<at, mFs, clampPass>>,
           mReadyForDisplay => mReadyForDisplay', mFrameComplete => mFrameComplete',
           gCancelFlag => gCancelFlag', mStopAtFrameReadyForDisplay => mStopAtFrameReadyForDisplay'
    PROVE  FlagsAreTrue'
<1>1. NumPasses(mFs)' = NumPasses(mFs)
  BY DEF NumPasses, Passes
<1> QED
  BY <1>1 DEF FlagsAreTrue

\* A step of a thread that goes on leaves work to do.
LEMMA WorkKept ==
    ASSUME QueueInv, FrameInv, NEW t \in Threads, NEW from, NEW to, Move(t, from, to),
           from # "started", to \notin {"off", "started", "leaving"},
           UNCHANGED <<at, numTBBThreads>>,
           \A u \in Threads : worker'[u] = "taking" => seenIdx'[u] <= mGlobalGroupIdx'
    PROVE  WorkIsLeft'
<1>1. worker'[t] = to /\ In(worker', {"started"}) = In(worker, {"started"})
  <2>1. worker \in [Threads -> WorkerState]
    BY DEF QueueInv, TypeOK
  <2>2. from \in {"started"} <=> to \in {"started"}
    OBVIOUS
  <2> QED
    BY <2>1, <2>2, InMoves DEF Move
<1> QED
  BY <1>1 DEF FrameInv, WorkIsLeft

\* Who does not look at the counter has not seen more than it counted.
LEMMA SeenKept ==
    ASSUME QueueInv, FrameInv, NEW t \in Threads, NEW from, NEW to, Move(t, from, to),
           to # "taking", from # "off", UNCHANGED <<seenIdx, mGlobalGroupIdx>>
    PROVE  \A u \in Threads : worker'[u] = "taking" => seenIdx'[u] <= mGlobalGroupIdx'
<1>1. at \in Taking
  BY DEF QueueInv, ThreadsAgree, Move
<1>2. \A u \in Threads : worker'[u] = "taking" => worker[u] = "taking"
  BY DEF Move, QueueInv, TypeOK
<1> QED
  BY <1>1, <1>2 DEF FrameInv, WorkIsLeft

\* Before a thread has its state of cancellation.
Early == {"off", "started", "awake"}

\* Who leaves the cancellation states alone keeps what is known of them.
LEMMA CancelKept ==
    ASSUME QueueInv, FrameInv, NEW t \in Threads, NEW from, NEW to, Move(t, from, to),
           to \notin {"counted", "showing"}, to \in Early => from \in Early,
           UNCHANGED <<at, gCancelFlag, mCancellationState, mCurrentPassIdx, mFs, finishedTilesCount>>,
           canceled' => canceled \/ gCancelFlag
    PROVE  CancellationIsKept'
<1>1. worker[t] = from /\ worker'[t] = to /\ \A u \in Threads : u # t => worker'[u] = worker[u]
  BY DEF Move, QueueInv, TypeOK
<1>2. (Parallel' <=> Parallel) /\ MinTileTotal' = MinTileTotal
  BY DEF Parallel, MinTileTotal
<1>3. at \in Taking /\ GaveUp' => gCancelFlag
  BY DEF FrameInv, CancellationIsKept, GaveUp
<1> QED
  BY <1>1, <1>2, <1>3 DEF FrameInv, CancellationIsKept, Early

\* A thread wakes up: it is counted and no longer started.
LEMMA WakeUpKeeps ==
    ASSUME QueueInv, FrameInv, NEW t \in Threads, WakeUp(t)
    PROVE  FrameInv'
<1>1. /\ Move(t, "started", "awake") /\ numTBBThreads' = numTBBThreads + 1
      /\ UNCHANGED <<queueVars, appVars, flags, driverVars, canceled, finishedTilesCount,
                     mPrimaryRaysSubmitted, seenIdx, seenOffset, group, mCancellationState,
                     mCurrentPassIdx, film>>
  BY DEF WakeUp
<1>2. worker[t] = "started" /\ worker'[t] = "awake" /\ \A u \in Threads : u # t => worker'[u] = worker[u]
  BY <1>1 DEF Move, QueueInv, TypeOK
<1>3. FilmIsExact' /\ GroupsAreOwned' /\ NothingIsMissed' /\ CountedIsTaken'
  <2>1. GaveUp' <=> GaveUp
    BY <1>1 DEF GaveUp
  <2> QED
    BY <1>1, <1>2, <2>1, IdleMove DEF Holding, queueVars, appVars, driverVars
<1>4. WorkIsLeft'
  <2>1. /\ Cardinality(In(worker, {"started"})) \in Nat
        /\ Cardinality(In(worker', {"started"})) = Cardinality(In(worker, {"started"})) - 1
    BY <1>1, InMoves DEF QueueInv, TypeOK
  <2>2. numTBBThreads \in Int /\ Cardinality(Threads) \in Int
    BY RenderAssumption, FS_CardinalityType DEF QueueInv, TypeOK
  <2>3. \A u \in Threads : worker'[u] = "taking" => seenIdx'[u] <= mGlobalGroupIdx'
    BY <1>1, SeenKept DEF queueVars
  <2>4. at' = at
    BY <1>1 DEF driverVars
  <2> QED
    BY <1>1, <1>2, <2>1, <2>2, <2>3, <2>4 DEF FrameInv, WorkIsLeft
<1>5. CancellationIsKept'
  BY <1>1, CancelKept DEF Early, flags, driverVars, appVars
<1>6. FlagsAreTrue'
  BY <1>1, FlagsKept DEF FrameInv, flags, driverVars, appVars
<1> QED
  BY <1>3, <1>4, <1>5, <1>6 DEF FrameInv

\* The barrier is passed with a state that is not canceled.
LEMMA PassBarrierKeeps ==
    ASSUME QueueInv, FrameInv, NEW t \in Threads, PassBarrier(t)
    PROVE  FrameInv'
<1>1. /\ Move(t, "awake", "betweenGroups")
      /\ UNCHANGED <<queueVars, appVars, flags, driverVars, callVars, seenIdx, seenOffset, group, film>>
      /\ mCurrentPassIdx' = [mCurrentPassIdx EXCEPT ![t] = 0]
  BY DEF PassBarrier, SetCancellation
<1>2. /\ worker[t] = "awake" /\ worker'[t] = "betweenGroups"
      /\ \A u \in Threads : u # t => worker'[u] = worker[u]
  BY <1>1 DEF Move, QueueInv, TypeOK
<1>3. /\ mCurrentPassIdx'[t] = 0
      /\ mCancellationState'[t] \in {"DISABLED", "WAITING_FOR_CANCEL", "WAITING_FOR_SAMPLE_PER_PIXEL"}
      /\ at = "firstPassTaken" => mCancellationState'[t] = "DISABLED"
      /\ \A u \in Threads : u # t => /\ mCancellationState'[u] = mCancellationState[u]
                                     /\ mCurrentPassIdx'[u] = mCurrentPassIdx[u]
  <2> DEFINE state == CASE at = "firstPassTaken" -> "DISABLED"
                        [] mFs.mode = "BATCH"      -> "WAITING_FOR_CANCEL"
                        [] OTHER                   -> "WAITING_FOR_SAMPLE_PER_PIXEL"
  <2>1. mCancellationState' = [mCancellationState EXCEPT ![t] = state]
    BY DEF PassBarrier, SetCancellation
  <2>2. /\ state \in {"DISABLED", "WAITING_FOR_CANCEL", "WAITING_FOR_SAMPLE_PER_PIXEL"}
        /\ at = "firstPassTaken" => state = "DISABLED"
    <3>1. CASE at = "firstPassTaken"
      BY <3>1 DEF FrameInv, FlagsAreTrue, BeforeShown
    <3>2. CASE at # "firstPassTaken" /\ mFs.mode = "BATCH"
      BY <3>2
    <3>3. CASE at # "firstPassTaken" /\ mFs.mode # "BATCH"
      BY <3>3
    <3> QED
      BY <3>1, <3>2, <3>3
  <2>3. DOMAIN mCancellationState = Threads /\ DOMAIN mCurrentPassIdx = Threads
    BY DEF QueueInv, TypeOK
  <2> HIDE DEF state
  <2> QED
    BY <1>1, <2>1, <2>2, <2>3
<1>4. GaveUp' <=> GaveUp
  <2>1. mCancellationState[t] # "CANCELED" /\ mCancellationState'[t] # "CANCELED"
    BY <1>2, <1>3 DEF FrameInv, CancellationIsKept
  <2> QED
    BY <1>1, <1>3, <2>1 DEF GaveUp, callVars
<1>5. FilmIsExact' /\ GroupsAreOwned' /\ NothingIsMissed' /\ CountedIsTaken'
  BY <1>1, <1>2, <1>4, IdleMove DEF Holding, queueVars, appVars, driverVars, callVars
<1>6. WorkIsLeft'
  BY <1>1, SeenKept, WorkKept DEF queueVars, driverVars, callVars
<1>7. CancellationIsKept'
  <2>1. (Parallel' <=> Parallel) /\ MinTileTotal' = MinTileTotal
    BY <1>1 DEF Parallel, MinTileTotal, appVars
  <2>2. UNCHANGED <<at, gCancelFlag, finishedTilesCount>>
    BY <1>1 DEF driverVars, flags, callVars
  <2> QED
    BY <1>2, <1>3, <1>4, <2>1, <2>2 DEF FrameInv, CancellationIsKept
<1>8. FlagsAreTrue'
  BY <1>1, FlagsKept DEF FrameInv, flags, driverVars, appVars
<1> QED
  BY <1>5, <1>6, <1>7, <1>8 DEF FrameInv

\* A thread that leaves at the barrier was not the last to wake up.
LEMMA CancelAtBarrierKeeps ==
    ASSUME QueueInv, FrameInv, NEW t \in Threads, CancelAtBarrier(t)
    PROVE  FrameInv'
<1>1. /\ Move(t, "awake", "off") /\ canceled' = TRUE /\ gCancelFlag
      /\ numTBBThreads # Cardinality(Threads)
      /\ UNCHANGED <<queueVars, appVars, flags, driverVars, numTBBThreads, finishedTilesCount,
                     mPrimaryRaysSubmitted, seenIdx, seenOffset, group, mCancellationState,
                     mCurrentPassIdx, film>>
  BY DEF CancelAtBarrier, MayLeaveBarrier, AllAwake
<1>2. worker[t] = "awake" /\ worker'[t] = "off" /\ \A u \in Threads : u # t => worker'[u] = worker[u]
  BY <1>1 DEF Move, QueueInv, TypeOK
<1>3. FilmIsExact' /\ GroupsAreOwned' /\ NothingIsMissed' /\ CountedIsTaken'
  <2>1. GaveUp'
    BY <1>1 DEF GaveUp
  <2> QED
    BY <1>1, <1>2, <2>1, IdleMove DEF Holding, queueVars, appVars, driverVars
<1>4. WorkIsLeft'
  <2>1. In(worker', {"started"}) = In(worker, {"started"})
    BY <1>1, InMoves DEF QueueInv, TypeOK
  <2>2. \A u \in Threads : worker'[u] = "taking" => seenIdx'[u] <= mGlobalGroupIdx'
    BY <1>1, SeenKept DEF queueVars
  <2>3. at' = at
    BY <1>1 DEF driverVars
  <2> QED
    BY <1>1, <2>1, <2>2, <2>3 DEF FrameInv, WorkIsLeft
<1>5. CancellationIsKept'
  BY <1>1, CancelKept DEF Early, flags, driverVars, appVars
<1>6. FlagsAreTrue'
  BY <1>1, FlagsKept DEF FrameInv, flags, driverVars, appVars
<1> QED
  BY <1>3, <1>4, <1>5, <1>6 DEF FrameInv

\* A thread that looks for work has seen the counter, or gives the frame up.
LEMMA LookForWorkKeeps ==
    ASSUME QueueInv, FrameInv, NEW t \in Threads, LookForWork(t)
    PROVE  FrameInv'
<1> DEFINE to == IF CancelCheck(t) = "CANCELED" THEN "leaving" ELSE "taking"
<1>1. /\ Move(t, "betweenGroups", to)
      /\ mCancellationState' = [mCancellationState EXCEPT ![t] = CancelCheck(t)]
      /\ CancelCheck(t) # "CANCELED" => seenIdx' = [seenIdx EXCEPT ![t] = mGlobalGroupIdx]
      /\ CancelCheck(t) = "CANCELED" => UNCHANGED seenIdx
      /\ UNCHANGED <<queueVars, appVars, flags, driverVars, callVars, seenOffset, group,
                     mCurrentPassIdx, film>>
  BY DEF LookForWork
<1>2. to \in {"leaving", "taking"}
  OBVIOUS
<1>3. /\ worker[t] = "betweenGroups" /\ worker'[t] = to
      /\ \A u \in Threads : u # t => worker'[u] = worker[u]
      /\ at \in Taking
  BY <1>1 DEF Move, QueueInv, TypeOK, ThreadsAgree
<1>4. /\ mCancellationState'[t] = CancelCheck(t)
      /\ \A u \in Threads : u # t => mCancellationState'[u] = mCancellationState[u]
  BY <1>1 DEF QueueInv, TypeOK
<1>5. /\ GaveUp => GaveUp'
      /\ GaveUp' => GaveUp \/ gCancelFlag
      /\ at = "firstPassTaken" => mCancellationState'[t] = mCancellationState[t]
      /\ canceled' = canceled
  BY <1>1, <1>4, ChecksAre DEF GaveUp, callVars
<1>6. FilmIsExact' /\ GroupsAreOwned' /\ NothingIsMissed' /\ CountedIsTaken'
  BY <1>1, <1>2, <1>3, <1>5, IdleMove DEF Holding, queueVars, appVars, driverVars, callVars
<1>7. WorkIsLeft'
  <2>1. CASE CancelCheck(t) = "CANCELED"
    <3>1. In(worker', {"started"}) = In(worker, {"started"})
      BY <1>1, <1>2, InMoves DEF QueueInv, TypeOK
    <3>2. \A u \in Threads : worker'[u] = "taking" => seenIdx'[u] <= mGlobalGroupIdx'
      BY <1>1, <2>1, SeenKept DEF queueVars
    <3>3. at \in LaterTaking /\ GaveUp'
      <4>1. at # "firstPassTaken"
        BY <2>1, <1>4, <1>5 DEF FrameInv, CancellationIsKept
      <4>2. GaveUp'
        BY <2>1, <1>4 DEF GaveUp
      <4> QED
        BY <4>1, <4>2, <1>3 DEF Taking, LaterTaking
    <3>4. UNCHANGED <<at, numTBBThreads>>
      BY <1>1 DEF driverVars, callVars
    <3> QED
      BY <3>1, <3>2, <3>3, <3>4 DEF FrameInv, WorkIsLeft
  <2>2. CASE CancelCheck(t) # "CANCELED"
    <3>1. mGlobalGroupIdx' = mGlobalGroupIdx /\ mGlobalGroupIdx \in Int /\ seenIdx'[t] = mGlobalGroupIdx
          /\ \A u \in Threads : u # t => seenIdx'[u] = seenIdx[u]
      <4>1. mGlobalGroupIdx' = mGlobalGroupIdx /\ mGlobalGroupIdx \in Int
        BY <1>1 DEF queueVars, QueueInv, TypeOK
      <4> QED
        BY <4>1, <1>1, <2>2 DEF QueueInv, TypeOK
    <3>2. \A u \in Threads : worker'[u] = "taking" => seenIdx'[u] <= mGlobalGroupIdx'
      BY <3>1, <1>3 DEF FrameInv, WorkIsLeft
    <3>3. Move(t, "betweenGroups", "taking")
      BY <1>1, <2>2
    <3> QED
      BY <3>2, <3>3, <1>1, WorkKept DEF driverVars, callVars
  <2> QED
    BY <2>1, <2>2
<1>8. CancellationIsKept'
  <2>1. (Parallel' <=> Parallel) /\ MinTileTotal' = MinTileTotal
    BY <1>1 DEF Parallel, MinTileTotal, appVars
  <2>2. UNCHANGED <<at, gCancelFlag, finishedTilesCount, mCurrentPassIdx>>
    BY <1>1 DEF driverVars, flags, callVars
  <2> HIDE DEF to
  <2> QED
    BY <1>2, <1>3, <1>4, <1>5, <2>1, <2>2 DEF FrameInv, CancellationIsKept
<1>9. FlagsAreTrue'
  BY <1>1, FlagsKept DEF FrameInv, flags, driverVars, appVars
<1> QED
  BY <1>6, <1>7, <1>8, <1>9 DEF FrameInv

\* A thread leaves when it has seen that no group is left.
LEMMA NoGroupLeftKeeps ==
    ASSUME QueueInv, FrameInv, NEW t \in Threads, NoGroupLeft(t)
    PROVE  FrameInv'
<1>1. /\ Move(t, "taking", "leaving") /\ seenIdx[t] >= mGroupClampIdx
      /\ UNCHANGED <<queueVars, appVars, flags, driverVars, callVars, seenIdx, seenOffset, group,
                     mCancellationState, mCurrentPassIdx, film>>
  BY DEF NoGroupLeft, UsedUp
<1>2. /\ worker[t] = "taking" /\ worker'[t] = "leaving"
      /\ \A u \in Threads : u # t => worker'[u] = worker[u]
      /\ at \in Taking
  BY <1>1 DEF Move, QueueInv, TypeOK, ThreadsAgree
<1>3. GaveUp' <=> GaveUp
  BY <1>1 DEF GaveUp, callVars
<1>4. FilmIsExact' /\ GroupsAreOwned' /\ NothingIsMissed' /\ CountedIsTaken'
  BY <1>1, <1>2, <1>3, IdleMove DEF Holding, queueVars, appVars, driverVars, callVars
<1>5. WorkIsLeft'
  <2>1. In(worker', {"started"}) = In(worker, {"started"})
    BY <1>1, InMoves DEF QueueInv, TypeOK
  <2>2. \A u \in Threads : worker'[u] = "taking" => seenIdx'[u] <= mGlobalGroupIdx'
    BY <1>1, SeenKept DEF queueVars
  <2>3. mGlobalGroupIdx = mGroupClampIdx
    <3>1. seenIdx[t] <= mGlobalGroupIdx
      BY <1>2 DEF FrameInv, WorkIsLeft
    <3>2. mGlobalGroupIdx \in 0 .. mGroupClampIdx /\ mGroupClampIdx \in Nat /\ seenIdx[t] \in Nat
      BY DEF QueueInv, TypeOK
    <3> QED
      BY <1>1, <3>1, <3>2
  <2>4. UNCHANGED <<at, numTBBThreads, mGlobalGroupIdx, mGroupClampIdx>>
    BY <1>1 DEF driverVars, callVars, queueVars
  <2> QED
    BY <2>1, <2>2, <2>3, <2>4 DEF FrameInv, WorkIsLeft
<1>6. CancellationIsKept'
  BY <1>1, CancelKept DEF Early, flags, driverVars, appVars, callVars
<1>7. FlagsAreTrue'
  BY <1>1, FlagsKept DEF FrameInv, flags, driverVars, appVars
<1> QED
  BY <1>4, <1>5, <1>6, <1>7 DEF FrameInv

\* A thread that was not let through has seen the counter again.
LEMMA SeenAgain ==
    ASSUME QueueInv, FrameInv, NEW t \in Threads,
           seenIdx' = [seenIdx EXCEPT ![t] = mGlobalGroupIdx],
           UNCHANGED <<queueVars, appVars, flags, driverVars, callVars, worker, group,
                       mCancellationState, mCurrentPassIdx, film>>
    PROVE  FrameInv'
<1>1. Samples(mFs)' = Samples(mFs) /\ (Parallel' <=> Parallel) /\ MinTileTotal' = MinTileTotal
      /\ NumPasses(mFs)' = NumPasses(mFs) /\ (GaveUp' <=> GaveUp)
  BY DEF Samples, Passes, NumPasses, Parallel, MinTileTotal, GaveUp, appVars, callVars
<1>2. /\ \A x : Before(x, mOffset)' <=> Before(x, mOffset)
      /\ \A u \in Threads : Extent(u)' = Extent(u)
      /\ In(worker', {"started"}) = In(worker, {"started"})
  BY DEF Before, Extent, In, queueVars
<1>3. FilmIsExact' /\ GroupsAreOwned' /\ NothingIsMissed'
  BY <1>1, <1>2 DEF FrameInv, FilmIsExact, GroupsAreOwned, NothingIsMissed, driverVars
<1>4. CountedIsTaken'
  <2> DEFINE counted == {x \in Samples(mFs) : Before(x, mOffset)
               /\ \A u \in Threads : worker[u] \in Holding => x \notin Extent(u)}
  <2>1. counted' = counted
    BY <1>1, <1>2
  <2> QED
    BY <1>1, <2>1 DEF FrameInv, CountedIsTaken, driverVars, callVars
<1>5. WorkIsLeft'
  <2>1. mGlobalGroupIdx' = mGlobalGroupIdx /\ mGlobalGroupIdx \in Int
    BY DEF queueVars, QueueInv, TypeOK
  <2>2. at \in Taking => \A u \in Threads : worker'[u] = "taking" => seenIdx'[u] <= mGlobalGroupIdx'
    BY <2>1 DEF FrameInv, WorkIsLeft, QueueInv, TypeOK
  <2> QED
    BY <1>1, <1>2, <2>2 DEF FrameInv, WorkIsLeft, queueVars, driverVars, callVars
<1>6. CancellationIsKept' /\ FlagsAreTrue'
  BY <1>1 DEF FrameInv, CancellationIsKept, FlagsAreTrue, flags, driverVars, appVars, callVars
<1> QED
  BY <1>3, <1>4, <1>5, <1>6 DEF FrameInv

\* A thread is let through, or sees the counter again.
LEMMA LetThroughKeeps ==
    ASSUME QueueInv, FrameInv, NEW t \in Threads, LetThrough(t)
    PROVE  FrameInv'
<1>1. CASE mGlobalGroupIdx = seenIdx[t]
  <2>1. /\ Move(t, "taking", "letThrough") /\ mGlobalGroupIdx' = mGlobalGroupIdx + 1
        /\ UNCHANGED <<mPassInfos, mGroupClampIdx, mOffset, appVars, flags, driverVars, callVars,
                       seenIdx, seenOffset, group, mCancellationState, mCurrentPassIdx, film>>
    BY <1>1 DEF LetThrough
  <2>2. /\ worker[t] = "taking" /\ worker'[t] = "letThrough"
        /\ \A u \in Threads : u # t => worker'[u] = worker[u]
        /\ at \in Taking
    BY <2>1 DEF Move, QueueInv, TypeOK, ThreadsAgree
  <2>3. GaveUp' <=> GaveUp
    BY <2>1 DEF GaveUp, callVars
  <2>4. FilmIsExact' /\ GroupsAreOwned' /\ NothingIsMissed' /\ CountedIsTaken'
    BY <2>1, <2>2, <2>3, IdleMove DEF Holding, appVars, driverVars, callVars
  <2>5. WorkIsLeft'
    <3>1. ASSUME NEW u \in Threads, worker'[u] = "taking" PROVE seenIdx'[u] <= mGlobalGroupIdx'
      <4>1. worker[u] = "taking"
        BY <2>2, <3>1
      <4>2. seenIdx[u] <= mGlobalGroupIdx
        BY <2>2, <4>1 DEF FrameInv, WorkIsLeft
      <4>3. seenIdx[u] \in Int /\ mGlobalGroupIdx \in Int
        BY DEF QueueInv, TypeOK
      <4> QED
        BY <2>1, <4>2, <4>3
    <3> QED
      BY <2>1, <3>1, WorkKept DEF driverVars, callVars
  <2>6. CancellationIsKept'
    BY <2>1, CancelKept DEF Early, flags, driverVars, appVars, callVars
  <2>7. FlagsAreTrue'
    BY <2>1, FlagsKept DEF FrameInv, flags, driverVars, appVars
  <2> QED
    BY <2>4, <2>5, <2>6, <2>7 DEF FrameInv
<1>2. CASE mGlobalGroupIdx # seenIdx[t]
  <2>1. /\ seenIdx' = [seenIdx EXCEPT ![t] = mGlobalGroupIdx]
        /\ UNCHANGED <<queueVars, appVars, flags, driverVars, callVars, worker, group,
                       mCancellationState, mCurrentPassIdx, film>>
    BY <1>2 DEF LetThrough, queueVars
  <2> QED
    BY <2>1, SeenAgain
<1> QED
  BY <1>1, <1>2

\* Reading the offset takes no group yet.
LEMMA ReadOffsetKeeps ==
    ASSUME QueueInv, FrameInv, NEW t \in Threads, ReadOffset(t)
    PROVE  FrameInv'
<1>1. /\ Move(t, "letThrough", "reserving")
      /\ UNCHANGED <<queueVars, appVars, flags, driverVars, callVars, seenIdx, group,
                     mCancellationState, mCurrentPassIdx, film>>
  BY DEF ReadOffset
<1>2. /\ worker[t] = "letThrough" /\ worker'[t] = "reserving"
      /\ \A u \in Threads : u # t => worker'[u] = worker[u]
  BY <1>1 DEF Move, QueueInv, TypeOK
<1>3. GaveUp' <=> GaveUp
  BY <1>1 DEF GaveUp, callVars
<1>4. FilmIsExact' /\ GroupsAreOwned' /\ NothingIsMissed' /\ CountedIsTaken'
  BY <1>1, <1>2, <1>3, IdleMove DEF Holding, queueVars, appVars, driverVars, callVars
<1>5. WorkIsLeft'
  BY <1>1, SeenKept, WorkKept DEF queueVars, driverVars, callVars
<1>6. CancellationIsKept'
  BY <1>1, CancelKept DEF Early, flags, driverVars, appVars, callVars
<1>7. FlagsAreTrue'
  BY <1>1, FlagsKept DEF FrameInv, flags, driverVars, appVars
<1> QED
  BY <1>4, <1>5, <1>6, <1>7 DEF FrameInv

\* The samples of a group that is held are samples of the frame.
LEMMA ExtentIsInside ==
    ASSUME QueueInv, FrameInv, NEW u \in Threads, worker[u] \in Holding
    PROVE  /\ Extent(u) \subseteq Samples(mFs)
           /\ Extent(u) \subseteq Nat \X Tiles
           /\ at \in Taking
<1>1. group[u] \in [pass : Nat, from : Nat, to : 0 .. NumTiles, size : Nat]
  BY DEF QueueInv, GroupsAreSane
<1>2. group[u].pass <= clampPass /\ group[u].size <= group[u].to
  BY DEF FrameInv, GroupsAreOwned
<1>3. at \in Taking /\ mRenderThreadState = "RENDERING" /\ at # "waiting"
  BY DEF QueueInv, ThreadsAgree, Holding, Taking
<1>4. Passes(mFs) = 0 .. NumPasses(mFs) - 1 /\ NumPasses(mFs) \in Nat \ {0} /\ clampPass \in Passes(mFs)
  BY <1>3, InfosAreGood DEF QueueInv, TypeOK, QueueAgrees
<1>5. ASSUME NEW x \in Extent(u) PROVE x \in Samples(mFs) /\ x \in Nat \X Tiles
  <2>1. PICK i \in group[u].to - group[u].size .. group[u].to - 1 : x = <<group[u].pass, i>>
    BY DEF Extent
  <2>2. group[u].to \in Nat /\ group[u].to <= NumTiles /\ NumTiles \in Nat /\ group[u].size \in Nat
        /\ group[u].pass \in Nat
    BY <1>1, QueueAssumption
  <2>3. i \in Tiles
    BY <1>2, <2>1, <2>2 DEF Tiles
  <2>4. group[u].pass \in Passes(mFs)
    BY <1>2, <1>4, <2>2
  <2> QED
    BY <2>1, <2>2, <2>3, <2>4 DEF Samples
<1> QED
  BY <1>3, <1>5

\* Before a thread cuts a group.
LEMMA OffsetIsWithinClamp ==
    ASSUME QueueInv, NEW t \in Threads, worker[t] = "reserving"
    PROVE  /\ GoodInfos(mPassInfos, NumPasses(mFs)) /\ NumPasses(mFs) \in Nat \ {0}
           /\ Passes(mFs) = 0 .. NumPasses(mFs) - 1
           /\ clampPass \in 0 .. NumPasses(mFs) - 1
           /\ OffsetIsSane(mPassInfos, NumPasses(mFs), mOffset)
           /\ mOffset.pass \in 0 .. clampPass
           /\ mOffset.pass # NumPasses(mFs)
           /\ TilesPerGroupOf(mOffset.pass) = mPassInfos[mOffset.pass].mTilesPerGroup
<1> DEFINE n == NumPasses(mFs)
<1>2. at # "waiting" /\ mRenderThreadState = "RENDERING"
  BY DEF QueueInv, ThreadsAgree, Taking
<1>3. GoodInfos(mPassInfos, n) /\ n \in Nat \ {0} /\ Passes(mFs) = 0 .. n - 1
  BY <1>2, InfosAreGood DEF QueueInv, TypeOK
<1>4. /\ clampPass \in 0 .. n - 1
      /\ mGroupClampIdx = mPassInfos[clampPass].mEndGroupIdx
      /\ OffsetIsSane(mPassInfos, n, mOffset)
      /\ GroupsCut(mPassInfos, mOffset) + Cardinality(In(worker, Reserving)) = mGlobalGroupIdx
  BY <1>2, <1>3 DEF QueueInv, QueueAgrees
<1>5. Cardinality(In(worker, Reserving)) \in Nat \ {0}
  <2>1. t \in In(worker, Reserving)
    BY DEF In, Reserving
  <2>2. IsFiniteSet(In(worker, Reserving))
    BY RenderAssumption, FS_Subset DEF In
  <2> QED
    BY ONLY <2>1, <2>2, FS_EmptySet, FS_CardinalityType
<1>6. mOffset.pass \in 0 .. clampPass
  <2>1. GroupsCut(mPassInfos, mOffset) \in Nat
    BY <1>3, <1>4, CutBounds
  <2>2. GroupsCut(mPassInfos, mOffset) < mPassInfos[clampPass].mEndGroupIdx
    <3>1. mGlobalGroupIdx \in 0 .. mGroupClampIdx /\ mGroupClampIdx \in Nat
      BY DEF QueueInv, TypeOK
    <3> HIDE DEF n
    <3> QED
      BY <1>4, <1>5, <2>1, <3>1
  <2> QED
    BY <1>3, <1>4, <2>2, WithinClamp
<1> QED
  BY <1>3, <1>4, <1>6 DEF TilesPerGroupOf, GoodInfos

\* What changes neither the queue, the threads nor the film, and takes no flag back.
LEMMA QuietStep ==
    ASSUME QueueInv, FrameInv,
           UNCHANGED <<queueVars, mFs, at, clampPass, callVars, worker, group, seenIdx,
                       mCancellationState, mCurrentPassIdx, film>>,
           mReadyForDisplay => mReadyForDisplay', mFrameComplete => mFrameComplete',
           gCancelFlag => gCancelFlag', mStopAtFrameReadyForDisplay => mStopAtFrameReadyForDisplay'
    PROVE  FrameInv'
<1>1. Samples(mFs)' = Samples(mFs) /\ (Parallel' <=> Parallel) /\ MinTileTotal' = MinTileTotal
      /\ NumPasses(mFs)' = NumPasses(mFs) /\ (GaveUp' <=> GaveUp)
  BY DEF Samples, Passes, NumPasses, Parallel, MinTileTotal, GaveUp, callVars
<1>2. /\ \A x : Before(x, mOffset)' <=> Before(x, mOffset)
      /\ \A u \in Threads : Extent(u)' = Extent(u)
      /\ In(worker', {"started"}) = In(worker, {"started"})
  BY DEF Before, Extent, In, queueVars
<1>3. FilmIsExact' /\ GroupsAreOwned' /\ NothingIsMissed'
  BY <1>1, <1>2 DEF FrameInv, FilmIsExact, GroupsAreOwned, NothingIsMissed
<1>4. CountedIsTaken'
  <2> DEFINE counted == {x \in Samples(mFs) : Before(x, mOffset)
               /\ \A u \in Threads : worker[u] \in Holding => x \notin Extent(u)}
  <2>1. counted' = counted
    BY <1>1, <1>2
  <2> QED
    BY <1>1, <2>1 DEF FrameInv, CountedIsTaken, callVars
<1>5. WorkIsLeft'
  BY <1>1, <1>2 DEF FrameInv, WorkIsLeft, queueVars, callVars
<1>6. CancellationIsKept'
  BY <1>1 DEF FrameInv, CancellationIsKept, callVars
<1>7. FlagsAreTrue'
  BY FlagsKept DEF FrameInv
<1> QED
  BY <1>3, <1>4, <1>5, <1>6, <1>7 DEF FrameInv

\* The group that is cut is nobody else's, and none of it was rendered.
LEMMA ReserveNextTileGroupKeeps ==
    ASSUME QueueInv, FrameInv, NEW t \in Threads, ReserveNextTileGroup(t)
    PROVE  FrameInv'
<1>1. CASE mOffset = seenOffset[t]
  <2> DEFINE g == GroupBetween(mOffset, mOffset')
             taken == [pass |-> g.pass, from |-> g.from, to |-> g.to, size |-> g.to - g.from]
  <2>1. /\ Move(t, "reserving", "rendering")
        /\ mOffset' = NextOffset(mOffset, TilesPerGroupOf(mOffset.pass))
        /\ group' = [group EXCEPT ![t] = taken]
        /\ mCurrentPassIdx' = [mCurrentPassIdx EXCEPT ![t] = mOffset.pass]
        /\ UNCHANGED <<mPassInfos, mGroupClampIdx, mGlobalGroupIdx, appVars, flags, driverVars,
                       callVars, seenIdx, mCancellationState, film>>
    BY <1>1 DEF ReserveNextTileGroup
  <2>2. /\ worker[t] = "reserving" /\ worker'[t] = "rendering"
        /\ \A u \in Threads : u # t => worker'[u] = worker[u] /\ group'[u] = group[u]
        /\ at \in Taking
        /\ group'[t] = taken
    BY <2>1 DEF Move, QueueInv, TypeOK, ThreadsAgree, GroupsAreSane
  <2>3. /\ GoodInfos(mPassInfos, NumPasses(mFs)) /\ NumPasses(mFs) \in Nat \ {0}
        /\ Passes(mFs) = 0 .. NumPasses(mFs) - 1
        /\ clampPass \in 0 .. NumPasses(mFs) - 1
        /\ OffsetIsSane(mPassInfos, NumPasses(mFs), mOffset)
        /\ mOffset.pass \in 0 .. clampPass
        /\ mOffset.pass # NumPasses(mFs)
        /\ mOffset' = NextOffset(mOffset, mPassInfos[mOffset.pass].mTilesPerGroup)
    BY <2>1, <2>2, OffsetIsWithinClamp
  <2>4. /\ g.pass = mOffset.pass /\ g.from = mOffset.tile
        /\ g.to \in 1 .. NumTiles /\ mOffset.tile < g.to
    BY <2>3, CuttingCountsOne
  <2>5. /\ mOffset.pass \in Nat /\ mOffset.tile \in Nat /\ g.to \in Nat /\ NumTiles \in Nat
        /\ g.to <= NumTiles /\ clampPass \in Nat /\ mOffset.pass \in Passes(mFs) /\ mOffset.pass <= clampPass
    BY <2>3, <2>4, QueueAssumption DEF QueueInv, Offset, Tiles
  <2> HIDE DEF g
  <2>6. Extent(t)' = {mOffset.pass} \X (mOffset.tile .. g.to - 1)
    BY <2>2, <2>4, <2>5 DEF Extent
  <2>7. ASSUME NEW x \in Nat \X Tiles
        PROVE  Before(x, mOffset)' <=> Before(x, mOffset) \/ x \in Extent(t)'
    <3>1. x[1] \in Nat /\ x[2] \in Tiles /\ x = <<x[1], x[2]>>
      OBVIOUS
    <3>2. Before(<<x[1], x[2]>>, mOffset') <=>
             \/ Before(<<x[1], x[2]>>, mOffset)
             \/ x[1] = mOffset.pass /\ x[2] \in mOffset.tile .. g.to - 1
      BY <2>3, <3>1, CutCovers DEF g
    <3>3. Before(x, mOffset)' <=> Before(x, mOffset')
      BY DEF Before
    <3>4. x \in Extent(t)' <=> x[1] = mOffset.pass /\ x[2] \in mOffset.tile .. g.to - 1
      BY <2>6, <3>1
    <3> QED
      BY <3>1, <3>2, <3>3, <3>4
  <2>8. ASSUME NEW x \in Extent(t)' PROVE ~ Before(x, mOffset) /\ x \in Samples(mFs) /\ x \in Nat \X Tiles
                                          /\ x[2] \in Nat /\ x[2] >= mOffset.tile
    <3>1. PICK i \in mOffset.tile .. g.to - 1 : x = <<mOffset.pass, i>>
      BY <2>6
    <3>2. i \in Tiles /\ i \in Nat
      BY <2>5 DEF Tiles
    <3> QED
      BY <2>5, <3>1, <3>2 DEF Before, Samples
  <2>9. Samples(mFs)' = Samples(mFs) /\ (Parallel' <=> Parallel) /\ MinTileTotal' = MinTileTotal
        /\ (GaveUp' <=> GaveUp) /\ at' = at /\ clampPass' = clampPass /\ film' = film
        /\ finishedTilesCount' = finishedTilesCount
    BY <2>1 DEF Samples, Passes, Parallel, MinTileTotal, GaveUp, appVars, callVars, driverVars
  <2>10. Samples(mFs) \subseteq Nat \X Tiles
    BY <2>3 DEF Samples
  <2>11. ASSUME NEW u \in Threads, u # t
         PROVE  /\ worker'[u] = worker[u] /\ group'[u] = group[u] /\ Extent(u)' = Extent(u)
                /\ worker[u] \in Holding => Extent(u) \subseteq Nat \X Tiles
    BY <2>2, <2>11, ExtentIsInside DEF Extent
  <2>12. worker[t] \notin Holding /\ worker'[t] \in Holding /\ worker'[t] # "finishedGroup"
    BY <2>2 DEF Holding
  <2>13. FilmIsExact'
    BY <2>7, <2>9, <2>10 DEF FrameInv, FilmIsExact
  <2>14. GroupsAreOwned'
    <3>1. /\ group'[t].from \in group'[t].to - group'[t].size .. group'[t].to
          /\ group'[t].pass <= clampPass' /\ group'[t].size <= group'[t].to
          /\ group'[t].from = mOffset.tile
      BY <2>2, <2>4, <2>5, <2>9
    <3>2. ASSUME NEW x \in Extent(t)'
          PROVE  Before(x, mOffset)' /\ film'[x] = IF x[2] < group'[t].from THEN 1 ELSE 0
      <4>1. at # "waiting"
        BY <2>2 DEF Taking
      <4> QED
        BY <2>5, <2>7, <2>8, <2>9, <3>1, <4>1 DEF FrameInv, FilmIsExact
    <3>3. ASSUME NEW u \in Threads, u # t, worker'[u] \in Holding
          PROVE  /\ group'[u].from \in group'[u].to - group'[u].size .. group'[u].to
                 /\ group'[u].pass <= clampPass' /\ group'[u].size <= group'[u].to
                 /\ \A x \in Extent(u)' :
                       Before(x, mOffset)' /\ film'[x] = IF x[2] < group'[u].from THEN 1 ELSE 0
                 /\ \A x \in Extent(u)' : x \notin Extent(t)'
      <4>1. worker[u] \in Holding
        BY <2>11, <3>3
      <4>2. \A x \in Extent(u) : Before(x, mOffset) /\ x \in Nat \X Tiles
        BY <2>11, <3>3, <4>1 DEF FrameInv, GroupsAreOwned
      <4> QED
        BY <2>7, <2>8, <2>9, <2>11, <3>3, <4>1, <4>2 DEF FrameInv, GroupsAreOwned
    <3>4. ASSUME NEW u \in Threads, NEW v \in Threads, u # v, worker'[u] \in Holding, worker'[v] \in Holding
          PROVE  \A x \in Extent(u)' : x \notin Extent(v)'
      <4>1. CASE u = t \/ v = t
        BY <3>3, <3>4, <4>1
      <4>2. CASE u # t /\ v # t
        BY <2>11, <3>4, <4>2 DEF FrameInv, GroupsAreOwned
      <4> QED
        BY <4>1, <4>2
    <3> QED
      BY <3>1, <3>2, <3>3, <3>4 DEF GroupsAreOwned
  <2>15. NothingIsMissed'
    <3>1. ASSUME at \notin {"waiting", "over"}, NEW x \in Samples(mFs), Before(x, mOffset)', film[x] = 0
          PROVE  \/ \E u \in Threads : worker'[u] = "rendering" /\ x \in Extent(u)'
                 \/ at \in LaterTaking /\ GaveUp
      <4>1. CASE x \in Extent(t)'
        BY <2>2, <4>1
      <4>2. CASE Before(x, mOffset)
        <5>1. \/ \E u \in Threads : worker[u] = "rendering" /\ x \in Extent(u)
              \/ at \in LaterTaking /\ GaveUp
          BY <3>1, <4>2 DEF FrameInv, NothingIsMissed
        <5> QED
          BY <5>1, <2>2, <2>11
      <4> QED
        BY <2>7, <2>10, <3>1, <4>1, <4>2
    <3> QED
      BY <2>9, <3>1 DEF NothingIsMissed
  <2>16. CountedIsTaken'
    <3> DEFINE counted == {x \in Samples(mFs) : Before(x, mOffset)
               /\ \A u \in Threads : worker[u] \in Holding => x \notin Extent(u)}
    <3>1. ASSUME NEW x \in Samples(mFs)
          PROVE  (Before(x, mOffset)' /\ \A u \in Threads : worker'[u] \in Holding => x \notin Extent(u)')
                 <=> (Before(x, mOffset) /\ \A u \in Threads : worker[u] \in Holding => x \notin Extent(u))
      <4>1. Before(x, mOffset) => x \notin Extent(t)'
        BY <2>8
      <4>2. Before(x, mOffset)' <=> Before(x, mOffset) \/ x \in Extent(t)'
        BY <2>7, <2>10
      <4> QED
        BY <2>11, <2>12, <4>1, <4>2
    <3>2. counted' = counted
      BY <2>9, <3>1
    <3>3. at = "firstPassTaken" /\ Parallel =>
            /\ \A u \in Threads : worker[u] = "finishedGroup" => group[u].from = group[u].to
            /\ finishedTilesCount <= Cardinality(counted)
      BY DEF FrameInv, CountedIsTaken
    <3> HIDE DEF counted
    <3>4. /\ at' = "firstPassTaken" /\ Parallel' => finishedTilesCount' <= Cardinality(counted')
          /\ at' = "firstPassTaken" /\ Parallel' =>
               \A u \in Threads : worker'[u] = "finishedGroup" => group'[u].from = group'[u].to
      BY <2>9, <2>11, <2>12, <3>2, <3>3
    <3> QED
      BY <3>4 DEF CountedIsTaken, counted
  <2>17. WorkIsLeft'
    <3>1. \A u \in Threads : worker'[u] = "taking" => seenIdx'[u] <= mGlobalGroupIdx'
      BY <2>1, SeenKept
    <3> QED
      BY <2>1, <3>1, WorkKept DEF driverVars, callVars
  <2>18. CancellationIsKept'
    <3>1. mCurrentPassIdx'[t] = mOffset.pass /\ \A u \in Threads : u # t => mCurrentPassIdx'[u] = mCurrentPassIdx[u]
      BY <2>1 DEF QueueInv, TypeOK
    <3>2. at = "firstPassTaken" => mOffset.pass = 0
      BY <2>5 DEF QueueInv, CoarseIsKnown, BeforeShown
    <3>3. UNCHANGED <<mCancellationState, gCancelFlag>>
      BY <2>1 DEF flags
    <3> QED
      BY <2>2, <2>9, <3>1, <3>2, <3>3 DEF FrameInv, CancellationIsKept
  <2>19. FlagsAreTrue'
    BY <2>1, FlagsKept DEF FrameInv, flags, driverVars, appVars
  <2> QED
    BY <2>13, <2>14, <2>15, <2>16, <2>17, <2>18, <2>19 DEF FrameInv
<1>2. CASE mOffset # seenOffset[t]
  BY <1>2, QuietStep DEF ReserveNextTileGroup, queueVars, appVars, flags, driverVars
<1> QED
  BY <1>1, <1>2

\* A thread that holds its group keeps what is counted, and what is still to do.
LEMMA HolderKeeps ==
    ASSUME QueueInv, FrameInv, NEW t \in Threads, NEW to \in Holding, Move(t, "rendering", to),
           mCancellationState' = [mCancellationState EXCEPT ![t] = CancelCheck(t)],
           UNCHANGED <<queueVars, appVars, flags, driverVars, callVars, seenIdx, mCurrentPassIdx>>
    PROVE  WorkIsLeft' /\ CancellationIsKept' /\ FlagsAreTrue' /\ (GaveUp => GaveUp')
<1>1. /\ worker[t] = "rendering" /\ worker'[t] = to
      /\ \A u \in Threads : u # t => worker'[u] = worker[u]
  BY DEF Move, QueueInv, TypeOK
<1>2. /\ mCancellationState'[t] = CancelCheck(t)
      /\ \A u \in Threads : u # t => mCancellationState'[u] = mCancellationState[u]
  BY DEF QueueInv, TypeOK
<1>3. /\ GaveUp => GaveUp'
      /\ GaveUp' => GaveUp \/ gCancelFlag
      /\ at = "firstPassTaken" => mCancellationState'[t] = mCancellationState[t]
  BY <1>2, ChecksAre DEF GaveUp, callVars
<1>4. WorkIsLeft'
  BY SeenKept, WorkKept DEF queueVars, driverVars, callVars, Holding
<1>5. CancellationIsKept'
  <2>1. (Parallel' <=> Parallel) /\ MinTileTotal' = MinTileTotal
    BY DEF Parallel, MinTileTotal, appVars
  <2>2. UNCHANGED <<at, gCancelFlag, finishedTilesCount, mCurrentPassIdx>>
    BY DEF driverVars, flags, callVars
  <2> QED
    BY <1>1, <1>2, <1>3, <2>1, <2>2 DEF FrameInv, CancellationIsKept, Holding
<1>6. FlagsAreTrue'
  BY FlagsKept DEF FrameInv, flags, driverVars, appVars
<1> QED
  BY <1>3, <1>4, <1>5, <1>6

\* A tile of the thread's own group is rendered, once.
LEMMA RenderTileKeeps ==
    ASSUME QueueInv, FrameInv, NEW t \in Threads, RenderTile(t)
    PROVE  /\ FrameInv'
           /\ \/ UNCHANGED film
              \/ \E x \in Samples(mFs) : film[x] = 0 /\ film' = [film EXCEPT ![x] = 1]
<1>1. PICK to \in Holding : Move(t, "rendering", to)
  BY DEF RenderTile, Holding
<1>2. /\ mCancellationState' = [mCancellationState EXCEPT ![t] = CancelCheck(t)]
      /\ UNCHANGED <<queueVars, appVars, flags, driverVars, callVars, seenIdx, seenOffset, mCurrentPassIdx>>
  BY DEF RenderTile
<1>3. WorkIsLeft' /\ CancellationIsKept' /\ FlagsAreTrue' /\ (GaveUp => GaveUp')
  BY <1>1, <1>2, HolderKeeps
<1>4. /\ worker[t] = "rendering" /\ worker'[t] = to
      /\ \A u \in Threads : u # t => worker'[u] = worker[u]
      /\ mCancellationState'[t] = CancelCheck(t)
  BY <1>1, <1>2 DEF Move, QueueInv, TypeOK
<1>5. worker[t] \in Holding /\ worker'[t] \in Holding
      /\ \A u \in Threads : worker'[u] \in Holding <=> worker[u] \in Holding
  BY <1>4 DEF Holding
<1>6. /\ Extent(t) \subseteq Samples(mFs) /\ Extent(t) \subseteq Nat \X Tiles
      /\ at \in Taking
  BY <1>5, ExtentIsInside
<1>7. Samples(mFs)' = Samples(mFs) /\ (Parallel' <=> Parallel) /\ at' = at /\ clampPass' = clampPass
      /\ finishedTilesCount' = finishedTilesCount /\ (\A x : Before(x, mOffset)' <=> Before(x, mOffset))
  BY <1>2 DEF Samples, Passes, Parallel, appVars, driverVars, callVars, queueVars, Before
<1>8. at # "waiting" /\ at # "over"
  BY <1>6 DEF Taking
<1>9. CASE CancelCheck(t) = "CANCELED"
  <2>1. UNCHANGED <<group, film>>
    BY <1>9 DEF RenderTile
  <2>2. at \in LaterTaking /\ GaveUp'
    <3>1. at # "firstPassTaken"
      BY <1>9, ChecksAre DEF FrameInv, CancellationIsKept
    <3> QED
      BY <3>1, <1>4, <1>6, <1>9 DEF Taking, LaterTaking, GaveUp
  <2>3. \A u \in Threads : Extent(u)' = Extent(u)
    BY <2>1 DEF Extent
  <2>4. FilmIsExact'
    BY <2>1, <1>7 DEF FrameInv, FilmIsExact
  <2>5. GroupsAreOwned'
    BY <2>1, <2>3, <1>5, <1>7 DEF FrameInv, GroupsAreOwned
  <2>6. NothingIsMissed'
    BY <2>2, <1>7 DEF NothingIsMissed
  <2>7. CountedIsTaken'
    BY <2>2, <1>7 DEF CountedIsTaken, LaterTaking
  <2> QED
    BY <2>1, <2>4, <2>5, <2>6, <2>7, <1>3 DEF FrameInv
<1>10. CASE CancelCheck(t) # "CANCELED"
  <2> DEFINE X == <<group[t].pass, group[t].from>>
  <2>1. /\ film' = [film EXCEPT ![X] = @ + 1]
        /\ group' = [group EXCEPT ![t].from = @ + 1]
        /\ to = IF group[t].from + 1 = group[t].to THEN "finishedGroup" ELSE "rendering"
    BY <1>10, <1>4 DEF RenderTile, Move, QueueInv, TypeOK
  <2>2. group \in [Threads -> [pass : Nat, from : Nat, to : 0 .. NumTiles, size : Nat]]
    BY DEF QueueInv, GroupsAreSane
  <2>3. /\ group[t].pass \in Nat /\ group[t].from \in Nat /\ group[t].to \in Nat /\ group[t].size \in Nat
        /\ group[t].from < group[t].to
        /\ group[t].from \in group[t].to - group[t].size .. group[t].to
    <3>1. group[t].to \in 0 .. NumTiles /\ NumTiles \in Nat
      BY <2>2, QueueAssumption
    <3> QED
      BY <1>4, <1>5, <2>2, <3>1 DEF QueueInv, GroupsAreSane, FrameInv, GroupsAreOwned
  <2>4. /\ group'[t].pass = group[t].pass /\ group'[t].to = group[t].to /\ group'[t].size = group[t].size
        /\ group'[t].from = group[t].from + 1
        /\ \A u \in Threads : u # t => group'[u] = group[u]
    BY <2>1, <2>2
  <2>5. \A u \in Threads : Extent(u)' = Extent(u)
    BY <2>4 DEF Extent
  <2>6. X \in Extent(t) /\ X \in Samples(mFs) /\ X[1] = group[t].pass /\ X[2] = group[t].from
    BY <2>3, <1>6 DEF Extent
  <2>7. film \in [Samples(mFs) -> {0, 1}]
    BY <1>8 DEF FrameInv, FilmIsExact
  <2>8. Before(X, mOffset) /\ film[X] = 0
    BY <1>5, <2>3, <2>6 DEF FrameInv, GroupsAreOwned
  <2>9. ASSUME NEW x \in Extent(t), x # X PROVE x[1] = group[t].pass /\ x[2] \in Nat /\ x[2] # group[t].from
                                             /\ x[2] < group[t].to
    <3>1. PICK i \in group[t].to - group[t].size .. group[t].to - 1 : x = <<group[t].pass, i>>
      BY DEF Extent
    <3>2. x[2] \in Nat
      BY <1>6 DEF Tiles
    <3> QED
      BY <2>3, <2>9, <3>1, <3>2
  <2> HIDE DEF X
  <2>10. film' = [film EXCEPT ![X] = 1]
    BY <2>1, <2>6, <2>7, <2>8
  <2>11. film'[X] = 1 /\ \A x \in Samples(mFs) : x # X => film'[x] = film[x]
    BY <2>6, <2>7, <2>10
  <2>12. FilmIsExact'
    <3>1. film' \in [Samples(mFs) -> {0, 1}]
      BY <2>7, <2>10
    <3> QED
      BY <1>7, <1>8, <2>8, <2>11, <3>1 DEF FrameInv, FilmIsExact
  <2>13. GroupsAreOwned'
    <3>1. /\ group'[t].from \in group'[t].to - group'[t].size .. group'[t].to
          /\ group'[t].pass <= clampPass' /\ group'[t].size <= group'[t].to
      BY <1>5, <1>7, <2>3, <2>4 DEF FrameInv, GroupsAreOwned
    <3>2. ASSUME NEW x \in Extent(t)
          PROVE  Before(x, mOffset)' /\ film'[x] = IF x[2] < group'[t].from THEN 1 ELSE 0
      <4>1. Before(x, mOffset) /\ film[x] = IF x[2] < group[t].from THEN 1 ELSE 0
        BY <1>5 DEF FrameInv, GroupsAreOwned
      <4>2. CASE x = X
        BY <2>3, <2>4, <2>6, <2>11, <4>1, <4>2, <1>7
      <4>3. CASE x # X
        BY <2>3, <2>4, <2>9, <2>11, <4>1, <4>3, <1>6, <1>7
      <4> QED
        BY <4>2, <4>3
    <3>3. ASSUME NEW u \in Threads, u # t, worker[u] \in Holding
          PROVE  /\ group[u].from \in group[u].to - group[u].size .. group[u].to
                 /\ group[u].pass <= clampPass /\ group[u].size <= group[u].to
                 /\ \A x \in Extent(u) :
                       Before(x, mOffset) /\ film'[x] = IF x[2] < group[u].from THEN 1 ELSE 0
      <4>1. /\ group[u].from \in group[u].to - group[u].size .. group[u].to
            /\ group[u].pass <= clampPass /\ group[u].size <= group[u].to
            /\ \A x \in Extent(u) :
                  Before(x, mOffset) /\ film[x] = IF x[2] < group[u].from THEN 1 ELSE 0
            /\ X \notin Extent(u)
        BY <1>5, <2>6, <3>3 DEF FrameInv, GroupsAreOwned
      <4>2. Extent(u) \subseteq Samples(mFs)
        BY <3>3, ExtentIsInside
      <4>3. \A x \in Extent(u) : film'[x] = film[x]
        BY <2>11, <4>1, <4>2
      <4> QED
        BY <4>1, <4>3
    <3>4. \A u, v \in Threads :
            worker'[u] \in Holding /\ worker'[v] \in Holding /\ u # v =>
              \A x \in Extent(u)' : x \notin Extent(v)'
      BY <1>5, <2>5 DEF FrameInv, GroupsAreOwned
    <3>5. ASSUME NEW u \in Threads, worker'[u] \in Holding
          PROVE  /\ group'[u].from \in group'[u].to - group'[u].size .. group'[u].to
                 /\ group'[u].pass <= clampPass' /\ group'[u].size <= group'[u].to
                 /\ \A x \in Extent(u)' :
                       Before(x, mOffset)' /\ film'[x] = IF x[2] < group'[u].from THEN 1 ELSE 0
      <4>1. CASE u = t
        BY <2>5, <3>1, <3>2, <4>1
      <4>2. CASE u # t
        BY <1>5, <1>7, <2>4, <2>5, <3>3, <3>5, <4>2
      <4> QED
        BY <4>1, <4>2
    <3> QED
      BY <3>4, <3>5 DEF GroupsAreOwned
  <2>14. NothingIsMissed'
    <3>1. ASSUME NEW x \in Samples(mFs), Before(x, mOffset), film'[x] = 0
          PROVE  \/ \E u \in Threads : worker'[u] = "rendering" /\ x \in Extent(u)
                 \/ at \in LaterTaking /\ GaveUp'
      <4>1. x # X /\ film[x] = 0
        BY <2>11, <3>1
      <4>2. \/ \E u \in Threads : worker[u] = "rendering" /\ x \in Extent(u)
            \/ at \in LaterTaking /\ GaveUp
        BY <1>8, <3>1, <4>1 DEF FrameInv, NothingIsMissed
      <4>3. ASSUME x \in Extent(t) PROVE worker'[t] = "rendering"
        <5>1. film[x] = IF x[2] < group[t].from THEN 1 ELSE 0
          BY <1>5, <4>3 DEF FrameInv, GroupsAreOwned
        <5>2. x[2] \in Nat /\ x[2] # group[t].from /\ x[2] < group[t].to
          BY <2>9, <4>1, <4>3
        <5>3. group[t].from + 1 # group[t].to
          BY <2>3, <4>1, <5>1, <5>2
        <5> QED
          BY <1>4, <2>1, <5>3
      <4> QED
        BY <1>3, <1>4, <4>2, <4>3
    <3> QED
      BY <1>7, <2>5, <3>1 DEF NothingIsMissed
  <2>15. CountedIsTaken'
    <3> DEFINE counted == {x \in Samples(mFs) : Before(x, mOffset)
               /\ \A u \in Threads : worker[u] \in Holding => x \notin Extent(u)}
    <3>1. counted' = counted
      BY <1>5, <1>7, <2>5
    <3>2. at = "firstPassTaken" /\ Parallel =>
            /\ \A u \in Threads : worker[u] = "finishedGroup" => group[u].from = group[u].to
            /\ finishedTilesCount <= Cardinality(counted)
      BY DEF FrameInv, CountedIsTaken
    <3> HIDE DEF counted
    <3>3. worker'[t] = "finishedGroup" => group'[t].from = group'[t].to
      BY <1>4, <2>1, <2>4
    <3>4. /\ at' = "firstPassTaken" /\ Parallel' => finishedTilesCount' <= Cardinality(counted')
          /\ at' = "firstPassTaken" /\ Parallel' =>
               \A u \in Threads : worker'[u] = "finishedGroup" => group'[u].from = group'[u].to
      BY <1>4, <1>7, <2>4, <3>1, <3>2, <3>3
    <3> QED
      BY <3>4 DEF CountedIsTaken, counted
  <2>16. \E x \in Samples(mFs) : film[x] = 0 /\ film' = [film EXCEPT ![x] = 1]
    BY <2>6, <2>8, <2>10
  <2> QED
    BY <2>12, <2>13, <2>14, <2>15, <2>16, <1>3 DEF FrameInv
<1> QED
  BY <1>9, <1>10

\* A group has as many samples as it has tiles.
LEMMA ExtentSize ==
    ASSUME QueueInv, FrameInv, NEW u \in Threads, worker[u] \in Holding
    PROVE  IsFiniteSet(Extent(u)) /\ Cardinality(Extent(u)) = group[u].size
<1> DEFINE p == group[u].pass
           k == group[u].size
           m == group[u].to
<1>1. k \in Nat /\ m \in Nat /\ k <= m
  <2>1. group[u] \in [pass : Nat, from : Nat, to : 0 .. NumTiles, size : Nat]
    BY DEF QueueInv, GroupsAreSane
  <2> QED
    BY <2>1, QueueAssumption DEF FrameInv, GroupsAreOwned
<1>2. Extent(u) = {p} \X (m - k .. m - 1)
  BY DEF Extent
<1> HIDE DEF p, k, m
<1>3. IsFiniteSet({p}) /\ Cardinality({p}) = 1
  BY FS_Singleton
<1>4. IsFiniteSet(m - k .. m - 1) /\ Cardinality(m - k .. m - 1) = k
  <2>1. m - k \in Int /\ m - 1 \in Int
    BY <1>1
  <2>2. /\ IsFiniteSet(m - k .. m - 1)
        /\ Cardinality(m - k .. m - 1) = IF m - k > m - 1 THEN 0 ELSE (m - 1) - (m - k) + 1
    BY <2>1, FS_Interval
  <2> QED
    BY <1>1, <2>2
<1>5. /\ IsFiniteSet({p} \X (m - k .. m - 1))
      /\ Cardinality({p} \X (m - k .. m - 1)) = 1 * k
  BY <1>3, <1>4, FS_Product
<1> QED
  BY <1>1, <1>2, <1>5 DEF k

\* The samples of a frame are finite in number.
LEMMA SamplesAreFinite ==
    ASSUME QueueInv, at # "waiting"
    PROVE  /\ IsFiniteSet(Samples(mFs))
           /\ Samples(mFs) = (0 .. NumPasses(mFs) - 1) \X Tiles
           /\ NumPasses(mFs) \in Nat \ {0}
<1>1. Passes(mFs) = 0 .. NumPasses(mFs) - 1 /\ NumPasses(mFs) \in Nat \ {0}
  BY InfosAreGood DEF QueueInv, TypeOK, ThreadsAgree
<1>2. IsFiniteSet(0 .. NumPasses(mFs) - 1) /\ IsFiniteSet(Tiles)
  <2>1. 0 \in Int /\ NumPasses(mFs) - 1 \in Int /\ NumTiles - 1 \in Int
    BY <1>1, QueueAssumption
  <2> QED
    BY <2>1, FS_Interval DEF Tiles
<1> QED
  BY <1>1, <1>2, FS_Product DEF Samples

\* The tiles of a finished group are counted when nobody holds them any more;
\* in the first pass they were all rendered.
LEMMA FinishGroupKeeps ==
    ASSUME QueueInv, FrameInv, NEW t \in Threads, FinishGroup(t)
    PROVE  FrameInv'
<1> DEFINE to == IF Parallel THEN "counted" ELSE "betweenGroups"
<1>1. /\ Move(t, "finishedGroup", to)
      /\ finishedTilesCount' = IF Parallel THEN finishedTilesCount + group[t].size ELSE finishedTilesCount
      /\ UNCHANGED <<queueVars, appVars, gCancelFlag, mReadyForDisplay, mFrameComplete,
                   mStopAtFrameReadyForDisplay, mRenderStopAtPassBoundary, driverVars, canceled,
                   numTBBThreads, seenIdx, seenOffset, group, mCancellationState, mCurrentPassIdx, film>>
  BY DEF FinishGroup
<1>2. to \in {"counted", "betweenGroups"} /\ (to = "counted" => Parallel)
  OBVIOUS
<1> HIDE DEF to
<1>3. /\ worker[t] = "finishedGroup" /\ worker'[t] = to
      /\ \A u \in Threads : u # t => worker'[u] = worker[u]
  BY <1>1 DEF Move, QueueInv, TypeOK
<1>4. worker[t] \in Holding /\ worker'[t] \notin Holding
      /\ \A u \in Threads : worker'[u] \in Holding <=> worker[u] \in Holding /\ u # t
  BY <1>2, <1>3 DEF Holding
<1>5. Samples(mFs)' = Samples(mFs) /\ (Parallel' <=> Parallel) /\ MinTileTotal' = MinTileTotal
      /\ (GaveUp' <=> GaveUp) /\ at' = at /\ clampPass' = clampPass /\ film' = film /\ group' = group
      /\ (\A x : Before(x, mOffset)' <=> Before(x, mOffset))
      /\ \A u \in Threads : Extent(u)' = Extent(u)
  BY <1>1 DEF Samples, Passes, Parallel, MinTileTotal, GaveUp, appVars, driverVars, queueVars, Before, Extent
<1>6. FilmIsExact'
  BY <1>5 DEF FrameInv, FilmIsExact
<1>7. GroupsAreOwned'
  BY <1>3, <1>4, <1>5 DEF FrameInv, GroupsAreOwned
<1>8. NothingIsMissed'
  BY <1>2, <1>3, <1>5 DEF FrameInv, NothingIsMissed
<1>9. WorkIsLeft'
  <2>1. \A u \in Threads : worker'[u] = "taking" => seenIdx'[u] <= mGlobalGroupIdx'
    BY <1>1, <1>2, SeenKept DEF queueVars
  <2> QED
    BY <1>1, <1>2, <2>1, WorkKept DEF driverVars
<1>10. finishedTilesCount \in Nat /\ group[t].size \in Nat /\ finishedTilesCount' \in Nat
       /\ finishedTilesCount' >= finishedTilesCount
  <2>1. finishedTilesCount \in Nat /\ group[t].size \in Nat
    BY DEF QueueInv, TypeOK, GroupsAreSane
  <2> QED
    BY <1>1, <2>1
<1>11. CountedIsTaken'
  <2> DEFINE counted == {x \in Samples(mFs) : Before(x, mOffset)
               /\ \A u \in Threads : worker[u] \in Holding => x \notin Extent(u)}
  <2>1. SUFFICES ASSUME at = "firstPassTaken", Parallel
                 PROVE  /\ \A u \in Threads : worker'[u] = "finishedGroup" => group[u].from = group[u].to
                        /\ finishedTilesCount' <= Cardinality(counted')
    BY <1>5 DEF CountedIsTaken
  <2>2. /\ \A u \in Threads : worker[u] = "finishedGroup" => group[u].from = group[u].to
        /\ finishedTilesCount <= Cardinality(counted)
    BY <2>1 DEF FrameInv, CountedIsTaken
  <2>3. counted' = counted \cup Extent(t)
    <3>1. \A x \in Extent(t) : x \in Samples(mFs) /\ Before(x, mOffset)
                               /\ \A u \in Threads : worker[u] \in Holding /\ u # t => x \notin Extent(u)
      BY <1>4, ExtentIsInside DEF FrameInv, GroupsAreOwned
    <3>2. \A x \in Samples(mFs) :
            (\A u \in Threads : worker'[u] \in Holding => x \notin Extent(u))
            <=> (\A u \in Threads : worker[u] \in Holding /\ u # t => x \notin Extent(u))
      BY <1>4
    <3>3. counted' = {x \in Samples(mFs) : Before(x, mOffset)
               /\ \A u \in Threads : worker'[u] \in Holding => x \notin Extent(u)}
      BY <1>5
    <3> QED
      BY <1>4, <3>1, <3>2, <3>3
  <2>4. counted \cap Extent(t) = {} /\ IsFiniteSet(counted)
    <3>1. at # "waiting"
      BY <2>1
    <3> QED
      BY <1>4, <3>1, SamplesAreFinite, FS_Subset
  <2>5. IsFiniteSet(Extent(t)) /\ Cardinality(Extent(t)) = group[t].size
    BY <1>4, ExtentSize
  <2> HIDE DEF counted
  <2>6. /\ Cardinality(counted \cup Extent(t)) =
             Cardinality(counted) + Cardinality(Extent(t)) - Cardinality(counted \cap Extent(t))
        /\ Cardinality({}) = 0 /\ Cardinality(counted) \in Nat
    BY <2>4, <2>5, FS_Union, FS_EmptySet, FS_CardinalityType
  <2>7. Cardinality(counted') = Cardinality(counted) + group[t].size
    <3>1. Cardinality(counted \cap Extent(t)) = 0
      BY <2>4, <2>6
    <3>2. Cardinality(counted') = Cardinality(counted \cup Extent(t))
      BY <2>3
    <3> QED
      BY ONLY <1>10, <2>5, <2>6, <3>1, <3>2
  <2>8. finishedTilesCount' <= Cardinality(counted')
    BY <1>1, <1>10, <2>1, <2>2, <2>6, <2>7
  <2>9. \A u \in Threads : worker'[u] = "finishedGroup" => group[u].from = group[u].to
    BY <1>2, <1>3, <2>2
  <2> QED
    BY <2>8, <2>9 DEF counted
<1>12. CancellationIsKept'
  <2>1. MinTileTotal \in Int
    <3>1. mFs.nodes \in Nat \ {0}
      BY RenderAssumption DEF QueueInv, TypeOK
    <3> QED
      BY <3>1, ShareIsPositive
  <2>2. UNCHANGED <<gCancelFlag, mCancellationState, mCurrentPassIdx>>
    BY <1>1
  <2> QED
    BY <1>2, <1>3, <1>5, <1>10, <2>1, <2>2 DEF FrameInv, CancellationIsKept
<1>13. FlagsAreTrue'
  BY <1>1, FlagsKept DEF FrameInv, driverVars, appVars
<1> QED
  BY <1>6, <1>7, <1>8, <1>9, <1>11, <1>12, <1>13 DEF FrameInv

\* Only in the first pass is the share of the machine shown: later the frame is
\* ready for display already, or is a BATCH frame, which is not shared.
LEMMA CountKeeps ==
    ASSUME BatchOnOneMachine, QueueInv, FrameInv, NEW t \in Threads, Count(t)
    PROVE  FrameInv'
<1> DEFINE to == IF finishedTilesCount >= MinTileTotal /\ ~mReadyForDisplay THEN "showing" ELSE "betweenGroups"
<1>1. /\ Move(t, "counted", to)
      /\ UNCHANGED <<queueVars, appVars, gCancelFlag, mReadyForDisplay, mFrameComplete,
                   mStopAtFrameReadyForDisplay, mRenderStopAtPassBoundary, driverVars, canceled,
                   numTBBThreads, finishedTilesCount, seenIdx, seenOffset, group,
                   mCancellationState, mCurrentPassIdx, film>>
  BY DEF Count
<1>2. /\ to \in {"showing", "betweenGroups"}
      /\ to = "showing" => finishedTilesCount >= MinTileTotal /\ ~mReadyForDisplay
  OBVIOUS
<1> HIDE DEF to
<1>3. /\ worker[t] = "counted" /\ worker'[t] = to
      /\ \A u \in Threads : u # t => worker'[u] = worker[u]
      /\ at \in Taking
  BY <1>1 DEF Move, QueueInv, TypeOK, ThreadsAgree
<1>4. GaveUp' <=> GaveUp
  BY <1>1 DEF GaveUp
<1>5. FilmIsExact' /\ GroupsAreOwned' /\ NothingIsMissed' /\ CountedIsTaken'
  BY <1>1, <1>2, <1>3, <1>4, IdleMove DEF Holding, queueVars, appVars, driverVars
<1>6. WorkIsLeft'
  <2>1. \A u \in Threads : worker'[u] = "taking" => seenIdx'[u] <= mGlobalGroupIdx'
    BY <1>1, <1>2, SeenKept DEF queueVars
  <2> QED
    BY <1>1, <1>2, <2>1, WorkKept DEF driverVars
<1>7. CancellationIsKept'
  <2>1. (Parallel' <=> Parallel) /\ MinTileTotal' = MinTileTotal
    BY <1>1 DEF Parallel, MinTileTotal, appVars
  <2>2. UNCHANGED <<at, gCancelFlag, finishedTilesCount, mCurrentPassIdx, mCancellationState>>
    BY <1>1 DEF driverVars
  <2>3. Parallel
    BY <1>3 DEF FrameInv, CancellationIsKept
  <2>4. to = "showing" => at = "firstPassTaken"
    <3>1. mFs.mode # "BATCH"
      <4>1. mFs \in Settings /\ mFs.nodes \in Nat
        BY RenderAssumption DEF QueueInv, TypeOK
      <4> QED
        BY <2>3, <4>1 DEF BatchOnOneMachine, Parallel
    <3> QED
      BY <1>2, <1>3, <3>1 DEF FrameInv, FlagsAreTrue, Taking
  <2> QED
    BY <1>2, <1>3, <1>4, <2>1, <2>2, <2>3, <2>4 DEF FrameInv, CancellationIsKept
<1>8. FlagsAreTrue'
  BY <1>1, FlagsKept DEF FrameInv, driverVars, appVars
<1> QED
  BY <1>5, <1>6, <1>7, <1>8 DEF FrameInv

\* Who shows the share was not canceled.
LEMMA ShowShareKeeps ==
    ASSUME QueueInv, FrameInv, NEW t \in Threads, ShowShare(t)
    PROVE  FrameInv'
<1>1. /\ Move(t, "showing", "betweenGroups") /\ mReadyForDisplay' = TRUE
      /\ mCancellationState' = [mCancellationState EXCEPT ![t] = "WAITING_FOR_SAMPLE_PER_PIXEL"]
      /\ mCurrentPassIdx' = [mCurrentPassIdx EXCEPT ![t] = 0]
      /\ UNCHANGED <<queueVars, appVars, gCancelFlag, mFrameComplete, mStopAtFrameReadyForDisplay,
                   mRenderStopAtPassBoundary, driverVars, canceled, numTBBThreads,
                   finishedTilesCount, seenIdx, seenOffset, group, film>>
  BY DEF ShowShare, SetCancellation
<1>2. /\ worker[t] = "showing" /\ worker'[t] = "betweenGroups"
      /\ \A u \in Threads : u # t => worker'[u] = worker[u]
  BY <1>1 DEF Move, QueueInv, TypeOK
<1>3. /\ mCurrentPassIdx'[t] = 0 /\ mCancellationState'[t] = "WAITING_FOR_SAMPLE_PER_PIXEL"
      /\ \A u \in Threads : u # t => /\ mCancellationState'[u] = mCancellationState[u]
                                     /\ mCurrentPassIdx'[u] = mCurrentPassIdx[u]
  BY <1>1 DEF QueueInv, TypeOK
<1>4. at = "firstPassTaken"
  BY <1>2 DEF FrameInv, CancellationIsKept
<1>5. GaveUp' <=> GaveUp
  <2>1. mCancellationState[t] # "CANCELED"
    BY <1>4 DEF FrameInv, CancellationIsKept
  <2> QED
    BY <1>1, <1>3, <2>1 DEF GaveUp
<1>6. FilmIsExact' /\ GroupsAreOwned' /\ NothingIsMissed' /\ CountedIsTaken'
  BY <1>1, <1>2, <1>5, IdleMove DEF Holding, queueVars, appVars, driverVars
<1>7. WorkIsLeft'
  <2>1. \A u \in Threads : worker'[u] = "taking" => seenIdx'[u] <= mGlobalGroupIdx'
    BY <1>1, SeenKept DEF queueVars
  <2> QED
    BY <1>1, <2>1, WorkKept DEF driverVars
<1>8. CancellationIsKept'
  <2>1. (Parallel' <=> Parallel) /\ MinTileTotal' = MinTileTotal
    BY <1>1 DEF Parallel, MinTileTotal, appVars
  <2>2. UNCHANGED <<at, gCancelFlag, finishedTilesCount>>
    BY <1>1 DEF driverVars
  <2> QED
    BY <1>2, <1>3, <1>5, <2>1, <2>2 DEF FrameInv, CancellationIsKept
<1>9. FlagsAreTrue'
  BY <1>1, FlagsKept DEF FrameInv, driverVars, appVars
<1> QED
  BY <1>6, <1>7, <1>8, <1>9 DEF FrameInv

\* A thread that was canceled tells renderPasses so before it returns.
LEMMA LeaveKeeps ==
    ASSUME QueueInv, FrameInv, NEW t \in Threads, Leave(t)
    PROVE  FrameInv'
<1>1. /\ Move(t, "leaving", "off")
      /\ canceled' = (canceled \/ CancelCheck(t) = "CANCELED")
      /\ mCancellationState' = [mCancellationState EXCEPT ![t] = "DISABLED"]
      /\ mCurrentPassIdx' = [mCurrentPassIdx EXCEPT ![t] = 0]
      /\ group' = [group EXCEPT ![t] = NoGroup]
      /\ seenIdx' = [seenIdx EXCEPT ![t] = 0]
      /\ UNCHANGED <<queueVars, appVars, flags, driverVars, numTBBThreads, finishedTilesCount,
                   mPrimaryRaysSubmitted, film>>
  BY DEF Leave, SetCancellation, Return
<1>2. /\ worker[t] = "leaving" /\ worker'[t] = "off"
      /\ \A u \in Threads : u # t => worker'[u] = worker[u] /\ group'[u] = group[u] /\ seenIdx'[u] = seenIdx[u]
      /\ at \in Taking
  BY <1>1 DEF Move, QueueInv, TypeOK, ThreadsAgree, GroupsAreSane
<1>3. /\ mCurrentPassIdx'[t] = 0 /\ mCancellationState'[t] = "DISABLED"
      /\ \A u \in Threads : u # t => /\ mCancellationState'[u] = mCancellationState[u]
                                     /\ mCurrentPassIdx'[u] = mCurrentPassIdx[u]
  BY <1>1 DEF QueueInv, TypeOK
<1>4. (GaveUp => GaveUp') /\ (GaveUp' => GaveUp \/ gCancelFlag)
  <2>1. mCancellationState[t] = "CANCELED" => canceled'
    BY <1>1, ChecksAre
  <2>2. canceled' => canceled \/ gCancelFlag \/ mCancellationState[t] = "CANCELED"
    BY <1>1, ChecksAre
  <2> QED
    BY <1>1, <1>3, <2>1, <2>2 DEF GaveUp
<1>5. FilmIsExact' /\ GroupsAreOwned' /\ NothingIsMissed' /\ CountedIsTaken'
  BY <1>1, <1>2, <1>4, IdleMove DEF Holding, queueVars, appVars, driverVars
<1>6. WorkIsLeft'
  <2>1. In(worker', {"started"}) = In(worker, {"started"})
    BY <1>1, InMoves DEF QueueInv, TypeOK
  <2>2. UNCHANGED <<at, numTBBThreads, mGlobalGroupIdx, mGroupClampIdx>>
    BY <1>1 DEF driverVars, queueVars
  <2>3. \A u \in Threads : worker'[u] = "taking" => seenIdx'[u] <= mGlobalGroupIdx'
    BY <1>2, <2>2 DEF FrameInv, WorkIsLeft
  <2> QED
    BY <1>2, <1>4, <2>1, <2>2, <2>3 DEF FrameInv, WorkIsLeft
<1>7. CancellationIsKept'
  <2>1. (Parallel' <=> Parallel) /\ MinTileTotal' = MinTileTotal
    BY <1>1 DEF Parallel, MinTileTotal, appVars
  <2>2. UNCHANGED <<at, gCancelFlag, finishedTilesCount>>
    BY <1>1 DEF driverVars, flags
  <2> QED
    BY <1>2, <1>3, <1>4, <2>1, <2>2 DEF FrameInv, CancellationIsKept
<1>8. FlagsAreTrue'
  BY <1>1, FlagsKept DEF FrameInv, flags, driverVars, appVars
<1> QED
  BY <1>5, <1>6, <1>7, <1>8 DEF FrameInv

-----------------------------------------------------------------------------
(* The other steps keep the film's invariant.                              *)

\* While no frame is rendered there is nothing to keep.
LEMMA NoFrame ==
    ASSUME at' = "waiting",
           \A t \in Threads : /\ worker'[t] = "off"
                              /\ mCancellationState'[t] = "DISABLED" /\ mCurrentPassIdx'[t] = 0
    PROVE  FrameInv'
BY DEF FrameInv, FilmIsExact, GroupsAreOwned, NothingIsMissed, WorkIsLeft, CountedIsTaken,
       CancellationIsKept, FlagsAreTrue, Holding, Taking, BeforeShown

\* A thread that is off has no cancellation left of the frame.
LEMMA OffIsDisabled ==
    ASSUME FrameInv, NEW t \in Threads, worker[t] = "off"
    PROVE  mCancellationState[t] = "DISABLED" /\ mCurrentPassIdx[t] = 0
BY DEF FrameInv, CancellationIsKept

\* Requests leave the film alone; so does a frame that is stopped.
LEMMA RequestsKeep ==
    ASSUME QueueInv, FrameInv,
           \/ RequestStop \/ RequestStopAtFrameReadyForDisplay \/ RequestStopRenderAtPassBoundary
           \/ StopFrame \/ Stopped \/ Destroy \/ Die
           \/ UNCHANGED vars
    PROVE  FrameInv'
<1>1. UNCHANGED <<queueVars, mFs, at, clampPass, callVars, workerVars, film>>
  BY DEF RequestStop, RequestStopAtFrameReadyForDisplay, RequestStopRenderAtPassBoundary,
         StopFrame, Stopped, Destroy, Die, vars, appVars, driverVars
<1>2. /\ mReadyForDisplay => mReadyForDisplay'
      /\ mFrameComplete => mFrameComplete'
      /\ gCancelFlag => gCancelFlag'
      /\ mStopAtFrameReadyForDisplay => mStopAtFrameReadyForDisplay'
  BY DEF RequestStop, RequestStopAtFrameReadyForDisplay, RequestStopRenderAtPassBoundary,
         StopFrame, Stopped, Destroy, Die, vars, flags
<1> QED
  BY <1>1, <1>2, QuietStep DEF workerVars

\* A frame is started while none is rendered,
LEMMA StartFrameKeeps ==
    ASSUME QueueInv, FrameInv, NEW s \in Settings, StartFrame(s)
    PROVE  FrameInv'
<1>1. at = "waiting" /\ \A t \in Threads : worker[t] = "off"
  BY DEF StartFrame, QueueInv, ThreadsAgree, Taking
<1>2. UNCHANGED <<at, worker, mCancellationState, mCurrentPassIdx>>
  BY DEF StartFrame, workerVars
<1> QED
  BY <1>1, <1>2, OffIsDisabled, NoFrame

\* and over when no thread runs.
LEMMA EndFrameKeeps ==
    ASSUME QueueInv, FrameInv, EndFrame
    PROVE  FrameInv'
<1>1. at = "over" /\ at' = "waiting" /\ UNCHANGED <<worker, mCancellationState, mCurrentPassIdx>>
  BY DEF EndFrame, workerVars
<1>2. \A t \in Threads : worker[t] = "off"
  BY <1>1 DEF QueueInv, ThreadsAgree, Taking
<1> QED
  BY <1>1, <1>2, OffIsDisabled, NoFrame

\* The film is cleared and the offset at its start.
LEMMA BeginFrameKeeps ==
    ASSUME QueueInv, FrameInv, BeginFrame
    PROVE  FrameInv'
<1>1. /\ at = "waiting" /\ at' \in {"firstPass", "allPasses"}
      /\ film' = [x \in Samples(mFs) |-> 0] /\ mOffset' = Start
      /\ at' = "firstPass" => mFs.mode # "BATCH"
      /\ at' = "allPasses" => mFs.mode = "BATCH" /\ clampPass' = Cardinality(Passes(mFs)) - 1
      /\ UNCHANGED <<appVars, callVars, workerVars>>
      /\ mRenderThreadState = "REQUEST_RENDER"
  BY DEF BeginFrame
<1>2. /\ \A t \in Threads : worker'[t] = "off"
      /\ \A t \in Threads : mCancellationState'[t] = "DISABLED" /\ mCurrentPassIdx'[t] = 0
  <2>1. \A t \in Threads : worker[t] = "off"
    BY <1>1 DEF QueueInv, ThreadsAgree, Taking
  <2> QED
    BY <1>1, <2>1, OffIsDisabled DEF workerVars
<1>3. /\ Samples(mFs)' = Samples(mFs) /\ mFs' = mFs
      /\ \A x \in Samples(mFs) : ~ Before(x, mOffset)'
  <2>1. NumPasses(mFs) \in Nat /\ Passes(mFs) = 0 .. NumPasses(mFs) - 1
    BY <1>1, InfosAreGood DEF QueueInv, TypeOK
  <2> QED
    BY <1>1, <2>1 DEF Samples, Passes, appVars, Before, Start, Tiles
<1>4. FilmIsExact'
  BY <1>1, <1>3 DEF FilmIsExact
<1>5. GroupsAreOwned' /\ NothingIsMissed'
  BY <1>2, <1>3 DEF GroupsAreOwned, NothingIsMissed, Holding
<1>6. WorkIsLeft' /\ CountedIsTaken' /\ CancellationIsKept'
  BY <1>1, <1>2 DEF WorkIsLeft, CountedIsTaken, CancellationIsKept, Taking
<1>7. FlagsAreTrue'
  <2>1. NumPasses(mFs)' = Cardinality(Passes(mFs)) /\ Cardinality(Passes(mFs)) \in Nat
    <3>1. NumPasses(mFs) \in Nat
      BY <1>1, InfosAreGood DEF QueueInv, TypeOK
    <3> QED
      BY <1>3, <3>1 DEF NumPasses, Passes
  <2>2. at' = "allPasses" => clampPass' + 1 = NumPasses(mFs)'
    BY <1>1, <2>1
  <2> QED
    BY <1>1, <1>3, <2>2 DEF FlagsAreTrue, BeforeShown
<1> QED
  BY <1>4, <1>5, <1>6, <1>7 DEF FrameInv

\* A call of renderPasses begins with every thread counted as started.
LEMMA RenderPassesKeeps ==
    ASSUME QueueInv, FrameInv, RenderPasses
    PROVE  FrameInv'
<1>1. /\ \/ at = "firstPass" /\ at' = "firstPassTaken"
         \/ at = "nextPass" /\ at' = "nextPassTaken"
         \/ at = "allPasses" /\ at' = "allPassesTaken"
      /\ worker' = [t \in Threads |-> "started"] /\ canceled' = FALSE
      /\ numTBBThreads' = 0 /\ finishedTilesCount' = 0
      /\ UNCHANGED <<queueVars, appVars, flags, mRenderThreadState, clampPass, mPrimaryRaysSubmitted,
                     seenIdx, seenOffset, group, mCancellationState, mCurrentPassIdx, film>>
  BY DEF RenderPasses, Taken
<1>2. at \notin Taking /\ at # "waiting" /\ at # "over" /\ at \notin LaterTaking
      /\ at' \in Taking /\ at' # "waiting"
  BY <1>1 DEF Taking, LaterTaking
<1>3. /\ \A t \in Threads : worker[t] = "off" /\ worker'[t] = "started"
      /\ \A t \in Threads : mCancellationState'[t] = "DISABLED" /\ mCurrentPassIdx'[t] = 0
      /\ ~ GaveUp'
  <2>1. \A t \in Threads : worker[t] = "off"
    BY <1>2 DEF QueueInv, ThreadsAgree
  <2> QED
    BY <1>1, <2>1, OffIsDisabled DEF GaveUp
<1>4. Samples(mFs)' = Samples(mFs) /\ NumPasses(mFs)' = NumPasses(mFs) /\ mFs' = mFs
      /\ \A x : Before(x, mOffset)' <=> Before(x, mOffset)
  BY <1>1 DEF Samples, Passes, NumPasses, appVars, Before, queueVars
<1>5. FilmIsExact'
  BY <1>1, <1>2, <1>4 DEF FrameInv, FilmIsExact
<1>6. GroupsAreOwned'
  BY <1>3 DEF GroupsAreOwned, Holding
<1>7. NothingIsMissed'
  BY <1>1, <1>2, <1>3, <1>4 DEF FrameInv, NothingIsMissed
<1>8. WorkIsLeft'
  <2>1. In(worker', {"started"}) = Threads
    BY <1>3 DEF In
  <2>2. Cardinality(Threads) \in Nat \ {0}
    BY RenderAssumption, FS_CardinalityType, FS_EmptySet
  <2> QED
    BY <1>1, <1>3, <2>1, <2>2 DEF WorkIsLeft
<1>9. CountedIsTaken'
  <2> DEFINE counted == {x \in Samples(mFs) : Before(x, mOffset)
               /\ \A u \in Threads : worker[u] \in Holding => x \notin Extent(u)}
  <2>1. Cardinality(counted') \in Nat
    <3>1. IsFiniteSet(Samples(mFs))
      BY <1>2, SamplesAreFinite
    <3>2. counted' \subseteq Samples(mFs)
      BY <1>4
    <3> QED
      BY <3>1, <3>2, FS_Subset, FS_CardinalityType
  <2> HIDE DEF counted
  <2>2. finishedTilesCount' <= Cardinality(counted')
    BY <1>1, <2>1
  <2> QED
    BY <1>3, <2>2 DEF CountedIsTaken, counted
<1>10. CancellationIsKept'
  BY <1>3 DEF CancellationIsKept
<1>11. FlagsAreTrue'
  BY <1>1, <1>4 DEF FrameInv, FlagsAreTrue, BeforeShown, flags
<1> QED
  BY <1>5, <1>6, <1>7, <1>8, <1>9, <1>10, <1>11 DEF FrameInv

\* Between two calls nothing is missed, unless the frame is given up.
LEMMA OutcomeKeeps ==
    ASSUME QueueInv, FrameInv, Kept, \A t \in Threads : worker[t] = "off",
           UNCHANGED <<mGlobalGroupIdx, mOffset>>,
           at \notin {"waiting", "over"}, at' \notin Taking, at' # "waiting",
           at' # "over" => at = "firstPassTaken" \/ ~canceled \/ at \notin Taking,
           FlagsAreTrue'
    PROVE  FrameInv'
<1>1. UNCHANGED <<mFs, worker, group, mCancellationState, mCurrentPassIdx, film, canceled>>
  BY DEF Kept, appVars, callVars, workerVars
<1>2. /\ Samples(mFs)' = Samples(mFs)
      /\ \A x : Before(x, mOffset)' <=> Before(x, mOffset)
  BY <1>1 DEF Samples, Passes, Before
<1>3. FilmIsExact'
  BY <1>1, <1>2 DEF FrameInv, FilmIsExact
<1>4. GroupsAreOwned'
  BY <1>1 DEF GroupsAreOwned, Holding
<1>5. NothingIsMissed'
  <2>1. at' # "over" => ~ (at \in LaterTaking /\ GaveUp)
    BY OffIsDisabled DEF GaveUp, LaterTaking, Taking
  <2> QED
    BY <1>1, <1>2, <2>1 DEF FrameInv, NothingIsMissed
<1>6. WorkIsLeft' /\ CountedIsTaken'
  BY DEF WorkIsLeft, CountedIsTaken, Taking
<1>7. CancellationIsKept'
  BY <1>1, OffIsDisabled DEF CancellationIsKept, Taking
<1> QED
  BY <1>3, <1>4, <1>5, <1>6, <1>7 DEF FrameInv

\* After a call of renderPasses that was not canceled nothing is missing of
\* the passes until the clamped one.
LEMMA PassIsTaken ==
    ASSUME QueueInv, FrameInv, \A t \in Threads : worker[t] = "off", at \in Taking,
           at = "firstPassTaken" \/ ~canceled
    PROVE  \A x \in Samples(mFs) : x[1] <= clampPass => film[x] = 1
<1>1. ~ (at \in LaterTaking /\ GaveUp)
  BY OffIsDisabled DEF GaveUp, LaterTaking
<1>2. mGlobalGroupIdx = mGroupClampIdx
  <2>1. Cardinality(In(worker, {"started"})) = 0
    <3>1. In(worker, {"started"}) = {}
      BY DEF In
    <3> QED
      BY <3>1, FS_EmptySet
  <2>2. numTBBThreads \in Int
    BY RenderAssumption, FS_CardinalityType DEF QueueInv, TypeOK
  <2>3. numTBBThreads = Cardinality(Threads)
    BY <2>1, <2>2 DEF FrameInv, WorkIsLeft
  <2> QED
    BY <1>1, <2>3 DEF FrameInv, WorkIsLeft
<1>3. mOffset = [pass |-> clampPass + 1, tile |-> 0]
  BY <1>2, ClampFollows DEF ClampHolds, Taking
<1>4. clampPass \in Nat /\ at \notin {"waiting", "over"}
  BY DEF QueueInv, TypeOK, Taking
<1>5. Samples(mFs) \subseteq Nat \X Tiles
  <2>1. NumPasses(mFs) \in Nat /\ Samples(mFs) = (0 .. NumPasses(mFs) - 1) \X Tiles
    BY <1>4, SamplesAreFinite
  <2> QED
    BY <2>1
<1>6. ASSUME NEW x \in Samples(mFs), x[1] <= clampPass PROVE film[x] = 1
  <2>1. Before(x, mOffset)
    BY <1>3, <1>4, <1>5, <1>6 DEF Before
  <2>2. film[x] # 0
    BY <1>1, <1>4, <2>1 DEF FrameInv, NothingIsMissed
  <2> QED
    BY <1>4, <2>2 DEF FrameInv, FilmIsExact
<1> QED
  BY <1>6

\* What the render thread shows, and what it calls complete.
FirstPassIsTaken == \A i \in Tiles : film[<<0, i>>] = 1
AllIsTaken == \A x \in Samples(mFs) : film[x] = 1

\* What the render thread does between calls: it shows the first pass when it is
\* taken, or calls the frame complete when all of it is.
LEMMA BetweenCallsKeeps ==
    ASSUME QueueInv, FrameInv, StopAtPassBoundary \/ PassesTaken \/ AfterFirstPass
    PROVE  /\ FrameInv'
           /\ \/ UNCHANGED <<mReadyForDisplay, mFrameComplete>>
              \/ /\ mReadyForDisplay' = TRUE /\ UNCHANGED mFrameComplete
                 /\ mRenderStopAtPassBoundary \/ FirstPassIsTaken
              \/ /\ mReadyForDisplay' = TRUE /\ mFrameComplete' = TRUE
                 /\ mRenderStopAtPassBoundary \/ AllIsTaken
<1>1. Kept
  BY DEF StopAtPassBoundary, PassesTaken, AfterFirstPass, Kept
<1>2. /\ mFs' = mFs /\ NumPasses(mFs)' = NumPasses(mFs)
      /\ UNCHANGED <<gCancelFlag, mStopAtFrameReadyForDisplay>>
  BY <1>1 DEF Kept, appVars, NumPasses, Passes
<1>3. at # "waiting" /\ \A t \in Threads : worker[t] = "off"
  <2>1. CASE StopAtPassBoundary
    BY <2>1 DEF StopAtPassBoundary, QueueInv, ThreadsAgree, Taking
  <2>2. CASE PassesTaken
    BY <2>2 DEF PassesTaken
  <2>3. CASE AfterFirstPass
    BY <2>3 DEF AfterFirstPass, QueueInv, ThreadsAgree, Taking
  <2> QED
    BY <2>1, <2>2, <2>3
<1>4. /\ NumPasses(mFs) \in Nat \ {0} /\ Samples(mFs) = (0 .. NumPasses(mFs) - 1) \X Tiles
      /\ clampPass \in 0 .. NumPasses(mFs) - 1 /\ Passes(mFs) = 0 .. NumPasses(mFs) - 1
  <2>1. Passes(mFs) = 0 .. NumPasses(mFs) - 1
    BY <1>3, InfosAreGood DEF QueueInv, TypeOK, ThreadsAgree
  <2> QED
    BY <1>3, <2>1, SamplesAreFinite DEF QueueInv, QueueAgrees
<1>5. at \in Taking /\ (at = "firstPassTaken" \/ ~canceled) =>
        \A x \in Samples(mFs) : x[1] <= clampPass => film[x] = 1
  BY <1>3, PassIsTaken
<1>6. at \in BeforeShown => clampPass = 0 /\ mFs.mode # "BATCH"
  BY DEF QueueInv, CoarseIsKnown, FrameInv, FlagsAreTrue
\* The first pass is shown.
<1>7. ASSUME \/ at = "firstPass" /\ mRenderStopAtPassBoundary
             \/ at = "firstPassTaken",
             ShowFirstPass
      PROVE  /\ FrameInv'
             /\ mReadyForDisplay' = TRUE /\ UNCHANGED mFrameComplete
             /\ mRenderStopAtPassBoundary \/ FirstPassIsTaken
  <2>1. /\ at' = "displayable" /\ mReadyForDisplay' = TRUE
        /\ UNCHANGED <<queueVars, mFrameComplete, clampPass>>
    BY <1>7 DEF ShowFirstPass
  <2>2. at \in BeforeShown
    BY <1>7 DEF BeforeShown
  <2>3. FlagsAreTrue'
    BY <1>2, <1>6, <2>1, <2>2 DEF FlagsAreTrue
  <2>4. FrameInv'
    BY <1>1, <1>3, <1>7, <2>1, <2>3, OutcomeKeeps DEF Taking, queueVars
  <2>5. at = "firstPassTaken" => FirstPassIsTaken
    <3>1. \A i \in Tiles : <<0, i>> \in Samples(mFs)
      BY <1>4
    <3>2. clampPass = 0
      BY <1>6, <2>2
    <3>3. at = "firstPassTaken" => \A x \in Samples(mFs) : x[1] <= clampPass => film[x] = 1
      BY <1>5 DEF Taking
    <3>4. \A i \in Tiles : <<0, i>>[1] <= clampPass
      BY <3>2
    <3> QED
      BY <3>1, <3>3, <3>4 DEF FirstPassIsTaken
  <2> QED
    BY <1>7, <2>1, <2>4, <2>5
\* The frame is complete.
<1>8. ASSUME CompleteFrame,
             \/ at \in {"nextPass", "allPasses"} /\ mRenderStopAtPassBoundary
             \/ at = "nextPassTaken" /\ ~canceled /\ ~MorePasses
             \/ at = "allPassesTaken" /\ ~canceled
      PROVE  /\ FrameInv'
             /\ mReadyForDisplay' = TRUE /\ mFrameComplete' = TRUE
             /\ mRenderStopAtPassBoundary \/ AllIsTaken
  <2>1. /\ at' = "over" /\ mReadyForDisplay' = (mReadyForDisplay \/ mFs.mode = "BATCH")
        /\ mFrameComplete' = TRUE /\ UNCHANGED <<queueVars, clampPass>>
    BY <1>8 DEF CompleteFrame
  <2>2. FlagsAreTrue'
    BY <2>1 DEF FlagsAreTrue, BeforeShown
  <2>3. FrameInv'
    BY <1>1, <1>3, <1>8, <2>1, <2>2, OutcomeKeeps DEF Taking, queueVars
  <2>4. mReadyForDisplay \/ mFs.mode = "BATCH"
    BY <1>8 DEF FrameInv, FlagsAreTrue
  <2>5. mReadyForDisplay' = TRUE
    BY <2>1, <2>4
  <2>6. at \in {"nextPassTaken", "allPassesTaken"} => AllIsTaken
    <3>1. SUFFICES ASSUME at \in {"nextPassTaken", "allPassesTaken"} PROVE AllIsTaken
      OBVIOUS
    <3>2. clampPass + 1 = NumPasses(mFs)
      <4>1. at = "allPassesTaken" => clampPass + 1 = NumPasses(mFs)
        BY DEF FrameInv, FlagsAreTrue
      <4>2. at = "nextPassTaken" => clampPass + 1 \notin Passes(mFs)
        BY <1>8 DEF MorePasses
      <4> QED
        BY <1>4, <3>1, <4>1, <4>2
    <3>3. \A x \in Samples(mFs) : x[1] <= clampPass
      BY <1>4, <3>2
    <3>4. at \in Taking /\ ~canceled
      BY <1>8, <3>1 DEF Taking
    <3>5. \A x \in Samples(mFs) : x[1] <= clampPass => film[x] = 1
      BY <1>5, <3>4
    <3> QED
      BY <3>3, <3>5 DEF AllIsTaken
  <2> QED
    BY <1>8, <2>1, <2>3, <2>5, <2>6
\* The frame is given up.
<1>9. ASSUME GiveUp,
             \/ at \in {"nextPassTaken", "allPassesTaken"} /\ canceled
             \/ at = "displayable" /\ mStopAtFrameReadyForDisplay
      PROVE  FrameInv' /\ UNCHANGED <<mReadyForDisplay, mFrameComplete>>
  <2>1. /\ at' = "over"
        /\ UNCHANGED <<queueVars, mReadyForDisplay, mCoarsePassesComplete, mFrameComplete, clampPass>>
    BY <1>9 DEF GiveUp
  <2>2. gCancelFlag \/ mStopAtFrameReadyForDisplay
    BY <1>9 DEF FrameInv, CancellationIsKept, GaveUp, Taking
  <2>3. FlagsAreTrue'
    BY <1>2, <2>1, <2>2 DEF FlagsAreTrue, BeforeShown
  <2> QED
    BY <1>1, <1>3, <1>9, <2>1, <2>3, OutcomeKeeps DEF Taking, queueVars
\* More passes.
<1>10. ASSUME NextPass \/ AllPasses,
              \/ at = "nextPassTaken" /\ ~canceled /\ NextPass
              \/ at = "displayable"
       PROVE  FrameInv' /\ UNCHANGED <<mReadyForDisplay, mFrameComplete>>
  <2>1. /\ at' \in {"nextPass", "allPasses"}
        /\ at' = "allPasses" => clampPass' = Cardinality(Passes(mFs)) - 1
        /\ UNCHANGED <<mGlobalGroupIdx, mOffset, mReadyForDisplay, mFrameComplete>>
    BY <1>10 DEF NextPass, AllPasses
  <2>2. mReadyForDisplay \/ mFs.mode = "BATCH"
    BY <1>10 DEF FrameInv, FlagsAreTrue
  <2>3. at' = "allPasses" => clampPass' + 1 = NumPasses(mFs)
    BY <1>4, <2>1 DEF NumPasses
  <2>4. FlagsAreTrue'
    BY <1>2, <2>1, <2>2, <2>3 DEF FlagsAreTrue, BeforeShown
  <2> QED
    BY <1>1, <1>3, <1>10, <2>1, <2>4, OutcomeKeeps DEF Taking
<1>11. CASE StopAtPassBoundary
  BY <1>7, <1>8, <1>11 DEF StopAtPassBoundary
<1>12. CASE PassesTaken
  BY <1>7, <1>8, <1>9, <1>10, <1>12 DEF PassesTaken
<1>13. CASE AfterFirstPass
  BY <1>9, <1>10, <1>13 DEF AfterFirstPass
<1> QED
  BY <1>11, <1>12, <1>13

\* No frame has been started.
LEMMA FrameInit ==
    ASSUME Init
    PROVE  FrameInv
<1>1. /\ at = "waiting"
      /\ \A t \in Threads : /\ worker[t] = "off"
                            /\ mCancellationState[t] = "DISABLED" /\ mCurrentPassIdx[t] = 0
  BY DEF Init
<1> QED
  BY <1>1 DEF FrameInv, FilmIsExact, GroupsAreOwned, NothingIsMissed, WorkIsLeft, CountedIsTaken,
       CancellationIsKept, FlagsAreTrue, Holding, Taking, BeforeShown

\* Every step keeps the film's invariant.
LEMMA FrameStep ==
    ASSUME BatchOnOneMachine, QueueInv, FrameInv, [Next]_vars
    PROVE  FrameInv'
<1>1. CASE Application
  BY <1>1, StartFrameKeeps, RequestsKeep DEF Application
<1>2. CASE RenderThread
  BY <1>2, BeginFrameKeeps, RenderPassesKeeps, BetweenCallsKeeps, EndFrameKeeps, RequestsKeep
     DEF RenderThread
<1>3. ASSUME NEW t \in Threads, Worker(t)
      PROVE  FrameInv'
  BY <1>3, WakeUpKeeps, PassBarrierKeeps, CancelAtBarrierKeeps, LookForWorkKeeps, NoGroupLeftKeeps,
     LetThroughKeeps, ReadOffsetKeeps, ReserveNextTileGroupKeeps, RenderTileKeeps,
     FinishGroupKeeps, CountKeeps, ShowShareKeeps, LeaveKeeps
     DEF Worker
<1>4. CASE UNCHANGED vars
  BY <1>4, RequestsKeep
<1> QED
  BY <1>1, <1>2, <1>3, <1>4 DEF Next

-----------------------------------------------------------------------------
(* Every step is a step of the frame that was promised.                    *)

\* Where the frame is, and what was asked for, as ImplementsFrame maps them.
Stage == CASE mRenderThreadState = "REQUEST_RENDER" -> "requested"
           [] mRenderThreadState = "RENDERING"      -> "rendering"
           [] mRenderThreadState = "RENDERING_DONE" -> "over"
           [] OTHER                                 -> "idle"
Asked == (IF gCancelFlag \/ mStopAtFrameReadyForDisplay THEN {"stop"} ELSE {})
         \cup (IF mRenderStopAtPassBoundary THEN {"boundary"} ELSE {})

\* The stage of a frame, from the state of the render thread;
LEMMA StageIs ==
    /\ mRenderThreadState = "REQUEST_RENDER" => Stage = "requested"
    /\ mRenderThreadState = "RENDERING"      => Stage = "rendering"
    /\ mRenderThreadState = "RENDERING_DONE" => Stage = "over"
    /\ mRenderThreadState \in {"READY_TO_RENDER", "KILL_RENDER_THREAD", "DEAD"} => Stage = "idle"
BY DEF Stage

\* and after a step.
LEMMA StageWillBe ==
    /\ mRenderThreadState' = "REQUEST_RENDER" => Stage' = "requested"
    /\ mRenderThreadState' = "RENDERING"      => Stage' = "rendering"
    /\ mRenderThreadState' = "RENDERING_DONE" => Stage' = "over"
    /\ mRenderThreadState' \in {"READY_TO_RENDER", "KILL_RENDER_THREAD", "DEAD"} => Stage' = "idle"
BY DEF Stage

\* A step that none of the frame's variables sees.
LEMMA VarsKept ==
    ASSUME UNCHANGED <<Stage, mFs, film, mReadyForDisplay, mFrameComplete, Asked>>
    PROVE  UNCHANGED Promise!vars
BY DEF Promise!vars, Stage, Asked

\* The frame's samples are the film's.
LEMMA SamplesAre ==
    ASSUME NEW s \in Settings PROVE Promise!Samples(s) = Samples(s)
<1>1. Passes(s) = 0 .. Cardinality(Passes(s)) - 1
  BY PassesOfSettings DEF NumPasses
<1> QED
  BY <1>1 DEF Promise!Samples, Samples, Tiles

\* The frame counts as the render driver does.
LEMMA SameCardinality ==
    ASSUME NEW S
    PROVE  Promise!Cardinality(S) = Cardinality(S)
BY DEF Promise!Cardinality, Cardinality

\* A step that changes no flag, neither film nor stage.
LEMMA StutterKeeps ==
    ASSUME UNCHANGED <<mRenderThreadState, mFs, film, mReadyForDisplay, mFrameComplete, gCancelFlag,
                       mStopAtFrameReadyForDisplay, mRenderStopAtPassBoundary>>
    PROVE  UNCHANGED Promise!vars
<1>1. Stage' = Stage
  BY DEF Stage
<1>2. Asked' = Asked
  BY DEF Asked
<1> QED
  BY <1>1, <1>2, VarsKept

\* The application starts with no frame.
LEMMA InitIsPromised ==
    ASSUME Init
    PROVE  Promise!Init
<1>1. Stage = "idle"
  BY StageIs DEF Init
<1>2. Asked = {}
  BY DEF Init, Asked
<1>3. /\ mFs \in Settings /\ film = [x \in Samples(mFs) |-> 0]
      /\ mReadyForDisplay = FALSE /\ mFrameComplete = FALSE
  BY DEF Init
<1>4. film = Promise!Blank(mFs)
  BY <1>3, SamplesAre DEF Promise!Blank
<1> QED
  BY <1>1, <1>2, <1>3, <1>4 DEF Promise!Init, Stage, Asked

\* The application starts a frame, asks it to stop, or waits for its end.
LEMMA ApplicationIsPromised ==
    ASSUME QueueInv, FrameInv, Application
    PROVE  Promise!Next \/ UNCHANGED Promise!vars
<1>1. ASSUME NEW s \in Settings, StartFrame(s) PROVE Promise!Next
  <2>1. Stage = "idle" /\ Stage' = "requested"
    BY <1>1, StageIs, StageWillBe DEF StartFrame, QueueInv, ThreadsAgree
  <2>2. Asked' = {}
    BY <1>1 DEF StartFrame, Asked
  <2>3. mFs' \in Settings /\ mReadyForDisplay' = FALSE /\ mFrameComplete' = FALSE /\ UNCHANGED film
    BY <1>1 DEF StartFrame
  <2>4. Promise!StartFrame
    BY <2>1, <2>2, <2>3 DEF Promise!StartFrame, Stage, Asked
  <2> QED
    BY <2>4 DEF Promise!Next
<1>2. CASE \/ RequestStop \/ RequestStopAtFrameReadyForDisplay \/ RequestStopRenderAtPassBoundary
           \/ StopFrame
  <2>1. UNCHANGED <<mRenderThreadState, mFs, film, mReadyForDisplay, mFrameComplete>>
    BY <1>2 DEF RequestStop, RequestStopAtFrameReadyForDisplay, RequestStopRenderAtPassBoundary,
                StopFrame, appVars, driverVars
  <2>2. Stage' = Stage
    BY <2>1 DEF Stage
  <2>3. Asked' = Asked \cup {"stop"} \/ Asked' = Asked \cup {"boundary"}
    <3>1. CASE RequestStop \/ RequestStopAtFrameReadyForDisplay \/ StopFrame
      <4>1. /\ gCancelFlag' \/ mStopAtFrameReadyForDisplay'
            /\ UNCHANGED mRenderStopAtPassBoundary
        BY <3>1 DEF RequestStop, RequestStopAtFrameReadyForDisplay, StopFrame
      <4> QED
        BY <4>1 DEF Asked
    <3>2. CASE RequestStopRenderAtPassBoundary
      BY <3>2 DEF RequestStopRenderAtPassBoundary, Asked
    <3> QED
      BY <1>2, <3>1, <3>2
  <2>4. Promise!Ask("stop") \/ Promise!Ask("boundary")
    BY <2>1, <2>2, <2>3 DEF Promise!Ask, Stage, Asked
  <2> QED
    BY <2>4 DEF Promise!Next
<1>3. CASE Stopped
  <2>1. Stage = "over" /\ Stage' = "idle"
    BY <1>3, StageIs, StageWillBe DEF Stopped
  <2>2. UNCHANGED <<mFs, film, mReadyForDisplay, mFrameComplete, gCancelFlag,
                    mStopAtFrameReadyForDisplay, mRenderStopAtPassBoundary>>
    BY <1>3 DEF Stopped, flags
  <2>3. Asked' = Asked
    BY <2>2 DEF Asked
  <2>4. Promise!Stop
    BY <2>1, <2>2, <2>3 DEF Promise!Stop, Stage, Asked
  <2> QED
    BY <2>4 DEF Promise!Next
<1>4. CASE Destroy
  <2>1. Stage = "idle" /\ Stage' = "idle"
    BY <1>4, StageIs, StageWillBe DEF Destroy, QueueInv, ThreadsAgree
  <2>2. UNCHANGED <<mFs, film, mReadyForDisplay, mFrameComplete, Asked>>
    BY <1>4 DEF Destroy, flags, Asked
  <2> QED
    BY <2>1, <2>2, VarsKept
<1> QED
  BY <1>1, <1>2, <1>3, <1>4 DEF Application

\* The render thread clears the film, shows it, completes it or gives it up.
LEMMA RenderThreadIsPromised ==
    ASSUME QueueInv, FrameInv, RenderThread
    PROVE  Promise!Next \/ UNCHANGED Promise!vars
<1>0. mFs \in Settings
  BY DEF QueueInv, TypeOK
<1>1. CASE BeginFrame
  <2>1. Stage = "requested" /\ Stage' = "rendering"
    BY <1>1, StageIs, StageWillBe DEF BeginFrame
  <2>2. UNCHANGED <<mFs, mReadyForDisplay, mFrameComplete, Asked>>
    BY <1>1 DEF BeginFrame, appVars, Asked
  <2>3. film' = Promise!Blank(mFs)
    BY <1>0, <1>1, SamplesAre DEF BeginFrame, Promise!Blank
  <2>4. Promise!Clear
    BY <2>1, <2>2, <2>3 DEF Promise!Clear, Stage, Asked
  <2> QED
    BY <2>4 DEF Promise!Next
<1>2. CASE RenderPasses
  BY <1>2, StutterKeeps DEF RenderPasses, appVars, flags
<1>3. CASE StopAtPassBoundary \/ PassesTaken \/ AfterFirstPass
  <2>1. Kept /\ at # "waiting"
    BY <1>3 DEF StopAtPassBoundary, PassesTaken, AfterFirstPass, Kept
  <2>2. /\ mRenderThreadState = "RENDERING"
        /\ UNCHANGED <<mRenderThreadState, mFs, film, gCancelFlag, mStopAtFrameReadyForDisplay,
                       mRenderStopAtPassBoundary>>
    BY <2>1 DEF Kept, appVars, QueueInv, ThreadsAgree
  <2>3. Stage = "rendering" /\ Stage' = Stage /\ Asked' = Asked
    BY <2>2, StageIs, StageWillBe DEF Asked
  <2>4. mRenderStopAtPassBoundary => "boundary" \in Asked
    BY DEF Asked
  <2>5. film \in [Samples(mFs) -> {0, 1}] /\ IsFiniteSet(Samples(mFs))
        /\ Samples(mFs) = (0 .. NumPasses(mFs) - 1) \X Tiles /\ NumPasses(mFs) \in Nat \ {0}
    BY <2>1, SamplesAreFinite DEF FrameInv, FilmIsExact
  <2>6. CASE UNCHANGED <<mReadyForDisplay, mFrameComplete>>
    BY <2>2, <2>6, StutterKeeps
  <2>7. CASE /\ mReadyForDisplay' = TRUE /\ UNCHANGED mFrameComplete
             /\ mRenderStopAtPassBoundary \/ FirstPassIsTaken
    <3>1. FirstPassIsTaken =>
             \/ mFs.nodes = 1 /\ \A i \in 0 .. NumTiles - 1 : film[<<0, i>>] = 1
             \/ /\ mFs.nodes > 1 /\ Promise!Taken # {}
                /\ Cardinality(Promise!Taken) >= NumTiles \div mFs.nodes
      <4>1. SUFFICES ASSUME FirstPassIsTaken, mFs.nodes > 1
                     PROVE  Promise!Taken # {} /\ Cardinality(Promise!Taken) >= NumTiles \div mFs.nodes
        BY <1>0, RenderAssumption DEF FirstPassIsTaken, Tiles
      <4>2. {0} \X Tiles \subseteq Promise!Taken
        BY <2>5, <4>1 DEF FirstPassIsTaken, Promise!Taken
      <4>3. IsFiniteSet(Promise!Taken)
        <5>1. Promise!Taken \subseteq Samples(mFs)
          BY <2>5 DEF Promise!Taken
        <5> QED
          BY <2>5, <5>1, FS_Subset
      <4>4. IsFiniteSet(Tiles) /\ Cardinality(Tiles) = NumTiles /\ NumTiles \in Nat \ {0}
        <5>1. NumTiles \in Nat \ {0} /\ 0 \in Int /\ NumTiles - 1 \in Int
          BY QueueAssumption
        <5>2. /\ IsFiniteSet(0 .. NumTiles - 1)
              /\ Cardinality(0 .. NumTiles - 1) = IF 0 > NumTiles - 1 THEN 0 ELSE NumTiles - 1 - 0 + 1
          BY <5>1, FS_Interval
        <5> QED
          BY <5>1, <5>2 DEF Tiles
      <4>5. Cardinality({0} \X Tiles) = 1 * NumTiles
        <5>1. IsFiniteSet({0}) /\ Cardinality({0}) = 1
          BY FS_Singleton
        <5> QED
          BY <4>4, <5>1, FS_Product
      <4>6. Cardinality({0} \X Tiles) <= Cardinality(Promise!Taken) /\ Cardinality(Promise!Taken) \in Nat
        BY <4>2, <4>3, FS_Subset, FS_CardinalityType
      <4>7. NumTiles \div mFs.nodes <= NumTiles
        <5>1. mFs.nodes \in Nat \ {0}
          BY <1>0, RenderAssumption
        <5> QED
          BY <4>4, <5>1
      <4>8. NumTiles \div mFs.nodes \in Int
        BY <1>0, <4>4, RenderAssumption
      <4>9. Cardinality(Promise!Taken) >= NumTiles /\ Promise!Taken # {}
        BY <4>4, <4>5, <4>6, FS_EmptySet
      <4> QED
        BY <4>4, <4>6, <4>7, <4>8, <4>9
    <3>2. Promise!Show
      BY <2>2, <2>3, <2>4, <2>7, <3>1, SameCardinality DEF Promise!Show, Stage, Asked
    <3> QED
      BY <3>2 DEF Promise!Next
  <2>8. CASE /\ mReadyForDisplay' = TRUE /\ mFrameComplete' = TRUE
             /\ mRenderStopAtPassBoundary \/ AllIsTaken
    <3>1. AllIsTaken => Promise!Taken = Promise!Samples(mFs)
      BY <1>0, <2>5, SamplesAre DEF Promise!Taken, AllIsTaken
    <3>2. Promise!Complete
      BY <2>2, <2>3, <2>4, <2>8, <3>1 DEF Promise!Complete, Stage, Asked
    <3> QED
      BY <3>2 DEF Promise!Next
  <2> QED
    BY <1>3, <2>6, <2>7, <2>8, BetweenCallsKeeps
<1>4. CASE EndFrame
  <2>1. Stage = "rendering" /\ Stage' = "over"
    BY <1>4, StageIs, StageWillBe DEF EndFrame, QueueInv, ThreadsAgree
  <2>2. mReadyForDisplay' = TRUE /\ UNCHANGED <<mFs, film, mFrameComplete, Asked>>
    BY <1>4 DEF EndFrame, appVars, Asked
  <2>3. mFrameComplete \/ Asked # {}
    BY <1>4 DEF EndFrame, FrameInv, FlagsAreTrue, Asked
  <2>4. Promise!End
    BY <2>1, <2>2, <2>3 DEF Promise!End, Stage, Asked
  <2> QED
    BY <2>4 DEF Promise!Next
<1>5. CASE Die
  <2>1. Stage = "idle" /\ Stage' = "idle"
    BY <1>5, StageIs, StageWillBe DEF Die
  <2>2. UNCHANGED <<mFs, film, mReadyForDisplay, mFrameComplete, Asked>>
    BY <1>5 DEF Die, appVars, flags, Asked
  <2> QED
    BY <2>1, <2>2, VarsKept
<1> QED
  BY <1>1, <1>2, <1>3, <1>4, <1>5 DEF RenderThread

\* A thread renders a tile that nobody rendered, or shows the machine's share
\* when it has been rendered; the rest of what it does is nobody's business.
LEMMA WorkerIsPromised ==
    ASSUME QueueInv, FrameInv, NEW t \in Threads, Worker(t)
    PROVE  Promise!Next \/ UNCHANGED Promise!vars
<1>0. mFs \in Settings
  BY DEF QueueInv, TypeOK
<1>1. CASE \/ WakeUp(t) \/ PassBarrier(t) \/ CancelAtBarrier(t)
           \/ LookForWork(t) \/ NoGroupLeft(t) \/ LetThrough(t) \/ ReadOffset(t)
           \/ ReserveNextTileGroup(t) \/ FinishGroup(t) \/ Count(t) \/ Leave(t)
  <2>1. UNCHANGED <<mRenderThreadState, mFs, film, mReadyForDisplay, mFrameComplete, gCancelFlag,
                    mStopAtFrameReadyForDisplay, mRenderStopAtPassBoundary>>
    BY <1>1 DEF WakeUp, PassBarrier, CancelAtBarrier, LookForWork, NoGroupLeft, LetThrough, ReadOffset,
                ReserveNextTileGroup, FinishGroup, Count, Leave, appVars, flags, driverVars
  <2> QED
    BY <2>1, StutterKeeps
<1>2. CASE RenderTile(t)
  <2>1. UNCHANGED <<mRenderThreadState, mFs, mReadyForDisplay, mFrameComplete, gCancelFlag,
                    mStopAtFrameReadyForDisplay, mRenderStopAtPassBoundary>>
    BY <1>2 DEF RenderTile, appVars, flags, driverVars
  <2>2. CASE UNCHANGED film
    BY <2>1, <2>2, StutterKeeps
  <2>3. ASSUME NEW x \in Samples(mFs), film[x] = 0, film' = [film EXCEPT ![x] = 1]
        PROVE  Promise!Next
    <3>1. mRenderThreadState = "RENDERING" /\ at # "waiting"
      BY <1>2 DEF RenderTile, QueueInv, ThreadsAgree, Taking
    <3>2. Stage = "rendering" /\ Stage' = Stage /\ Asked' = Asked
      BY <2>1, <3>1, StageIs DEF Stage, Asked
    <3>3. x \in DOMAIN film
      BY <3>1 DEF FrameInv, FilmIsExact
    <3>4. Promise!Render(x)
      BY <2>1, <2>3, <3>2 DEF Promise!Render, Stage, Asked
    <3> QED
      BY <3>3, <3>4 DEF Promise!Next
  <2> QED
    BY <1>2, <2>2, <2>3, RenderTileKeeps
<1>3. CASE ShowShare(t)
  <2>1. /\ worker[t] = "showing" /\ mReadyForDisplay' = TRUE
        /\ UNCHANGED <<mRenderThreadState, mFs, film, mFrameComplete, gCancelFlag,
                       mStopAtFrameReadyForDisplay, mRenderStopAtPassBoundary>>
    BY <1>3 DEF ShowShare, Move, appVars, driverVars
  <2>2. mRenderThreadState = "RENDERING" /\ at # "waiting"
    BY <2>1 DEF QueueInv, ThreadsAgree, Taking
  <2>3. Stage = "rendering" /\ Stage' = Stage /\ Asked' = Asked
    BY <2>1, <2>2, StageIs DEF Stage, Asked
  <2>4. Parallel /\ at = "firstPassTaken" /\ finishedTilesCount >= MinTileTotal
    BY <2>1 DEF FrameInv, CancellationIsKept
  <2> DEFINE counted == {x \in Samples(mFs) : Before(x, mOffset)
               /\ \A u \in Threads : worker[u] \in Holding => x \notin Extent(u)}
  <2>5. finishedTilesCount <= Cardinality(counted)
    BY <2>4 DEF FrameInv, CountedIsTaken
  <2>6. counted \subseteq Promise!Taken
    <3>1. ASSUME NEW x \in counted PROVE x \in DOMAIN film /\ film[x] > 0
      <4>1. film[x] # 0
        BY <2>4 DEF FrameInv, NothingIsMissed, LaterTaking, Holding
      <4>2. film \in [Samples(mFs) -> {0, 1}]
        BY <2>2 DEF FrameInv, FilmIsExact
      <4> QED
        BY <4>1, <4>2
    <3> QED
      BY <3>1 DEF Promise!Taken
  <2>7. IsFiniteSet(Promise!Taken)
    <3>1. film \in [Samples(mFs) -> {0, 1}] /\ IsFiniteSet(Samples(mFs))
      BY <2>2, SamplesAreFinite DEF FrameInv, FilmIsExact
    <3>2. Promise!Taken \subseteq Samples(mFs)
      BY <3>1 DEF Promise!Taken
    <3> QED
      BY <3>1, <3>2, FS_Subset
  <2> HIDE DEF counted
  <2>8. Cardinality(counted) <= Cardinality(Promise!Taken)
        /\ Cardinality(counted) \in Nat /\ Cardinality(Promise!Taken) \in Nat
    BY <2>6, <2>7, FS_Subset, FS_CardinalityType
  <2>9. /\ mFs.nodes \in Nat /\ mFs.nodes > 1
        /\ MinTileTotal \in Nat \ {0} /\ MinTileTotal >= NumTiles \div mFs.nodes
        /\ NumTiles \div mFs.nodes \in Nat
    <3>1. mFs.nodes \in Nat \ {0} /\ mFs.nodes > 1
      BY <1>0, <2>4, RenderAssumption DEF Parallel
    <3> QED
      BY <3>1, ShareIsPositive
  <2>10. finishedTilesCount \in Nat
    BY DEF QueueInv, TypeOK
  <2>11. Cardinality(Promise!Taken) >= NumTiles \div mFs.nodes /\ Cardinality(Promise!Taken) # 0
    BY <2>4, <2>5, <2>8, <2>9, <2>10
  <2>12. Promise!Taken # {}
    BY <2>11, FS_EmptySet
  <2>13. Promise!Show
    BY <2>1, <2>3, <2>9, <2>11, <2>12, SameCardinality DEF Promise!Show, Stage, Asked
  <2> QED
    BY <2>13 DEF Promise!Next
<1> QED
  BY <1>1, <1>2, <1>3 DEF Worker

\* Every step of the render driver is one of the frame, or none.
LEMMA StepIsPromised ==
    ASSUME QueueInv, FrameInv, [Next]_vars
    PROVE  [Promise!Next]_(Promise!vars)
<1>1. CASE UNCHANGED vars
  BY <1>1, StutterKeeps DEF vars, appVars, flags, driverVars
<1> QED
  BY <1>1, ApplicationIsPromised, RenderThreadIsPromised, WorkerIsPromised DEF Next

-----------------------------------------------------------------------------
\* The film, in every state: each tile of a pass was rendered once or not yet, a
\* group is some thread's own, and behind the offset nothing is missing that
\* nobody is rendering unless the frame is given up.
THEOREM FilmInvariant == BatchOnOneMachine => (Spec => []FrameInv)
<1> SUFFICES ASSUME BatchOnOneMachine PROVE Spec => []FrameInv
  OBVIOUS
<1>1. Init => FrameInv
  BY FrameInit
<1>2. QueueInv /\ FrameInv /\ [Next]_vars => FrameInv'
  BY FrameStep
<1> QED
  BY <1>1, <1>2, QueueInvariant, PTL DEF Spec

\* The refinement.  Whatever the threads do, and however many threads, tiles,
\* passes and machines there are, the application sees a frame that keeps what
\* RenderContext.h promises, if no BATCH frame is shared with other machines.
THEOREM FrameIsImplemented == BatchOnOneMachine => (Spec => ImplementsFrame)
<1>1. Init => Promise!Init
  BY InitIsPromised
<1>2. QueueInv /\ FrameInv /\ [Next]_vars => [Promise!Next]_(Promise!vars)
  BY StepIsPromised
<1> QED
  BY <1>1, <1>2, QueueInvariant, FilmInvariant, PTL DEF Spec, ImplementsFrame, Promise!Spec
=============================================================================
