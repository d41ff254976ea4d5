---------------------------- MODULE TileWorkQueue ----------------------------
(***************************************************************************)
(* class TileWorkQueue (moonray rendering/rndr): the groups of tiles that  *)
(* the render threads of a frame take, pass by pass.  Nothing is stored:   *)
(* one atomic, mGlobalGroupIdx, counts the groups that were let through    *)
(* against mGroupClampIdx, and a second atomic, mOffset, is the pass and   *)
(* the tile at which the next group begins.  The two are only consistent   *)
(* if each pass is cut into exactly as many groups as init counted.        *)
(* Passes and tiles are numbered from 0.                                   *)
(***************************************************************************)
EXTENDS Integers

CONSTANTS
    NumTiles,               \* mNumTiles
    DesiredSamples,         \* desiredSamplesPerGroup (512)
    MaxTilesPerGroup        \* maxTilesPerGroup (128)

ASSUME QueueAssumption ==
    /\ NumTiles \in Nat \ {0}
    /\ DesiredSamples \in Nat \ {0}
    /\ MaxTilesPerGroup \in Nat \ {0}

VARIABLES
    mPassInfos,             \* [pass -> its groups]
    mGroupClampIdx,         \* groups that may be let through
    mGlobalGroupIdx,        \* groups that were let through
    mOffset                 \* where the next group begins

queueVars == <<mPassInfos, mGroupClampIdx, mGlobalGroupIdx, mOffset>>

Tiles == 0 .. NumTiles - 1
PassInfo == [mStartGroupIdx : Nat, mEndGroupIdx : Nat, mTilesPerGroup : Nat \ {0}]
Start == [pass |-> 0, tile |-> 0]
NoPasses == [p \in {} |-> 0]

-----------------------------------------------------------------------------
(* How many groups.                                                        *)

RoundUpDivision(n, k) == (n + k - 1) \div k

\* lround(desiredSamplesPerGroup / samplesPerTile), clamped.
TilesPerGroup(samplesPerTile) ==
    LET rounded == (2 * DesiredSamples + samplesPerTile) \div (2 * samplesPerTile)
    IN  CASE rounded < 1                -> 1
          [] rounded > MaxTilesPerGroup -> MaxTilesPerGroup
          [] OTHER                      -> rounded

\* The groups up to each pass, if passes take samples[p] samples of each tile.
EndGroupIdx(samples) ==
    LET end[p \in DOMAIN samples] ==
            RoundUpDivision(NumTiles, TilesPerGroup(samples[p])) + IF p = 0 THEN 0 ELSE end[p - 1]
    IN  end

PassInfos(samples) ==
    LET end == EndGroupIdx(samples)
    IN  [p \in DOMAIN samples |->
            [mStartGroupIdx |-> IF p = 0 THEN 0 ELSE end[p - 1],
             mEndGroupIdx   |-> end[p],
             mTilesPerGroup |-> TilesPerGroup(samples[p])]]

-----------------------------------------------------------------------------
(* The thread that controls the frame, while no thread takes work.         *)

\* passIdx is cut to the last pass.
ClampToPass(infos, passIdx) ==
    mGroupClampIdx' = infos[IF passIdx \in DOMAIN infos THEN passIdx
                            ELSE CHOOSE p \in DOMAIN infos : p + 1 \notin DOMAIN infos].mEndGroupIdx

UnclampPasses(infos) ==
    \E p \in DOMAIN infos :
        /\ p + 1 \notin DOMAIN infos
        /\ mGroupClampIdx' = infos[p].mEndGroupIdx

Reset(infos) ==
    /\ UnclampPasses(infos)
    /\ mGlobalGroupIdx' = 0
    /\ mOffset' = Start

InitQueue ==
    /\ mPassInfos = NoPasses
    /\ mGroupClampIdx = 0
    /\ mGlobalGroupIdx = 0
    /\ mOffset = Start

-----------------------------------------------------------------------------
(* reserveNextTileGroup: groups of a pass differ by at most one tile.      *)

\* Past the last pass the array holds no group size.
TilesPerGroupOf(pass) == IF pass \in DOMAIN mPassInfos THEN mPassInfos[pass].mTilesPerGroup ELSE 1

TilesLeft(o) == NumTiles - o.tile
\* Mutant of GroupsLeft: rounds down.
GroupsLeftCut(o, k) == TilesLeft(o) \div k
GroupsLeft(o, k) == RoundUpDivision(TilesLeft(o), k)

NextOffset(o, k) ==
    IF GroupsLeft(o, k) <= 1
    THEN [pass |-> o.pass + 1, tile |-> 0]
    ELSE [o EXCEPT !.tile = @ + TilesLeft(o) \div GroupsLeft(o, k)]

\* The group [from, to) that moves the offset from o to next.
GroupBetween(o, next) ==
    [pass |-> o.pass, from |-> o.tile,
     to |-> IF next.tile = 0 THEN NumTiles ELSE next.tile]
=============================================================================
