---------------------------- MODULE MCRenderDriver ----------------------------
(* Small instances of RenderDriver for TLC.                                *)
EXTENDS RenderDriver, TLC

CONSTANTS t1, t2

\* A BATCH frame is one pass; a PROGRESSIVE one here has two coarse passes
\* of one sample a tile, cut in groups of two tiles, and a fine pass of many
\* samples, cut in groups of one.
MCSamplesPerTile ==
    [BATCH |-> [p \in 0 .. 0 |-> 1],
     PROGRESSIVE |-> [p \in 0 .. 2 |-> IF p = 2 THEN 8 ELSE 1]]
MCLastCoarse == [BATCH |-> MaxRenderPasses, PROGRESSIVE |-> 1]

\* Two coarse passes after the first.
MCSamplesCoarse == [PROGRESSIVE |-> [p \in 0 .. 3 |-> 2]]
MCLastCoarse2 == [PROGRESSIVE |-> 2]

One(mode, filters) == [mode |-> mode, nodes |-> 1, filters |-> filters]
MCSettings ==
    {One("BATCH", FALSE), One("PROGRESSIVE", FALSE), One("PROGRESSIVE", TRUE),
     [mode |-> "PROGRESSIVE", nodes |-> 2, filters |-> FALSE]}
MCProgressive == {One("PROGRESSIVE", FALSE)}

\* A BATCH frame of which this machine renders a share.
MCBatchShare == {[mode |-> "BATCH", nodes |-> 2, filters |-> FALSE]}
=============================================================================
