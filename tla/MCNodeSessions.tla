--------------------------- MODULE MCNodeSessions ---------------------------
(* Small instances of NodeSessions for TLC.                                *)
EXTENDS NodeSessions, TLC

CONSTANTS s1, s2, c1, c2, r1, r2, r3

\* Requests are interchangeable, and so are sessions.
Symmetry == Permutations(Requests) \cup Permutations(Sessions)
=============================================================================
