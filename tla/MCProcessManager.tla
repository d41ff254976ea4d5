-------------------------- MODULE MCProcessManager --------------------------
(* Small instances of ProcessManager for TLC.                              *)
EXTENDS ProcessManager, TLC

CONSTANTS p1, p2, p3

\* Processes are interchangeable.
Symmetry == Permutations(Procs)

MCAssigned == [p \in Procs |-> 2]
=============================================================================
