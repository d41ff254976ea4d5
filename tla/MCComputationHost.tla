--------------------------- MODULE MCComputationHost ---------------------------
(* ComputationHost for TLC: all bounds are numbers, given in the .cfg files. *)
EXTENDS ComputationHost
================================================================================
