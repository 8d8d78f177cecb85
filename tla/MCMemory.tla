------------------------------ MODULE MCMemory ------------------------------
(* Two processes that share one region.                                   *)
EXTENDS Memory, TLC

Symmetry == Permutations(Frame) \cup Permutations(Process)

=============================================================================
