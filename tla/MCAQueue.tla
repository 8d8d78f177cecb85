------------------------------ MODULE MCAQueue ------------------------------
(* Model checking of AQueue with a few objects and small pages. *)
EXTENDS AQueue, TLC

Interchangeable == Permutations(Objects)
=============================================================================
