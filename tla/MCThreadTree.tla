---------------------------- MODULE MCThreadTree ----------------------------
(***************************************************************************)
(* Five threads, made and deleted in any order.                             *)
(***************************************************************************)
EXTENDS ThreadTree, TLC

Interchangeable == Permutations(Threads)
=============================================================================
