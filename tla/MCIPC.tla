------------------------------- MODULE MCIPC -------------------------------
(* Model checking of IPC with few threads, ports and message bodies. *)
EXTENDS IPC, TLC

Interchangeable == Permutations(Threads) \cup Permutations(Blocks)
=============================================================================
