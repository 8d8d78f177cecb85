------------------------------ MODULE MCRWLock ------------------------------
(* Model checking of RWLock: every thread both reads and writes. *)
EXTENDS RWLock
=============================================================================
