---------------------------- MODULE MCScheduler ----------------------------
(***************************************************************************)
(* Two CPUs; threads a and b belong to one process, thread x to another.    *)
(* Each process has a CPU of its own.                                       *)
(***************************************************************************)
EXTENDS Scheduler

CONSTANTS a, b, x, c0, c1, p1, p2

MCHome == (a :> c1) @@ (b :> c1) @@ (x :> c0)
MCProcess == (a :> p1) @@ (b :> p1) @@ (x :> p2)
=============================================================================
