---------------------------- MODULE MCLifecycle ----------------------------
(***************************************************************************)
(* Thread a1 of a process may make a2, which runs on the other CPU, beside   *)
(* b1 of another process; n1 belongs to the process that exec makes.         *)
(***************************************************************************)
EXTENDS Lifecycle, TLC

CONSTANTS a1, a2, b1, n1, pa, pb, pn, c0, c1

MCProcess == (a1 :> pa) @@ (a2 :> pa) @@ (b1 :> pb) @@ (n1 :> pn)
MCCpu == (a1 :> c0) @@ (a2 :> c1) @@ (b1 :> c1) @@ (n1 :> c0)
MCCalls == (a1 :> {"spawn", "resume", "exit_process", "exit", "read"})
             @@ (a2 :> {"sleep", "exit", "exec"})
             @@ (b1 :> {"send", "start", "list"})
             @@ (n1 :> {"exit_process"})
=============================================================================
