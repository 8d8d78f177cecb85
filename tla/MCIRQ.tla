------------------------------- MODULE MCIRQ -------------------------------
(* Two CPUs, two lines, handlers on both CPUs and a main thread on the boot CPU *)
EXTENDS IRQ

CONSTANTS c0, c1, h1, h2, m1

MCHome == [t \in Main |-> c0]
MCProcess == [t \in Thread |-> "driver"]
MCMaxRaised == [i \in Line |-> IF i = 1 THEN 2 ELSE 1]
=============================================================================
