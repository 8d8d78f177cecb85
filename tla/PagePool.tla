------------------------------ MODULE PagePool ------------------------------
(***************************************************************************)
(* What the kernel expects of memory_alloc and memory_free: runs of pages  *)
(* that nobody else has, until they are given back.                        *)
(***************************************************************************)
EXTENDS Integers

CONSTANT MAXMAP     \* number of pages

VARIABLES used,     \* pages that cannot be handed out
          handed    \* pages that a caller got and has not given back

Page == 0 .. MAXMAP - 1

(* The pages of the run that begins at b *)
Run(b, n) == b .. b + n - 1

Init ==
    /\ used \subseteq Page
    /\ handed = {}

(* The run that begins at page 0 has the address NULL: its caller sees a   *)
(* failure, and the pages are lost.                                        *)
Acquire ==
    \E b \in Page, n \in 1 .. MAXMAP :
        /\ Run(b, n) \subseteq Page \ used
        /\ used' = used \cup Run(b, n)
        /\ handed' = IF b = 0 THEN handed ELSE handed \cup Run(b, n)

Release ==
    \E r \in SUBSET used :
        /\ used' = used \ r
        /\ handed' = handed \ r

Next == Acquire \/ Release

Spec == Init /\ [][Next]_<<used, handed>>

=============================================================================
