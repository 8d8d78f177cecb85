------------------------------- MODULE Family -------------------------------
(***************************************************************************)
(* What the family tree of a process's threads promises: every thread knows *)
(* the thread that made it, and when a thread goes its children belong to   *)
(* the thread it belonged to, or to nobody.                                 *)
(***************************************************************************)
CONSTANTS Threads, Null

VARIABLE kin     \* kin[t]: the parent of each living thread t, or Null

FamilyInit == kin = [t \in {} |-> Null]

\* A thread is born to a living thread, or to nobody.
Born(t, p) == /\ t \notin DOMAIN kin
              /\ kin' = [u \in DOMAIN kin \cup {t} |-> IF u = t THEN p ELSE kin[u]]

Dies(t) == kin' = [u \in DOMAIN kin \ {t} |-> IF kin[u] = t THEN kin[t] ELSE kin[u]]

FamilyNext == \/ \E t \in Threads : \E p \in DOMAIN kin \cup {Null} : Born(t, p)
              \/ \E t \in DOMAIN kin : Dies(t)

FamilySpec == FamilyInit /\ [][FamilyNext]_kin
=============================================================================
