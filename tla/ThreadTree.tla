----------------------------- MODULE ThreadTree -----------------------------
(***************************************************************************)
(* The threads of one process as new_thread and delete_thread (threads.c)   *)
(* link them: a family tree of parent, child and sibling pointers           *)
(* (ds/family.h), a linear list (ds/list.h) and proc->threads, the head of  *)
(* both.  All of it runs with the process checked out as a writer, so the   *)
(* two functions are the steps.                                             *)
(***************************************************************************)
EXTENDS Integers, FiniteSets, Sequences, SequencesExt

CONSTANTS Threads,   \* the structs a thread may be allocated in
          Null

ASSUME NullAssumption == Null \notin Threads

VARIABLES alive,        \* threads_htable
          thread_count, \* proc->thread_count
          threads,      \* proc->threads
          tree,         \* the family_tree of each thread
          list,         \* its entry in the linear list
          first         \* the process still has the thread it began with

vars == <<alive, thread_count, threads, tree, list, first>>

Pointers == [Threads -> Threads \cup {Null}]
NoPointers == [t \in Threads |-> Null]

Init == /\ alive = {} /\ thread_count = 0
        /\ threads = Null
        /\ tree = [parent |-> NoPointers, child |-> NoPointers, prev |-> NoPointers, next |-> NoPointers]
        /\ list = [prev |-> NoPointers, next |-> NoPointers]
        /\ first = TRUE

-----------------------------------------------------------------------------
(* ds/family.h and ds/list.h: pointers before, pointers after. *)

\* p->field = value, when p is not NULL.
Set(field, p, value) == IF p = Null THEN field ELSE [field EXCEPT ![p] = value]

\* Repeats a step of a loop until its cursor is NULL; no loop here is longer than
\* the number of threads.
Loop(Step(_), state) ==
    FoldLeft(LAMBDA s, u : IF s.at = Null THEN s ELSE Step(s), state, SetToSeq(Threads))

family_remove(f, t) ==
    LET p == f.parent[t]
        before == f.prev[t]
        after == f.next[t]
    IN  [parent |-> [f.parent EXCEPT ![t] = Null],
         child  |-> IF p # Null /\ f.child[p] = t THEN [f.child EXCEPT ![p] = after] ELSE f.child,
         prev   |-> [Set(f.prev, after, before) EXCEPT ![t] = Null],
         next   |-> [Set(f.next, before, after) EXCEPT ![t] = Null]]

family_add_child(f, p, t) ==
    LET eldest == f.child[p]
    IN  [parent |-> [f.parent EXCEPT ![t] = p],
         child  |-> [f.child EXCEPT ![p] = t],
         prev   |-> Set(f.prev, eldest, t),
         next   |-> IF eldest = Null THEN f.next ELSE [f.next EXCEPT ![t] = eldest]]

family_add_sibling(f, bro, t) ==
    [parent |-> [f.parent EXCEPT ![t] = f.parent[bro]],
     child  |-> f.child,
     prev   |-> [Set(f.prev, f.next[bro], t) EXCEPT ![t] = bro],
     next   |-> [f.next EXCEPT ![t] = f.next[bro], ![bro] = t]]

\* One round of family_adopt: t becomes the first child of p.
PushChild(f, p, t) ==
    [parent |-> [f.parent EXCEPT ![t] = p],
     child  |-> [f.child EXCEPT ![p] = t],
     prev   |-> Set([f.prev EXCEPT ![t] = Null], f.child[p], t),
     next   |-> [f.next EXCEPT ![t] = f.child[p]]]

\* Mutant: the children keep their parent.
FamilyAdoptNobody(f, step, dead) == [f EXCEPT !.child[dead] = Null]

\* Every child of dead goes to step.
family_adopt(f, step, dead) ==
    LET Adopt(s) == [at |-> s.f.next[s.at], f |-> PushChild(s.f, step, s.at)]
        moved == Loop(Adopt, [at |-> f.child[dead], f |-> f]).f
    IN  [moved EXCEPT !.child[dead] = Null]

list_insertAfter(l, at, t) ==
    [prev |-> Set([l.prev EXCEPT ![t] = at], l.next[at], t),
     next |-> [l.next EXCEPT ![t] = l.next[at], ![at] = t]]

list_remove(l, t) ==
    [prev |-> [Set(l.prev, l.next[t], l.prev[t]) EXCEPT ![t] = Null],
     next |-> [Set(l.next, l.prev[t], l.next[t]) EXCEPT ![t] = Null]]

-----------------------------------------------------------------------------

Count(n) == thread_count' = thread_count + n

\* new_thread by thread p; p is Null for the first thread of a process and for the
\* kernel's own threads.
new_thread(t, p) ==
    /\ t \notin alive /\ (p \in alive \/ p = Null)
    /\ alive' = alive \cup {t}
    /\ Count(1)
    /\ IF threads = Null
       THEN threads' = t /\ UNCHANGED <<tree, list>>
       ELSE /\ tree' = IF p = Null THEN family_add_sibling(tree, threads, t)
                       ELSE family_add_child(tree, p, t)
            /\ list' = list_insertAfter(list, threads, t)
            /\ UNCHANGED threads
    /\ UNCHANGED first

\* The children of a thread without parent become its siblings.
Orphaned(f, t) ==
    LET Orphan(s) == LET g == family_add_sibling(family_remove(s.f, s.at), t, s.at)
                     IN  [at |-> g.child[t], f |-> g]
    IN  Loop(Orphan, [at |-> f.child[t], f |-> f]).f

\* Mutant: the head moves to the next entry of the linear list.
HeadFromList(t, f) == IF threads = t THEN list.next[t] ELSE threads

\* proc->threads when t goes and f is the tree before it is taken out.
NewHead(t, f) == IF threads = t THEN f.next[t] ELSE threads

\* delete_thread
delete_thread(t) ==
    LET p == tree.parent[t]
        f == IF p # Null THEN family_adopt(tree, p, t) ELSE Orphaned(tree, t)
    IN
    /\ t \in alive
    /\ alive' = alive \ {t}
    /\ Count(-1)
    /\ tree' = family_remove(f, t)
    /\ list' = list_remove(list, t)
    /\ threads' = NewHead(t, f)
    /\ first' = (first /\ threads # t)

Next == \E t \in Threads : \/ delete_thread(t)
                           \/ \E p \in Threads \cup {Null} : new_thread(t, p)

Spec == Init /\ [][Next]_vars

-----------------------------------------------------------------------------

\* The types; thread_count is the number of threads in the table.
TypeOK ==
    /\ alive \subseteq Threads /\ thread_count = Cardinality(alive)
    /\ threads \in Threads \cup {Null}
    /\ tree \in [parent : Pointers, child : Pointers, prev : Pointers, next : Pointers]
    /\ list \in [prev : Pointers, next : Pointers]

\* The threads on the way from t along a pointer.
Chain(t, pointer) ==
    LET Visit(s) == [at |-> pointer[s.at], seen |-> Append(s.seen, s.at)]
    IN  Loop(Visit, [at |-> t, seen |-> <<>>]).seen

\* The pointers of the tree agree: the children of a thread, eldest first, are exactly
\* the threads whose parent it is, each once, and siblings point at each other
\* (family_adopt, family_remove and the loop that orphans).
ChildrenListed ==
    \A t \in alive :
        LET c == Chain(tree.child[t], tree.next)
        IN  /\ ToSet(c) = {u \in alive : tree.parent[u] = t} /\ IsInjective(c)
            /\ \A i \in DOMAIN c : tree.prev[c[i]] = IF i = 1 THEN Null ELSE c[i - 1]

\* While the process has its first thread, a scan with NEXT_LINEAR from proc->threads
\* meets every thread once, whoever is made or deleted (list_insertAfter, list_remove).
ScanMeetsAll ==
    first => LET scan == Chain(threads, list.next)
             IN  ToSet(scan) = alive /\ IsInjective(scan)

\* The head finds everybody: the threads without parent are exactly proc->threads and
\* its siblings, nobody is before it, and all others are listed below them.  So
\* "while ( proc->threads != NULL )" in gc_do_process ends only when all threads are
\* deleted, and the assertion in delete_thread that the head of the list is always
\* the head holds.
HeadReachesAll ==
    LET roots == Chain(threads, tree.next)
    IN  /\ ToSet(roots) = {t \in alive : tree.parent[t] = Null} /\ IsInjective(roots)
        /\ threads # Null => tree.prev[threads] = Null
        /\ threads = Null <=> alive = {}
        /\ ChildrenListed
        /\ ScanMeetsAll

\* The pointers implement the family: a thread's children go to its parent when it
\* is deleted, and nobody else's parent changes.
Abstract == INSTANCE Family WITH kin <- [t \in alive |-> tree.parent[t]]
ImplementsFamily == Abstract!FamilySpec
=============================================================================
