------------------------------- MODULE RWLock -------------------------------
(***************************************************************************)
(* The reader-writer lock of kernel/src/rwlock.c, at the grain at which its *)
(* callers interfere.  Acquiring runs under the lock's own spinlock;        *)
(* rwlock_release takes no spinlock, so its loads and stores fall between   *)
(* the steps of an acquisition.  rwlock_get_read_access increments          *)
(* num_readers with a plain "+= 1" (a load and a store on another CPU's     *)
(* view) while rwlock_release decrements it with a locked instruction.      *)
(***************************************************************************)
EXTENDS Integers, FiniteSets

CONSTANTS Readers,      \* threads that take the lock for reading
          Writers,      \* threads that take the lock for writing
          Free,         \* the spinlock has no holder
          MaxCount      \* bound: no new reader calls past this num_readers

Procs == Readers \cup Writers

ASSUME ProcsAssumption == IsFiniteSet(Readers) /\ IsFiniteSet(Writers)
ASSUME FreeAssumption == Free \notin Procs
ASSUME MaxCountAssumption == MaxCount \in Nat

VARIABLES num_readers, num_writers, write_request,  \* struct rwlock
          spinlock,                                  \* its holder, or Free
          pc,                                        \* where each thread is
          loaded                                     \* value a "+= 1" has read

vars == <<num_readers, num_writers, write_request, spinlock, pc, loaded>>

\* Places of a thread: outside, in rwlock_get_write_access, in
\* rwlock_get_read_access, holding the lock, in rwlock_release.
Places == {"idle", "w_spin", "w_test", "w_inc", "w_req",
           "r_spin", "r_test", "r_load", "r_store", "r_back",
           "reading", "writing", "rel_req", "rel_num", "rel_dec"}

Goto(p, place) == pc' = [pc EXCEPT ![p] = place]

lockWords == <<num_readers, num_writers, write_request>>

\* init_rwlock
Init == /\ num_readers = 0 /\ num_writers = 0 /\ write_request = 0
        /\ spinlock = Free
        /\ pc = [p \in Procs |-> "idle"]
        /\ loaded = 0

-----------------------------------------------------------------------------
(* rwlock_get_write_access *)

WriteCall(p) == /\ p \in Writers
                /\ pc[p] = "idle"
                /\ Goto(p, "w_spin")
                /\ UNCHANGED <<lockWords, spinlock, loaded>>

\* acquire_spinlock: the bit test-and-set succeeds.
AcquireSpin(p, from, to) == /\ pc[p] = from
                            /\ spinlock = Free
                            /\ spinlock' = p
                            /\ Goto(p, to)
                            /\ UNCHANGED <<lockWords, loaded>>

WriteSpin(p) == AcquireSpin(p, "w_spin", "w_test")

\* Mutant: readers do not keep a writer out.
WriteTestIgnoringReaders(p) ==
    /\ pc[p] = "w_test"
    /\ Goto(p, IF num_writers = 0 THEN "w_inc" ELSE "w_req")
    /\ UNCHANGED <<lockWords, spinlock, loaded>>

WriteTest(p) == /\ pc[p] = "w_test"
                /\ Goto(p, IF num_readers = 0 /\ num_writers = 0
                           THEN "w_inc" ELSE "w_req")
                /\ UNCHANGED <<lockWords, spinlock, loaded>>

WriteGrant(p) == /\ pc[p] = "w_inc"
                 /\ num_writers' = num_writers + 1
                 /\ spinlock' = Free
                 /\ Goto(p, "writing")
                 /\ UNCHANGED <<num_readers, write_request, loaded>>

WriteRequest(p) == /\ pc[p] = "w_req"
                   /\ write_request' = 1
                   /\ spinlock' = Free
                   /\ Goto(p, "w_spin")
                   /\ UNCHANGED <<num_readers, num_writers, loaded>>

-----------------------------------------------------------------------------
(* rwlock_get_read_access *)

ReadCall(p) == /\ p \in Readers
               /\ pc[p] = "idle"
               /\ num_readers <= MaxCount
               /\ Goto(p, "r_spin")
               /\ UNCHANGED <<lockWords, spinlock, loaded>>

ReadSpin(p) == AcquireSpin(p, "r_spin", "r_test")

\* Mutant: only a pending request keeps a reader out.
ReadTestIgnoringWriters(p) ==
    /\ pc[p] = "r_test"
    /\ Goto(p, IF write_request = 0 THEN "r_load" ELSE "r_back")
    /\ UNCHANGED <<lockWords, spinlock, loaded>>

ReadTest(p) == /\ pc[p] = "r_test"
               /\ Goto(p, IF num_writers = 0 /\ write_request = 0
                          THEN "r_load" ELSE "r_back")
               /\ UNCHANGED <<lockWords, spinlock, loaded>>

ReadBack(p) == /\ pc[p] = "r_back"
               /\ spinlock' = Free
               /\ Goto(p, "r_spin")
               /\ UNCHANGED <<lockWords, loaded>>

\* num_readers += 1 is not a locked instruction: a load ...
ReadLoad(p) == /\ pc[p] = "r_load"
               /\ loaded' = num_readers
               /\ Goto(p, "r_store")
               /\ UNCHANGED <<lockWords, spinlock>>

\* ... and a store.
ReadStore(p) == /\ pc[p] = "r_store"
                /\ num_readers' = loaded + 1
                /\ spinlock' = Free
                /\ Goto(p, "reading")
                /\ UNCHANGED <<num_writers, write_request, loaded>>

-----------------------------------------------------------------------------
(* rwlock_release: the caller's mode is not known, num_writers decides. *)

ReleaseTest(p) == /\ pc[p] \in {"reading", "writing"}
                  /\ Goto(p, IF num_writers # 0 THEN "rel_req" ELSE "rel_dec")
                  /\ UNCHANGED <<lockWords, spinlock, loaded>>

\* Mutant: the request is not taken back.
ReleaseRequestForgotten(p) == /\ pc[p] = "rel_req"
                              /\ Goto(p, "rel_num")
                              /\ UNCHANGED <<lockWords, spinlock, loaded>>

ReleaseRequest(p) == /\ pc[p] = "rel_req"
                     /\ write_request' = 0
                     /\ Goto(p, "rel_num")
                     /\ UNCHANGED <<num_readers, num_writers, spinlock, loaded>>

ReleaseWriter(p) == /\ pc[p] = "rel_num"
                    /\ num_writers' = 0
                    /\ Goto(p, "idle")
                    /\ UNCHANGED <<num_readers, write_request, spinlock, loaded>>

ReleaseReader(p) == /\ pc[p] = "rel_dec"
                    /\ num_readers' = num_readers - 1
                    /\ Goto(p, "idle")
                    /\ UNCHANGED <<num_writers, write_request, spinlock, loaded>>

-----------------------------------------------------------------------------
Call(p) == WriteCall(p) \/ ReadCall(p)

Step(p) == \/ WriteSpin(p) \/ WriteTest(p) \/ WriteGrant(p) \/ WriteRequest(p)
           \/ ReadSpin(p) \/ ReadTest(p) \/ ReadBack(p)
           \/ ReadLoad(p) \/ ReadStore(p)
           \/ ReleaseTest(p) \/ ReleaseRequest(p)
           \/ ReleaseWriter(p) \/ ReleaseReader(p)

Next == \E p \in Procs : Call(p) \/ Step(p)

Spec == Init /\ [][Next]_vars

\* A thread inside the lock's code runs on, and a holder releases in the end.
\* A thread that retries "lock btsl" while the spinlock keeps being freed is
\* served in the end: the bus arbitrates the competing locked instructions.
Fairness == \A p \in Procs : /\ WF_vars(Step(p))
                             /\ SF_vars(WriteSpin(p))
                             /\ SF_vars(ReadSpin(p))
LiveSpec == Spec /\ Fairness

-----------------------------------------------------------------------------
\* The counters of struct rwlock: num_readers never wraps below zero, although
\* rwlock_release does not know the caller's mode, and num_writers never passes one.
TypeOK == /\ num_readers \in Nat
          /\ num_writers \in {0, 1}
          /\ write_request \in {0, 1}
          /\ spinlock \in Procs \cup {Free}
          /\ pc \in [Procs -> Places]
          /\ loaded \in Nat

ReadHolders  == {p \in Procs : pc[p] \in {"reading", "rel_dec"}}
WriteHolders == {p \in Procs : pc[p] \in {"writing", "rel_req", "rel_num"}}

(***************************************************************************)
(* Mutual exclusion: a writer shares the lock with nobody, whatever the     *)
(* unlocked stores of rwlock_release do between the tests of an acquisition.*)
(***************************************************************************)
Exclusion == /\ \A p, q \in WriteHolders : p = q
             /\ WriteHolders # {} => ReadHolders = {}

(***************************************************************************)
(* write_request, which keeps every new reader out, is only raised while    *)
(* some thread is on its way to write access or still has to take the       *)
(* request back.  A request left behind would lock all readers out for good.*)
(***************************************************************************)
NoOrphanRequest ==
    write_request = 1 =>
        \E p \in Writers : pc[p] \in {"w_spin", "w_test", "w_inc", "w_req",
                                      "writing", "rel_req"}

(***************************************************************************)
(* The lock implements the abstract shared lock: access is granted when the *)
(* count is stored and given up when it is taken back.                      *)
(***************************************************************************)
Abstract == INSTANCE SharedLock WITH readers <- ReadHolders,
                                     writers <- WriteHolders
ImplementsSharedLock == Abstract!LockSpec

(***************************************************************************)
(* Progress: whenever threads wait for the lock, one of them gets it, or it *)
(* is held (by a thread that will release it).  The exception is a count    *)
(* that has lost a decrement: rwlock_release subtracts without the spinlock *)
(* while rwlock_get_read_access adds, and then nobody enters ever again.    *)
(***************************************************************************)
Waiting(p) == pc[p] \in {"w_spin", "w_test", "w_req", "r_spin", "r_test", "r_back"}

LostDecrement == num_readers > Cardinality(ReadHolders)

Progress == (\E p \in Procs : Waiting(p)) ~>
                (ReadHolders \cup WriteHolders # {} \/ LostDecrement)
=============================================================================
