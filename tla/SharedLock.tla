----------------------------- MODULE SharedLock -----------------------------
(***************************************************************************)
(* What a reader-writer lock promises: any number of holders may share it   *)
(* for reading, or a single one holds it for writing.  The lock of          *)
(* kernel/src/rwlock.c is shown to implement this specification; the        *)
(* promise says nothing about who gets the lock when.                       *)
(***************************************************************************)
CONSTANT Procs          \* the kernel threads that use the lock

VARIABLES readers,      \* the threads that hold the lock for reading
          writers       \* the threads that hold the lock for writing

lockVars == <<readers, writers>>

LockInit == readers = {} /\ writers = {}

AcquireRead(p) == /\ writers = {}
                  /\ readers' = readers \cup {p}
                  /\ UNCHANGED writers

AcquireWrite(p) == /\ writers = {}
                   /\ readers = {}
                   /\ writers' = {p}
                   /\ UNCHANGED readers

ReleaseRead(p) == /\ p \in readers
                  /\ readers' = readers \ {p}
                  /\ UNCHANGED writers

ReleaseWrite(p) == /\ p \in writers
                   /\ writers' = writers \ {p}
                   /\ UNCHANGED readers

LockNext == \E p \in Procs : \/ AcquireRead(p)
                             \/ AcquireWrite(p)
                             \/ ReleaseRead(p)
                             \/ ReleaseWrite(p)

LockSpec == LockInit /\ [][LockNext]_lockVars
=============================================================================
