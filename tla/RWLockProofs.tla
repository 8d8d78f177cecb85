---------------------------- MODULE RWLockProofs ----------------------------
(***************************************************************************)
(* Proofs about RWLock for any finite sets of readers and writers.          *)
(***************************************************************************)
EXTENDS RWLock, FiniteSetTheorems, TLAPS

\* The places at which a thread holds the spinlock.
SpinPlaces == {"w_test", "w_inc", "w_req", "r_test", "r_load", "r_store", "r_back"}

\* Only its holder is between acquire_spinlock and release_spinlock.
SpinInv == \A p \in Procs : pc[p] \in SpinPlaces => spinlock = p

\* num_writers is 1 exactly while a thread holds write access.
WriterInv == (num_writers = 1) <=> (WriteHolders # {})

\* num_readers never counts fewer readers than there are.  A decrement lost
\* to the plain "+= 1" only makes it too large.
CountInv == /\ Cardinality(ReadHolders) <= num_readers
            /\ \A p \in Procs : pc[p] = "r_store" => num_readers <= loaded

\* What an acquisition has tested still holds when it acts on it.
TestInv == \A p \in Procs :
             /\ pc[p] = "w_inc" => num_readers = 0 /\ num_writers = 0
             /\ pc[p] \in {"r_load", "r_store"} => num_writers = 0

\* Only writers enter rwlock_get_write_access.
WriterPlaces == \A p \in Procs :
                  pc[p] \in {"w_spin", "w_test", "w_inc", "w_req",
                             "writing", "rel_req"} => p \in Writers

IInv == /\ TypeOK /\ SpinInv /\ WriterInv /\ CountInv /\ TestInv
        /\ WriterPlaces /\ Exclusion /\ NoOrphanRequest

\* A set of threads is finite, so its cardinality is a number and is zero
\* only for the empty set.
LEMMA HoldersFinite ==
    ASSUME NEW S \in SUBSET Procs
    PROVE  IsFiniteSet(S) /\ Cardinality(S) \in Nat /\ (Cardinality(S) = 0 <=> S = {})
<1>1. IsFiniteSet(Procs)
  BY ProcsAssumption, FS_Union DEF Procs
<1>2. IsFiniteSet(S)
  BY <1>1, FS_Subset
<1>3. QED
  BY <1>2, FS_CardinalityType, FS_EmptySet

\* init_rwlock establishes the invariant.
LEMMA InitEstablishes == Init => IInv
<1>1. SUFFICES ASSUME Init PROVE IInv
  OBVIOUS
<1>2. ReadHolders = {} /\ WriteHolders = {}
  BY <1>1 DEF Init, ReadHolders, WriteHolders
<1>3. Cardinality(ReadHolders) = 0
  BY <1>2, FS_EmptySet
<1>4. TypeOK
  BY <1>1, FreeAssumption DEF Init, TypeOK, Places
<1>5. SpinInv /\ TestInv /\ WriterPlaces /\ NoOrphanRequest
  BY <1>1 DEF Init, SpinInv, SpinPlaces, TestInv, WriterPlaces, NoOrphanRequest
<1>6. WriterInv /\ CountInv /\ Exclusion
  BY <1>1, <1>2, <1>3 DEF Init, WriterInv, CountInv, Exclusion
<1>7. QED
  BY <1>4, <1>5, <1>6 DEF IInv

\* Every step of every thread preserves the invariant.
LEMMA StepPreserves == IInv /\ [Next]_vars => IInv'
<1> SUFFICES ASSUME IInv, [Next]_vars PROVE IInv'
  OBVIOUS
<1> USE DEF IInv, TypeOK, Places, Goto, lockWords
<1>0. /\ IsFiniteSet(ReadHolders)
      /\ Cardinality(ReadHolders) \in Nat
      /\ Cardinality(ReadHolders) = 0 <=> ReadHolders = {}
  BY HoldersFinite DEF ReadHolders
<1>1. CASE UNCHANGED vars
  BY <1>1 DEF vars, SpinInv, SpinPlaces, WriterInv, CountInv, TestInv, WriterPlaces,
     Exclusion, NoOrphanRequest, ReadHolders, WriteHolders
<1>2. ASSUME NEW p \in Procs, WriteCall(p) PROVE IInv'
  <2>1. ReadHolders' = ReadHolders /\ WriteHolders' = WriteHolders
    BY <1>2 DEF WriteCall, ReadHolders, WriteHolders
  <2>2. QED
    BY <1>2, <2>1 DEF WriteCall, SpinInv, SpinPlaces, WriterInv, CountInv, TestInv,
       WriterPlaces, Exclusion, NoOrphanRequest
<1>3. ASSUME NEW p \in Procs, ReadCall(p) PROVE IInv'
  <2>1. ReadHolders' = ReadHolders /\ WriteHolders' = WriteHolders
    BY <1>3 DEF ReadCall, ReadHolders, WriteHolders
  <2>2. QED
    BY <1>3, <2>1 DEF ReadCall, SpinInv, SpinPlaces, WriterInv, CountInv, TestInv,
       WriterPlaces, Exclusion, NoOrphanRequest
<1>4. ASSUME NEW p \in Procs, WriteSpin(p) PROVE IInv'
  <2>1. ReadHolders' = ReadHolders /\ WriteHolders' = WriteHolders
    BY <1>4 DEF WriteSpin, AcquireSpin, ReadHolders, WriteHolders
  <2>2. QED
    BY <1>4, <2>1, FreeAssumption DEF WriteSpin, AcquireSpin, SpinInv, SpinPlaces,
       WriterInv, CountInv, TestInv, WriterPlaces, Exclusion, NoOrphanRequest
<1>5. ASSUME NEW p \in Procs, ReadSpin(p) PROVE IInv'
  <2>1. ReadHolders' = ReadHolders /\ WriteHolders' = WriteHolders
    BY <1>5 DEF ReadSpin, AcquireSpin, ReadHolders, WriteHolders
  <2>2. QED
    BY <1>5, <2>1, FreeAssumption DEF ReadSpin, AcquireSpin, SpinInv, SpinPlaces,
       WriterInv, CountInv, TestInv, WriterPlaces, Exclusion, NoOrphanRequest
<1>6. ASSUME NEW p \in Procs, WriteTest(p) PROVE IInv'
  <2>1. ReadHolders' = ReadHolders /\ WriteHolders' = WriteHolders
    BY <1>6 DEF WriteTest, ReadHolders, WriteHolders
  <2>2. QED
    BY <1>6, <2>1 DEF WriteTest, SpinInv, SpinPlaces, WriterInv, CountInv, TestInv,
       WriterPlaces, Exclusion, NoOrphanRequest
<1>7. ASSUME NEW p \in Procs, WriteGrant(p) PROVE IInv'
  <2>1. ReadHolders' = ReadHolders /\ ReadHolders = {}
    BY <1>7, <1>0 DEF WriteGrant, ReadHolders, CountInv, TestInv
  <2>2. WriteHolders = {}
    BY <1>7 DEF TestInv, WriterInv, WriteGrant
  <2>3. WriteHolders' = {p}
    BY <1>7, <2>2 DEF WriteGrant, WriteHolders
  <2>4. num_writers' = 1 /\ num_readers' = 0
    BY <1>7 DEF WriteGrant, TestInv
  <2>5. SpinInv' /\ TestInv' /\ TypeOK'
    BY <1>7, <2>4 DEF WriteGrant, SpinInv, SpinPlaces, TestInv
  <2>6. CountInv' /\ WriterPlaces' /\ NoOrphanRequest'
    BY <1>7, <2>1 DEF WriteGrant, CountInv, WriterPlaces, NoOrphanRequest
  <2>7. QED
    BY <2>1, <2>3, <2>4, <2>5, <2>6 DEF WriterInv, Exclusion
<1>8. ASSUME NEW p \in Procs, WriteRequest(p) PROVE IInv'
  <2>1. ReadHolders' = ReadHolders /\ WriteHolders' = WriteHolders
    BY <1>8 DEF WriteRequest, ReadHolders, WriteHolders
  <2>2. QED
    BY <1>8, <2>1 DEF WriteRequest, SpinInv, SpinPlaces, WriterInv, CountInv, TestInv,
       WriterPlaces, Exclusion, NoOrphanRequest
<1>9. ASSUME NEW p \in Procs, ReadTest(p) PROVE IInv'
  <2>1. ReadHolders' = ReadHolders /\ WriteHolders' = WriteHolders
    BY <1>9 DEF ReadTest, ReadHolders, WriteHolders
  <2>2. QED
    BY <1>9, <2>1 DEF ReadTest, SpinInv, SpinPlaces, WriterInv, CountInv, TestInv,
       WriterPlaces, Exclusion, NoOrphanRequest
<1>10. ASSUME NEW p \in Procs, ReadBack(p) PROVE IInv'
  <2>1. ReadHolders' = ReadHolders /\ WriteHolders' = WriteHolders
    BY <1>10 DEF ReadBack, ReadHolders, WriteHolders
  <2>2. QED
    BY <1>10, <2>1 DEF ReadBack, SpinInv, SpinPlaces, WriterInv, CountInv, TestInv,
       WriterPlaces, Exclusion, NoOrphanRequest
<1>11. ASSUME NEW p \in Procs, ReadLoad(p) PROVE IInv'
  <2>1. ReadHolders' = ReadHolders /\ WriteHolders' = WriteHolders
    BY <1>11 DEF ReadLoad, ReadHolders, WriteHolders
  <2>2. QED
    BY <1>11, <2>1 DEF ReadLoad, SpinInv, SpinPlaces, WriterInv, CountInv, TestInv,
       WriterPlaces, Exclusion, NoOrphanRequest
<1>12. ASSUME NEW p \in Procs, ReadStore(p) PROVE IInv'
  <2>1. ReadHolders' = ReadHolders \cup {p} /\ p \notin ReadHolders
    BY <1>12 DEF ReadStore, ReadHolders
  <2>2. Cardinality(ReadHolders') = Cardinality(ReadHolders) + 1
    BY <1>0, <2>1, FS_AddElement
  <2>3. Cardinality(ReadHolders') <= num_readers'
    BY <1>0, <1>12, <2>2 DEF ReadStore, CountInv
  <2>4. WriteHolders' = WriteHolders /\ WriteHolders = {}
    BY <1>12 DEF ReadStore, WriteHolders, TestInv, WriterInv
  <2>5. SpinInv' /\ TestInv' /\ TypeOK'
    BY <1>12 DEF ReadStore, SpinInv, SpinPlaces, TestInv
  <2>6. CountInv'
    BY <1>12, <2>3 DEF ReadStore, CountInv, SpinInv, SpinPlaces
  <2>7. WriterPlaces' /\ NoOrphanRequest' /\ WriterInv'
    BY <1>12, <2>4 DEF ReadStore, WriterPlaces, NoOrphanRequest, WriterInv
  <2>8. QED
    BY <2>4, <2>5, <2>6, <2>7 DEF Exclusion
<1>13. ASSUME NEW p \in Procs, ReleaseTest(p) PROVE IInv'
  <2>1. /\ pc[p] = "reading" => num_writers = 0
        /\ pc[p] = "writing" => num_writers = 1
    BY DEF Exclusion, WriterInv, ReadHolders, WriteHolders
  <2>2. ReadHolders' = ReadHolders /\ WriteHolders' = WriteHolders
    BY <1>13, <2>1 DEF ReleaseTest, ReadHolders, WriteHolders
  <2>3. QED
    BY <1>13, <2>1, <2>2 DEF ReleaseTest, SpinInv, SpinPlaces, WriterInv, CountInv,
       TestInv, WriterPlaces, Exclusion, NoOrphanRequest
<1>14. ASSUME NEW p \in Procs, ReleaseRequest(p) PROVE IInv'
  <2>1. ReadHolders' = ReadHolders /\ WriteHolders' = WriteHolders
    BY <1>14 DEF ReleaseRequest, ReadHolders, WriteHolders
  <2>2. QED
    BY <1>14, <2>1 DEF ReleaseRequest, SpinInv, SpinPlaces, WriterInv, CountInv,
       TestInv, WriterPlaces, Exclusion, NoOrphanRequest
<1>15. ASSUME NEW p \in Procs, ReleaseWriter(p) PROVE IInv'
  <2>1. ReadHolders' = ReadHolders
    BY <1>15 DEF ReleaseWriter, ReadHolders
  <2>2. WriteHolders' = {}
    BY <1>15 DEF ReleaseWriter, WriteHolders, Exclusion
  <2>3. QED
    BY <1>15, <2>1, <2>2 DEF ReleaseWriter, SpinInv, SpinPlaces, WriterInv, CountInv,
       TestInv, WriterPlaces, Exclusion, NoOrphanRequest
<1>16. ASSUME NEW p \in Procs, ReleaseReader(p) PROVE IInv'
  <2>1. p \in ReadHolders /\ ReadHolders' = ReadHolders \ {p}
    BY <1>16 DEF ReleaseReader, ReadHolders
  <2>2. Cardinality(ReadHolders') = Cardinality(ReadHolders) - 1
    BY <1>0, <2>1, FS_RemoveElement
  <2>3. num_readers >= 1 /\ num_readers' = num_readers - 1
    BY <1>0, <1>16, <2>1 DEF ReleaseReader, CountInv
  <2>4. CountInv'
    BY <1>0, <1>16, <2>2, <2>3 DEF ReleaseReader, CountInv
  <2>5. WriteHolders' = WriteHolders /\ WriteHolders = {}
    BY <1>16, <2>1 DEF ReleaseReader, WriteHolders, Exclusion
  <2>6. SpinInv' /\ TypeOK' /\ TestInv'
    BY <1>16, <2>3 DEF ReleaseReader, SpinInv, SpinPlaces, TestInv
  <2>7. QED
    BY <1>16, <2>4, <2>5, <2>6 DEF ReleaseReader, WriterInv, WriterPlaces,
       Exclusion, NoOrphanRequest
<1>17. QED
  BY <1>1, <1>2, <1>3, <1>4, <1>5, <1>6, <1>7, <1>8, <1>9, <1>10, <1>11, <1>12,
     <1>13, <1>14, <1>15, <1>16 DEF Next, Call, Step

\* The inductive invariant holds throughout.
THEOREM Invariance == Spec => []IInv
<1>1. QED
  BY InitEstablishes, StepPreserves, PTL DEF Spec

\* Mutual exclusion of rwlock.c, for any number of threads: neither the
\* unlocked stores of rwlock_release nor a lost decrement of num_readers
\* ever lets a writer in beside another holder.
THEOREM LockExclusion == Spec => []Exclusion
<1>1. IInv => Exclusion
  BY DEF IInv
<1>2. QED
  BY <1>1, Invariance, PTL

\* The words of struct rwlock stay in their ranges: num_readers is never
\* decremented below zero and num_writers never counts two.
THEOREM LockTypeOK == Spec => []TypeOK
<1>1. IInv => TypeOK
  BY DEF IInv
<1>2. QED
  BY <1>1, Invariance, PTL

\* A raised write_request always has a thread that will lower it.
THEOREM RequestHasOwner == Spec => []NoOrphanRequest
<1>1. IInv => NoOrphanRequest
  BY DEF IInv
<1>2. QED
  BY <1>1, Invariance, PTL

\* Every step of the code is a grant, a release or no change of the abstract
\* lock.
LEMMA StepSimulates == IInv /\ [Next]_vars => [Abstract!LockNext]_(Abstract!lockVars)
<1> SUFFICES ASSUME IInv, [Next]_vars
             PROVE  \/ ReadHolders' = ReadHolders /\ WriteHolders' = WriteHolders
                    \/ Abstract!LockNext
  BY DEF Abstract!lockVars
<1> USE DEF IInv, TypeOK, Places, Goto, lockWords
<1>1. CASE UNCHANGED vars
  BY <1>1 DEF vars, ReadHolders, WriteHolders
<1>2. ASSUME NEW p \in Procs,
             \/ WriteCall(p) \/ ReadCall(p) \/ WriteSpin(p) \/ ReadSpin(p)
             \/ WriteTest(p) \/ WriteRequest(p) \/ ReadTest(p) \/ ReadBack(p)
             \/ ReadLoad(p) \/ ReleaseRequest(p)
      PROVE  ReadHolders' = ReadHolders /\ WriteHolders' = WriteHolders
  BY <1>2 DEF ReadHolders, WriteHolders, WriteCall, ReadCall, WriteSpin, ReadSpin,
     AcquireSpin, WriteTest, WriteRequest, ReadTest, ReadBack, ReadLoad, ReleaseRequest
<1>3. ASSUME NEW p \in Procs, ReleaseTest(p)
      PROVE  ReadHolders' = ReadHolders /\ WriteHolders' = WriteHolders
  <2>1. /\ pc[p] = "reading" => num_writers = 0
        /\ pc[p] = "writing" => num_writers = 1
    BY DEF Exclusion, WriterInv, ReadHolders, WriteHolders
  <2>2. QED
    BY <1>3, <2>1 DEF ReleaseTest, ReadHolders, WriteHolders
<1>4. ASSUME NEW p \in Procs, WriteGrant(p) PROVE Abstract!AcquireWrite(p)
  <2>1. Cardinality(ReadHolders) \in Nat /\ (Cardinality(ReadHolders) = 0 <=> ReadHolders = {})
    BY HoldersFinite DEF ReadHolders
  <2>2. ReadHolders = {} /\ WriteHolders = {}
    BY <1>4, <2>1 DEF WriteGrant, CountInv, TestInv, WriterInv
  <2>3. ReadHolders' = ReadHolders /\ WriteHolders' = {p}
    BY <1>4, <2>2 DEF WriteGrant, ReadHolders, WriteHolders
  <2>4. QED
    BY <2>2, <2>3 DEF Abstract!AcquireWrite
<1>5. ASSUME NEW p \in Procs, ReadStore(p) PROVE Abstract!AcquireRead(p)
  <2>1. WriteHolders = {} /\ WriteHolders' = WriteHolders
    BY <1>5 DEF ReadStore, TestInv, WriterInv, WriteHolders
  <2>2. ReadHolders' = ReadHolders \cup {p}
    BY <1>5 DEF ReadStore, ReadHolders
  <2>3. QED
    BY <2>1, <2>2 DEF Abstract!AcquireRead
<1>6. ASSUME NEW p \in Procs, ReleaseWriter(p) PROVE Abstract!ReleaseWrite(p)
  <2>1. p \in WriteHolders /\ WriteHolders' = WriteHolders \ {p}
    BY <1>6 DEF ReleaseWriter, WriteHolders
  <2>2. ReadHolders' = ReadHolders
    BY <1>6 DEF ReleaseWriter, ReadHolders
  <2>3. QED
    BY <2>1, <2>2 DEF Abstract!ReleaseWrite
<1>7. ASSUME NEW p \in Procs, ReleaseReader(p) PROVE Abstract!ReleaseRead(p)
  <2>1. p \in ReadHolders /\ ReadHolders' = ReadHolders \ {p}
    BY <1>7 DEF ReleaseReader, ReadHolders
  <2>2. WriteHolders' = WriteHolders
    BY <1>7 DEF ReleaseReader, WriteHolders
  <2>3. QED
    BY <2>1, <2>2 DEF Abstract!ReleaseRead
<1>8. QED
  BY <1>1, <1>2, <1>3, <1>4, <1>5, <1>6, <1>7 DEF Next, Call, Step, Abstract!LockNext

\* rwlock.c implements the abstract shared lock.
THEOREM LockRefinement == Spec => ImplementsSharedLock
<1>1. Init => Abstract!LockInit
  BY DEF Init, Abstract!LockInit, ReadHolders, WriteHolders
<1>2. QED
  BY <1>1, Invariance, StepSimulates, PTL
     DEF Spec, ImplementsSharedLock, Abstract!LockSpec
=============================================================================
