---------------------------- MODULE AQueueProofs ----------------------------
(***************************************************************************)
(* Proofs about AQueue for every page size and every set of objects: the    *)
(* kernel's use of the paged queue implements a FIFO queue.                 *)
(***************************************************************************)
EXTENDS AQueue, TLAPS

\* Counters and chain agree.
ChainInv == /\ Len(page) = pages
            /\ position <= last_position
            /\ position <= ObjCount
            /\ last_position <= pages * ObjCount

\* The last page of the chain is the one that last_position points into, or
\* the one just behind it while an object is staged there.
LastPageInv == pages > 1 => /\ (pages - 1) * ObjCount <= last_position
                            /\ staging = 0 => (pages - 1) * ObjCount < last_position

\* The staged object sits in the first free slot.
StagedInv == staging = 1 => /\ last_position < pages * ObjCount
                            /\ Object(last_position) = staged

IInv == TypeOK /\ ChainInv /\ LastPageInv /\ StagedInv

-----------------------------------------------------------------------------
\* Division by the page size, as the code uses it.
LEMMA DivMod ==
    ASSUME NEW x \in Nat
    PROVE  /\ x \div ObjCount \in Nat
           /\ (x % ObjCount) \in Slots
           /\ x = ((x \div ObjCount) * ObjCount) + (x % ObjCount)
BY CountAssumption DEF Slots

\* Quotient and remainder are the only ones with this property.
LEMMA DivUnique ==
    ASSUME NEW q \in Nat, NEW r \in Slots
    PROVE  /\ ((q * ObjCount) + r) \div ObjCount = q
           /\ ((q * ObjCount) + r) % ObjCount = r
BY CountAssumption DEF Slots

\* Dropping a page moves a slot one page forward.
LEMMA Shift ==
    ASSUME NEW x \in Nat, x >= ObjCount
    PROVE  /\ (x - ObjCount) \div ObjCount = (x \div ObjCount) - 1
           /\ (x - ObjCount) % ObjCount = x % ObjCount
<1> DEFINE q == x \div ObjCount
           r == x % ObjCount
<1>1. q \in Nat /\ r \in Slots /\ x = (q * ObjCount) + r
  BY DivMod
<1>2. q # 0
  BY <1>1, CountAssumption DEF Slots
<1>3. q - 1 \in Nat /\ x - ObjCount = ((q - 1) * ObjCount) + r
  BY <1>1, <1>2, CountAssumption DEF Slots
<1> HIDE DEF q, r
<1>4. (x - ObjCount) \div ObjCount = q - 1 /\ (x - ObjCount) % ObjCount = r
  BY <1>1, <1>3, DivUnique
<1>5. QED
  BY <1>4 DEF q, r

\* A slot below the end of n pages lies in one of them.
LEMMA InChain ==
    ASSUME NEW x \in Nat, NEW n \in Nat, x < n * ObjCount
    PROVE  (x \div ObjCount) + 1 \in 1 .. n
<1>1. x \div ObjCount \in Nat /\ (x \div ObjCount) * ObjCount <= x
  BY DivMod, CountAssumption DEF Slots
<1>2. x \div ObjCount < n
  BY <1>1, CountAssumption
<1>3. QED
  BY <1>1, <1>2

\* aqueue_init establishes the invariant.
LEMMA InitEstablishes == Init => IInv
<1> SUFFICES ASSUME Init PROVE IInv
  OBVIOUS
<1>1. page \in Seq(Pages) /\ Len(page) = 0
  BY DEF Init
<1>2. TypeOK
  <2>1. staged \in Objects \cup {Nothing} /\ lock \in BOOLEAN
    BY DEF Init
  <2>2. staging = 0 /\ staged = Nothing
    BY DEF Init
  <2>3. staging = 1 <=> staged # Nothing
    BY <2>2
  <2>4. QED
    BY <1>1, <2>1, <2>2, <2>3 DEF Init, TypeOK
<1>3. QED
  BY <1>1, <1>2, CountAssumption DEF Init, IInv, ChainInv, LastPageInv, StagedInv

\* When no page is needed, the last page is the right one: "at this point, page
\* always points to the correct page to use".
LEMMA LastPageIsRight ==
    ASSUME IInv, staging = 0
    PROVE  /\ NeedsPage => pages = last_position \div ObjCount
           /\ ~NeedsPage => pages = (last_position \div ObjCount) + 1
<1> DEFINE d == last_position \div ObjCount
           m == last_position % ObjCount
<1>1. /\ d \in Nat /\ m \in 0 .. ObjCount - 1
      /\ last_position = (d * ObjCount) + m
  BY DivMod DEF IInv, TypeOK, Slots
<1>2. pages \in Nat /\ last_position \in Nat /\ ObjCount \in Nat \ {0}
  BY CountAssumption DEF IInv, TypeOK
<1>3. last_position <= pages * ObjCount
  BY DEF IInv, ChainInv
<1>4. d <= pages /\ (m # 0 => d < pages)
  <2>1. d * ObjCount <= pages * ObjCount
    BY <1>1, <1>2, <1>3
  <2>2. m # 0 => d * ObjCount < pages * ObjCount
    BY <1>1, <1>2, <1>3
  <2>3. QED
    BY <2>1, <2>2, <1>1, <1>2
<1>5. NeedsPage => pages = d
  BY <1>4, <1>1, <1>2 DEF NeedsPage
<1>6. ASSUME ~NeedsPage PROVE pages = d + 1
  <2>1. d < pages
    BY <1>6, <1>4, <1>1, <1>2 DEF NeedsPage
  <2>2. CASE pages = 1
    BY <2>1, <2>2, <1>1
  <2>3. CASE pages > 1
    <3>1. (pages - 1) * ObjCount < (d * ObjCount) + m
      BY <2>3, <1>1 DEF IInv, LastPageInv
    <3>2. (pages - 1) * ObjCount < (d + 1) * ObjCount
      BY <3>1, <1>1, <1>2
    <3>3. pages - 1 < d + 1
      BY <3>2, <1>1, <1>2
    <3>4. QED
      BY <2>1, <3>3, <1>1, <1>2
  <2>4. QED
    BY <2>1, <2>2, <2>3, <1>1, <1>2
<1>7. QED
  BY <1>5, <1>6

-----------------------------------------------------------------------------
\* aqueue_new writes the first free slot and no other slot of the queue.
LEMMA NewFacts ==
    ASSUME IInv, staging = 0, NEW o \in Objects, New(o)
    PROVE  /\ page' \in Seq(Pages) /\ Len(page') = pages'
           /\ pages' = (last_position \div ObjCount) + 1
           /\ \A k \in 0 .. last_position - 1 : Object(k)' = Object(k)
           /\ Object(last_position)' = o
<1> DEFINE d == last_position \div ObjCount
           m == last_position % ObjCount
           chain == IF NeedsPage THEN Append(page, FreshPage) ELSE page
<1>1. /\ d \in Nat /\ m \in Slots
      /\ last_position = (d * ObjCount) + m
      /\ last_position \in Nat
  BY DivMod DEF IInv, TypeOK
<1>2. /\ NeedsPage => pages = d
      /\ ~NeedsPage => pages = d + 1
  BY LastPageIsRight
<1>3. page \in Seq(Pages) /\ Len(page) = pages /\ FreshPage \in Pages
  BY DEF IInv, TypeOK, ChainInv, FreshPage, Pages
<1>4. chain \in Seq(Pages) /\ Len(chain) = d + 1
  BY <1>1, <1>2, <1>3
<1>5. \A n \in 1 .. Len(page) : n \in 1 .. Len(chain) /\ chain[n] = page[n]
  BY <1>3
<1>6. page' = [chain EXCEPT ![d + 1][m] = o] /\ last_position' = last_position
  BY <1>1, <1>4, SMTT(30) DEF New
<1>7. pages' = d + 1
  BY <1>2, <1>1 DEF New
<1> HIDE DEF chain
<1>8. chain[d + 1] \in Pages /\ d + 1 \in 1 .. Len(chain)
  BY <1>1, <1>4
<1>9. [chain[d + 1] EXCEPT ![m] = o] \in Pages
  BY <1>8, <1>1 DEF Pages
<1>10. /\ page' \in Seq(Pages) /\ Len(page') = d + 1
       /\ page'[d + 1] = [chain[d + 1] EXCEPT ![m] = o]
       /\ \A n \in 1 .. d : page'[n] = chain[n]
  BY <1>1, <1>4, <1>6, <1>8, <1>9
<1>11. Object(last_position)' = o
  BY <1>10, <1>8, <1>1, <1>6 DEF Object, Read, Pages
<1>12. ASSUME NEW k \in 0 .. last_position - 1 PROVE Object(k)' = Object(k)
  <2> DEFINE kd == k \div ObjCount
             km == k % ObjCount
  <2>1. kd \in Nat /\ km \in Slots /\ k = (kd * ObjCount) + km /\ k \in Nat
    BY DivMod, <1>1
  <2>2. last_position <= pages * ObjCount /\ pages \in Nat
    BY DEF IInv, ChainInv, TypeOK
  <2>3. kd + 1 \in 1 .. pages
    <3>1. pages * ObjCount \in Nat
      BY <2>2, CountAssumption
    <3>2. k < pages * ObjCount
      BY <3>1, <2>1, <2>2, <1>1
    <3>3. QED
      BY <3>2, <2>1, <2>2, InChain
  <2>4. kd < d \/ (kd = d /\ km # m)
    <3>1. kd * ObjCount < (d + 1) * ObjCount
      BY <2>1, <1>1, CountAssumption DEF Slots
    <3>2. kd < d + 1
      BY <3>1, <2>1, <1>1, CountAssumption
    <3>3. kd = d => km # m
      BY <2>1, <1>1
    <3>4. QED
      BY <3>2, <3>3, <2>1, <1>1
  <2>5. Read(page, kd + 1, km) = page[kd + 1][km] /\ chain[kd + 1] = page[kd + 1]
    BY <2>3, <1>3, <1>5 DEF Read
  <2>6. page'[kd + 1][km] = chain[kd + 1][km]
    <3>1. CASE kd < d
      BY <3>1, <1>10, <2>1, <1>1
    <3>2. CASE kd = d /\ km # m
      BY <3>2, <1>10, <1>8, <2>1, <1>1 DEF Pages
    <3>3. QED
      BY <2>4, <3>1, <3>2
  <2>7. Read(page', kd + 1, km) = page'[kd + 1][km]
    BY <1>10, <2>1, <2>4, <1>1 DEF Read
  <2>8. QED
    BY <2>5, <2>6, <2>7 DEF Object
<1>13. QED
  BY <1>10, <1>7, <1>11, <1>12

\* aqueue_next returns the oldest object and keeps the others in place, a page
\* further to the front when it has freed one.
LEMMA NextFacts ==
    ASSUME IInv, staging = 0, NextObject
    PROVE  /\ page' \in Seq(Pages) /\ Len(page') = pages'
           /\ PassedPages \in {0, 1} /\ (PassedPages = 1 <=> position = ObjCount)
           /\ PassedPages = 1 => pages > 1
           /\ taken' = Object(position)
           /\ \A k \in Nat : Object(k)' = Object(k + (PassedPages * ObjCount))
<1>0. /\ position \in Nat /\ last_position \in Nat /\ pages \in Nat
      /\ position <= ObjCount /\ position < last_position
      /\ last_position <= pages * ObjCount
      /\ page \in Seq(Pages) /\ Len(page) = pages
      /\ ObjCount \in Nat \ {0}
  BY CountAssumption DEF IInv, TypeOK, ChainInv, NextObject
<1>1. (position < ObjCount /\ PassedPages = 0 /\ position % ObjCount = position)
      \/ (position = ObjCount /\ PassedPages = 1 /\ position % ObjCount = 0)
  <2>1. CASE position < ObjCount
    <3>1. position = (0 * ObjCount) + position /\ position \in Slots
      BY <2>1, <1>0 DEF Slots
    <3>2. ((0 * ObjCount) + position) \div ObjCount = 0
          /\ ((0 * ObjCount) + position) % ObjCount = position
      BY <3>1, DivUnique
    <3>3. QED
      BY <3>1, <3>2, <2>1 DEF PassedPages
  <2>2. CASE position = ObjCount
    <3>1. position = (1 * ObjCount) + 0 /\ 0 \in Slots
      BY <2>2, <1>0 DEF Slots
    <3>2. ((1 * ObjCount) + 0) \div ObjCount = 1 /\ ((1 * ObjCount) + 0) % ObjCount = 0
      BY <3>1, DivUnique
    <3>3. QED
      BY <3>1, <3>2, <2>2 DEF PassedPages
  <2>3. QED
    BY <2>1, <2>2, <1>0
<1>2. pages >= 1 /\ (PassedPages = 1 => pages > 1)
  <2>1. pages # 0
    BY <1>0
  <2>2. position = ObjCount => pages # 1
    BY <1>0
  <2>3. QED
    BY <2>1, <2>2, <1>0, <1>1
<1>3. CASE PassedPages = 0
  <2>1. page' = page
    BY <1>0, <1>3 DEF NextObject
  <2>2. taken' = Object(position)
    <3>1. taken' = Read(page', 1, position % ObjCount)
      BY DEF NextObject
    <3>2. (position \div ObjCount) + 1 = 1
      BY <1>3 DEF PassedPages
    <3>3. QED
      BY <3>1, <3>2, <2>1 DEF Object
  <2>3. \A k \in Nat : Object(k)' = Object(k + (PassedPages * ObjCount))
    BY <2>1, <1>3, <1>0 DEF Object
  <2>4. pages' = pages
    BY <1>3, <1>0 DEF NextObject
  <2>5. QED
    BY <1>0, <1>1, <1>2, <2>1, <2>2, <2>3, <2>4
<1>4. CASE PassedPages = 1
  <2>1. page' = SubSeq(page, 2, Len(page)) /\ pages' = pages - 1
    BY <1>4 DEF NextObject
  <2>2. /\ page' \in Seq(Pages) /\ Len(page') = pages - 1
        /\ \A n \in 1 .. pages - 1 : page'[n] = page[n + 1]
    BY <2>1, <1>0, <1>2, <1>4
  <2>3. \A n \in Nat \ {0}, s \in Slots : Read(page', n, s) = Read(page, n + 1, s)
    BY <2>2, <1>0, <1>2, <1>4 DEF Read
  <2>4. taken' = Object(position)
    BY <2>3, <1>0, <1>1, <1>4 DEF NextObject, Object, PassedPages, Slots
  <2>5. ASSUME NEW k \in Nat PROVE Object(k)' = Object(k + ObjCount)
    <3>1. k + ObjCount \in Nat /\ k + ObjCount >= ObjCount /\ (k + ObjCount) - ObjCount = k
      BY <1>0
    <3>2. /\ k \div ObjCount = ((k + ObjCount) \div ObjCount) - 1
          /\ k % ObjCount = (k + ObjCount) % ObjCount
      BY <3>1, Shift
    <3>3. k \div ObjCount \in Nat /\ (k + ObjCount) \div ObjCount \in Nat
          /\ (k % ObjCount) \in Slots
      BY <3>1, DivMod
    <3>4. QED
      BY <2>3, <3>2, <3>3 DEF Object
  <2>6. QED
    BY <1>0, <1>1, <1>2, <1>4, <2>1, <2>2, <2>4, <2>5
<1>5. QED
  BY <1>1, <1>3, <1>4

-----------------------------------------------------------------------------
\* Every operation of the kernel's callers preserves the invariant.
LEMMA StepPreserves == IInv /\ [KernelNext]_vars => IInv'
<1> SUFFICES ASSUME IInv, [KernelNext]_vars PROVE IInv'
  OBVIOUS
<1>0. /\ position \in Nat /\ last_position \in Nat /\ pages \in Nat
      /\ position <= last_position /\ position <= ObjCount
      /\ last_position <= pages * ObjCount
      /\ page \in Seq(Pages) /\ Len(page) = pages
      /\ ObjCount \in Nat \ {0}
  BY CountAssumption DEF IInv, TypeOK, ChainInv
<1>1. CASE UNCHANGED vars
  BY <1>1 DEF vars, IInv, TypeOK, ChainInv, LastPageInv, StagedInv, Object
<1>2. CASE Lock
  BY <1>2 DEF Lock, IInv, TypeOK, ChainInv, LastPageInv, StagedInv, Object
<1>3. CASE staging = 0 /\ Unlock
  <2>1. TypeOK'
    <3>1. lock' \in BOOLEAN
      BY <1>3 DEF Unlock
    <3>2. /\ staging' = 0 /\ staged' = Nothing
          /\ UNCHANGED <<page, pages, position, last_position>>
      BY <1>3 DEF Unlock
    <3>3. QED
      BY <3>1, <3>2, <1>0 DEF TypeOK
  <2>2. QED
    BY <1>3, <2>1 DEF Unlock, IInv, ChainInv, LastPageInv, StagedInv, Object
<1>4. ASSUME staging = 0, NEW o \in Objects, New(o) PROVE IInv'
  <2> DEFINE d == last_position \div ObjCount
  <2>1. /\ page' \in Seq(Pages) /\ Len(page') = pages' /\ pages' = d + 1
        /\ Object(last_position)' = o
    BY <1>4, NewFacts
  <2>2. /\ position' = position /\ last_position' = last_position
        /\ staging' = 1 /\ staged' = o /\ lock' = lock
    BY <1>4 DEF New
  <2>3. d \in Nat /\ d * ObjCount <= last_position /\ last_position < (d + 1) * ObjCount
    <3>1. /\ d \in Nat /\ (last_position % ObjCount) \in 0 .. ObjCount - 1
          /\ last_position = (d * ObjCount) + (last_position % ObjCount)
      BY <1>0, DivMod DEF Slots
    <3> HIDE DEF d
    <3>2. (d + 1) * ObjCount = (d * ObjCount) + ObjCount /\ d * ObjCount \in Nat
      BY <3>1, <1>0
    <3>3. QED
      BY <3>1, <3>2, <1>0
  <2>4. TypeOK'
    BY <2>1, <2>2, <2>3, ObjectAssumption DEF IInv, TypeOK
  <2>5. ChainInv'
    BY <2>1, <2>2, <2>3, <1>0 DEF ChainInv
  <2>6. LastPageInv'
    BY <2>1, <2>2, <2>3, <1>0 DEF LastPageInv
  <2>7. StagedInv'
    BY <2>1, <2>2, <2>3 DEF StagedInv
  <2>8. QED
    BY <2>4, <2>5, <2>6, <2>7 DEF IInv
<1>5. CASE Save
  <2>1. CASE staging = 1
    <3>1. /\ last_position' = last_position + 1 /\ last_position < pages * ObjCount
          /\ staging' = 0 /\ staged' = Nothing /\ lock' = lock
          /\ UNCHANGED <<page, pages, position>>
      BY <1>5, <2>1 DEF Save, IInv, StagedInv
    <3>2. TypeOK'
      BY <3>1, <1>0 DEF IInv, TypeOK
    <3>3. ChainInv'
      BY <3>1, <1>0 DEF ChainInv
    <3>4. LastPageInv'
      BY <3>1, <1>0 DEF IInv, LastPageInv
    <3>5. QED
      BY <3>1, <3>2, <3>3, <3>4 DEF IInv, StagedInv
  <2>2. CASE staging = 0
    <3>1. /\ staging' = 0 /\ staged' = Nothing /\ lock' = lock
          /\ UNCHANGED <<page, pages, position, last_position>>
      BY <1>5, <2>2 DEF Save
    <3>2. TypeOK'
      BY <3>1, <1>0 DEF IInv, TypeOK
    <3>3. QED
      BY <3>1, <3>2, <2>2 DEF IInv, ChainInv, LastPageInv, StagedInv
  <2>3. QED
    BY <2>1, <2>2 DEF IInv, TypeOK
<1>6. CASE Get
  BY <1>6 DEF Get, IInv, TypeOK, ChainInv, LastPageInv, StagedInv, Object
<1>7. CASE NewFails
  BY <1>7 DEF NewFails, vars, IInv, TypeOK, ChainInv, LastPageInv, StagedInv, Object
<1>8. CASE staging = 0 /\ NextEmpty
  <2>1. /\ position' = 0 /\ last_position' = 0 /\ position = last_position
        /\ UNCHANGED <<page, pages, staging, staged, lock>>
    BY <1>8 DEF NextEmpty
  <2>2. ~(pages > 1)
    BY <1>0, <1>8, <2>1 DEF IInv, LastPageInv
  <2>3. TypeOK'
    BY <2>1, <1>0 DEF IInv, TypeOK
  <2>4. ChainInv'
    BY <2>1, <1>0 DEF ChainInv
  <2>5. QED
    BY <2>1, <2>2, <2>3, <2>4, <1>8 DEF IInv, LastPageInv, StagedInv
<1>9. CASE staging = 0 /\ NextObject
  <2>1. /\ page' \in Seq(Pages) /\ Len(page') = pages'
        /\ PassedPages \in {0, 1} /\ (PassedPages = 1 <=> position = ObjCount)
        /\ PassedPages = 1 => pages > 1
    BY <1>9, NextFacts
  <2>2. /\ pages' = pages - PassedPages
        /\ last_position' = last_position - (PassedPages * ObjCount)
        /\ position' = (position - (PassedPages * ObjCount)) + 1
        /\ position # last_position
        /\ UNCHANGED <<staging, staged, lock>>
    BY <1>9 DEF NextObject
  <2> HIDE DEF PassedPages
  <2>3. CASE PassedPages = 0
    <3>1. pages' = pages /\ last_position' = last_position /\ position' = position + 1
      BY <2>2, <2>3, <1>0
    <3>2. TypeOK'
      BY <2>1, <2>2, <3>1, <1>0 DEF IInv, TypeOK
    <3>3. ChainInv' /\ LastPageInv'
      BY <2>1, <2>2, <2>3, <3>1, <1>0, <1>9 DEF IInv, ChainInv, LastPageInv
    <3>4. QED
      BY <3>2, <3>3, <2>2, <1>9 DEF IInv, StagedInv
  <2>4. CASE PassedPages = 1
    <3>1. /\ pages' = pages - 1 /\ last_position' = last_position - ObjCount
          /\ position' = 1 /\ position = ObjCount /\ pages > 1
      BY <2>1, <2>2, <2>4, <1>0
    <3>2. TypeOK'
      BY <2>1, <2>2, <3>1, <1>0 DEF IInv, TypeOK
    <3>3. ChainInv'
      BY <2>1, <2>2, <3>1, <1>0 DEF ChainInv
    <3>4. LastPageInv'
      BY <3>1, <1>0, <1>9 DEF IInv, LastPageInv
    <3>5. QED
      BY <3>2, <3>3, <3>4, <2>2, <1>9 DEF IInv, StagedInv
  <2>5. QED
    BY <2>1, <2>3, <2>4
<1>10. CASE Reset
  <2>1. /\ page' = <<>> /\ pages' = 0 /\ position' = 0 /\ last_position' = 0
        /\ staging' = 0 /\ staged' = Nothing /\ lock' = lock
    BY <1>10 DEF Reset
  <2>2. page' \in Seq(Pages) /\ Len(page') = 0
    BY <2>1
  <2>3. TypeOK'
    BY <2>1, <2>2 DEF IInv, TypeOK
  <2>4. QED
    BY <2>1, <2>2, <2>3, <1>0 DEF IInv, ChainInv, LastPageInv, StagedInv
<1>11. QED
  BY <1>1, <1>2, <1>3, <1>4, <1>5, <1>6, <1>7, <1>8, <1>9, <1>10 DEF KernelNext

\* The invariant holds throughout.
THEOREM Invariance == Spec => []IInv
<1>1. QED
  BY InitEstablishes, StepPreserves, PTL DEF Spec

\* The chain, the counters and the staged slot keep their types: aqueue_next
\* never frees a page too many and aqueue_new never writes through NULL.
THEOREM QueueTypeOK == Spec => []TypeOK
<1>1. IInv => TypeOK
  BY DEF IInv
<1>2. QED
  BY <1>1, Invariance, PTL

\* The memory of a queue follows its size, for every page size.
THEOREM QueueMemory == Spec => []PagesFollowSize
<1>1. ASSUME IInv PROVE PagesFollowSize
  <2>1. /\ position \in Nat /\ last_position \in Nat /\ pages \in Nat
        /\ position <= ObjCount /\ position <= last_position /\ ObjCount \in Nat \ {0}
    BY <1>1, CountAssumption DEF IInv, TypeOK, ChainInv
  <2>2. CASE pages > 1
    <3>1. (pages - 1) * ObjCount <= last_position
      BY <1>1, <2>2 DEF IInv, LastPageInv
    <3>2. pages * ObjCount = ((pages - 1) * ObjCount) + ObjCount
      BY <2>1
    <3>3. QED
      BY <2>1, <3>1, <3>2 DEF PagesFollowSize, Size
  <2>3. CASE pages <= 1
    BY <2>1, <2>3 DEF PagesFollowSize, Size
  <2>4. QED
    BY <2>1, <2>2, <2>3
<1>2. QED
  BY <1>1, Invariance, PTL

-----------------------------------------------------------------------------
\* Two sequences given by their elements are equal when the elements are.
LEMMA ContentsUnchanged ==
    ASSUME IInv, IInv', last_position' = last_position, position' = position,
           \A k \in 0 .. last_position - 1 : Object(k)' = Object(k)
    PROVE  Contents' = Contents
<1>1. position \in Nat /\ last_position \in Nat /\ position <= last_position
  BY DEF IInv, TypeOK, ChainInv
<1>2. Size' = Size /\ Size \in Nat
  BY <1>1 DEF Size
<1>3. ASSUME NEW i \in 1 .. Size PROVE Object(position + i - 1)' = Object(position + i - 1)
  <2>1. position + i - 1 \in 0 .. last_position - 1
    BY <1>1 DEF Size
  <2>2. QED
    BY <2>1 DEF Object
<1>4. QED
  BY <1>2, <1>3 DEF Contents

\* Every operation of the code is an operation of the FIFO, or changes nothing
\* of it.
LEMMA StepSimulates ==
    IInv /\ IInv' /\ [KernelNext]_vars => [Abstract!FifoNext]_(Abstract!fifoVars)
<1> SUFFICES ASSUME IInv, IInv', [KernelNext]_vars
             PROVE  \/ Contents' = Contents /\ UNCHANGED <<staged, taken>>
                    \/ Abstract!FifoNext
  BY DEF Abstract!fifoVars
<1>0. /\ position \in Nat /\ last_position \in Nat
      /\ position <= last_position /\ position <= ObjCount
      /\ ObjCount \in Nat \ {0} /\ Size \in Nat
      /\ staged \in Objects \cup {Nothing} /\ (staging = 1 <=> staged # Nothing)
  BY CountAssumption DEF IInv, TypeOK, ChainInv, Size
<1>1. CASE UNCHANGED vars \/ Lock \/ Get \/ NewFails
  <2>1. UNCHANGED <<page, position, last_position, staged, taken>>
    BY <1>1 DEF vars, Lock, Get, NewFails
  <2>2. QED
    BY <2>1 DEF Contents, Size, Object
<1>2. CASE staging = 0 /\ Unlock
  <2>1. UNCHANGED <<page, position, last_position, taken>> /\ staged' = Nothing
    BY <1>2 DEF Unlock
  <2>2. Contents' = Contents
    BY <2>1 DEF Contents, Size, Object
  <2>3. staged = Nothing
    BY <1>2, <1>0
  <2>4. QED
    BY <2>1, <2>2, <2>3
<1>3. ASSUME staging = 0, NEW o \in Objects, New(o) PROVE Abstract!Stage(o)
  <2>1. /\ \A k \in 0 .. last_position - 1 : Object(k)' = Object(k)
        /\ UNCHANGED <<position, last_position, taken>> /\ staged' = o
    BY <1>3, NewFacts DEF New
  <2>2. Contents' = Contents
    BY <2>1, ContentsUnchanged
  <2>3. QED
    BY <2>1, <2>2 DEF Abstract!Stage
<1>4. CASE Save
  <2>1. CASE staging = 1
    <3>1. /\ last_position' = last_position + 1 /\ staged' = Nothing
          /\ UNCHANGED <<page, position, taken>>
          /\ staged # Nothing /\ Object(last_position) = staged
      BY <1>4, <2>1, <1>0 DEF Save, IInv, StagedInv
    <3>2. Size' = Size + 1 /\ position + Size = last_position
      BY <3>1, <1>0 DEF Size
    <3>3. Contents' = [i \in 1 .. Size + 1 |-> Object(position + i - 1)]
      BY <3>1, <3>2 DEF Contents, Object
    <3>4. Object(position + (Size + 1) - 1) = staged
      BY <3>1, <3>2, <1>0
    <3>5. Contents' = Append(Contents, staged)
      <4> DEFINE T == {Object(k) : k \in Nat}
      <4>1. \A i \in 1 .. Size + 1 : Object(position + i - 1) \in T
        <5>1. \A i \in 1 .. Size + 1 : position + i - 1 \in Nat
          BY <1>0
        <5>2. QED
          BY <5>1
      <4>2. staged \in T
        BY <3>1, <1>0
      <4> HIDE DEF T
      <4>3. Contents \in Seq(T) /\ Len(Contents) = Size
        BY <4>1, <1>0 DEF Contents
      <4>4. /\ Append(Contents, staged) \in Seq(T)
            /\ Len(Append(Contents, staged)) = Size + 1
            /\ Append(Contents, staged)[Size + 1] = staged
            /\ \A i \in 1 .. Size : Append(Contents, staged)[i] = Contents[i]
        BY <4>2, <4>3, <1>0
      <4>5. Contents' \in Seq(T) /\ Len(Contents') = Size + 1
        BY <3>3, <4>1, <1>0
      <4>6. \A i \in 1 .. Size + 1 : Contents'[i] = Append(Contents, staged)[i]
        <5>1. ASSUME NEW i \in 1 .. Size PROVE Contents'[i] = Append(Contents, staged)[i]
          <6>1. Contents[i] = Object(position + i - 1)
            BY <1>0 DEF Contents
          <6>2. Contents'[i] = Object(position + i - 1)
            BY <3>3, <1>0
          <6>3. QED
            BY <6>1, <6>2, <4>4
        <5>2. Contents'[Size + 1] = staged
          BY <3>3, <3>4, <1>0
        <5>3. QED
          BY <5>1, <5>2, <4>4, <1>0
      <4>7. QED
        BY <4>4, <4>5, <4>6
    <3>6. QED
      BY <3>1, <3>5 DEF Abstract!FifoNext, Abstract!Save
  <2>2. CASE staging = 0
    <3>1. UNCHANGED <<page, position, last_position, taken>> /\ staged' = Nothing
          /\ staged = Nothing
      BY <1>4, <2>2, <1>0 DEF Save
    <3>2. QED
      BY <3>1 DEF Contents, Size, Object
  <2>3. QED
    BY <2>1, <2>2 DEF IInv, TypeOK
<1>5. CASE staging = 0 /\ NextEmpty
  <2>1. /\ Size = 0 /\ Size' = 0 /\ taken' = Nothing /\ staged' = staged
    BY <1>5, <1>0 DEF NextEmpty, Size
  <2>2. Contents = <<>> /\ Contents' = <<>>
    BY <2>1 DEF Contents
  <2>3. QED
    BY <2>1, <2>2 DEF Abstract!FifoNext, Abstract!TakeNothing
<1>6. CASE staging = 0 /\ NextObject
  <2>1. /\ PassedPages \in {0, 1} /\ (PassedPages = 1 <=> position = ObjCount)
        /\ taken' = Object(position)
        /\ \A k \in Nat : Object(k)' = Object(k + (PassedPages * ObjCount))
    BY <1>6, NextFacts
  <2>2. /\ last_position' = last_position - (PassedPages * ObjCount)
        /\ position' = (position - (PassedPages * ObjCount)) + 1
        /\ position # last_position /\ staged' = staged
    BY <1>6 DEF NextObject
  <2> HIDE DEF PassedPages
  <2> DEFINE shift == PassedPages * ObjCount
  <2>3. shift \in Nat /\ shift <= position
    BY <2>1, <1>0
  <2> HIDE DEF shift
  <2>4. last_position' = last_position - shift /\ position' = (position - shift) + 1
    BY <2>2 DEF shift
  <2>5. Size' = Size - 1 /\ Size >= 1
    BY <2>2, <2>3, <2>4, <1>0 DEF Size
  <2>6. ASSUME NEW i \in 1 .. Size - 1
        PROVE  Object(position + i - 1)' = Object(position + (i + 1) - 1)
    <3>0. PICK k \in Nat : k = (position - shift) + i
      BY <2>3, <1>0
    <3>1. k + shift = position + (i + 1) - 1
      BY <3>0, <2>3, <1>0
    <3>2. position' + i - 1 = k
      BY <3>0, <2>4, <2>3, <1>0
    <3>3. Object(k)' = Object(k + shift)
      BY <2>1 DEF shift
    <3>4. QED
      BY <3>1, <3>2, <3>3 DEF Object
  <2>7. Contents' = [i \in 1 .. Size - 1 |-> Object(position + (i + 1) - 1)]
    BY <2>5, <2>6 DEF Contents
  <2>8. Tail(Contents) = [i \in 1 .. Size - 1 |-> Object(position + (i + 1) - 1)]
    BY <2>5, <1>0 DEF Contents
  <2>9. Contents # <<>> /\ Head(Contents) = Object(position)
    <3>1. Contents[1] = Object(position + 1 - 1) /\ position + 1 - 1 = position
      BY <2>5, <1>0 DEF Contents
    <3>2. 1 \in DOMAIN Contents
      BY <2>5, <1>0 DEF Contents
    <3>3. QED
      BY <3>1, <3>2
  <2>10. QED
    BY <2>1, <2>2, <2>7, <2>8, <2>9 DEF Abstract!FifoNext, Abstract!Take
<1>7. CASE Reset
  <2>1. position' = 0 /\ last_position' = 0 /\ staged' = Nothing /\ taken' = taken
    BY <1>7 DEF Reset
  <2>2. Contents' = <<>>
    BY <2>1 DEF Contents, Size
  <2>3. QED
    BY <2>1, <2>2 DEF Abstract!FifoNext, Abstract!Clear
<1>8. QED
  BY <1>1, <1>2, <1>3, <1>4, <1>5, <1>6, <1>7 DEF KernelNext, Abstract!FifoNext

\* The paged queue, as the kernel uses it, implements a FIFO queue for every
\* page size and every set of objects.
THEOREM QueueRefinement == Spec => ImplementsFIFO
<1>1. Init => Abstract!FifoInit
  BY DEF Init, Abstract!FifoInit, Contents, Size
<1>2. QED
  BY <1>1, Invariance, StepSimulates, PTL
     DEF Spec, ImplementsFIFO, Abstract!FifoSpec

-----------------------------------------------------------------------------
\* What aqueue_get returned, as long as the page it reads has not been passed,
\* is still the oldest object of a queue that is not empty.
SeenInv == seen # Nothing /\ PassedPages = 0 =>
               position < last_position /\ seen = Object(position)

\* No operation that leaves the oldest object in place changes it: aqueue_new
\* writes behind it, and every aqueue_next makes the result of aqueue_get stale.
LEMMA SeenPreserved == IInv /\ SeenInv /\ [KernelNext]_vars => SeenInv'
<1> SUFFICES ASSUME IInv, SeenInv, [KernelNext]_vars PROVE SeenInv'
  OBVIOUS
<1>0. position \in Nat /\ last_position \in Nat /\ position <= last_position
  BY DEF IInv, TypeOK, ChainInv
<1>1. CASE UNCHANGED vars \/ Lock \/ Unlock \/ NewFails
  <2>1. UNCHANGED <<page, position, last_position, seen>>
    BY <1>1 DEF vars, Lock, Unlock, NewFails
  <2>2. QED
    BY <2>1 DEF SeenInv, PassedPages, Object
<1>2. ASSUME staging = 0, NEW o \in Objects, New(o) PROVE SeenInv'
  <2>1. /\ \A k \in 0 .. last_position - 1 : Object(k)' = Object(k)
        /\ UNCHANGED <<position, last_position, seen>>
    BY <1>2, NewFacts DEF New
  <2>2. position < last_position => Object(position)' = Object(position)
    <3>1. position < last_position => position \in 0 .. last_position - 1
      BY <1>0
    <3>2. QED
      BY <3>1, <2>1 DEF Object
  <2>3. QED
    BY <2>1, <2>2 DEF SeenInv, PassedPages
<1>3. CASE Save
  <2>1. /\ UNCHANGED <<page, position, seen>>
        /\ last_position' \in {last_position, last_position + 1}
    BY <1>3 DEF Save
  <2>2. Object(position)' = Object(position) /\ PassedPages' = PassedPages
    BY <2>1 DEF Object, PassedPages
  <2>3. position < last_position => position' < last_position'
    BY <2>1, <1>0
  <2>4. QED
    BY <2>1, <2>2, <2>3 DEF SeenInv
<1>4. CASE Get
  <2>1. /\ UNCHANGED <<page, position, last_position>>
        /\ position = last_position => seen' = Nothing
        /\ position # last_position => seen' = Read(page, 1, position % ObjCount)
    BY <1>4 DEF Get
  <2>2. Object(position)' = Object(position) /\ PassedPages' = PassedPages
    BY <2>1 DEF Object, PassedPages
  <2>3. PassedPages = 0 => Object(position) = Read(page, 1, position % ObjCount)
    BY DEF Object, PassedPages
  <2>4. position # last_position => position' < last_position'
    BY <2>1, <1>0
  <2>5. QED
    BY <2>1, <2>2, <2>3, <2>4 DEF SeenInv
<1>5. CASE NextEmpty \/ NextObject \/ Reset
  <2>1. seen' = Nothing
    BY <1>5 DEF NextEmpty, NextObject, Reset
  <2>2. QED
    BY <2>1 DEF SeenInv
<1>6. QED
  BY <1>1, <1>2, <1>3, <1>4, <1>5 DEF KernelNext

\* aqueue_get shows what aqueue_next would return, for every page size, until
\* the page it reads has been passed.
THEOREM FirstSeen == Spec => []GetSeesFirst
<1>1. Init => SeenInv
  BY DEF Init, SeenInv
<1>2. ASSUME IInv, SeenInv PROVE GetSeesFirst
  <2>1. position \in Nat /\ last_position \in Nat
    BY <1>2 DEF IInv, TypeOK
  <2>2. ASSUME position < last_position
        PROVE  Size > 0 /\ Contents[1] = Object(position)
    <3>1. Size > 0 /\ 1 \in 1 .. Size /\ position + 1 - 1 = position
      BY <2>1, <2>2 DEF Size
    <3>2. Contents[1] = Object(position + 1 - 1)
      BY <3>1 DEF Contents
    <3>3. QED
      BY <3>1, <3>2
  <2>3. QED
    BY <1>2, <2>2 DEF SeenInv, GetSeesFirst
<1>3. QED
  BY <1>1, <1>2, SeenPreserved, Invariance, PTL DEF Spec
=============================================================================
