-------------------------- MODULE SchedulerProofs --------------------------
(***************************************************************************)
(* The schedulers for any CPUs, threads and processes: a thread that holds  *)
(* the scheduler lock of another CPU keeps executing until it releases it,  *)
(* no CPU halts with work to do, and the states of the threads agree with   *)
(* the queues.                                                              *)
(***************************************************************************)
EXTENDS Scheduler, FiniteSetTheorems, SequenceTheorems, WellFoundedInduction, TLAPS

\* The variables the argument reads are functions on CPUs and threads.
Shape == /\ lock \in [Cpus -> Threads \cup {Free}]
         /\ current = [c \in Cpus |-> current[c]]
         /\ pc = [t \in Threads |-> pc[t]]
         /\ call = [t \in Threads |-> call[t]]

\* The places a thread passes with its interrupts disabled.
QuietPlaces == {"pause", "yield", "self", "restart", "dequeue", "dequeued", "queue"}
Quiet == \A t \in Threads : pc[t] \in QuietPlaces => t \notin intr

\* A holder executes and works on a thread of exactly the CPU it has locked.
Holding == \A c \in Cpus : lock[c] # Free =>
               /\ current[Home[lock[c]]] = lock[c]
               /\ pc[lock[c]] \in {"restart", "dequeue"}
               /\ Home[Target(lock[c])] = c
               /\ Home[lock[c]] # c

HInv == Shape /\ Quiet /\ Holding

\* The initial states satisfy the invariant of the lock holders.
LEMMA HInit == Init => HInv
BY DEF Init, HInv, Shape, Quiet, Holding, QuietPlaces, NoCall

\* Steps that leave the locks alone and move one thread that holds none.
LEMMA Elsewhere ==
    ASSUME HInv, NEW t \in Threads, \A c \in Cpus : lock[c] # t,
           lock' = lock, Shape',
           \A s \in Threads \ {t} : pc'[s] = pc[s] /\ call'[s] = call[s],
           \A c \in Cpus : current'[c] = current[c] \/ current[c] = t
    PROVE  Holding'
<1>. SUFFICES ASSUME NEW c \in Cpus, lock[c] # Free
              PROVE  /\ current'[Home[lock[c]]] = lock[c]
                     /\ pc'[lock[c]] \in {"restart", "dequeue"}
                     /\ Home[call'[lock[c]].to] = c
                     /\ Home[lock[c]] # c
  BY DEF Holding, Target
<1>1. lock[c] \in Threads \ {t} /\ Home[lock[c]] \in Cpus
  BY HomeAssumption DEF HInv, Shape
<1>2. /\ current[Home[lock[c]]] = lock[c] /\ pc[lock[c]] \in {"restart", "dequeue"}
      /\ Home[call[lock[c]].to] = c /\ Home[lock[c]] # c
  BY DEF HInv, Holding, Target
<1>. QED BY <1>1, <1>2

\* A thread that is not in one of the places of a holder holds no lock.
LEMMA NoHolder ==
    ASSUME HInv, NEW t \in Threads, pc[t] \notin {"restart", "dequeue"}
    PROVE  \A c \in Cpus : lock[c] # t
BY SymbolAssumption DEF HInv, Shape, Holding

\* A call of a thread on itself keeps the invariant of the lock holders.
LEMMA HSelfCall == ASSUME HInv, NEW t \in Threads, SelfCall(t) PROVE HInv'
<1>. USE HomeAssumption, SymbolAssumption
<1>1. pc[t] \notin {"restart", "dequeue"}
  BY DEF SelfCall, go_dormant, go_dormant_timed, pause, sched_yield, Woken, exit, Exited,
         SelfWoken, set_own_state, At, AfterYield
<1>2. \A c \in Cpus : lock[c] # t
  BY <1>1, NoHolder
<1>3. lock' = lock /\ Shape'
  BY DEF SelfCall, go_dormant, go_dormant_timed, pause, sched_yield, Woken, exit, Exited, Halt,
         SelfWoken, set_own_state, HInv, Shape, Goto, cpus
<1>4. \A s \in Threads \ {t} : pc'[s] = pc[s] /\ call'[s] = call[s]
  BY DEF SelfCall, go_dormant, go_dormant_timed, pause, sched_yield, Woken, exit, Exited, Halt,
         SelfWoken, set_own_state, HInv, Shape, Goto
<1>5. \A c \in Cpus : current'[c] = current[c] \/ current[c] = t
  BY DEF SelfCall, go_dormant, go_dormant_timed, pause, sched_yield, Woken, exit, Exited, Halt,
         SelfWoken, set_own_state, HInv, Shape, At, cpus
<1>6. Holding'
  BY <1>2, <1>3, <1>4, <1>5, Elsewhere
<1>7. Quiet'
  BY DEF SelfCall, go_dormant, go_dormant_timed, pause, sched_yield, Woken, exit, Exited, Halt,
         SelfWoken, set_own_state, HInv, Shape, Quiet, QuietPlaces, Goto, AfterYield, At,
         EnableInterrupts, DisableInterrupts
<1>. QED BY <1>3, <1>6, <1>7 DEF HInv

\* The beginning of a call on another thread keeps it.
LEMMA HOtherCall == ASSUME HInv, NEW t \in Threads, OtherCall(t) PROVE HInv'
<1>. USE HomeAssumption, SymbolAssumption
<1>1. pc[t] = "user"
  BY DEF OtherCall, send, set_state, At
<1>2. \A c \in Cpus : lock[c] # t
  BY <1>1, NoHolder
<1>3. \/ Nothing(t) \/ Halt
      \/ /\ UNCHANGED <<cpus, pc, call>> /\ EnableInterrupts(t)
      \/ \E u \in Threads, new \in States, set \in BOOLEAN, place \in {"restart", "dequeue", "queue"} :
            Begin(t, u, new, set, place)
  BY ZenonT(30) DEF OtherCall, send, set_state, set_thread_state, States
<1>4. lock' = lock /\ Shape'
  BY <1>3 DEF Nothing, Halt, Begin, HInv, Shape, Goto, cpus
<1>5. \A s \in Threads \ {t} : pc'[s] = pc[s] /\ call'[s] = call[s]
  BY <1>3 DEF Nothing, Halt, Begin, HInv, Shape, Goto
<1>6. \A c \in Cpus : current'[c] = current[c] \/ current[c] = t
  BY <1>3 DEF Nothing, Halt, Begin, cpus
<1>7. Holding'
  BY <1>2, <1>4, <1>5, <1>6, Elsewhere
<1>8. Quiet'
  BY <1>1, <1>3 DEF Nothing, Halt, Begin, HInv, Shape, Quiet, QuietPlaces, Goto,
                    EnableInterrupts, DisableInterrupts
<1>. QED BY <1>4, <1>7, <1>8 DEF HInv

\* Taking the lock, the change under it and the release keep it.
LEMMA HStateChange == ASSUME HInv, NEW t \in Threads, StateChange(t) PROVE HInv'
<1>. USE HomeAssumption, SymbolAssumption
<1>0. current[Home[t]] = t /\ Home[t] \in Cpus
  BY DEF StateChange, sched_lock, queue, restart, sub_dequeue, Dequeued, At
<1>1. CASE sched_lock(t)
  <2>1. Shape' /\ Quiet'
    BY <1>1 DEF sched_lock, HInv, Shape, Quiet
  <2>2. Holding'
    BY <1>1, <1>0 DEF sched_lock, HInv, Shape, Holding, Target, Local, At
  <2>. QED BY <2>1, <2>2 DEF HInv
<1>2. CASE queue(t) \/ Dequeued(t)
  <2>1. \A c \in Cpus : lock[c] # t
    BY <1>2, NoHolder DEF queue, Dequeued, At
  <2>2. lock' = lock /\ Shape'
    BY <1>2 DEF queue, Dequeued, HInv, Shape, Return, Goto, cpus
  <2>3. \A s \in Threads \ {t} : pc'[s] = pc[s] /\ call'[s] = call[s]
    BY <1>2 DEF queue, Dequeued, HInv, Shape, Return, Goto
  <2>4. Holding'
    BY <1>2, <2>1, <2>2, <2>3, Elsewhere DEF queue, Dequeued, cpus
  <2>5. Quiet'
    BY <1>2 DEF queue, Dequeued, HInv, Shape, Quiet, QuietPlaces, Return, Goto, EnableInterrupts
  <2>. QED BY <2>2, <2>4, <2>5 DEF HInv
<1>3. CASE restart(t) \/ sub_dequeue(t)
  <2>1. CASE Halt
    BY <2>1 DEF Halt, HInv, Shape, Quiet, Holding, Target, cpus
  <2>2. CASE ~Halt
    <3>1. /\ lock' = [lock EXCEPT ![Home[Target(t)]] = Free]
          /\ current' = current
          /\ pc' = [pc EXCEPT ![t] = pc'[t]] /\ pc'[t] \in {"user", "dequeued"}
          /\ call' = call \/ call' = [call EXCEPT ![t] = NoCall]
          /\ pc'[t] = "user" => intr' \in {intr, intr \cup {t}}
          /\ pc'[t] = "dequeued" => intr' = intr /\ pc[t] = "dequeue"
      BY <1>3, <2>2 DEF restart, sub_dequeue, sched_unlock, Return, Goto, EnableInterrupts, At, HInv, Shape
    <3>2. Shape'
      BY <3>1 DEF HInv, Shape
    <3>3. Quiet'
      BY <3>1 DEF HInv, Shape, Quiet, QuietPlaces
    <3>4. ASSUME NEW c \in Cpus, lock'[c] # Free
          PROVE  lock'[c] = lock[c] /\ lock[c] # t /\ lock[c] \in Threads
      <4>1. lock \in [Cpus -> Threads \cup {Free}]
        BY DEF HInv, Shape
      <4>2. lock'[c] = lock[c] /\ c # Home[Target(t)]
        BY <3>1, <3>4, <4>1
      <4>3. Home[Target(lock[c])] = c
        BY <3>4, <4>2 DEF HInv, Holding
      <4>. QED BY <3>4, <4>1, <4>2, <4>3
    <3>5. ASSUME NEW c \in Cpus, lock'[c] # Free
          PROVE  /\ current'[Home[lock'[c]]] = lock'[c]
                 /\ pc'[lock'[c]] \in {"restart", "dequeue"}
                 /\ Home[call'[lock'[c]].to] = c
                 /\ Home[lock'[c]] # c
      <4>1. lock'[c] = lock[c] /\ lock[c] # t /\ lock[c] \in Threads
        BY <3>4, <3>5
      <4>2. /\ current[Home[lock[c]]] = lock[c] /\ pc[lock[c]] \in {"restart", "dequeue"}
            /\ Home[call[lock[c]].to] = c /\ Home[lock[c]] # c
        BY <3>5, <4>1 DEF HInv, Holding, Target
      <4>3. pc'[lock[c]] = pc[lock[c]] /\ call'[lock[c]] = call[lock[c]]
        BY <3>1, <4>1 DEF HInv, Shape
      <4>. QED BY <3>1, <4>1, <4>2, <4>3
    <3>6. Holding'
      BY <3>5 DEF Holding, Target
    <3>. QED BY <3>2, <3>3, <3>6 DEF HInv
  <2>. QED BY <2>1, <2>2
<1>. QED BY <1>1, <1>2, <1>3 DEF StateChange

\* Interrupts and the schedulers keep it: neither stops a holder.
LEMMA HCpuStep == ASSUME HInv, NEW c \in Cpus, CpuStep(c) PROVE HInv'
<1>. USE HomeAssumption, SymbolAssumption
<1>1. \/ UNCHANGED <<lock, current, pc, call, intr>>
      \/ /\ UNCHANGED <<lock, pc, call, intr>>
         /\ current[c] \in intr \cup {Idle, Nobody}
         /\ \E new : current' = [current EXCEPT ![c] = new]
  BY DEF CpuStep, Interrupt, IdleInterrupt, scheduler, Halt, cpus
<1>2. Shape' /\ Quiet'
  BY <1>1 DEF HInv, Shape, Quiet
<1>3. ASSUME NEW d \in Cpus, lock[d] # Free
      PROVE  current'[Home[lock[d]]] = lock[d]
  <2>1. lock[d] \in Threads /\ Home[lock[d]] \in Cpus
    BY <1>3 DEF HInv, Shape
  <2>2. current[Home[lock[d]]] = lock[d] /\ lock[d] \notin intr
    BY <1>3, <2>1 DEF HInv, Holding, Quiet, QuietPlaces
  <2>3. current'[Home[lock[d]]] = current[Home[lock[d]]]
    BY <1>1, <2>1, <2>2 DEF HInv, Shape
  <2>. QED BY <2>2, <2>3
<1>4. Holding'
  BY <1>1, <1>3 DEF HInv, Holding, Target
<1>. QED BY <1>2, <1>4 DEF HInv

\* Every step keeps the invariant of the lock holders.
LEMMA HNext == HInv /\ [Next]_vars => HInv'
<1> SUFFICES ASSUME HInv, [Next]_vars PROVE HInv'
  OBVIOUS
<1>1. CASE UNCHANGED vars
  BY <1>1 DEF vars, cpus, HInv, Shape, Quiet, Holding, Target
<1>2. CASE Next
  BY <1>2, HSelfCall, HOtherCall, HStateChange, HCpuStep DEF Next
<1>3. QED
  BY <1>1, <1>2

\* In every execution of the kernel, on any number of CPUs, a thread that holds the
\* scheduler lock of another CPU is executing on its own: interrupts stay disabled
\* from sched_lock to sched_unlock.
THEOREM LockHolders == Spec => []HolderRuns
<1>1. HInv => HolderRuns
  BY DEF HInv, Holding, HolderRuns
<1>. QED BY HInit, HNext, <1>1, PTL DEF Spec

-----------------------------------------------------------------------------
(* What the operations on queues do. *)

Before == {r \in Nat \X Nat : r[1] < r[2]}

\* Min of positions is the first of them.
LEMMA FirstPosition ==
  ASSUME NEW I \in SUBSET Nat, I # {}
  PROVE  Min(I) \in I
<1>1. Before = OpToRel(<, Nat)
  BY DEF Before, OpToRel
<1>2. IsWellFoundedOn(Before, Nat)
  BY <1>1, NatLessThanWellFounded
<1>3. PICK x \in I : \A y \in I : ~(<<y, x>> \in Before)
  BY <1>2, WFMin
<1>4. \A y \in I : <<y, x>> \in Nat \X Nat /\ <<y, x>>[1] = y /\ <<y, x>>[2] = x
  OBVIOUS
<1>5. \A y \in I : ~(y < x)
  BY <1>3, <1>4 DEF Before
<1>6. \A y \in I : x =< y
  BY <1>5
<1>7. QED
  BY <1>6 DEF Min

\* Removing an entry moves the later ones up.
LEMMA RemoveAtFacts ==
  ASSUME NEW S, NEW s \in Seq(S), NEW k \in 1 .. Len(s)
  PROVE  /\ RemoveAt(s, k) \in Seq(S)
         /\ Len(RemoveAt(s, k)) = Len(s) - 1
         /\ \A i \in 1 .. Len(s) - 1 : RemoveAt(s, k)[i] = IF i < k THEN s[i] ELSE s[i + 1]
<1> DEFINE a == SubSeq(s, 1, k - 1)
           b == SubSeq(s, k + 1, Len(s))
<1>1. Len(s) \in Nat /\ k \in Nat /\ k >= 1 /\ k <= Len(s)
  OBVIOUS
<1>2. a \in Seq(S) /\ Len(a) = k - 1 /\ \A i \in 1 .. k - 1 : a[i] = s[i]
  BY <1>1
<1>3. b \in Seq(S) /\ Len(b) = Len(s) - k /\ \A i \in 1 .. Len(s) - k : b[i] = s[k + i]
  BY <1>1
<1>4. RemoveAt(s, k) = a \o b
  BY DEF RemoveAt
<1> HIDE DEF a, b
<1>5. a \o b \in Seq(S) /\ Len(a \o b) = Len(s) - 1
  <2>1. a \o b \in Seq(S) /\ Len(a \o b) = Len(a) + Len(b)
    BY <1>2, <1>3, ConcatProperties, Zenon
  <2>2. QED
    BY <1>1, <1>2, <1>3, <2>1
<1>6. ASSUME NEW i \in 1 .. Len(s) - 1
      PROVE  (a \o b)[i] = IF i < k THEN s[i] ELSE s[i + 1]
  <2>1. CASE i < k
    BY <1>1, <1>2, <1>3, <2>1
  <2>2. CASE i >= k
    <3>1. (a \o b)[i] = b[i - (k - 1)]
      BY <1>1, <1>2, <1>3, <2>2
    <3>2. i - (k - 1) \in 1 .. Len(s) - k /\ k + (i - (k - 1)) = i + 1
      BY <1>1, <2>2
    <3>3. QED
      BY <1>1, <1>3, <2>2, <3>1, <3>2
  <2>3. i < k \/ i >= k
    BY <1>1
  <2>4. QED
    BY <2>1, <2>2, <2>3
<1>7. QED
  BY <1>4, <1>5, <1>6

\* A thread is taken off the run queue at one of its places, if it has one.
LEMMA RemoveFirstFacts ==
  ASSUME NEW S, NEW s \in Seq(S), NEW e
  PROVE  \/ RemoveFirst(s, e) = s /\ \A i \in 1 .. Len(s) : s[i] # e
         \/ \E k \in 1 .. Len(s) : s[k] = e /\ RemoveFirst(s, e) = RemoveAt(s, k)
<1> DEFINE I == {i \in 1 .. Len(s) : s[i] = e}
<1>1. CASE I # {}
  <2>0. I \in SUBSET Nat
    OBVIOUS
  <2>1. Min(I) \in I
    <3> HIDE DEF I
    <3> QED BY <1>1, <2>0, FirstPosition
  <2>2. SelectInSeq(s, LAMBDA v : v = e) = Min(I)
    BY <1>1, Zenon DEF SelectInSeq
  <2>3. QED
    BY <1>1, <2>1, <2>2 DEF RemoveFirst
<1>2. CASE I = {}
  BY <1>2 DEF RemoveFirst
<1>3. QED
  BY <1>1, <1>2

\* The queue of sleepers without thread u, as restart computes it.
OtherSleepers(s, u) == RemoveFirstMatch(s, LAMBDA e : e.tr = u)

\* A sleeper is taken off the queue of sleepers at one of its places, if it has one.
LEMMA RemoveMatchFacts ==
  ASSUME NEW S, NEW s \in Seq(S), NEW u
  PROVE  \/ OtherSleepers(s, u) = s /\ \A i \in 1 .. Len(s) : s[i].tr # u
         \/ \E k \in 1 .. Len(s) : s[k].tr = u /\ OtherSleepers(s, u) = RemoveAt(s, k)
<1> DEFINE I == {i \in 1 .. Len(s) : s[i].tr = u}
<1>1. CASE I # {}
  <2>0. I \in SUBSET Nat
    OBVIOUS
  <2>1. Min(I) \in I
    <3> HIDE DEF I
    <3> QED BY <1>1, <2>0, FirstPosition
  <2>2. SelectInSeq(s, LAMBDA e : e.tr = u) = Min(I)
    BY <1>1, Zenon DEF SelectInSeq
  <2>3. QED
    BY <1>1, <2>1, <2>2 DEF RemoveFirstMatch, OtherSleepers
<1>2. CASE I = {}
  BY <1>2 DEF RemoveFirstMatch, OtherSleepers
<1>3. QED
  BY <1>1, <1>2

\* An entry comes in at a place and the later ones move down.
LEMMA InsertAtFacts ==
  ASSUME NEW S, NEW s \in Seq(S), NEW k \in 1 .. Len(s) + 1, NEW e \in S
  PROVE  /\ InsertAt(s, k, e) \in Seq(S)
         /\ Len(InsertAt(s, k, e)) = Len(s) + 1
         /\ \A i \in 1 .. Len(s) + 1 : InsertAt(s, k, e)[i] = IF i < k THEN s[i] ELSE IF i = k THEN e ELSE s[i - 1]
<1> DEFINE a == SubSeq(s, 1, k - 1)
           b == SubSeq(s, k, Len(s))
           c == a \o <<e>>
<1>1. Len(s) \in Nat /\ k \in Nat /\ k >= 1 /\ k <= Len(s) + 1
  OBVIOUS
<1>2. a \in Seq(S) /\ Len(a) = k - 1 /\ \A i \in 1 .. k - 1 : a[i] = s[i]
  BY <1>1
<1>3. b \in Seq(S) /\ Len(b) = Len(s) - k + 1 /\ \A i \in 1 .. Len(s) - k + 1 : b[i] = s[k + i - 1]
  BY <1>1
<1>4. InsertAt(s, k, e) = c \o b
  BY DEF InsertAt
<1> HIDE DEF a, b
<1>5. c \in Seq(S) /\ Len(c) = k /\ c[k] = e /\ \A i \in 1 .. k - 1 : c[i] = s[i]
  <2>1. c \in Seq(S) /\ Len(c) = k
    BY <1>1, <1>2
  <2>2. c[k] = e
    BY <1>1, <1>2
  <2>3. \A i \in 1 .. k - 1 : c[i] = a[i]
    BY <1>1, <1>2
  <2>4. QED
    BY <1>2, <2>1, <2>2, <2>3
<1> HIDE DEF c
<1>6. c \o b \in Seq(S) /\ Len(c \o b) = Len(s) + 1
  BY <1>1, <1>3, <1>5
<1>7. ASSUME NEW i \in 1 .. Len(s) + 1
      PROVE  (c \o b)[i] = IF i < k THEN s[i] ELSE IF i = k THEN e ELSE s[i - 1]
  <2>1. CASE i <= k
    <3>1. (c \o b)[i] = c[i]
      BY <1>1, <1>3, <1>5, <2>1
    <3>2. QED
      BY <1>1, <1>5, <2>1, <3>1
  <2>2. CASE i > k
    <3>1. (c \o b)[i] = b[i - k]
      BY <1>1, <1>3, <1>5, <2>2
    <3>2. i - k \in 1 .. Len(s) - k + 1 /\ k + (i - k) - 1 = i - 1
      BY <1>1, <2>2
    <3>3. QED
      BY <1>1, <1>3, <2>2, <3>1, <3>2
  <2>3. i <= k \/ i > k
    BY <1>1
  <2>4. QED
    BY <2>1, <2>2, <2>3
<1>8. QED
  BY <1>4, <1>6, <1>7

\* A queue holds a thread, and holds every thread at most once.
Member(s, e) == \E i \in 1 .. Len(s) : s[i] = e
Distinct(s) == \A i, j \in 1 .. Len(s) : s[i] = s[j] => i = j

\* The same of the queue of sleepers.
Sleepers(H) == [tr : H, due : BOOLEAN]
Sleeper(s, e) == \E i \in 1 .. Len(s) : s[i].tr = e
DistinctSleepers(s) == \A i, j \in 1 .. Len(s) : s[i].tr = s[j].tr => i = j

\* Membership is the set of a queue.
LEMMA MemberIsToSet ==
  ASSUME NEW S, NEW s \in Seq(S), NEW e
  PROVE  e \in ToSet(s) <=> Member(s, e)
BY DEF ToSet, Member

\* Taking a thread off the run queue takes off exactly this thread.
LEMMA TakeOff ==
  ASSUME NEW S, NEW s \in Seq(S), NEW e
  PROVE  /\ RemoveFirst(s, e) \in Seq(S)
         /\ Member(s, e) => Len(RemoveFirst(s, e)) = Len(s) - 1
         /\ ~Member(s, e) => RemoveFirst(s, e) = s
         /\ Distinct(s) => /\ Distinct(RemoveFirst(s, e))
                           /\ \A x : Member(RemoveFirst(s, e), x) <=> Member(s, x) /\ x # e
<1> DEFINE r == RemoveFirst(s, e)
<1>1. CASE r = s /\ \A i \in 1 .. Len(s) : s[i] # e
  BY <1>1 DEF Member, Distinct
<1>2. ASSUME NEW k \in 1 .. Len(s), s[k] = e, r = RemoveAt(s, k)
      PROVE  /\ r \in Seq(S)
             /\ Member(s, e) /\ Len(r) = Len(s) - 1
             /\ Distinct(s) => Distinct(r) /\ \A x : Member(r, x) <=> Member(s, x) /\ x # e
  <2> HIDE DEF r
  <2>1. /\ r \in Seq(S) /\ Len(r) = Len(s) - 1
        /\ \A i \in 1 .. Len(s) - 1 : r[i] = IF i < k THEN s[i] ELSE s[i + 1]
    BY <1>2, RemoveAtFacts
  <2>2. Len(s) \in Nat /\ k \in Nat
    OBVIOUS
  <2>3. ASSUME Distinct(s) PROVE Distinct(r)
    <3>1. ASSUME NEW i \in 1 .. Len(r), NEW j \in 1 .. Len(r), r[i] = r[j] PROVE i = j
      <4> DEFINE m == IF i < k THEN i ELSE i + 1
                 n == IF j < k THEN j ELSE j + 1
      <4>1. m \in 1 .. Len(s) /\ n \in 1 .. Len(s) /\ s[m] = s[n]
        BY <2>1, <2>2, <3>1
      <4>2. m = n
        BY <2>3, <4>1 DEF Distinct
      <4>3. QED
        BY <4>2, <2>1, <2>2
    <3>2. QED
      BY <3>1 DEF Distinct
  <2>4. ASSUME Distinct(s), NEW x, Member(r, x) PROVE Member(s, x) /\ x # e
    <3>1. PICK i \in 1 .. Len(r) : r[i] = x
      BY <2>4 DEF Member
    <3> DEFINE m == IF i < k THEN i ELSE i + 1
    <3>2. m \in 1 .. Len(s) /\ m # k /\ s[m] = x
      BY <2>1, <2>2, <3>1
    <3> HIDE DEF m
    <3>3. x # e
      BY <1>2, <2>4, <3>2 DEF Distinct
    <3>4. QED
      BY <3>2, <3>3 DEF Member
  <2>5. ASSUME NEW x, Member(s, x), x # e PROVE Member(r, x)
    <3>1. PICK m \in 1 .. Len(s) : s[m] = x
      BY <2>5 DEF Member
    <3>2. m # k
      BY <1>2, <2>5, <3>1
    <3> DEFINE i == IF m < k THEN m ELSE m - 1
    <3>3. i \in 1 .. Len(r) /\ r[i] = s[m]
      <4>1. CASE m < k
        BY <2>1, <2>2, <4>1
      <4>2. CASE m > k
        <5>1. i = m - 1 /\ i >= k /\ i \in 1 .. Len(s) - 1 /\ i + 1 = m
          BY <2>1, <2>2, <4>2
        <5>2. QED
          BY <2>1, <2>2, <5>1
      <4>3. m < k \/ m > k
        BY <3>2, <2>2
      <4>4. QED
        BY <4>1, <4>2, <4>3
    <3> HIDE DEF i
    <3>4. QED
      BY <3>1, <3>3 DEF Member
  <2>6. Member(s, e)
    BY <1>2 DEF Member
  <2>7. QED
    BY <2>1, <2>3, <2>4, <2>5, <2>6
<1>3. QED
  <2>1. \/ r = s /\ \A i \in 1 .. Len(s) : s[i] # e
        \/ \E k \in 1 .. Len(s) : s[k] = e /\ r = RemoveAt(s, k)
    BY RemoveFirstFacts
  <2> HIDE DEF r
  <2>2. \/ r = s /\ \A i \in 1 .. Len(s) : s[i] # e
        \/ /\ r \in Seq(S)
           /\ Member(s, e) /\ Len(r) = Len(s) - 1
           /\ Distinct(s) => Distinct(r) /\ \A x : Member(r, x) <=> Member(s, x) /\ x # e
    BY <1>2, <2>1
  <2> USE DEF r
  <2>3. QED
    BY <1>1, <2>2

\* A thread that joins the run queue is its only new member.
LEMMA JoinQueue ==
  ASSUME NEW S, NEW s \in Seq(S), NEW e \in S
  PROVE  /\ Append(s, e) \in Seq(S) /\ Len(Append(s, e)) = Len(s) + 1
         /\ \A x : Member(Append(s, e), x) <=> Member(s, x) \/ x = e
         /\ Distinct(s) /\ ~Member(s, e) => Distinct(Append(s, e))
<1> DEFINE r == Append(s, e)
<1>1. /\ r \in Seq(S) /\ Len(r) = Len(s) + 1 /\ Len(s) \in Nat
      /\ \A i \in 1 .. Len(s) : r[i] = s[i]
      /\ r[Len(s) + 1] = e
  BY AppendProperties
<1> HIDE DEF r
<1>2. \A x : Member(r, x) <=> Member(s, x) \/ x = e
  <2>1. \A i \in 1 .. Len(r) : i \in 1 .. Len(s) \/ i = Len(s) + 1
    BY <1>1
  <2>2. \A i \in 1 .. Len(s) : i \in 1 .. Len(r)
    BY <1>1
  <2>3. Len(s) + 1 \in 1 .. Len(r)
    BY <1>1
  <2>4. QED
    BY <1>1, <2>1, <2>2, <2>3 DEF Member
<1>3. ASSUME Distinct(s), ~Member(s, e) PROVE Distinct(r)
  <2>1. \A i \in 1 .. Len(s) : s[i] # e
    BY <1>3 DEF Member
  <2>2. QED
    BY <1>1, <1>3, <2>1 DEF Distinct
<1>4. QED
  BY <1>1, <1>2, <1>3 DEF r

\* Queues are joined; their threads are those of either.
LEMMA JoinQueues ==
  ASSUME NEW S, NEW s \in Seq(S), NEW w \in Seq(S)
  PROVE  /\ s \o w \in Seq(S) /\ Len(s \o w) = Len(s) + Len(w)
         /\ \A x : Member(s \o w, x) <=> Member(s, x) \/ Member(w, x)
         /\ Distinct(s) /\ Distinct(w) /\ (\A x : ~(Member(s, x) /\ Member(w, x))) => Distinct(s \o w)
<1> DEFINE r == s \o w
<1>1. /\ r \in Seq(S) /\ Len(r) = Len(s) + Len(w) /\ Len(s) \in Nat /\ Len(w) \in Nat
      /\ \A i \in 1 .. Len(s) + Len(w) : r[i] = IF i <= Len(s) THEN s[i] ELSE w[i - Len(s)]
  BY ConcatProperties
<1> HIDE DEF r
<1>2. \A i \in 1 .. Len(s) : i \in 1 .. Len(r) /\ r[i] = s[i]
  BY <1>1
<1>3. ASSUME NEW j \in 1 .. Len(w) PROVE j + Len(s) \in 1 .. Len(r) /\ r[j + Len(s)] = w[j]
  <2>1. j + Len(s) \in 1 .. Len(s) + Len(w) /\ ~(j + Len(s) <= Len(s)) /\ (j + Len(s)) - Len(s) = j
    BY <1>1
  <2>2. QED
    BY <1>1, <2>1
<1>4. ASSUME NEW i \in 1 .. Len(r)
      PROVE  \/ i \in 1 .. Len(s) /\ r[i] = s[i]
             \/ i - Len(s) \in 1 .. Len(w) /\ r[i] = w[i - Len(s)]
  BY <1>1
<1>5. \A x : Member(r, x) <=> Member(s, x) \/ Member(w, x)
  BY <1>2, <1>3, <1>4 DEF Member
<1>6. ASSUME Distinct(s), Distinct(w), \A x : ~(Member(s, x) /\ Member(w, x)),
             NEW i \in 1 .. Len(r), NEW j \in 1 .. Len(r), r[i] = r[j]
      PROVE  i = j
  <2>1. ASSUME NEW m \in 1 .. Len(s), NEW n \in 1 .. Len(w) PROVE s[m] # w[n]
    BY <1>6 DEF Member
  <2>2. CASE i \in 1 .. Len(s) /\ r[i] = s[i] /\ j \in 1 .. Len(s) /\ r[j] = s[j]
    BY <1>6, <2>2 DEF Distinct
  <2>3. CASE /\ i - Len(s) \in 1 .. Len(w) /\ r[i] = w[i - Len(s)]
             /\ j - Len(s) \in 1 .. Len(w) /\ r[j] = w[j - Len(s)]
    <3>1. i - Len(s) = j - Len(s)
      BY <1>6, <2>3 DEF Distinct
    <3>2. QED
      BY <1>1, <3>1
  <2>4. QED
    BY <1>4, <1>6, <2>1, <2>2, <2>3
<1>7. QED
  BY <1>1, <1>5, <1>6 DEF r, Distinct

\* The first k threads of a queue of sleepers, and the queue of the others.
FirstSleepers(p, k) == [i \in 1 .. k |-> p[i].tr]
LaterSleepers(p, k) == SubSeq(p, k + 1, Len(p))

\* The first k sleepers are woken and the others stay.
LEMMA Wake ==
  ASSUME NEW H, NEW p \in Seq(Sleepers(H)), NEW k \in 0 .. Len(p)
  PROVE  /\ FirstSleepers(p, k) \in Seq(H) /\ Len(FirstSleepers(p, k)) = k
         /\ LaterSleepers(p, k) \in Seq(Sleepers(H))
         /\ Len(LaterSleepers(p, k)) = Len(p) - k
         /\ \A i \in 1 .. Len(p) - k : LaterSleepers(p, k)[i] = p[k + i]
         /\ \A x : Sleeper(LaterSleepers(p, k), x) => Sleeper(p, x)
         /\ \A x : Member(FirstSleepers(p, k), x) => Sleeper(p, x)
         /\ DistinctSleepers(p) =>
              /\ Distinct(FirstSleepers(p, k)) /\ DistinctSleepers(LaterSleepers(p, k))
              /\ \A x : ~(Member(FirstSleepers(p, k), x) /\ Sleeper(LaterSleepers(p, k), x))
<1> DEFINE w == [i \in 1 .. k |-> p[i].tr]
           rest == SubSeq(p, k + 1, Len(p))
<1>1. Len(p) \in Nat /\ k \in Nat /\ k <= Len(p)
  OBVIOUS
<1>2. \A i \in 1 .. Len(p) : p[i] \in Sleepers(H) /\ p[i].tr \in H
  <2>1. \A i \in 1 .. Len(p) : p[i] \in Sleepers(H)
    OBVIOUS
  <2>2. \A e \in Sleepers(H) : e.tr \in H
    BY DEF Sleepers
  <2>3. QED
    BY <2>1, <2>2
<1>3. w \in Seq(H) /\ Len(w) = k /\ \A i \in 1 .. k : w[i] = p[i].tr
  <2>1. \A i \in 1 .. k : p[i].tr \in H
    BY <1>1, <1>2
  <2>2. w \in Seq(H)
    BY <1>1, <2>1, IsASeq
  <2>3. QED
    BY <1>1, <2>2
<1>4. rest \in Seq(Sleepers(H)) /\ Len(rest) = Len(p) - k
  BY <1>1
<1>5. \A i \in 1 .. Len(p) - k : rest[i] = p[k + i]
  BY <1>1
<1> HIDE DEF w, rest
<1>6. ASSUME NEW i \in 1 .. k PROVE i \in 1 .. Len(p)
  BY <1>1
<1>7. ASSUME NEW i \in 1 .. Len(rest)
      PROVE  k + i \in 1 .. Len(p) /\ rest[i] = p[k + i] /\ k + i \notin 1 .. k
  <2>1. i \in 1 .. Len(p) - k
    BY <1>4
  <2>2. QED
    BY <1>1, <1>5, <2>1
<1>8. \A x : Sleeper(rest, x) => Sleeper(p, x)
  BY <1>7 DEF Sleeper
<1>9. \A x : Member(w, x) => Sleeper(p, x)
  BY <1>3, <1>6 DEF Sleeper, Member
<1>10. ASSUME DistinctSleepers(p)
       PROVE  Distinct(w) /\ DistinctSleepers(rest) /\ \A x : ~(Member(w, x) /\ Sleeper(rest, x))
  <2>1. Distinct(w)
    BY <1>3, <1>6, <1>10 DEF Distinct, DistinctSleepers
  <2>2. ASSUME NEW i \in 1 .. Len(rest), NEW j \in 1 .. Len(rest), rest[i].tr = rest[j].tr
        PROVE  i = j
    <3>1. k + i \in 1 .. Len(p) /\ k + j \in 1 .. Len(p) /\ p[k + i].tr = p[k + j].tr
      BY <1>7, <2>2
    <3>2. k + i = k + j
      BY <1>10, <3>1 DEF DistinctSleepers
    <3>3. QED
      BY <1>1, <1>4, <3>2
  <2>3. ASSUME NEW x, Member(w, x), Sleeper(rest, x) PROVE FALSE
    <3>1. PICK i \in 1 .. k : p[i].tr = x
      BY <1>3, <2>3 DEF Member
    <3>2. PICK j \in 1 .. Len(rest) : rest[j].tr = x
      BY <2>3 DEF Sleeper
    <3>3. k + j \in 1 .. Len(p) /\ p[k + j].tr = x /\ k + j \notin 1 .. k
      BY <1>7, <3>2
    <3>4. QED
      BY <1>6, <1>10, <3>1, <3>3 DEF DistinctSleepers
  <2>4. QED
    BY <2>1, <2>2, <2>3 DEF DistinctSleepers
<1>11. QED
  BY <1>3, <1>4, <1>5, <1>8, <1>9, <1>10 DEF w, rest, FirstSleepers, LaterSleepers

\* A thread goes to sleep: it is the only new sleeper.
LEMMA FallAsleep ==
  ASSUME NEW H, NEW p \in Seq(Sleepers(H)), NEW k \in 1 .. Len(p) + 1, NEW e \in Sleepers(H)
  PROVE  LET r == InsertAt(p, k, e)
         IN  /\ r \in Seq(Sleepers(H))
             /\ \A x : Sleeper(r, x) => Sleeper(p, x) \/ x = e.tr
             /\ DistinctSleepers(p) /\ ~Sleeper(p, e.tr) => DistinctSleepers(r)
<1> DEFINE r == InsertAt(p, k, e)
<1>1. Len(p) \in Nat /\ k \in Nat /\ k >= 1
  OBVIOUS
<1>2. /\ r \in Seq(Sleepers(H)) /\ Len(r) = Len(p) + 1
      /\ \A i \in 1 .. Len(p) + 1 : r[i] = IF i < k THEN p[i] ELSE IF i = k THEN e ELSE p[i - 1]
  BY InsertAtFacts
<1> HIDE DEF r
<1> DEFINE m(i) == IF i < k THEN i ELSE i - 1
<1>3. ASSUME NEW i \in 1 .. Len(r), i # k
      PROVE  m(i) \in 1 .. Len(p) /\ r[i] = p[m(i)]
  <2>1. i \in Int /\ i >= 1 /\ i <= Len(p) + 1
    BY <1>1, <1>2
  <2>2. CASE i < k
    BY <1>1, <1>2, <2>1, <2>2
  <2>3. CASE i > k
    BY <1>1, <1>2, <2>1, <2>3
  <2>4. QED
    BY <1>1, <1>3, <2>1, <2>2, <2>3
<1>4. ASSUME NEW i \in 1 .. Len(r), i = k PROVE r[i] = e
  BY <1>1, <1>2, <1>4
<1>5. \A x : Sleeper(r, x) => Sleeper(p, x) \/ x = e.tr
  <2> HIDE DEF m
  <2> QED BY <1>3, <1>4 DEF Sleeper
<1>6. ASSUME DistinctSleepers(p), ~Sleeper(p, e.tr),
             NEW i \in 1 .. Len(r), NEW j \in 1 .. Len(r), r[i].tr = r[j].tr
      PROVE  i = j
  <2>1. ASSUME NEW n \in 1 .. Len(p) PROVE p[n].tr # e.tr
    BY <1>6 DEF Sleeper
  <2>2. CASE i # k /\ j # k
    <3>1. m(i) = m(j)
      <4> HIDE DEF m
      <4> QED BY <1>3, <1>6, <2>2 DEF DistinctSleepers
    <3>2. QED
      BY <1>1, <1>2, <2>2, <3>1
  <2>3. CASE i = k
    <3> HIDE DEF m
    <3> QED BY <1>3, <1>4, <1>6, <2>1, <2>3
  <2>4. CASE j = k
    <3> HIDE DEF m
    <3> QED BY <1>3, <1>4, <1>6, <2>1, <2>4
  <2>5. QED
    BY <2>2, <2>3, <2>4
<1>7. QED
  BY <1>2, <1>5, <1>6 DEF r, DistinctSleepers

\* A restarted sleeper moves to the front of the queue; the sleepers are the same.
LEMMA MoveToFront ==
  ASSUME NEW H, NEW p \in Seq(Sleepers(H)), NEW u \in H
  PROVE  LET others == OtherSleepers(p, u)
             r == <<[tr |-> u, due |-> TRUE]>> \o others
         IN  others # p => /\ r \in Seq(Sleepers(H))
                           /\ \A x : Sleeper(r, x) => Sleeper(p, x)
                           /\ DistinctSleepers(p) => DistinctSleepers(r)
<1> DEFINE others == OtherSleepers(p, u)
           f == [tr |-> u, due |-> TRUE]
           r == <<f>> \o others
<1>1. \/ others = p /\ \A i \in 1 .. Len(p) : p[i].tr # u
      \/ \E k \in 1 .. Len(p) : p[k].tr = u /\ others = RemoveAt(p, k)
  BY RemoveMatchFacts
<1> HIDE DEF others
<1>2. SUFFICES ASSUME others # p
               PROVE  /\ r \in Seq(Sleepers(H))
                      /\ \A x : Sleeper(r, x) => Sleeper(p, x)
                      /\ DistinctSleepers(p) => DistinctSleepers(r)
  BY DEF others
<1>3. PICK k \in 1 .. Len(p) : p[k].tr = u /\ others = RemoveAt(p, k)
  BY <1>1, <1>2
<1>4. Len(p) \in Nat /\ k \in Nat /\ k >= 1 /\ k <= Len(p)
  OBVIOUS
<1>5. /\ others \in Seq(Sleepers(H)) /\ Len(others) = Len(p) - 1
      /\ \A i \in 1 .. Len(p) - 1 : others[i] = IF i < k THEN p[i] ELSE p[i + 1]
  BY <1>3, RemoveAtFacts
<1>6. f \in Sleepers(H) /\ f.tr = u
  BY DEF Sleepers
<1> HIDE DEF f
<1>7. /\ r \in Seq(Sleepers(H)) /\ Len(r) = Len(p)
      /\ \A i \in 1 .. Len(p) : r[i] = IF i = 1 THEN f ELSE others[i - 1]
  <2>1. <<f>> \in Seq(Sleepers(H)) /\ Len(<<f>>) = 1 /\ <<f>>[1] = f
    BY <1>6
  <2>2. /\ r \in Seq(Sleepers(H)) /\ Len(r) = Len(<<f>>) + Len(others)
        /\ \A i \in 1 .. Len(<<f>>) + Len(others) :
              r[i] = IF i <= Len(<<f>>) THEN <<f>>[i] ELSE others[i - Len(<<f>>)]
    BY <1>5, <2>1, ConcatProperties
  <2> HIDE DEF r
  <2>3. QED
    BY <1>4, <1>5, <2>1, <2>2
<1> HIDE DEF r
<1> DEFINE m(i) == IF i = 1 THEN k ELSE IF i - 1 < k THEN i - 1 ELSE i
<1>8. ASSUME NEW i \in 1 .. Len(r) PROVE m(i) \in 1 .. Len(p) /\ r[i].tr = p[m(i)].tr
  <2>1. CASE i = 1
    BY <1>3, <1>4, <1>6, <1>7, <2>1
  <2>2. CASE i # 1
    <3>1. i - 1 \in 1 .. Len(p) - 1 /\ r[i] = others[i - 1] /\ (i - 1) + 1 = i
      BY <1>4, <1>7, <2>2
    <3>2. QED
      BY <1>4, <1>5, <2>2, <3>1
  <2>3. QED
    BY <2>1, <2>2
<1>9. \A x : Sleeper(r, x) => Sleeper(p, x)
  <2> HIDE DEF m
  <2> QED BY <1>8 DEF Sleeper
<1>10. ASSUME DistinctSleepers(p), NEW i \in 1 .. Len(r), NEW j \in 1 .. Len(r), r[i].tr = r[j].tr
       PROVE  i = j
  <2>1. m(i) = m(j)
    <3> HIDE DEF m
    <3> QED BY <1>8, <1>10 DEF DistinctSleepers
  <2>2. QED
    BY <2>1, <1>4, <1>7
<1>11. QED
  BY <1>7, <1>9, <1>10 DEF DistinctSleepers

\* A queue without repetitions that is as long as there are threads holds them all.
LEMMA FullQueue ==
  ASSUME NEW H, IsFiniteSet(H), NEW s \in Seq(H), Distinct(s), Cardinality(H) <= Len(s), NEW x \in H
  PROVE  Member(s, x)
<1> SUFFICES ASSUME ~Member(s, x) PROVE FALSE
  OBVIOUS
<1>1. IsFiniteSet(H \ {x}) /\ Cardinality(H \ {x}) = Cardinality(H) - 1
  BY FS_RemoveElement
<1>2. s \in Injection(1 .. Len(s), H \ {x})
  <2>1. s \in [1 .. Len(s) -> H \ {x}]
    BY DEF Member
  <2>2. QED
    BY <2>1 DEF Distinct, Injection, IsInjective
<1>3. IsFiniteSet(1 .. Len(s)) /\ Cardinality(1 .. Len(s)) = Len(s)
  <2>1. 1 \in Int /\ Len(s) \in Int /\ Len(s) >= 0
    OBVIOUS
  <2>2. QED
    BY <2>1, FS_Interval
<1>4. Cardinality(1 .. Len(s)) <= Cardinality(H \ {x})
  BY <1>1, <1>2, <1>3, FS_Injection
<1>5. Cardinality(H) \in Nat
  BY FS_CardinalityType
<1>6. QED
  BY <1>1, <1>3, <1>4, <1>5

Residents(c) == {t \in Threads : Home[t] = c}

\* How often a thread is in a run queue, and how often among the sleepers.
PlacesOf(s, t) == Occurrences(s, LAMBDA u : u = t)
BedsOf(s, t) == Occurrences(s, LAMBDA e : e.tr = t)

\* Counting the places of a thread in a queue without repetitions.
LEMMA CountOnce ==
  ASSUME NEW S, NEW s \in Seq(S), NEW t, Distinct(s)
  PROVE  PlacesOf(s, t) = IF Member(s, t) THEN 1 ELSE 0
<1> DEFINE I == {i \in DOMAIN s : s[i] = t}
<1>1. PlacesOf(s, t) = Cardinality(I)
  BY Zenon DEF PlacesOf, Occurrences
<1>2. DOMAIN s = 1 .. Len(s)
  OBVIOUS
<1>3. CASE Member(s, t)
  <2>1. PICK i \in 1 .. Len(s) : s[i] = t
    BY <1>3 DEF Member
  <2>2. I = {i}
    BY <1>2, <2>1 DEF Distinct
  <2>3. QED
    BY <1>1, <1>3, <2>2, FS_Singleton
<1>4. CASE ~Member(s, t)
  <2>1. I = {}
    BY <1>2, <1>4 DEF Member
  <2>2. QED
    BY <1>1, <1>4, <2>1, FS_EmptySet
<1>5. QED
  BY <1>3, <1>4

\* Counting the places of a thread among the sleepers.
LEMMA CountSleeper ==
  ASSUME NEW S, NEW s \in Seq(S), NEW t, DistinctSleepers(s)
  PROVE  BedsOf(s, t) = IF Sleeper(s, t) THEN 1 ELSE 0
<1> DEFINE I == {i \in DOMAIN s : s[i].tr = t}
<1>1. BedsOf(s, t) = Cardinality(I)
  BY Zenon DEF BedsOf, Occurrences
<1>2. DOMAIN s = 1 .. Len(s)
  OBVIOUS
<1>3. CASE Sleeper(s, t)
  <2>1. PICK i \in 1 .. Len(s) : s[i].tr = t
    BY <1>3 DEF Sleeper
  <2>2. I = {i}
    BY <1>2, <2>1 DEF DistinctSleepers
  <2>3. QED
    BY <1>1, <1>3, <2>2, FS_Singleton
<1>4. CASE ~Sleeper(s, t)
  <2>1. I = {}
    BY <1>2, <1>4 DEF Sleeper
  <2>2. QED
    BY <1>1, <1>4, <2>1, FS_EmptySet
<1>5. QED
  BY <1>3, <1>4

\* Whatever the unsigned arithmetic does, the position is a place of the queue.
LEMMA RetreatFacts ==
  ASSUME NEW pos \in Nat, NEW n \in Nat
  PROVE  Retreat(pos, n) \in Nat /\ (Retreat(pos, n) < n \/ Retreat(pos, n) = 0)
<1>1. CASE n = 0
  BY <1>1 DEF Retreat
<1>2. CASE n # 0
  <2>1. (pos - 1) % Word \in Int
    BY RangeAssumption
  <2>2. \A m \in Int : m % n \in 0 .. n - 1
    BY <1>2
  <2>3. Retreat(pos, n) \in 0 .. n - 1
    BY <1>2, <2>1, <2>2 DEF Retreat
  <2>4. QED
    BY <1>2, <2>3
<1>3. QED
  BY <1>1, <1>2

\* The run queue of a CPU starts with the threads of the CPU, each of them once.
LEMMA InitialQueues ==
  ASSUME Init, NEW c \in Cpus
  PROVE  /\ sched_queue[c] \in Seq(Residents(c)) /\ Distinct(sched_queue[c])
         /\ \A t \in Residents(c) : Member(sched_queue[c], t)
<1> DEFINE s == sched_queue[c]
<1>1. PICK d \in Cpus : s \in SetToSeqs(Residents(d))
  <2>1. sched_queue \in [Cpus -> UNION {SetToSeqs({t \in Threads : Home[t] = e}) : e \in Cpus}]
    BY Zenon DEF Init
  <2>2. s \in UNION {SetToSeqs({t \in Threads : Home[t] = e}) : e \in Cpus}
    BY <2>1
  <2>3. QED
    BY <2>2, Zenon DEF Residents
<1>2. ToSet(s) = Residents(c)
  BY DEF Init, Residents
<1> DEFINE n == Cardinality(Residents(d))
<1> HIDE DEF s
<1>3. s \in [1 .. n -> Residents(d)] /\ \A i, j \in 1 .. n : i # j => s[i] # s[j]
  BY <1>1, Zenon DEF SetToSeqs
<1>4. n \in Nat
  <2>1. IsFiniteSet(Residents(d))
    BY HomeAssumption, FS_Subset DEF Residents
  <2>2. QED
    BY <2>1, FS_CardinalityType
<1> HIDE DEF n
<1>5. \A i \in 1 .. n : s[i] \in Residents(c)
  BY <1>2, <1>3 DEF ToSet
<1>6. s \in [1 .. n -> Residents(c)]
  BY <1>3, <1>5
<1>7. s \in Seq(Residents(c)) /\ Len(s) = n
  BY <1>4, <1>6, SeqDef
<1>8. Distinct(s)
  BY <1>3, <1>7 DEF Distinct
<1>9. \A t \in Residents(c) : Member(s, t)
  BY <1>2, <1>7, MemberIsToSet
<1>10. QED
  BY <1>7, <1>8, <1>9 DEF s

-----------------------------------------------------------------------------
(* Types, and CPUs that halt in the idle thread. *)

\* The types of the queues, of the CPUs and of the threads.
QueueTypes == /\ sched_queue \in [Cpus -> Seq(Threads)]
              /\ position \in [Cpus -> Nat]
              /\ pause_queue \in [Cpus -> Seq(Sleepers(Threads))]
RequestTypes == requesting \in [Cpus -> [tr : Threads \cup {Nobody}, state : States]]
CpuTypes == /\ lock \in [Cpus -> Threads \cup {Free}]
            /\ current \in [Cpus -> Threads \cup {Idle, Nobody}]
MarkTypes == idle \in [Cpus -> BOOLEAN] /\ ipi \in [Cpus -> BOOLEAN] /\ panic \in BOOLEAN
FieldTypes == /\ state \in [Threads -> States]
              /\ placed \subseteq Threads /\ duration \subseteq Threads /\ intr \subseteq Threads
              /\ pc \in [Threads -> Places]
CallTypes == /\ call \in [Threads -> [to : Threads \cup {Nobody}, new : States, set : BOOLEAN]]
             /\ plock \in [Processes -> Threads \cup {Free}]

\* The type invariant is these six together.
LEMMA TypesTogether ==
  TypeOK <=> QueueTypes /\ RequestTypes /\ CpuTypes /\ MarkTypes /\ FieldTypes /\ CallTypes
BY Zenon DEF TypeOK, QueueTypes, RequestTypes, CpuTypes, MarkTypes, FieldTypes, CallTypes, Sleepers

\* The places of a thread that works on another one.
WorkPlaces == {"restart", "dequeue", "dequeued", "queue"}
CallsNamed == \A t \in Threads : pc[t] \in WorkPlaces => call[t].to \in Threads

\* The position is a place of the run queue.
PositionsOK == \A c \in Cpus : position[c] < Len(sched_queue[c]) \/ position[c] = 0

\* A CPU that halts has an interrupt coming, or it is marked idle and has nothing to
\* run and nobody to wake: then whoever brings work sees the mark.
Rests(c) == /\ idle[c] /\ sched_queue[c] = <<>>
            /\ pause_queue[c] = <<>> \/ ~pause_queue[c][1].due
Asleep == \A c \in Cpus : current[c] = Idle => ipi[c] \/ Rests(c)

SInv == /\ QueueTypes /\ RequestTypes /\ CpuTypes /\ MarkTypes /\ FieldTypes /\ CallTypes
        /\ CallsNamed /\ PositionsOK /\ Asleep

\* The values a thread is given.
LEMMA Values ==
  /\ States = {"RUNNING", "DORMANT", "FINISHED"}
  /\ NoCall \in [to : Threads \cup {Nobody}, new : States, set : BOOLEAN]
  /\ NoRequest \in [tr : Threads \cup {Nobody}, state : States]
  /\ NoRequest.tr = Nobody /\ NoRequest.state = "RUNNING"
  /\ \A t \in Threads : Process[t] \in Processes /\ Home[t] \in Cpus
  /\ \A t \in Threads : t # Idle /\ t # Nobody /\ t # Free
  /\ Idle # Nobody
BY HomeAssumption, SymbolAssumption DEF States, NoCall, NoRequest, Processes

\* The initial states are typed, and no CPU rests.
LEMMA SInit == Init => SInv
<1> SUFFICES ASSUME Init PROVE SInv
  OBVIOUS
<1>1. \A c \in Cpus : sched_queue[c] \in Seq(Threads)
  <2>1. \A c \in Cpus : sched_queue[c] \in Seq(Residents(c)) /\ Residents(c) \subseteq Threads
    BY InitialQueues DEF Residents
  <2>2. QED
    BY <2>1, SeqMonotonic
<1>2. QueueTypes
  <2>1. sched_queue = [c \in Cpus |-> sched_queue[c]]
    BY DEF Init
  <2>2. sched_queue \in [Cpus -> Seq(Threads)]
    BY <1>1, <2>1
  <2>3. QED
    BY <2>2 DEF Init, QueueTypes, Sleepers
<1>3. RequestTypes /\ CpuTypes
  BY Values DEF Init, RequestTypes, CpuTypes
<1>4. MarkTypes
  BY Zenon DEF Init, MarkTypes
<1>5. FieldTypes
  BY DEF Init, FieldTypes, States, Places
<1>6. CallTypes
  BY Values DEF Init, CallTypes
<1>7. CallsNamed /\ PositionsOK
  BY DEF Init, CallsNamed, PositionsOK, WorkPlaces
<1>8. Asleep
  BY Values DEF Init, Asleep
<1>9. QED
  BY <1>2, <1>3, <1>4, <1>5, <1>6, <1>7, <1>8 DEF SInv

\* A step that leaves the queues and the marks alone and puts no CPU to rest.
LEMMA QueuesAlone ==
  ASSUME SInv, UNCHANGED <<sched_queue, position, pause_queue, idle, ipi, panic>>,
         \A c \in Cpus : current'[c] = Idle => current[c] = Idle
  PROVE  QueueTypes' /\ MarkTypes' /\ PositionsOK' /\ Asleep'
<1>1. QueueTypes' /\ MarkTypes'
  BY DEF SInv, QueueTypes, MarkTypes
<1>2. PositionsOK'
  BY DEF SInv, PositionsOK
<1>3. Asleep'
  BY DEF SInv, Asleep, Rests
<1>4. QED
  BY <1>1, <1>2, <1>3

\* The kernel halts: nothing changes any more.
LEMMA HaltKeeps == ASSUME SInv, Halt PROVE SInv'
<1>1. UNCHANGED <<sched_queue, position, pause_queue, requesting, lock, current, idle, ipi,
                  state, placed, duration, intr, pc, call, plock>> /\ panic' = TRUE
  BY DEF Halt, queues, cpus, fields
<1>2. QueueTypes' /\ RequestTypes' /\ CpuTypes' /\ FieldTypes' /\ CallTypes'
  BY <1>1 DEF SInv, QueueTypes, RequestTypes, CpuTypes, FieldTypes, CallTypes
<1>3. MarkTypes'
  BY <1>1, Zenon DEF SInv, MarkTypes
<1>4. CallsNamed' /\ PositionsOK' /\ Asleep'
  BY <1>1 DEF SInv, CallsNamed, PositionsOK, Asleep, Rests
<1>5. QED
  BY <1>2, <1>3, <1>4 DEF SInv

\* A thread moves to a place where it works on no other thread, and may ask its
\* scheduler for a state on the way.
LEMMA OwnStep ==
  ASSUME SInv, NEW t \in Threads,
         UNCHANGED <<sched_queue, position, pause_queue, lock, idle, ipi, state, placed, call, panic>>,
         \/ UNCHANGED requesting
         \/ \E new \in States : Request(t, new),
         \/ UNCHANGED current
         \/ current' = [current EXCEPT ![Home[t]] = Nobody],
         duration' \in SUBSET Threads, intr' \in SUBSET Threads,
         \/ UNCHANGED plock
         \/ \E h \in {t, Free} : plock' = [plock EXCEPT ![Process[t]] = h],
         \E place \in Places \ WorkPlaces : pc' = [pc EXCEPT ![t] = place]
  PROVE  SInv'
<1>1. RequestTypes'
  BY Values DEF SInv, RequestTypes, Request
<1>2. CpuTypes' /\ \A c \in Cpus : current'[c] = Idle => current[c] = Idle
  BY Values DEF SInv, CpuTypes
<1>3. FieldTypes'
  BY DEF SInv, FieldTypes
<1>4. CallTypes'
  BY Values DEF SInv, CallTypes
<1>5. CallsNamed'
  BY DEF SInv, CallsNamed, FieldTypes
<1>6. QueueTypes' /\ MarkTypes' /\ PositionsOK' /\ Asleep'
  BY <1>2, QueuesAlone
<1>7. QED
  BY <1>1, <1>2, <1>3, <1>4, <1>5, <1>6 DEF SInv

\* A thread at work executes on its CPU.
LEMMA Executing ==
  ASSUME SInv, NEW t \in Threads, current[Home[t]] = t
  PROVE  current[Home[t]] # Idle /\ Home[t] \in Cpus
BY Values

\* pause puts a thread into the queue of its own CPU, which it keeps busy.
LEMMA PauseKeeps == ASSUME SInv, NEW t \in Threads, pause(t) PROVE SInv'
<1> DEFINE c == Home[t]
           q == pause_queue[c]
<1>1. c \in Cpus /\ current[c] = t /\ t # Idle /\ q \in Seq(Sleepers(Threads))
  BY Values DEF pause, At, SInv, QueueTypes
<1>2. UNCHANGED <<sched_queue, position, lock, current, idle, ipi, state, placed, intr, call, panic>>
  BY DEF pause, cpus
<1>3. \/ UNCHANGED pause_queue
      \/ \E i \in 1 .. Len(q) + 1 :
           pause_queue' = [pause_queue EXCEPT ![c] = InsertAt(q, i, [tr |-> t, due |-> FALSE])]
  BY DEF pause, PausePlaces
<1>4. pause_queue' \in [Cpus -> Seq(Sleepers(Threads))]
        /\ \A d \in Cpus : d # c => pause_queue'[d] = pause_queue[d]
  <2>1. CASE UNCHANGED pause_queue
    BY <2>1 DEF SInv, QueueTypes
  <2>2. ASSUME NEW i \in 1 .. Len(q) + 1,
               pause_queue' = [pause_queue EXCEPT ![c] = InsertAt(q, i, [tr |-> t, due |-> FALSE])]
        PROVE  pause_queue' \in [Cpus -> Seq(Sleepers(Threads))]
                 /\ \A d \in Cpus : d # c => pause_queue'[d] = pause_queue[d]
    <3>1. [tr |-> t, due |-> FALSE] \in Sleepers(Threads)
      BY DEF Sleepers
    <3>2. InsertAt(q, i, [tr |-> t, due |-> FALSE]) \in Seq(Sleepers(Threads))
      BY <1>1, <3>1, FallAsleep
    <3> HIDE DEF q, c
    <3>3. QED
      BY <1>1, <2>2, <3>2 DEF SInv, QueueTypes
  <2>3. QED
    BY <1>3, <2>1, <2>2
<1>5. QueueTypes' /\ MarkTypes' /\ CpuTypes'
  BY <1>2, <1>4 DEF SInv, QueueTypes, MarkTypes, CpuTypes
<1>6. PositionsOK'
  BY <1>2 DEF SInv, PositionsOK
<1>7. Asleep'
  BY <1>1, <1>2, <1>4 DEF SInv, Asleep, Rests
<1>8. RequestTypes'
  BY Values DEF pause, SInv, RequestTypes, Request
<1>9. FieldTypes'
  BY <1>2 DEF pause, SInv, FieldTypes, Goto, Places
<1>10. CallTypes'
  BY <1>2, Values DEF pause, SInv, CallTypes, Commit
<1>11. CallsNamed'
  BY <1>2 DEF pause, SInv, CallsNamed, WorkPlaces, Goto, FieldTypes
<1>12. QED
  BY <1>5, <1>6, <1>7, <1>8, <1>9, <1>10, <1>11 DEF SInv

\* Calls of a thread on itself keep the types and put no CPU to rest.
LEMMA SSelfCall == ASSUME SInv, NEW t \in Threads, SelfCall(t) PROVE SInv'
<1>0. {"user", "pause", "yield", "woken", "exit", "exited", "self", "self_woken"} = Places \ WorkPlaces
  BY DEF Places, WorkPlaces
<1>00. duration \in SUBSET Threads /\ intr \in SUBSET Threads
  BY DEF SInv, FieldTypes
<1>1. CASE go_dormant(t)
  <2>1. UNCHANGED <<sched_queue, position, pause_queue, lock, current, idle, ipi, state, placed, call, plock, panic>>
    BY <1>1 DEF go_dormant, cpus
  <2>2. /\ \E new \in States : Request(t, new)
        /\ duration' \in SUBSET Threads /\ intr' \in SUBSET Threads
        /\ \E place \in Places \ WorkPlaces : pc' = [pc EXCEPT ![t] = place]
    BY <1>0, <1>00, <1>1 DEF go_dormant, DisableInterrupts, Goto, States
  <2>3. QED
    BY <2>1, <2>2, OwnStep
<1>2. CASE go_dormant_timed(t)
  <2>1. UNCHANGED <<sched_queue, position, pause_queue, requesting, lock, current, idle, ipi, state, placed, call, panic>>
    BY <1>2 DEF go_dormant_timed, cpus, queues, fields
  <2>2. /\ duration' \in SUBSET Threads /\ intr' \in SUBSET Threads
        /\ \E h \in {t, Free} : plock' = [plock EXCEPT ![Process[t]] = h]
        /\ \E place \in Places \ WorkPlaces : pc' = [pc EXCEPT ![t] = place]
    BY <1>0, <1>00, <1>2 DEF go_dormant_timed, DisableInterrupts, Goto, fields
  <2>3. QED
    BY <2>1, <2>2, OwnStep
<1>3. CASE sched_yield(t)
  <2>1. UNCHANGED <<sched_queue, position, pause_queue, requesting, lock, idle, ipi, state, placed, call, plock, panic>>
    BY <1>3 DEF sched_yield, queues, fields
  <2>2. /\ duration' \in SUBSET Threads /\ intr' \in SUBSET Threads
        /\ current' = [current EXCEPT ![Home[t]] = Nobody]
    BY <1>00, <1>3 DEF sched_yield, fields
  <2>3. \E place \in Places \ WorkPlaces : pc' = [pc EXCEPT ![t] = place]
    <3>1. pc' = [pc EXCEPT ![t] = AfterYield[pc[t]]] /\ pc[t] \in DOMAIN AfterYield
      BY <1>3 DEF sched_yield, Goto
    <3>2. \A p \in DOMAIN AfterYield : AfterYield[p] \in {"woken", "exited", "self_woken"}
      BY DEF AfterYield
    <3>3. AfterYield[pc[t]] \in Places \ WorkPlaces
      BY <1>0, <3>1, <3>2
    <3>4. QED
      BY <3>1, <3>3
  <2>4. QED
    BY <2>1, <2>2, <2>3, OwnStep
<1>4. CASE Woken(t) \/ SelfWoken(t)
  <2>1. UNCHANGED <<sched_queue, position, pause_queue, requesting, lock, current, idle, ipi, state, placed, call, panic>>
    BY <1>4 DEF Woken, SelfWoken, cpus, queues, fields
  <2>2. /\ duration' \in SUBSET Threads /\ intr' \in SUBSET Threads
        /\ UNCHANGED plock \/ \E h \in {t, Free} : plock' = [plock EXCEPT ![Process[t]] = h]
        /\ \E place \in Places \ WorkPlaces : pc' = [pc EXCEPT ![t] = place]
    BY <1>0, <1>00, <1>4 DEF Woken, SelfWoken, Commit, EnableInterrupts, Goto, fields
  <2>3. QED
    BY <2>1, <2>2, OwnStep
<1>5. CASE exit(t)
  <2>1. UNCHANGED <<sched_queue, position, pause_queue, lock, current, idle, ipi, state, placed, call, plock, panic>>
    BY <1>5 DEF exit, cpus, fields
  <2>2. /\ \E new \in States : Request(t, new)
        /\ duration' \in SUBSET Threads /\ intr' \in SUBSET Threads
        /\ \E place \in Places \ WorkPlaces : pc' = [pc EXCEPT ![t] = place]
    BY <1>0, <1>00, <1>5 DEF exit, EnableInterrupts, Goto, States, fields
  <2>3. QED
    BY <2>1, <2>2, OwnStep
<1>6. CASE Exited(t)
  BY <1>6, HaltKeeps DEF Exited
<1>7. CASE pause(t)
  BY <1>7, PauseKeeps
<1>8. ASSUME NEW new \in {"RUNNING", "DORMANT"}, set_own_state(t, new) PROVE SInv'
  <2>1. UNCHANGED <<sched_queue, position, pause_queue, lock, current, idle, ipi, state, placed, call, panic>>
    BY <1>8 DEF set_own_state, cpus, fields
  <2>2. /\ UNCHANGED requesting \/ \E n \in States : Request(t, n)
        /\ duration' \in SUBSET Threads /\ intr' \in SUBSET Threads
        /\ \E h \in {t, Free} : plock' = [plock EXCEPT ![Process[t]] = h]
        /\ \E place \in Places \ WorkPlaces : pc' = [pc EXCEPT ![t] = place]
    BY <1>0, <1>00, <1>8 DEF set_own_state, DisableInterrupts, Goto, States, fields
  <2>3. QED
    BY <2>1, <2>2, OwnStep
<1>9. QED
  BY <1>1, <1>2, <1>3, <1>4, <1>5, <1>6, <1>7, <1>8 DEF SelfCall

\* What a system call on another thread does before it needs a scheduler's lock.
LEMMA CallEffects ==
  ASSUME NEW t \in Threads, NEW u \in Threads, NEW new \in States, NEW set \in BOOLEAN,
         set_thread_state(t, u, new, set)
  PROVE  \/ Halt
         \/ Nothing(t)
         \/ /\ UNCHANGED <<queues, cpus, placed, duration, pc, call, plock, panic>>
            /\ state[u] = "FINISHED" /\ state' = [state EXCEPT ![u] = "DORMANT"]
            /\ EnableInterrupts(t)
         \/ /\ Begin(t, u, new, set, "restart") /\ UNCHANGED <<state, placed>>
            /\ state[u] = "DORMANT"
         \/ /\ Begin(t, u, new, set, "dequeue") /\ UNCHANGED <<state, placed>>
            /\ state[u] = "RUNNING" /\ new # "RUNNING"
         \/ /\ Begin(t, u, new, set, "queue") /\ new = "RUNNING"
            /\ state[u] # "RUNNING" /\ ~(state[u] = "DORMANT" /\ u \in duration)
            /\ state' = [state EXCEPT ![u] = "RUNNING"] /\ placed' = placed \cup {u}
BY DEF set_thread_state

\* The beginning of a call on another thread keeps the types and the rests.
LEMMA SOtherCall == ASSUME SInv, NEW t \in Threads, OtherCall(t) PROVE SInv'
<1>1. PICK u \in Threads, new \in States, set \in BOOLEAN :
         Nothing(t) \/ set_thread_state(t, u, new, set)
  BY DEF OtherCall, send, set_state, States
<1>2. CASE Halt
  BY <1>2, HaltKeeps
<1>3. CASE Nothing(t) \/ /\ UNCHANGED <<queues, cpus, placed, duration, pc, call, plock, panic>>
                         /\ state[u] = "FINISHED" /\ state' = [state EXCEPT ![u] = "DORMANT"]
                         /\ EnableInterrupts(t)
  <2>1. UNCHANGED <<sched_queue, position, pause_queue, requesting, lock, current, idle, ipi,
                    placed, duration, pc, call, plock, panic>>
    BY <1>3 DEF Nothing, queues, cpus, fields
  <2>2. QueueTypes' /\ MarkTypes' /\ PositionsOK' /\ Asleep'
    BY <2>1, QueuesAlone
  <2>3. RequestTypes' /\ CpuTypes' /\ CallTypes' /\ CallsNamed'
    BY <2>1 DEF SInv, RequestTypes, CpuTypes, CallTypes, CallsNamed
  <2>4. FieldTypes'
    BY <1>3, <2>1 DEF Nothing, SInv, FieldTypes, States, EnableInterrupts, fields
  <2>5. QED
    BY <2>2, <2>3, <2>4 DEF SInv
<1>4. ASSUME NEW place \in {"restart", "dequeue", "queue"}, Begin(t, u, new, set, place),
             \/ UNCHANGED <<state, placed>>
             \/ state' = [state EXCEPT ![u] = "RUNNING"] /\ placed' = placed \cup {u}
      PROVE  SInv'
  <2>1. UNCHANGED <<sched_queue, position, pause_queue, requesting, lock, current, idle, ipi,
                    duration, panic>>
    BY <1>4 DEF Begin, queues, cpus
  <2>2. QueueTypes' /\ MarkTypes' /\ PositionsOK' /\ Asleep'
    BY <2>1, QueuesAlone
  <2>3. RequestTypes' /\ CpuTypes'
    BY <2>1 DEF SInv, RequestTypes, CpuTypes
  <2>4. FieldTypes'
    BY <1>4, <2>1 DEF SInv, FieldTypes, States, Places, Begin, DisableInterrupts, Goto
  <2>5. CallTypes'
    <3>1. [to |-> u, new |-> new, set |-> set] \in [to : Threads \cup {Nobody}, new : States, set : BOOLEAN]
      OBVIOUS
    <3>2. call' = [call EXCEPT ![t] = [to |-> u, new |-> new, set |-> set]] /\ plock' = [plock EXCEPT ![Process[u]] = t]
      BY <1>4 DEF Begin
    <3>3. QED
      BY <3>1, <3>2, Values DEF SInv, CallTypes
  <2>6. CallsNamed'
    BY <1>4 DEF SInv, CallsNamed, CallTypes, FieldTypes, Begin, Goto
  <2>7. QED
    BY <2>2, <2>3, <2>4, <2>5, <2>6 DEF SInv
<1>5. CASE set_thread_state(t, u, new, set)
  <2>1. \/ Halt
        \/ Nothing(t)
        \/ /\ UNCHANGED <<queues, cpus, placed, duration, pc, call, plock, panic>>
           /\ state[u] = "FINISHED" /\ state' = [state EXCEPT ![u] = "DORMANT"]
           /\ EnableInterrupts(t)
        \/ /\ Begin(t, u, new, set, "restart") /\ UNCHANGED <<state, placed>>
        \/ /\ Begin(t, u, new, set, "dequeue") /\ UNCHANGED <<state, placed>>
        \/ /\ Begin(t, u, new, set, "queue")
           /\ state' = [state EXCEPT ![u] = "RUNNING"] /\ placed' = placed \cup {u}
    BY <1>5, CallEffects
  <2>2. QED
    BY <1>2, <1>3, <1>4, <2>1
<1>6. QED
  BY <1>1, <1>3, <1>5

\* The end of a call on another thread.
LEMMA ReturnTypes ==
  ASSUME SInv, NEW t \in Threads, Target(t) \in Threads, Return(t),
         UNCHANGED <<state, duration>>, placed' \in SUBSET Threads
  PROVE  FieldTypes' /\ CallTypes' /\ CallsNamed'
<1>1. FieldTypes'
  BY DEF SInv, FieldTypes, Return, EnableInterrupts, Goto, Places
<1>2. CallTypes'
  BY Values DEF SInv, CallTypes, Return, Commit
<1>3. CallsNamed'
  BY DEF SInv, CallsNamed, FieldTypes, CallTypes, Return, Goto, WorkPlaces
<1>4. QED
  BY <1>1, <1>2, <1>3

\* The mark of an idle CPU becomes an interrupt.
LEMMA KickFacts ==
  ASSUME SInv, NEW c \in Cpus, Kick(c), UNCHANGED <<current, panic>>
  PROVE  /\ MarkTypes'
         /\ \A d \in Cpus : d # c => idle'[d] = idle[d] /\ ipi'[d] = ipi[d]
         /\ current[c] = Idle => ipi'[c]
<1>1. idle \in [Cpus -> BOOLEAN] /\ ipi \in [Cpus -> BOOLEAN] /\ panic' \in BOOLEAN
  BY Zenon DEF SInv, MarkTypes
<1>2. idle' = [idle EXCEPT ![c] = FALSE] /\ ipi' = [ipi EXCEPT ![c] = ipi[c] \/ idle[c]]
  BY DEF Kick
<1>3. FALSE \in BOOLEAN /\ (ipi[c] \/ idle[c]) \in BOOLEAN
  BY Zenon
<1>4. idle' \in [Cpus -> BOOLEAN] /\ ipi' \in [Cpus -> BOOLEAN]
  BY <1>1, <1>2, <1>3, Zenon
<1>5. \A d \in Cpus : d # c => idle'[d] = idle[d] /\ ipi'[d] = ipi[d]
  BY <1>1, <1>2
<1>6. current[c] = Idle => ipi[c] \/ idle[c]
  BY DEF SInv, Asleep, Rests
<1>7. current[c] = Idle => ipi'[c]
  BY <1>1, <1>2, <1>6, Zenon
<1>8. QED
  BY <1>1, <1>4, <1>5, <1>7 DEF MarkTypes

\* A locker interrupts the CPU it finds idle.
LEMMA LockKeeps == ASSUME SInv, NEW t \in Threads, sched_lock(t) PROVE SInv'
<1> DEFINE c == Home[Target(t)]
<1>1. Target(t) \in Threads /\ c \in Cpus
  BY Values DEF sched_lock, At, SInv, CallsNamed, WorkPlaces, Target
<1>2. UNCHANGED <<sched_queue, position, pause_queue, requesting, current, state, placed, duration,
                  intr, pc, call, plock, panic>>
  BY DEF sched_lock, queues, fields
<1>3. Kick(c) /\ lock' = [lock EXCEPT ![c] = t]
  BY DEF sched_lock
<1>4. /\ MarkTypes'
      /\ \A d \in Cpus : d # c => idle'[d] = idle[d] /\ ipi'[d] = ipi[d]
      /\ current[c] = Idle => ipi'[c]
  BY <1>1, <1>2, <1>3, KickFacts
<1>5. Asleep'
  BY <1>2, <1>4 DEF SInv, Asleep, Rests
<1>6. CpuTypes'
  BY <1>1, <1>2, <1>3 DEF SInv, CpuTypes
<1>7. QueueTypes' /\ RequestTypes' /\ FieldTypes' /\ CallTypes' /\ CallsNamed' /\ PositionsOK'
  BY <1>2 DEF SInv, QueueTypes, RequestTypes, FieldTypes, CallTypes, CallsNamed, PositionsOK
<1>8. QED
  BY <1>4, <1>5, <1>6, <1>7 DEF SInv

\* A thread joins a run queue, and its CPU is interrupted if it was idle.
LEMMA QueueKeeps == ASSUME SInv, NEW t \in Threads, queue(t) PROVE SInv'
<1> DEFINE u == Target(t)
           c == Home[u]
<1>1. u \in Threads /\ c \in Cpus
  BY Values DEF queue, At, SInv, CallsNamed, WorkPlaces, Target
<1>2. UNCHANGED <<position, pause_queue, requesting, lock, current, state, placed, duration, panic>>
  BY DEF queue, fields
<1>3. Kick(c) /\ Return(t)
  BY DEF queue
<1>4. sched_queue' \in {sched_queue, [sched_queue EXCEPT ![c] = Append(@, u)]}
  BY DEF queue
<1>5. sched_queue[c] \in Seq(Threads) /\ position[c] \in Nat
  BY <1>1 DEF SInv, QueueTypes
<1>6. Append(sched_queue[c], u) \in Seq(Threads) /\ Len(Append(sched_queue[c], u)) = Len(sched_queue[c]) + 1
  BY <1>1, <1>5, JoinQueue
<1> HIDE DEF u, c
<1>7. QueueTypes'
  BY <1>1, <1>2, <1>4, <1>6 DEF SInv, QueueTypes
<1>8. PositionsOK'
  <2>1. ASSUME NEW d \in Cpus PROVE position'[d] < Len(sched_queue'[d]) \/ position'[d] = 0
    <3>1. position[d] < Len(sched_queue[d]) \/ position[d] = 0
      BY DEF SInv, PositionsOK
    <3>2. sched_queue'[d] = sched_queue[d] \/ (d = c /\ sched_queue'[d] = Append(sched_queue[c], u))
      BY <1>1, <1>4 DEF SInv, QueueTypes
    <3>3. Len(sched_queue[c]) \in Nat
      BY <1>5
    <3>4. QED
      BY <1>2, <1>5, <1>6, <3>1, <3>2, <3>3
  <2>2. QED
    BY <2>1 DEF PositionsOK
<1>9. /\ MarkTypes'
      /\ \A d \in Cpus : d # c => idle'[d] = idle[d] /\ ipi'[d] = ipi[d]
      /\ current[c] = Idle => ipi'[c]
  BY <1>1, <1>2, <1>3, KickFacts
<1>10. \A d \in Cpus : d # c => sched_queue'[d] = sched_queue[d]
  BY <1>4 DEF SInv, QueueTypes
<1>11. Asleep'
  BY <1>2, <1>9, <1>10 DEF SInv, Asleep, Rests
<1>12. RequestTypes' /\ CpuTypes'
  BY <1>2 DEF SInv, RequestTypes, CpuTypes
<1>13. FieldTypes' /\ CallTypes' /\ CallsNamed'
  <2>1. placed' \in SUBSET Threads
    BY <1>2 DEF SInv, FieldTypes
  <2>2. QED
    BY <1>1, <1>2, <1>3, <2>1, ReturnTypes DEF u
<1>14. QED
  BY <1>7, <1>8, <1>9, <1>11, <1>12, <1>13 DEF SInv

\* The end of a removal changes a state and no queue.
LEMMA DequeuedKeeps == ASSUME SInv, NEW t \in Threads, Dequeued(t) PROVE SInv'
<1> DEFINE u == Target(t)
<1>1. u \in Threads
  BY Values DEF Dequeued, At, SInv, CallsNamed, WorkPlaces, Target
<1>2. UNCHANGED <<sched_queue, position, pause_queue, requesting, lock, current, idle, ipi, duration, panic>>
  BY DEF Dequeued, queues, cpus
<1>3. QueueTypes' /\ MarkTypes' /\ PositionsOK' /\ Asleep'
  BY <1>2, QueuesAlone
<1>4. RequestTypes' /\ CpuTypes'
  BY <1>2 DEF SInv, RequestTypes, CpuTypes
<1>5. FieldTypes'
  <2>1. call[t].new \in States
    BY DEF SInv, CallTypes
  <2>2. QED
    BY <1>1, <1>2, <2>1 DEF Dequeued, SInv, FieldTypes, Return, EnableInterrupts, Goto, Places
<1>6. CallTypes'
  BY <1>1, Values DEF Dequeued, SInv, CallTypes, Return, Commit
<1>7. CallsNamed'
  BY DEF Dequeued, SInv, CallsNamed, FieldTypes, CallTypes, Return, Goto, WorkPlaces
<1>8. QED
  BY <1>3, <1>4, <1>5, <1>6, <1>7 DEF SInv

\* Who has the lock for a removal knows that the CPU does not halt in its idle thread.
LEMMA LockedAwake ==
  ASSUME SInv, NEW t \in Threads, current[Home[t]] = t, Locked(t)
  PROVE  current[Home[Target(t)]] # Idle
BY Values DEF Locked, Local

\* A sleeper becomes due on a CPU that is not in its idle thread.
LEMMA RestartKeeps == ASSUME SInv, NEW t \in Threads, restart(t) PROVE SInv'
<1> DEFINE u == Target(t)
           c == Home[u]
           others == OtherSleepers(pause_queue[c], u)
           r == <<[tr |-> u, due |-> TRUE]>> \o others
<1>1. u \in Threads /\ c \in Cpus
  BY Values DEF restart, At, SInv, CallsNamed, WorkPlaces, Target
<1>2. current[c] # Idle
  BY LockedAwake DEF restart, At
<1>3. \/ Halt
      \/ /\ others # pause_queue[c]
         /\ pause_queue' = [pause_queue EXCEPT ![c] = r]
         /\ sched_unlock(t) /\ Return(t)
         /\ UNCHANGED <<sched_queue, position, requesting, current, idle, ipi, fields, panic>>
  BY Zenon DEF restart, OtherSleepers
<1>4. CASE Halt
  BY <1>4, HaltKeeps
<1>5. CASE /\ others # pause_queue[c]
           /\ pause_queue' = [pause_queue EXCEPT ![c] = r]
           /\ sched_unlock(t) /\ Return(t)
           /\ UNCHANGED <<sched_queue, position, requesting, current, idle, ipi, fields, panic>>
  <2>1. pause_queue[c] \in Seq(Sleepers(Threads))
    BY <1>1 DEF SInv, QueueTypes
  <2>2. r \in Seq(Sleepers(Threads))
    BY <1>1, <1>5, <2>1, MoveToFront
  <2>3. lock' = [lock EXCEPT ![c] = Free]
    BY <1>5 DEF sched_unlock
  <2>4. UNCHANGED <<state, placed, duration>>
    BY <1>5 DEF fields
  <2> HIDE DEF u, c, others, r
  <2>5. QueueTypes'
    BY <1>1, <1>5, <2>2 DEF SInv, QueueTypes
  <2>6. MarkTypes'
    BY <1>5 DEF SInv, MarkTypes
  <2>7. CpuTypes' /\ RequestTypes'
    BY <1>5, <2>3 DEF SInv, CpuTypes, RequestTypes
  <2>8. PositionsOK'
    BY <1>5 DEF SInv, PositionsOK
  <2>9. Asleep'
    BY <1>1, <1>2, <1>5 DEF SInv, Asleep, Rests, QueueTypes
  <2>10. FieldTypes' /\ CallTypes' /\ CallsNamed'
    <3>1. placed' \in SUBSET Threads
      BY <2>4 DEF SInv, FieldTypes
    <3>2. QED
      BY <1>1, <1>5, <2>4, <3>1, ReturnTypes DEF u
  <2>11. QED
    BY <2>5, <2>6, <2>7, <2>8, <2>9, <2>10 DEF SInv
<1>6. QED
  BY <1>3, <1>4, <1>5

\* A removal leaves the position inside the queue.
LEMMA SubDequeueKeeps == ASSUME SInv, NEW t \in Threads, sub_dequeue(t) PROVE SInv'
<1> DEFINE u == Target(t)
           c == Home[u]
           q == Without(c, u)
<1>1. u \in Threads /\ c \in Cpus
  BY Values DEF sub_dequeue, At, SInv, CallsNamed, WorkPlaces, Target
<1>2. current[c] # Idle
  BY LockedAwake DEF sub_dequeue, At
<1>3. \/ Halt
      \/ /\ sched_queue' = [sched_queue EXCEPT ![c] = q]
         /\ position' = [position EXCEPT ![c] = Retreat(position[c], Len(q))]
         /\ sched_unlock(t) /\ Goto(t, "dequeued") /\ pc[t] = "dequeue"
         /\ UNCHANGED <<pause_queue, requesting, current, idle, ipi, fields, intr, call, plock, panic>>
  BY DEF sub_dequeue, At
<1>4. CASE Halt
  BY <1>4, HaltKeeps
<1>5. CASE /\ sched_queue' = [sched_queue EXCEPT ![c] = q]
           /\ position' = [position EXCEPT ![c] = Retreat(position[c], Len(q))]
           /\ sched_unlock(t) /\ Goto(t, "dequeued") /\ pc[t] = "dequeue"
           /\ UNCHANGED <<pause_queue, requesting, current, idle, ipi, fields, intr, call, plock, panic>>
  <2>1. sched_queue[c] \in Seq(Threads) /\ position[c] \in Nat
    BY <1>1 DEF SInv, QueueTypes
  <2>2. q \in Seq(Threads)
    BY <2>1, TakeOff DEF Without
  <2> DEFINE pos == Retreat(position[c], Len(q))
  <2>3. lock' = [lock EXCEPT ![c] = Free]
    BY <1>5 DEF sched_unlock
  <2>4. UNCHANGED <<state, placed, duration>> /\ pc' = [pc EXCEPT ![t] = "dequeued"]
    BY <1>5 DEF fields, Goto
  <2>5. Len(q) \in Nat
    BY <2>2
  <2>6. pos \in Nat /\ (pos < Len(q) \/ pos = 0)
    BY <2>1, <2>5, RetreatFacts
  <2>7. position' = [position EXCEPT ![c] = pos]
    BY <1>5
  <2> HIDE DEF u, c, q, pos
  <2>8. QueueTypes'
    BY <1>1, <1>5, <2>2, <2>6, <2>7 DEF SInv, QueueTypes
  <2>9. MarkTypes'
    BY <1>5 DEF SInv, MarkTypes
  <2>10. CpuTypes' /\ RequestTypes'
    BY <1>5, <2>3 DEF SInv, CpuTypes, RequestTypes
  <2>11. PositionsOK'
    BY <1>1, <1>5, <2>6, <2>7 DEF SInv, PositionsOK, QueueTypes
  <2>12. Asleep'
    BY <1>1, <1>2, <1>5 DEF SInv, Asleep, Rests, QueueTypes
  <2>13. FieldTypes' /\ CallTypes' /\ CallsNamed'
    BY <1>5, <2>4 DEF SInv, FieldTypes, CallTypes, CallsNamed, Places, WorkPlaces
  <2>14. QED
    BY <2>8, <2>9, <2>10, <2>11, <2>12, <2>13 DEF SInv
<1>6. QED
  BY <1>3, <1>4, <1>5

\* So do its later steps.
LEMMA SStateChange == ASSUME SInv, NEW t \in Threads, StateChange(t) PROVE SInv'
BY LockKeeps, QueueKeeps, DequeuedKeeps, RestartKeeps, SubDequeueKeeps DEF StateChange

\* The threads the scheduler of c wakes when k sleepers expire, those still asleep,
\* and its next run queue.
WokenBy(c, k) == FirstSleepers(pause_queue[c], k)
StillAsleep(c, k) == LaterSleepers(pause_queue[c], k)
NextQueue(c, k) == RemoveLast(c).queue \o WokenBy(c, k)

\* What one round of the scheduler assigns.
Round(c, k) ==
  LET w == ToSet(WokenBy(c, k))
      q == NextQueue(c, k)
      pos == RemoveLast(c).position
  IN
  /\ requesting' = [requesting EXCEPT ![c] = NoRequest]
  /\ pause_queue' = [pause_queue EXCEPT ![c] = StillAsleep(c, k)]
  /\ sched_queue' = [sched_queue EXCEPT ![c] = q]
  /\ state' = [t \in Threads |-> IF t \in w THEN "RUNNING"
                                 ELSE IF t \in Leaving(c) THEN requesting[c].state
                                 ELSE state[t]]
  /\ placed' = (placed \ Leaving(c)) \cup w
  /\ duration' \subseteq duration \cup w /\ duration \ w \subseteq duration'
  /\ idle' = [idle EXCEPT ![c] = q = <<>>]
  /\ \/ /\ q = <<>> /\ current' = [current EXCEPT ![c] = Idle]
        /\ position' = [position EXCEPT ![c] = pos]
     \/ /\ q # <<>> /\ current' = [current EXCEPT ![c] = q[pos + 1]]
        /\ position' = [position EXCEPT ![c] = (pos + 1) % Len(q)]
  /\ UNCHANGED <<lock, ipi, intr, pc, call, plock, panic>>

\* A round halts the kernel or is such an assignment for some number of expired sleepers.
LEMMA SchedulerRound ==
  ASSUME NEW c \in Cpus, scheduler(c)
  PROVE  /\ current[c] = Nobody /\ lock[c] = Free
         /\ Halt \/ \E k \in Expired(c) : Round(c, k)
<1>1. current[c] = Nobody /\ lock[c] = Free
  BY DEF scheduler
<1>2. PICK k \in Expired(c) :
         LET left == RemoveLast(c)
             woken == [i \in 1 .. k |-> pause_queue[c][i].tr]
             q == left.queue \o woken
         IN
         IF Len(q) > Size
         THEN Halt
         ELSE
         /\ requesting' = [requesting EXCEPT ![c] = NoRequest]
         /\ pause_queue' = [pause_queue EXCEPT ![c] = SubSeq(@, k + 1, Len(@))]
         /\ sched_queue' = [sched_queue EXCEPT ![c] = q]
         /\ state' = [t \in Threads |-> IF t \in ToSet(woken) THEN "RUNNING"
                                        ELSE IF t \in Leaving(c) THEN requesting[c].state
                                        ELSE state[t]]
         /\ placed' = (placed \ Leaving(c)) \cup ToSet(woken)
         /\ \E slept \in SUBSET ToSet(woken) : duration' = (duration \ ToSet(woken)) \cup slept
         /\ idle' = [idle EXCEPT ![c] = q = <<>>]
         /\ IF q = <<>>
            THEN /\ current' = [current EXCEPT ![c] = Idle]
                 /\ position' = [position EXCEPT ![c] = left.position]
            ELSE /\ current' = [current EXCEPT ![c] = q[left.position + 1]]
                 /\ position' = [position EXCEPT ![c] = (left.position + 1) % Len(q)]
         /\ UNCHANGED <<lock, ipi, intr, pc, call, plock, panic>>
  BY Zenon DEF scheduler
<1>3. Halt \/ Round(c, k)
  <2> SUFFICES ASSUME ~Halt PROVE Round(c, k)
    OBVIOUS
  <2> DEFINE w == ToSet(WokenBy(c, k))
             q == NextQueue(c, k)
             pos == RemoveLast(c).position
  <2>1. /\ requesting' = [requesting EXCEPT ![c] = NoRequest]
        /\ pause_queue' = [pause_queue EXCEPT ![c] = StillAsleep(c, k)]
        /\ sched_queue' = [sched_queue EXCEPT ![c] = q]
        /\ state' = [t \in Threads |-> IF t \in w THEN "RUNNING"
                                       ELSE IF t \in Leaving(c) THEN requesting[c].state
                                       ELSE state[t]]
        /\ placed' = (placed \ Leaving(c)) \cup w
        /\ UNCHANGED <<lock, ipi, intr, pc, call, plock, panic>>
    BY <1>2, Zenon DEF WokenBy, NextQueue, StillAsleep, FirstSleepers, LaterSleepers
  <2>2. idle' = [idle EXCEPT ![c] = q = <<>>]
    BY <1>2, Zenon DEF WokenBy, NextQueue, FirstSleepers
  <2>3. duration' \subseteq duration \cup w /\ duration \ w \subseteq duration'
    <3>1. \E slept \in SUBSET w : duration' = (duration \ w) \cup slept
      BY <1>2, Zenon DEF WokenBy, NextQueue, FirstSleepers
    <3> HIDE DEF w
    <3>2. QED
      BY <3>1
  <2>4. \/ /\ q = <<>> /\ current' = [current EXCEPT ![c] = Idle]
           /\ position' = [position EXCEPT ![c] = pos]
        \/ /\ q # <<>> /\ current' = [current EXCEPT ![c] = q[pos + 1]]
           /\ position' = [position EXCEPT ![c] = (pos + 1) % Len(q)]
    <3>1. IF q = <<>>
          THEN /\ current' = [current EXCEPT ![c] = Idle]
               /\ position' = [position EXCEPT ![c] = pos]
          ELSE /\ current' = [current EXCEPT ![c] = q[pos + 1]]
               /\ position' = [position EXCEPT ![c] = (pos + 1) % Len(q)]
      BY <1>2, Zenon DEF WokenBy, NextQueue, FirstSleepers
    <3>2. QED
      BY <3>1, Zenon
  <2>5. QED
    BY <2>1, <2>2, <2>3, <2>4, Zenon DEF Round
<1>4. QED
  BY <1>1, <1>3

\* remove_last leaves a queue of threads and a position in it.
LEMMA RemoveLastFacts ==
  ASSUME SInv, NEW c \in Cpus
  PROVE  /\ RemoveLast(c).queue = RemoveFirst(sched_queue[c], requesting[c].tr)
         /\ RemoveLast(c).queue \in Seq(Threads)
         /\ RemoveLast(c).position \in Nat
         /\ RemoveLast(c).position < Len(RemoveLast(c).queue) \/ RemoveLast(c).position = 0
         /\ Leaving(c) \subseteq {requesting[c].tr}
         /\ requesting[c].tr \in Leaving(c) <=> Member(sched_queue[c], requesting[c].tr)
<1> DEFINE s == sched_queue[c]
           r == requesting[c].tr
           q == RemoveFirst(s, r)
           pos == IF Leaving(c) = {} THEN position[c] ELSE Retreat(position[c], Len(q))
<1>1. RemoveLast(c).queue = q /\ RemoveLast(c).position = pos
  BY DEF RemoveLast, Without
<1>2. s \in Seq(Threads) /\ position[c] \in Nat /\ (position[c] < Len(s) \/ position[c] = 0)
  BY DEF SInv, QueueTypes, PositionsOK
<1>3. r \in Leaving(c) <=> Member(s, r)
  BY <1>2, MemberIsToSet DEF Leaving
<1>4. Leaving(c) \subseteq {r}
  BY DEF Leaving
<1> HIDE DEF s, r
<1>5. q \in Seq(Threads) /\ (~Member(s, r) => q = s)
  BY <1>2, TakeOff
<1>6. Leaving(c) = {} => q = s
  BY <1>3, <1>5
<1>7. pos \in Nat /\ (pos < Len(q) \/ pos = 0)
  <2>1. Len(q) \in Nat
    BY <1>5
  <2>2. CASE Leaving(c) = {}
    BY <1>2, <1>6, <2>2
  <2>3. CASE Leaving(c) # {}
    BY <1>2, <2>1, <2>3, RetreatFacts
  <2>4. QED
    BY <2>2, <2>3
<1>8. QED
  BY <1>1, <1>3, <1>4, <1>5, <1>7 DEF s, r

\* A round of the scheduler rests only with nothing to run and nobody to wake.
LEMMA RoundKeeps ==
  ASSUME SInv, NEW c \in Cpus, current[c] = Nobody, NEW k \in Expired(c), Round(c, k)
  PROVE  SInv'
<1> DEFINE w == WokenBy(c, k)
           rest == StillAsleep(c, k)
           q == NextQueue(c, k)
           pos == RemoveLast(c).position
           left == RemoveLast(c).queue
<1>1. pause_queue[c] \in Seq(Sleepers(Threads)) /\ k \in 0 .. Len(pause_queue[c])
      /\ \A i \in 1 .. Len(pause_queue[c]) : pause_queue[c][i].due => i <= k
  <2>1. pause_queue[c] \in Seq(Sleepers(Threads))
    BY DEF SInv, QueueTypes
  <2>2. k \in 0 .. Len(pause_queue[c])
        /\ \A i \in 1 .. Len(pause_queue[c]) : pause_queue[c][i].due => i <= k
    BY Zenon DEF Expired
  <2>3. QED
    BY <2>1, <2>2, Zenon
<1>2. w \in Seq(Threads) /\ rest \in Seq(Sleepers(Threads)) /\ Len(w) = k
      /\ Len(rest) = Len(pause_queue[c]) - k
      /\ \A i \in 1 .. Len(pause_queue[c]) - k : rest[i] = pause_queue[c][k + i]
  <2> DEFINE p == pause_queue[c]
  <2>1. w = FirstSleepers(p, k) /\ rest = LaterSleepers(p, k)
    BY DEF WokenBy, StillAsleep
  <2> HIDE DEF p, w, rest
  <2>2. p \in Seq(Sleepers(Threads)) /\ k \in 0 .. Len(p)
    BY <1>1 DEF p
  <2>3. w \in Seq(Threads) /\ rest \in Seq(Sleepers(Threads)) /\ Len(w) = k
        /\ Len(rest) = Len(p) - k
        /\ \A i \in 1 .. Len(p) - k : rest[i] = p[k + i]
    <3>1. /\ FirstSleepers(p, k) \in Seq(Threads) /\ Len(FirstSleepers(p, k)) = k
          /\ LaterSleepers(p, k) \in Seq(Sleepers(Threads))
          /\ Len(LaterSleepers(p, k)) = Len(p) - k
      BY <2>2, Wake, Zenon
    <3>2. \A i \in 1 .. Len(p) - k : LaterSleepers(p, k)[i] = p[k + i]
      BY <2>2, Wake
    <3>3. QED
      BY <2>1, <3>1, <3>2
  <2>4. QED
    BY <2>3 DEF p
<1>3. /\ left \in Seq(Threads) /\ pos \in Nat
      /\ pos < Len(left) \/ pos = 0
  BY RemoveLastFacts
<1>4. q \in Seq(Threads) /\ Len(q) = Len(left) + Len(w)
  <2>1. q = left \o w
    BY DEF NextQueue
  <2> HIDE DEF q, w, left
  <2>2. QED
    BY <1>2, <1>3, <2>1, JoinQueues
<1>5. ToSet(w) \subseteq Threads
  BY <1>2 DEF ToSet
<1>6. /\ requesting' = [requesting EXCEPT ![c] = NoRequest]
      /\ pause_queue' = [pause_queue EXCEPT ![c] = rest]
      /\ sched_queue' = [sched_queue EXCEPT ![c] = q]
      /\ state' = [t \in Threads |-> IF t \in ToSet(w) THEN "RUNNING"
                                     ELSE IF t \in Leaving(c) THEN requesting[c].state
                                     ELSE state[t]]
      /\ placed' = (placed \ Leaving(c)) \cup ToSet(w)
      /\ duration' \subseteq duration \cup ToSet(w)
      /\ UNCHANGED <<lock, ipi, intr, pc, call, plock, panic>>
  BY Zenon DEF Round
<1>7. idle' = [idle EXCEPT ![c] = q = <<>>]
  BY Zenon DEF Round
<1>8. \/ /\ q = <<>> /\ current' = [current EXCEPT ![c] = Idle]
         /\ position' = [position EXCEPT ![c] = pos]
      \/ /\ q # <<>> /\ current' = [current EXCEPT ![c] = q[pos + 1]]
         /\ position' = [position EXCEPT ![c] = (pos + 1) % Len(q)]
  BY Zenon DEF Round
<1>9. q # <<>> => q[pos + 1] \in Threads /\ (pos + 1) % Len(q) \in 0 .. Len(q) - 1
  <2> SUFFICES ASSUME q # <<>> PROVE q[pos + 1] \in Threads /\ (pos + 1) % Len(q) \in 0 .. Len(q) - 1
    OBVIOUS
  <2> HIDE DEF w, rest, q, pos, left
  <2>1. Len(q) \in Nat \ {0} /\ Len(left) \in Nat /\ Len(w) \in Nat
    BY <1>2, <1>3, <1>4
  <2>2. pos + 1 \in 1 .. Len(q)
    BY <1>3, <1>4, <2>1
  <2>3. q[pos + 1] \in Threads
    BY <1>4, <2>2
  <2>4. (pos + 1) % Len(q) \in 0 .. Len(q) - 1
    BY <1>3, <2>1
  <2>5. QED
    BY <2>3, <2>4
<1>10. rest = <<>> \/ ~rest[1].due
  <2> HIDE DEF w, rest, q, pos, left
  <2>1. ASSUME rest # <<>> PROVE ~rest[1].due
    <3>1. Len(rest) \in Nat \ {0}
      BY <1>2, <2>1
    <3>2. k \in Nat /\ Len(pause_queue[c]) \in Nat
      BY <1>1
    <3>3. 1 \in 1 .. Len(pause_queue[c]) - k /\ k + 1 \in 1 .. Len(pause_queue[c]) /\ ~(k + 1 <= k)
      BY <1>2, <3>1, <3>2
    <3>4. QED
      BY <1>1, <1>2, <3>3
  <2>2. QED
    BY <2>1
<1> HIDE DEF w, rest, q, pos, left
<1>11. QueueTypes'
  <2>1. sched_queue' \in [Cpus -> Seq(Threads)] /\ pause_queue' \in [Cpus -> Seq(Sleepers(Threads))]
    BY <1>2, <1>4, <1>6 DEF SInv, QueueTypes
  <2>2. position' \in [Cpus -> Nat]
    <3>1. q # <<>> => (pos + 1) % Len(q) \in Nat
      BY <1>9
    <3>2. QED
      BY <1>3, <1>8, <3>1 DEF SInv, QueueTypes
  <2>3. QED
    BY <2>1, <2>2 DEF QueueTypes
<1>12. RequestTypes'
  BY <1>6, Values DEF SInv, RequestTypes
<1>13. CpuTypes'
  BY <1>6, <1>8, <1>9 DEF SInv, CpuTypes
<1>14. MarkTypes'
  <2>1. (q = <<>>) \in BOOLEAN
    BY Zenon
  <2>2. idle \in [Cpus -> BOOLEAN] /\ ipi \in [Cpus -> BOOLEAN] /\ panic \in BOOLEAN
    BY Zenon DEF SInv, MarkTypes
  <2>3. idle' \in [Cpus -> BOOLEAN]
    BY <1>7, <2>1, <2>2, Zenon
  <2>4. QED
    BY <1>6, <2>2, <2>3, Zenon DEF MarkTypes
<1>15. FieldTypes'
  <2>1. requesting[c].state \in States
    BY DEF SInv, RequestTypes
  <2>2. state' \in [Threads -> States]
    BY <1>6, <2>1 DEF SInv, FieldTypes, States
  <2>3. placed' \subseteq Threads /\ duration' \subseteq Threads
    BY <1>5, <1>6 DEF SInv, FieldTypes
  <2>4. QED
    BY <1>6, <2>2, <2>3 DEF SInv, FieldTypes
<1>16. CallTypes' /\ CallsNamed'
  BY <1>6 DEF SInv, CallTypes, CallsNamed
<1>17. PositionsOK'
  <2>1. ASSUME NEW d \in Cpus PROVE position'[d] < Len(sched_queue'[d]) \/ position'[d] = 0
    <3>1. CASE d # c
      <4>1. position'[d] = position[d] /\ sched_queue'[d] = sched_queue[d]
        BY <1>6, <1>8, <3>1 DEF SInv, QueueTypes
      <4>2. QED
        BY <4>1 DEF SInv, PositionsOK
    <3>2. CASE d = c
      <4>1. sched_queue'[d] = q
        BY <1>6, <3>2 DEF SInv, QueueTypes
      <4>2. CASE q = <<>>
        <5>1. position'[d] = pos
          BY <1>8, <3>2, <4>2 DEF SInv, QueueTypes
        <5>2. Len(q) = 0
          BY <4>2
        <5>3. Len(left) \in Nat /\ Len(w) \in Nat
          BY <1>2, <1>3
        <5>4. Len(left) = 0
          <6>1. 0 = Len(left) + Len(w)
            BY <1>4, <5>2
          <6>2. QED
            BY <5>3, <6>1
        <5>40. pos = 0
          BY <1>3, <5>4
        <5>5. QED
          BY <5>1, <5>40
      <4>3. CASE q # <<>>
        <5>1. position'[d] = (pos + 1) % Len(q)
          BY <1>8, <3>2, <4>3 DEF SInv, QueueTypes
        <5>2. Len(q) \in Nat
          BY <1>4
        <5>3. QED
          BY <1>9, <4>1, <4>3, <5>1, <5>2
      <4>4. QED
        BY <4>2, <4>3
    <3>3. QED
      BY <3>1, <3>2
  <2>2. QED
    BY <2>1 DEF PositionsOK
<1>18. Asleep'
  <2>1. ASSUME NEW d \in Cpus, current'[d] = Idle
        PROVE  ipi'[d] \/ Rests(d)'
    <3>1. CASE d # c
      <4>1. /\ current'[d] = current[d] /\ idle'[d] = idle[d] /\ ipi'[d] = ipi[d]
            /\ sched_queue'[d] = sched_queue[d] /\ pause_queue'[d] = pause_queue[d]
        BY <1>6, <1>7, <1>8, <3>1 DEF SInv, QueueTypes, CpuTypes, MarkTypes
      <4>2. QED
        BY <2>1, <4>1 DEF SInv, Asleep, Rests
    <3>2. CASE d = c
      <4>1. q = <<>>
        <5>1. q # <<>> => current'[d] = q[pos + 1]
          BY <1>8, <3>2 DEF SInv, CpuTypes
        <5>2. QED
          BY <1>9, <2>1, <5>1, Values
      <4>2. sched_queue'[d] = <<>> /\ pause_queue'[d] = rest
        BY <1>6, <3>2, <4>1 DEF SInv, QueueTypes
      <4>3. idle'[d]
        <5>1. idle'[d] = (q = <<>>)
          BY <1>7, <3>2 DEF SInv, MarkTypes
        <5>2. QED
          BY <4>1, <5>1
      <4>4. QED
        BY <1>10, <4>2, <4>3 DEF Rests
    <3>3. QED
      BY <3>1, <3>2
  <2>2. QED
    BY <2>1 DEF Asleep
<1>19. QED
  BY <1>11, <1>12, <1>13, <1>14, <1>15, <1>16, <1>17, <1>18 DEF SInv

\* Interrupts and rounds keep the types and the rests.
LEMMA SCpuStep == ASSUME SInv, NEW c \in Cpus, CpuStep(c) PROVE SInv'
<1>1. CASE scheduler(c)
  <2>1. current[c] = Nobody /\ (Halt \/ \E k \in Expired(c) : Round(c, k))
    BY <1>1, SchedulerRound
  <2>2. QED
    BY <2>1, HaltKeeps, RoundKeeps
<1>2. CASE Interrupt(c) \/ IdleInterrupt(c)
  <2>1. /\ UNCHANGED <<sched_queue, position, pause_queue, requesting, lock, idle, state, placed, duration,
                       intr, pc, call, plock, panic>>
        /\ current' = [current EXCEPT ![c] = Nobody] /\ ipi' = [ipi EXCEPT ![c] = FALSE]
    BY <1>2 DEF Interrupt, IdleInterrupt, queues, fields
  <2>2. QueueTypes' /\ RequestTypes' /\ FieldTypes' /\ CallTypes' /\ CallsNamed' /\ PositionsOK'
    BY <2>1 DEF SInv, QueueTypes, RequestTypes, FieldTypes, CallTypes, CallsNamed, PositionsOK
  <2>3. CpuTypes'
    BY <2>1 DEF SInv, CpuTypes
  <2>4. MarkTypes'
    BY <2>1, Zenon DEF SInv, MarkTypes
  <2>5. Asleep'
    <3>1. ASSUME NEW d \in Cpus, current'[d] = Idle PROVE current[d] = Idle /\ ipi'[d] = ipi[d]
      BY <2>1, <3>1, Values DEF SInv, CpuTypes, MarkTypes
    <3>2. QED
      BY <2>1, <3>1 DEF SInv, Asleep, Rests
  <2>6. QED
    BY <2>2, <2>3, <2>4, <2>5 DEF SInv
<1>3. QED
  BY <1>1, <1>2 DEF CpuStep

\* Every step keeps them.
LEMMA SNext == SInv /\ [Next]_vars => SInv'
<1> SUFFICES ASSUME SInv, [Next]_vars PROVE SInv'
  OBVIOUS
<1>1. CASE UNCHANGED vars
  BY <1>1 DEF vars, queues, cpus, fields, SInv, QueueTypes, RequestTypes, CpuTypes, MarkTypes, FieldTypes,
              CallTypes, CallsNamed, PositionsOK, Asleep, Rests
<1>2. CASE Next
  BY <1>2, SSelfCall, SOtherCall, SStateChange, SCpuStep DEF Next
<1>3. QED
  BY <1>1, <1>2

\* In every execution the variables have their types: in particular a CPU executes a
\* thread, its idle thread or nobody, as the position always is a place of the queue
\* the scheduler takes the next thread from (sub_dequeue, remove_last, scheduler).
THEOREM SchedulerTypes == Spec => []TypeOK
<1>1. SInv => TypeOK
  BY TypesTogether DEF SInv
<1>2. QED
  BY SInit, SNext, <1>1, PTL DEF Spec

\* In every execution, for any CPUs and threads, a CPU that halts in its idle thread
\* while a thread is in its run queue or a restarted sleeper is due has an interrupt on
\* its way: no wakeup is lost between the idle mark of scheduler() and sched_lock.
THEOREM IdleCpusAreWoken == Spec => []NoSleepingCpu
<1>1. SInv => NoSleepingCpu
  BY DEF SInv, Asleep, Rests, NoSleepingCpu
<1>2. QED
  BY SInit, SNext, <1>1, PTL DEF Spec

-----------------------------------------------------------------------------
(* Queues and states. *)

\* The threads of a process share a CPU, and the queue of a CPU has room for its threads.
OneHome == \A t, u \in Threads : Process[t] = Process[u] => Home[t] = Home[u]
Room == \A c \in Cpus : Cardinality(Residents(c)) <= Size

\* A thread is in the run queue, or among the sleepers, of its CPU.
Runs(t) == Member(sched_queue[Home[t]], t)
Sleeps(t) == Sleeper(pause_queue[Home[t]], t)

\* The queues of a CPU hold its own threads, without repetitions.
Proper == \A c \in Cpus : /\ sched_queue[c] \in Seq(Residents(c))
                          /\ Distinct(sched_queue[c])
                          /\ pause_queue[c] \in Seq(Sleepers(Residents(c)))
                          /\ DistinctSleepers(pause_queue[c])

\* A thread with its interrupts disabled is the one that executes on its CPU.
QuietRuns == \A t \in Threads : pc[t] \in QuietPlaces => current[Home[t]] = t

\* A thread has the process locked that it works on.
OwnLockPlaces == {"pause", "self", "self_woken"}
LocksHeld == \A t \in Threads : /\ pc[t] \in WorkPlaces => plock[Process[call[t].to]] = t
                                /\ pc[t] \in OwnLockPlaces => plock[Process[t]] = t

\* A thread takes another one of its process off the run queue.
Removing == \A t \in Threads : pc[t] \in {"dequeue", "dequeued"} =>
               /\ Process[call[t].to] = Process[t] /\ call[t].to # t
               /\ call[t].new # "RUNNING" /\ state[call[t].to] = "RUNNING"

\* Between the two halves of a state change a thread runs in name only, and it does
\* not sleep.
Moving == \A t, u \in Threads : pc[t] \in {"queue", "dequeued"} /\ call[t].to = u =>
             state[u] = "RUNNING" /\ ~Sleeps(u)

\* A request is from the thread that executes, or that has just stopped executing.
Asking == {"yield", "exit", "self"}
Asked == {"woken", "exited", "self_woken", "exit"}
Asks(c, r) == /\ Home[r] = c /\ state[r] = "RUNNING" /\ ~InTransit(r)
              /\ requesting[c].state # "RUNNING"
              /\ \/ current[c] = r /\ pc[r] \in Asking
                 \/ current[c] = Nobody /\ pc[r] \in Asked
Requests == \A c \in Cpus, r \in Threads : requesting[c].tr = r => Asks(c, r)

\* The states and the queues agree.
RunMatch == \A t \in Threads : Runs(t) <=> state[t] = "RUNNING" /\ ~InTransit(t)
SleepMatch == \A t \in Threads : Sleeps(t) =>
                 /\ t \in duration
                 /\ state[t] = "DORMANT" \/ requesting[Home[t]] = [tr |-> t, state |-> "DORMANT"]
CurrentRuns == \A c \in Cpus : current[c] \in Threads => Member(sched_queue[c], current[c])

QInv == /\ Proper /\ QuietRuns /\ LocksHeld /\ Removing /\ Moving
        /\ Requests /\ RunMatch /\ SleepMatch /\ CurrentRuns

\* In the initial states every thread runs and is queued once.
LEMMA QInit == Init => QInv
<1> SUFFICES ASSUME Init PROVE QInv
  OBVIOUS
<1>1. \A c \in Cpus : /\ sched_queue[c] \in Seq(Residents(c)) /\ Distinct(sched_queue[c])
                      /\ \A t \in Residents(c) : Member(sched_queue[c], t)
  BY InitialQueues
<1>2. \A c \in Cpus : /\ pause_queue[c] = <<>> /\ requesting[c] = NoRequest /\ current[c] = Nobody
  BY DEF Init
<1>3. \A t \in Threads : pc[t] = "user" /\ state[t] = "RUNNING"
  BY DEF Init
<1>4. \A c \in Cpus : pause_queue[c] \in Seq(Sleepers(Residents(c))) /\ DistinctSleepers(pause_queue[c])
                      /\ \A x : ~Sleeper(pause_queue[c], x)
  <2>1. Len(<<>>) = 0 /\ 1 .. 0 = {}
    OBVIOUS
  <2>2. \A S : <<>> \in Seq(S)
    OBVIOUS
  <2>3. DistinctSleepers(<<>>) /\ \A x : ~Sleeper(<<>>, x)
    BY <2>1 DEF DistinctSleepers, Sleeper
  <2>4. QED
    BY <1>2, <2>2, <2>3
<1>5. Proper
  BY <1>1, <1>4 DEF Proper
<1>6. QuietRuns /\ LocksHeld /\ Removing /\ Moving
  BY <1>3 DEF QuietRuns, LocksHeld, Removing, Moving, QuietPlaces, WorkPlaces, OwnLockPlaces
<1>7. Requests /\ CurrentRuns
  BY <1>2, Values DEF Requests, CurrentRuns
<1>8. SleepMatch
  BY <1>4, Values DEF SleepMatch, Sleeps
<1>9. RunMatch
  <2>1. \A t \in Threads : Runs(t)
    BY <1>1, Values DEF Runs, Residents
  <2>2. \A t \in Threads : ~InTransit(t)
    BY <1>3 DEF InTransit
  <2>3. QED
    BY <1>3, <2>1, <2>2 DEF RunMatch
<1>10. QED
  BY <1>5, <1>6, <1>7, <1>8, <1>9 DEF QInv

\* The invariant is what the property says.
LEMMA QMatches == SInv /\ QInv => QueuesMatchState
<1> SUFFICES ASSUME SInv, QInv PROVE QueuesMatchState
  OBVIOUS
<1>1. ASSUME NEW t \in Threads
      PROVE  LET c == Home[t]
                 runs == Occurrences(sched_queue[c], LAMBDA u : u = t)
                 sleeps == Occurrences(pause_queue[c], LAMBDA e : e.tr = t)
             IN  /\ runs = IF state[t] = "RUNNING" /\ ~InTransit(t) THEN 1 ELSE 0
                 /\ sleeps <= 1
                 /\ sleeps = 1 => t \in duration
  <2> DEFINE c == Home[t]
             runs == PlacesOf(sched_queue[c], t)
             sleeps == BedsOf(pause_queue[c], t)
  <2>1. c \in Cpus
    BY Values
  <2>10. /\ sched_queue[c] \in Seq(Residents(c)) /\ Distinct(sched_queue[c])
         /\ pause_queue[c] \in Seq(Sleepers(Residents(c))) /\ DistinctSleepers(pause_queue[c])
    BY <2>1 DEF QInv, Proper
  <2>2. runs = IF Member(sched_queue[c], t) THEN 1 ELSE 0
    BY <2>10, CountOnce
  <2>3. sleeps = IF Sleeper(pause_queue[c], t) THEN 1 ELSE 0
    BY <2>10, CountSleeper
  <2>4. Member(sched_queue[c], t) <=> state[t] = "RUNNING" /\ ~InTransit(t)
    BY DEF QInv, RunMatch, Runs
  <2>5. Sleeper(pause_queue[c], t) => t \in duration
    BY DEF QInv, SleepMatch, Sleeps
  <2> HIDE DEF c, runs, sleeps
  <2>6. /\ runs = IF state[t] = "RUNNING" /\ ~InTransit(t) THEN 1 ELSE 0
        /\ sleeps <= 1
        /\ sleeps = 1 => t \in duration
    BY <2>2, <2>3, <2>4, <2>5
  <2>7. QED
    BY <2>6, Zenon DEF c, runs, sleeps, PlacesOf, BedsOf
<1>2. ASSUME NEW c \in Cpus
      PROVE  /\ current[c] \in Threads => current[c] \in ToSet(sched_queue[c])
             /\ position[c] < Len(sched_queue[c]) \/ position[c] = 0
  <2>1. sched_queue[c] \in Seq(Threads)
    BY DEF SInv, QueueTypes
  <2>2. QED
    BY <2>1, MemberIsToSet DEF SInv, QInv, CurrentRuns, PositionsOK
<1>3. QED
  BY <1>1, <1>2, Zenon DEF QueuesMatchState

\* A thread that executes outside of a request has no request on its CPU.
LEMMA Caller ==
  ASSUME SInv, QInv, NEW t \in Threads, current[Home[t]] = t, pc[t] \notin Asking
  PROVE  /\ Home[t] \in Cpus /\ state[t] = "RUNNING" /\ ~InTransit(t)
         /\ requesting[Home[t]].tr = Nobody /\ ~Sleeps(t)
<1>1. Home[t] \in Cpus /\ t # Nobody
  BY Values
<1>2. state[t] = "RUNNING" /\ ~InTransit(t)
  BY <1>1 DEF QInv, CurrentRuns, RunMatch, Runs
<1>3. requesting[Home[t]].tr = Nobody
  BY <1>1 DEF QInv, Requests, Asks, SInv, RequestTypes
<1>4. ~Sleeps(t)
  <2>1. requesting[Home[t]] # [tr |-> t, state |-> "DORMANT"]
    BY <1>1, <1>3
  <2>2. QED
    BY <1>2, <2>1 DEF QInv, SleepMatch
<1>5. QED
  BY <1>1, <1>2, <1>3, <1>4

\* One thread takes or gives back the lock of a process.
LEMMA LockStep ==
  ASSUME SInv, QInv, NEW t \in Threads, NEW P \in Processes, NEW h, plock[P] \in {Free, t},
         plock' = [plock EXCEPT ![P] = h],
         \A s \in Threads \ {t} : pc'[s] = pc[s] /\ call'[s] = call[s],
         pc'[t] \in WorkPlaces => plock'[Process[call'[t].to]] = t,
         pc'[t] \in OwnLockPlaces => plock'[Process[t]] = t
  PROVE  LocksHeld'
<1>1. ASSUME NEW s \in Threads, NEW R \in Processes, s # t, plock[R] = s PROVE plock'[R] = s
  BY <1>1, Values DEF SInv, CallTypes
<1>2. ASSUME NEW s \in Threads
      PROVE  /\ pc'[s] \in WorkPlaces => plock'[Process[call'[s].to]] = s
             /\ pc'[s] \in OwnLockPlaces => plock'[Process[s]] = s
  <2>1. CASE s # t
    <3>1. pc[s] \in WorkPlaces => Process[call[s].to] \in Processes /\ plock[Process[call[s].to]] = s
      BY Values DEF SInv, CallsNamed, QInv, LocksHeld
    <3>2. pc[s] \in OwnLockPlaces => Process[s] \in Processes /\ plock[Process[s]] = s
      BY Values DEF QInv, LocksHeld
    <3>3. QED
      BY <1>1, <2>1, <3>1, <3>2
  <2>2. QED
    BY <2>1
<1>3. QED
  BY <1>2 DEF LocksHeld

\* A step that leaves queues, states and the work on other threads alone.
LEMMA WorkAlone ==
  ASSUME QInv, UNCHANGED <<sched_queue, pause_queue, state, call>>,
         \A s \in Threads : \/ pc'[s] = pc[s]
                            \/ pc[s] \notin {"dequeue", "dequeued", "queue"} /\ pc'[s] \notin {"dequeue", "dequeued", "queue"}
  PROVE  /\ \A u : InTransit(u)' <=> InTransit(u)
         /\ Proper' /\ Removing' /\ Moving' /\ RunMatch'
<1>1. \A u : InTransit(u)' <=> InTransit(u)
  BY DEF InTransit, Target
<1>2. Proper'
  BY DEF QInv, Proper
<1>3. Removing' /\ Moving'
  BY DEF QInv, Removing, Moving, Sleeps
<1>4. RunMatch'
  BY <1>1 DEF QInv, RunMatch, Runs
<1>5. QED
  BY <1>1, <1>2, <1>3, <1>4

\* A halted kernel has the queues it had.
LEMMA HaltQueues == ASSUME QInv, Halt PROVE QInv'
<1>1. UNCHANGED <<sched_queue, position, pause_queue, requesting, current, state, duration, pc, call, plock>>
  BY DEF Halt, queues, cpus, fields
<1>2. /\ \A u : InTransit(u)' <=> InTransit(u)
      /\ Proper' /\ Removing' /\ Moving' /\ RunMatch'
  BY <1>1, WorkAlone
<1>3. Requests'
  BY <1>1, <1>2 DEF QInv, Requests, Asks
<1>4. QuietRuns' /\ LocksHeld' /\ SleepMatch' /\ CurrentRuns'
  BY <1>1 DEF QInv, QuietRuns, LocksHeld, SleepMatch, Sleeps, CurrentRuns
<1>5. QED
  BY <1>2, <1>3, <1>4 DEF QInv

\* A thread that executes asks for a state or changes its place.
LEMMA OwnQueues ==
  ASSUME SInv, QInv, NEW t \in Threads, current[Home[t]] = t,
         pc[t] \notin WorkPlaces, pc[t] \notin Asking,
         UNCHANGED <<sched_queue, pause_queue, state, call, current>>,
         NEW place \in Places \ WorkPlaces, pc' = [pc EXCEPT ![t] = place],
         \/ UNCHANGED requesting
         \/ /\ place \in Asking
            /\ \E new \in {"DORMANT", "FINISHED"} : Request(t, new),
         duration \ {t} \subseteq duration',
         \/ UNCHANGED plock /\ place \notin OwnLockPlaces
         \/ /\ plock[Process[t]] \in {Free, t}
            /\ \E h \in {Free, t} : /\ plock' = [plock EXCEPT ![Process[t]] = h]
                                    /\ place \in OwnLockPlaces => h = t
  PROVE  QInv'
<1> DEFINE c == Home[t]
<1>1. c \in Cpus /\ state[t] = "RUNNING" /\ ~InTransit(t) /\ requesting[c].tr = Nobody /\ ~Sleeps(t)
  BY Caller
<1>2. pc'[t] = place /\ \A s \in Threads \ {t} : pc'[s] = pc[s]
  BY DEF SInv, FieldTypes
<1>3. /\ \A u : InTransit(u)' <=> InTransit(u)
      /\ Proper' /\ Removing' /\ Moving' /\ RunMatch'
  BY <1>2, WorkAlone DEF WorkPlaces
<1>4. QuietRuns'
  BY <1>2 DEF QInv, QuietRuns
<1>5. LocksHeld'
  <2>1. CASE UNCHANGED plock /\ place \notin OwnLockPlaces
    BY <1>2, <2>1 DEF QInv, LocksHeld
  <2>2. ASSUME plock[Process[t]] \in {Free, t}, NEW h \in {Free, t},
               plock' = [plock EXCEPT ![Process[t]] = h], place \in OwnLockPlaces => h = t
        PROVE  LocksHeld'
    <3>1. Process[t] \in Processes
      BY Values
    <3>2. plock'[Process[t]] = h
      BY <2>2, <3>1 DEF SInv, CallTypes
    <3>3. QED
      BY <1>2, <2>2, <3>1, <3>2, LockStep
  <2>3. QED
    BY <2>1, <2>2
<1>6. requesting \in [Cpus -> [tr : Threads \cup {Nobody}, state : States]]
  BY DEF SInv, RequestTypes
<1>7. \A d \in Cpus : d # c => requesting'[d] = requesting[d]
  BY <1>1, <1>6 DEF Request
<1>8. \/ requesting'[c].tr = Nobody
      \/ requesting'[c].tr = t /\ requesting'[c].state # "RUNNING" /\ place \in Asking
  BY <1>1, <1>6 DEF Request
<1>9. Requests'
  <2>1. ASSUME NEW d \in Cpus, NEW r \in Threads, requesting'[d].tr = r PROVE Asks(d, r)'
    <3>1. CASE d # c
      <4>1. requesting'[d] = requesting[d] /\ Asks(d, r)
        BY <1>7, <2>1, <3>1 DEF QInv, Requests
      <4>2. r # t
        BY <3>1, <4>1 DEF Asks
      <4>3. QED
        BY <1>2, <1>3, <4>1, <4>2 DEF Asks
    <3>2. CASE d = c
      <4>1. r = t /\ requesting'[c].state # "RUNNING" /\ place \in Asking
        BY <1>8, <2>1, <3>2, Values
      <4>2. QED
        BY <1>1, <1>2, <1>3, <3>2, <4>1 DEF Asks
    <3>3. QED
      BY <3>1, <3>2
  <2>2. QED
    BY <2>1 DEF Requests
<1>10. SleepMatch'
  <2>1. ASSUME NEW s \in Threads, Sleeps(s)'
        PROVE  /\ s \in duration'
               /\ state'[s] = "DORMANT" \/ requesting'[Home[s]] = [tr |-> s, state |-> "DORMANT"]
    <3>1. Sleeps(s) /\ s # t
      BY <1>1, <2>1 DEF Sleeps
    <3>2. s \in duration /\ (state[s] = "DORMANT" \/ requesting[Home[s]] = [tr |-> s, state |-> "DORMANT"])
      BY <3>1 DEF QInv, SleepMatch
    <3>3. requesting[Home[s]] = [tr |-> s, state |-> "DORMANT"] => Home[s] # c
      <4>1. requesting[Home[s]] = [tr |-> s, state |-> "DORMANT"] => requesting[Home[s]].tr = s
        OBVIOUS
      <4>2. QED
        BY <1>1, <4>1, Values
    <3>4. QED
      BY <1>7, <3>1, <3>2, <3>3, Values
  <2>2. QED
    BY <2>1 DEF SleepMatch
<1>11. CurrentRuns'
  BY DEF QInv, CurrentRuns
<1>12. QED
  BY <1>3, <1>4, <1>5, <1>9, <1>10, <1>11 DEF QInv

\* pause: a thread joins the sleepers and asks to be dormant.
LEMMA PauseQueues == ASSUME SInv, QInv, NEW t \in Threads, pause(t) PROVE QInv'
<1> DEFINE c == Home[t]
           q == pause_queue[c]
           e == [tr |-> t, due |-> FALSE]
<1>1. current[c] = t /\ pc[t] = "pause" /\ pc' = [pc EXCEPT ![t] = "yield"]
      /\ plock' = [plock EXCEPT ![Process[t]] = Free]
      /\ UNCHANGED <<sched_queue, current, state, call>>
  BY DEF pause, At, Goto, Commit, cpus
<1>2. plock[Process[t]] = t
  BY <1>1 DEF QInv, LocksHeld, OwnLockPlaces
<1>3. "yield" \in Places \ WorkPlaces /\ "yield" \notin OwnLockPlaces /\ "pause" \notin WorkPlaces
      /\ "pause" \notin Asking /\ "yield" \in Asking /\ "yield" \in QuietPlaces
  BY DEF Places, WorkPlaces, OwnLockPlaces, Asking, QuietPlaces
<1>4. CASE UNCHANGED <<pause_queue, requesting, duration>>
  BY <1>1, <1>2, <1>3, <1>4, OwnQueues
<1>5. ASSUME NEW i \in 1 .. Len(q) + 1,
             pause_queue' = [pause_queue EXCEPT ![c] = InsertAt(q, i, e)],
             Request(t, "DORMANT"), duration' = duration \cup {t}
      PROVE  QInv'
  <2>1. c \in Cpus /\ state[t] = "RUNNING" /\ ~InTransit(t) /\ requesting[c].tr = Nobody /\ ~Sleeps(t)
    BY <1>1, <1>3, Caller
  <2>2. pc'[t] = "yield" /\ \A s \in Threads \ {t} : pc'[s] = pc[s]
    BY <1>1 DEF SInv, FieldTypes
  <2>3. q \in Seq(Sleepers(Residents(c))) /\ DistinctSleepers(q) /\ ~Sleeper(q, t)
    BY <2>1 DEF QInv, Proper, Sleeps
  <2>4. e \in Sleepers(Residents(c)) /\ e.tr = t
    BY DEF Sleepers, Residents
  <2> DEFINE r == InsertAt(q, i, e)
  <2>5. /\ r \in Seq(Sleepers(Residents(c))) /\ DistinctSleepers(r)
        /\ \A x : Sleeper(r, x) => Sleeper(q, x) \/ x = t
    <3> HIDE DEF q, e
    <3>1. /\ r \in Seq(Sleepers(Residents(c)))
          /\ \A x : Sleeper(r, x) => Sleeper(q, x) \/ x = e.tr
          /\ DistinctSleepers(q) /\ ~Sleeper(q, e.tr) => DistinctSleepers(r)
      BY <2>3, <2>4, FallAsleep
    <3>2. QED
      BY <2>3, <2>4, <3>1
  <2>6. pause_queue'[c] = r /\ \A d \in Cpus : d # c => pause_queue'[d] = pause_queue[d]
    BY <1>5, <2>1 DEF SInv, QueueTypes
  <2> HIDE DEF r, e
  <2>7. \A s \in Threads : Sleeps(s)' => Sleeps(s) \/ s = t
    BY <2>5, <2>6, Values DEF Sleeps
  <2>8. \A u : InTransit(u)' <=> InTransit(u)
    BY <1>1, <2>2 DEF InTransit, Target
  <2>9. Proper'
    BY <1>1, <2>5, <2>6 DEF QInv, Proper
  <2>10. QuietRuns' /\ CurrentRuns'
    BY <1>1, <2>2 DEF QInv, QuietRuns, CurrentRuns
  <2>11. LocksHeld'
    <3>1. Process[t] \in Processes
      BY Values
    <3>2. QED
      BY <1>1, <1>2, <1>3, <2>2, <3>1, LockStep
  <2>12. Removing'
    BY <1>1, <2>2 DEF QInv, Removing
  <2>13. Moving'
    <3>1. ASSUME NEW s \in Threads, NEW v \in Threads, pc'[s] \in {"queue", "dequeued"}, call'[s].to = v
          PROVE  state'[v] = "RUNNING" /\ ~Sleeps(v)'
      <4>1. pc[s] \in {"queue", "dequeued"} /\ call[s].to = v
        BY <1>1, <2>2, <3>1
      <4>2. InTransit(v)
        BY <4>1 DEF InTransit, Target
      <4>3. state[v] = "RUNNING" /\ ~Sleeps(v)
        BY <4>1 DEF QInv, Moving
      <4>4. QED
        BY <1>1, <2>1, <2>7, <4>2, <4>3
    <3>2. QED
      BY <3>1 DEF Moving
  <2>14. RunMatch'
    BY <1>1, <2>8 DEF QInv, RunMatch, Runs
  <2>15. requesting'[c] = [tr |-> t, state |-> "DORMANT"]
         /\ \A d \in Cpus : d # c => requesting'[d] = requesting[d]
    BY <1>5, <2>1 DEF SInv, RequestTypes, Request
  <2>16. Requests'
    <3>1. ASSUME NEW d \in Cpus, NEW x \in Threads, requesting'[d].tr = x PROVE Asks(d, x)'
      <4>1. CASE d # c
        <5>1. requesting'[d] = requesting[d] /\ Asks(d, x)
          BY <2>15, <3>1, <4>1 DEF QInv, Requests
        <5>2. x # t
          BY <4>1, <5>1 DEF Asks
        <5>3. QED
          BY <1>1, <2>2, <2>8, <5>1, <5>2 DEF Asks
      <4>2. CASE d = c
        <5>1. x = t /\ requesting'[d].state = "DORMANT"
          BY <2>15, <3>1, <4>2
        <5>2. QED
          BY <1>1, <1>3, <2>1, <2>2, <2>8, <4>2, <5>1 DEF Asks
      <4>3. QED
        BY <4>1, <4>2
    <3>2. QED
      BY <3>1 DEF Requests
  <2>17. SleepMatch'
    <3>1. ASSUME NEW s \in Threads, Sleeps(s)'
          PROVE  /\ s \in duration'
                 /\ state'[s] = "DORMANT" \/ requesting'[Home[s]] = [tr |-> s, state |-> "DORMANT"]
      <4>1. CASE s = t
        BY <1>5, <2>15, <4>1
      <4>2. CASE s # t
        <5>1. Sleeps(s)
          BY <2>7, <3>1, <4>2
        <5>2. s \in duration /\ (state[s] = "DORMANT" \/ requesting[Home[s]] = [tr |-> s, state |-> "DORMANT"])
          BY <5>1 DEF QInv, SleepMatch
        <5>3. requesting[Home[s]] = [tr |-> s, state |-> "DORMANT"] => Home[s] # c
          <6>1. requesting[Home[s]] = [tr |-> s, state |-> "DORMANT"] => requesting[Home[s]].tr = s
            OBVIOUS
          <6>2. QED
            BY <2>1, <6>1, Values
        <5>4. QED
          BY <1>1, <1>5, <2>15, <5>2, <5>3, Values
      <4>3. QED
        BY <4>1, <4>2
    <3>2. QED
      BY <3>1 DEF SleepMatch
  <2>18. QED
    BY <2>9, <2>10, <2>11, <2>12, <2>13, <2>14, <2>16, <2>17 DEF QInv
<1>6. \/ UNCHANGED <<pause_queue, requesting, duration>>
      \/ \E i \in 1 .. Len(q) + 1 :
           /\ pause_queue' = [pause_queue EXCEPT ![c] = InsertAt(q, i, e)]
           /\ Request(t, "DORMANT") /\ duration' = duration \cup {t}
  BY DEF pause, PausePlaces
<1>7. QED
  BY <1>4, <1>5, <1>6

\* sched_yield: the thread that asked stops executing.
LEMMA YieldQueues == ASSUME SInv, QInv, NEW t \in Threads, sched_yield(t) PROVE QInv'
<1> DEFINE c == Home[t]
           place == AfterYield[pc[t]]
<1>1. /\ current[c] = t /\ current' = [current EXCEPT ![c] = Nobody] /\ c \in Cpus
      /\ pc[t] \in DOMAIN AfterYield /\ pc' = [pc EXCEPT ![t] = place]
      /\ UNCHANGED <<sched_queue, pause_queue, requesting, state, duration, call, plock>>
  BY Values DEF sched_yield, At, Goto, queues, fields
<1>2. /\ pc[t] \in Asking /\ place \in Asked /\ (pc[t] = "self" <=> place = "self_woken")
  <2>1. DOMAIN AfterYield = Asking
    BY DEF AfterYield, Asking
  <2>2. AfterYield["yield"] = "woken" /\ AfterYield["exit"] = "exited" /\ AfterYield["self"] = "self_woken"
    BY DEF AfterYield
  <2>3. pc[t] \in {"yield", "exit", "self"}
    BY <1>1, <2>1 DEF Asking
  <2>4. QED
    BY <2>2, <2>3 DEF Asking, Asked
<1> HIDE DEF place
<1>3. pc'[t] = place /\ \A s \in Threads \ {t} : pc'[s] = pc[s]
  BY <1>1 DEF SInv, FieldTypes
<1>4. current'[c] = Nobody /\ \A d \in Cpus : d # c => current'[d] = current[d]
  BY <1>1 DEF SInv, CpuTypes
<1>5. /\ \A u : InTransit(u)' <=> InTransit(u)
      /\ Proper' /\ Removing' /\ Moving' /\ RunMatch'
  BY <1>1, <1>2, <1>3, WorkAlone DEF Asking, Asked
<1>6. QuietRuns'
  <2>1. ASSUME NEW s \in Threads, pc'[s] \in QuietPlaces PROVE current'[Home[s]] = s
    <3>1. s # t
      BY <1>2, <1>3, <2>1 DEF Asked, QuietPlaces
    <3>2. current[Home[s]] = s
      BY <1>3, <2>1, <3>1 DEF QInv, QuietRuns
    <3>3. QED
      BY <1>1, <1>4, <3>1, <3>2, Values
  <2>2. QED
    BY <2>1 DEF QuietRuns
<1>7. LocksHeld'
  <2>1. ASSUME NEW s \in Threads
        PROVE  /\ pc'[s] \in WorkPlaces => pc[s] \in WorkPlaces
               /\ pc'[s] \in OwnLockPlaces => pc[s] \in OwnLockPlaces
    BY <1>2, <1>3 DEF WorkPlaces, OwnLockPlaces, Asked
  <2>2. QED
    BY <1>1, <2>1 DEF QInv, LocksHeld
<1>8. Requests'
  <2>1. ASSUME NEW d \in Cpus, NEW r \in Threads, requesting'[d].tr = r PROVE Asks(d, r)'
    <3>1. requesting'[d] = requesting[d] /\ Asks(d, r)
      BY <1>1, <2>1 DEF QInv, Requests
    <3>2. CASE d # c
      <4>1. r # t
        BY <3>1, <3>2 DEF Asks
      <4>2. QED
        BY <1>1, <1>3, <1>4, <1>5, <3>1, <3>2, <4>1 DEF Asks
    <3>3. CASE d = c
      <4>1. r = t
        BY <1>1, <3>1, <3>3, Values DEF Asks
      <4>2. QED
        BY <1>1, <1>2, <1>3, <1>4, <1>5, <3>1, <3>3, <4>1 DEF Asks
    <3>4. QED
      BY <3>2, <3>3
  <2>2. QED
    BY <2>1 DEF Requests
<1>9. SleepMatch'
  BY <1>1 DEF QInv, SleepMatch, Sleeps
<1>10. CurrentRuns'
  BY <1>1, <1>4, Values DEF QInv, CurrentRuns
<1>11. QED
  BY <1>5, <1>6, <1>7, <1>8, <1>9, <1>10 DEF QInv

\* Calls of a thread on itself keep queues and states in agreement.
LEMMA QSelfCall == ASSUME SInv, QInv, NEW t \in Threads, SelfCall(t) PROVE QInv'
<1>0. /\ {"user", "pause", "yield", "woken", "exit", "self", "self_woken"} \subseteq Places \ WorkPlaces
      /\ "user" \notin Asking /\ "woken" \notin Asking /\ "self_woken" \notin Asking
      /\ "yield" \in Asking /\ "exit" \in Asking /\ "self" \in Asking
      /\ "user" \notin OwnLockPlaces /\ "yield" \notin OwnLockPlaces /\ "exit" \notin OwnLockPlaces
      /\ {"self_woken", "self", "pause"} \subseteq OwnLockPlaces
      /\ "woken" \notin WorkPlaces /\ "user" \notin WorkPlaces /\ "self_woken" \notin WorkPlaces
  BY DEF Places, WorkPlaces, Asking, OwnLockPlaces
<1>1. CASE go_dormant(t)
  <2>1. /\ current[Home[t]] = t /\ pc[t] = "user" /\ plock[Process[t]] = Free
        /\ pc' = [pc EXCEPT ![t] = "yield"] /\ Request(t, "DORMANT")
        /\ duration \ {t} \subseteq duration'
        /\ UNCHANGED <<sched_queue, pause_queue, state, call, current, plock>>
    BY <1>1 DEF go_dormant, At, CanCheckout, Goto, cpus
  <2>2. QED
    BY <1>0, <2>1, OwnQueues
<1>2. CASE go_dormant_timed(t)
  <2>1. /\ current[Home[t]] = t /\ pc[t] = "user" /\ plock[Process[t]] = Free
        /\ pc' = [pc EXCEPT ![t] = "pause"] /\ plock' = [plock EXCEPT ![Process[t]] = t]
        /\ duration \ {t} \subseteq duration'
        /\ UNCHANGED <<sched_queue, pause_queue, requesting, state, call, current>>
    BY <1>2 DEF go_dormant_timed, At, CanCheckout, Goto, cpus, queues, fields
  <2>2. QED
    BY <1>0, <2>1, OwnQueues
<1>3. CASE sched_yield(t)
  BY <1>3, YieldQueues
<1>4. CASE Woken(t)
  <2>1. /\ current[Home[t]] = t /\ pc[t] = "woken"
        /\ pc' = [pc EXCEPT ![t] = "user"]
        /\ duration \ {t} \subseteq duration'
        /\ UNCHANGED <<sched_queue, pause_queue, requesting, state, call, current, plock>>
    BY <1>4 DEF Woken, At, Goto, cpus, queues
  <2>2. QED
    BY <1>0, <2>1, OwnQueues
<1>5. CASE exit(t)
  <2>1. /\ current[Home[t]] = t /\ pc[t] = "user" /\ plock[Process[t]] = Free
        /\ pc' = [pc EXCEPT ![t] = "exit"] /\ Request(t, "FINISHED")
        /\ duration \ {t} \subseteq duration'
        /\ UNCHANGED <<sched_queue, pause_queue, state, call, current, plock>>
    BY <1>5 DEF exit, At, CanCheckout, Goto, cpus, fields
  <2>2. QED
    BY <1>0, <2>1, OwnQueues
<1>6. CASE Exited(t)
  BY <1>6, HaltQueues DEF Exited
<1>7. CASE pause(t)
  BY <1>7, PauseQueues
<1>8. ASSUME NEW new \in {"RUNNING", "DORMANT"}, set_own_state(t, new) PROVE QInv'
  <2>1. /\ current[Home[t]] = t /\ pc[t] = "user" /\ plock[Process[t]] = Free
        /\ pc' = [pc EXCEPT ![t] = "self"] /\ plock' = [plock EXCEPT ![Process[t]] = t]
        /\ duration \ {t} \subseteq duration'
        /\ IF new = state[t] THEN UNCHANGED requesting ELSE Request(t, new)
        /\ UNCHANGED <<sched_queue, pause_queue, state, call, current>>
    BY <1>8 DEF set_own_state, At, CanCheckout, Goto, cpus, fields
  <2>2. state[t] = "RUNNING"
    BY <1>0, <2>1, Caller
  <2>3. UNCHANGED requesting \/ Request(t, "DORMANT")
    BY <2>1, <2>2
  <2>4. QED
    BY <1>0, <2>1, <2>3, OwnQueues
<1>9. CASE SelfWoken(t)
  <2>1. /\ current[Home[t]] = t /\ pc[t] = "self_woken"
        /\ pc' = [pc EXCEPT ![t] = "user"] /\ plock' = [plock EXCEPT ![Process[t]] = Free]
        /\ duration \ {t} \subseteq duration'
        /\ UNCHANGED <<sched_queue, pause_queue, requesting, state, call, current>>
    BY <1>9 DEF SelfWoken, At, Commit, Goto, cpus, queues, fields
  <2>2. plock[Process[t]] = t
    BY <1>0, <2>1 DEF QInv, LocksHeld
  <2>3. QED
    BY <1>0, <2>1, <2>2, OwnQueues
<1>10. QED
  BY <1>1, <1>2, <1>3, <1>4, <1>5, <1>6, <1>7, <1>8, <1>9 DEF SelfCall

\* A thread that is not running and not marked for a restart does not sleep.
LEMMA AwakeNotRunning ==
  ASSUME SInv, QInv, NEW u \in Threads, state[u] # "RUNNING", ~(state[u] = "DORMANT" /\ u \in duration)
  PROVE  ~Sleeps(u) /\ ~Runs(u)
<1>1. Home[u] \in Cpus
  BY Values
<1>2. requesting[Home[u]] # [tr |-> u, state |-> "DORMANT"]
  <2>1. requesting[Home[u]].tr # u
    BY <1>1 DEF QInv, Requests, Asks
  <2>2. QED
    BY <2>1
<1>3. QED
  BY <1>2 DEF QInv, SleepMatch, RunMatch

\* A system call on another thread begins.
LEMMA BeginQueues ==
  ASSUME SInv, QInv, NEW t \in Threads, NEW u \in Threads, NEW new \in States, NEW set \in BOOLEAN,
         NEW place \in {"restart", "dequeue", "queue"},
         At(t, "user"), u # t, CanCheckout(Process[u]), Begin(t, u, new, set, place),
         \/ /\ place = "restart" /\ UNCHANGED state
         \/ /\ place = "dequeue" /\ UNCHANGED state
            /\ state[u] = "RUNNING" /\ new # "RUNNING" /\ Process[u] = Process[t]
         \/ /\ place = "queue" /\ state' = [state EXCEPT ![u] = "RUNNING"]
            /\ state[u] # "RUNNING" /\ ~(state[u] = "DORMANT" /\ u \in duration)
  PROVE  QInv'
<1> DEFINE c == Home[t]
<1>1. current[c] = t /\ pc[t] = "user" /\ plock[Process[u]] = Free
      /\ UNCHANGED <<sched_queue, pause_queue, requesting, current, duration>>
  BY DEF At, CanCheckout, Begin, queues, cpus
<1>2. pc' = [pc EXCEPT ![t] = place] /\ plock' = [plock EXCEPT ![Process[u]] = t]
      /\ call' = [call EXCEPT ![t] = [to |-> u, new |-> new, set |-> set]]
  BY DEF Begin, Goto
<1>3. /\ pc'[t] = place /\ call'[t].to = u /\ call'[t].new = new
      /\ \A s \in Threads \ {t} : pc'[s] = pc[s] /\ call'[s] = call[s]
  BY <1>2 DEF SInv, FieldTypes, CallTypes
<1>4. c \in Cpus /\ requesting[c].tr = Nobody
  BY <1>1, Caller DEF Asking
<1>5. place = "queue" => ~Sleeps(u) /\ ~Runs(u)
  BY AwakeNotRunning
<1>6. /\ \A s \in Threads \ {u} : state'[s] = state[s]
      /\ state[u] = "RUNNING" => state'[u] = "RUNNING"
      /\ place = "queue" => state'[u] = "RUNNING"
      /\ place # "queue" => state'[u] = state[u]
  BY DEF SInv, FieldTypes
<1>7. Proper' /\ CurrentRuns'
  BY <1>1 DEF QInv, Proper, CurrentRuns
<1>8. \A x \in Threads : Runs(x)' = Runs(x) /\ Sleeps(x)' = Sleeps(x)
  BY <1>1 DEF Runs, Sleeps
<1>9. \A x \in Threads : InTransit(x)' <=> InTransit(x) \/ (place = "queue" /\ x = u)
  BY <1>1, <1>3 DEF InTransit, Target
<1>10. QuietRuns'
  BY <1>1, <1>3 DEF QInv, QuietRuns
<1>11. LocksHeld'
  <2>1. Process[u] \in Processes
    BY Values
  <2>2. plock'[Process[u]] = t /\ place \notin OwnLockPlaces
    BY <1>2, <2>1 DEF SInv, CallTypes, OwnLockPlaces
  <2>3. QED
    BY <1>1, <1>2, <1>3, <2>1, <2>2, LockStep
<1>12. Removing'
  <2>1. ASSUME NEW s \in Threads, pc'[s] \in {"dequeue", "dequeued"}
        PROVE  /\ Process[call'[s].to] = Process[s] /\ call'[s].to # s
               /\ call'[s].new # "RUNNING" /\ state'[call'[s].to] = "RUNNING"
    <3>1. CASE s = t
      BY <1>3, <1>6, <2>1, <3>1
    <3>2. CASE s # t
      <4>1. /\ Process[call[s].to] = Process[s] /\ call[s].to # s
            /\ call[s].new # "RUNNING" /\ state[call[s].to] = "RUNNING" /\ call[s].to \in Threads
        BY <1>3, <2>1, <3>2 DEF QInv, Removing, SInv, CallsNamed, WorkPlaces
      <4>2. QED
        BY <1>3, <1>6, <3>2, <4>1
    <3>3. QED
      BY <3>1, <3>2
  <2>2. QED
    BY <2>1 DEF Removing
<1>13. Moving'
  <2>1. ASSUME NEW s \in Threads, NEW v \in Threads, pc'[s] \in {"queue", "dequeued"}, call'[s].to = v
        PROVE  state'[v] = "RUNNING" /\ ~Sleeps(v)'
    <3>1. CASE s = t
      BY <1>3, <1>5, <1>6, <1>8, <2>1, <3>1
    <3>2. CASE s # t
      <4>1. state[v] = "RUNNING" /\ ~Sleeps(v)
        BY <1>3, <2>1, <3>2 DEF QInv, Moving
      <4>2. QED
        BY <1>6, <1>8, <4>1
    <3>3. QED
      BY <3>1, <3>2
  <2>2. QED
    BY <2>1 DEF Moving
<1>14. Requests'
  <2>1. ASSUME NEW d \in Cpus, NEW r \in Threads, requesting'[d].tr = r PROVE Asks(d, r)'
    <3>1. Asks(d, r) /\ requesting'[d] = requesting[d]
      BY <1>1, <2>1 DEF QInv, Requests
    <3>2. r # t
      BY <1>1, <3>1 DEF Asks, Asking, Asked
    <3>3. state'[r] = "RUNNING" /\ ~InTransit(r)'
      BY <1>6, <1>9, <3>1 DEF Asks
    <3>4. QED
      BY <1>1, <1>3, <3>1, <3>2, <3>3 DEF Asks
  <2>2. QED
    BY <2>1 DEF Requests
<1>15. RunMatch'
  <2>1. ASSUME NEW x \in Threads PROVE Runs(x)' <=> state'[x] = "RUNNING" /\ ~InTransit(x)'
    <3>1. Runs(x) <=> state[x] = "RUNNING" /\ ~InTransit(x)
      BY DEF QInv, RunMatch
    <3>2. QED
      BY <1>5, <1>6, <1>8, <1>9, <3>1
  <2>2. QED
    BY <2>1 DEF RunMatch
<1>16. SleepMatch'
  <2>1. ASSUME NEW x \in Threads, Sleeps(x)'
        PROVE  /\ x \in duration'
               /\ state'[x] = "DORMANT" \/ requesting'[Home[x]] = [tr |-> x, state |-> "DORMANT"]
    <3>1. Sleeps(x)
      BY <1>8, <2>1
    <3>2. /\ x \in duration
          /\ state[x] = "DORMANT" \/ requesting[Home[x]] = [tr |-> x, state |-> "DORMANT"]
      BY <3>1 DEF QInv, SleepMatch
    <3>3. state'[x] = state[x]
      BY <1>5, <1>6, <3>1
    <3>4. QED
      BY <1>1, <3>2, <3>3
  <2>2. QED
    BY <2>1 DEF SleepMatch
<1>17. QED
  BY <1>7, <1>10, <1>11, <1>12, <1>13, <1>14, <1>15, <1>16 DEF QInv

\* A finished thread is made dormant, or nothing happens.
LEMMA NoBeginQueues ==
  ASSUME SInv, QInv, NEW t \in Threads, NEW u \in Threads,
         UNCHANGED <<sched_queue, pause_queue, requesting, current, duration, pc, call, plock>>,
         \/ UNCHANGED state
         \/ state[u] = "FINISHED" /\ state' = [state EXCEPT ![u] = "DORMANT"]
  PROVE  QInv'
<1>1. \A x \in Threads : /\ state'[x] = "RUNNING" <=> state[x] = "RUNNING"
                         /\ state[x] = "DORMANT" => state'[x] = "DORMANT"
  BY DEF SInv, FieldTypes
<1>2. \A x \in Threads : Runs(x)' = Runs(x) /\ Sleeps(x)' = Sleeps(x)
  BY DEF Runs, Sleeps
<1>3. \A x : InTransit(x)' <=> InTransit(x)
  BY DEF InTransit, Target
<1>4. Proper' /\ CurrentRuns' /\ QuietRuns' /\ LocksHeld'
  BY DEF QInv, Proper, CurrentRuns, QuietRuns, LocksHeld
<1>5. Removing'
  <2>1. \A s \in Threads : pc[s] \in {"dequeue", "dequeued"} => call[s].to \in Threads
    BY DEF SInv, CallsNamed, WorkPlaces
  <2>2. QED
    BY <1>1, <2>1 DEF QInv, Removing
<1>6. Moving'
  BY <1>1, <1>2 DEF QInv, Moving
<1>7. Requests'
  BY <1>1, <1>3 DEF QInv, Requests, Asks
<1>8. RunMatch' /\ SleepMatch'
  BY <1>1, <1>2, <1>3 DEF QInv, RunMatch, SleepMatch
<1>9. QED
  BY <1>4, <1>5, <1>6, <1>7, <1>8 DEF QInv

\* The beginning of a call on another thread keeps them in agreement.
LEMMA QOtherCall == ASSUME SInv, QInv, NEW t \in Threads, OtherCall(t) PROVE QInv'
<1>1. CASE Nothing(t)
  BY <1>1, NoBeginQueues DEF Nothing, queues, cpus, fields
<1>2. ASSUME NEW u \in Threads, NEW new \in States, NEW set \in BOOLEAN,
             At(t, "user"), u # t, CanCheckout(Process[u]), set_thread_state(t, u, new, set),
             new = "RUNNING" \/ Process[u] = Process[t]
      PROVE  QInv'
  <2>1. \/ Halt
        \/ Nothing(t)
        \/ /\ UNCHANGED <<queues, cpus, placed, duration, pc, call, plock, panic>>
           /\ state[u] = "FINISHED" /\ state' = [state EXCEPT ![u] = "DORMANT"]
           /\ EnableInterrupts(t)
        \/ /\ Begin(t, u, new, set, "restart") /\ UNCHANGED <<state, placed>>
           /\ state[u] = "DORMANT"
        \/ /\ Begin(t, u, new, set, "dequeue") /\ UNCHANGED <<state, placed>>
           /\ state[u] = "RUNNING" /\ new # "RUNNING"
        \/ /\ Begin(t, u, new, set, "queue") /\ new = "RUNNING"
           /\ state[u] # "RUNNING" /\ ~(state[u] = "DORMANT" /\ u \in duration)
           /\ state' = [state EXCEPT ![u] = "RUNNING"] /\ placed' = placed \cup {u}
    BY <1>2, CallEffects
  <2>2. CASE Halt
    BY <2>2, HaltQueues
  <2>3. CASE /\ UNCHANGED <<queues, cpus, placed, duration, pc, call, plock, panic>>
             /\ state[u] = "FINISHED" /\ state' = [state EXCEPT ![u] = "DORMANT"]
             /\ EnableInterrupts(t)
    BY <2>3, NoBeginQueues DEF queues, cpus
  <2>4. CASE Begin(t, u, new, set, "restart") /\ UNCHANGED <<state, placed>>
    BY <1>2, <2>4, BeginQueues
  <2>5. CASE /\ Begin(t, u, new, set, "dequeue") /\ UNCHANGED <<state, placed>>
             /\ state[u] = "RUNNING" /\ new # "RUNNING"
    BY <1>2, <2>5, BeginQueues
  <2>6. CASE /\ Begin(t, u, new, set, "queue") /\ new = "RUNNING"
             /\ state[u] # "RUNNING" /\ ~(state[u] = "DORMANT" /\ u \in duration)
             /\ state' = [state EXCEPT ![u] = "RUNNING"] /\ placed' = placed \cup {u}
    BY <1>2, <2>6, BeginQueues
  <2>7. QED
    BY <1>1, <2>1, <2>2, <2>3, <2>4, <2>5, <2>6
<1>3. \/ Nothing(t)
      \/ \E u \in Threads, new \in States, set \in BOOLEAN :
            /\ At(t, "user") /\ u # t /\ CanCheckout(Process[u]) /\ set_thread_state(t, u, new, set)
            /\ new = "RUNNING" \/ Process[u] = Process[t]
  BY DEF OtherCall, send, set_state, States
<1>4. QED
  BY <1>1, <1>2, <1>3

\* A call on another thread ends: its lock goes back, and the thread is in transit no more.
LEMMA ReturnQueues ==
  ASSUME SInv, QInv, NEW t \in Threads, current[Home[t]] = t, pc[t] \in WorkPlaces, Return(t),
         UNCHANGED current
  PROVE  /\ Target(t) \in Threads /\ plock[Process[Target(t)]] = t
         /\ pc'[t] = "user" /\ \A s \in Threads \ {t} : pc'[s] = pc[s] /\ call'[s] = call[s]
         /\ LocksHeld' /\ QuietRuns'
         /\ \A x \in Threads : InTransit(x)' <=> \E s \in Threads \ {t} :
                pc[s] \in {"queue", "dequeued"} /\ call[s].to = x
         /\ \A s \in Threads \ {t} : pc[s] \in WorkPlaces => call[s].to # Target(t)
<1> DEFINE u == Target(t)
<1>1. u \in Threads /\ plock[Process[u]] = t /\ Process[u] \in Processes
  BY Values DEF SInv, CallsNamed, QInv, LocksHeld, Target
<1>2. pc'[t] = "user" /\ \A s \in Threads \ {t} : pc'[s] = pc[s] /\ call'[s] = call[s]
  BY DEF SInv, FieldTypes, CallTypes, Return, Goto
<1>3. plock' = [plock EXCEPT ![Process[u]] = Free]
  BY DEF Return, Commit
<1>4. LocksHeld'
  <2>1. "user" \notin WorkPlaces /\ "user" \notin OwnLockPlaces
    BY DEF WorkPlaces, OwnLockPlaces
  <2> HIDE DEF u
  <2>2. QED
    BY <1>1, <1>2, <1>3, <2>1, LockStep
<1>5. QuietRuns'
  BY <1>2 DEF QInv, QuietRuns, QuietPlaces
<1>6. \A x \in Threads : InTransit(x)' <=> \E s \in Threads \ {t} :
                pc[s] \in {"queue", "dequeued"} /\ call[s].to = x
  BY <1>2 DEF InTransit, Target
<1>7. \A s \in Threads \ {t} : pc[s] \in WorkPlaces => call[s].to # u
  BY <1>1 DEF QInv, LocksHeld
<1>8. QED
  BY <1>1, <1>2, <1>4, <1>5, <1>6, <1>7

\* sub_queue: the thread whose state is already running joins the run queue.
LEMMA QueueQueues == ASSUME Room, SInv, QInv, NEW t \in Threads, queue(t) PROVE QInv'
<1> DEFINE u == Target(t)
           c == Home[u]
           q == sched_queue[c]
<1>1. /\ current[Home[t]] = t /\ pc[t] = "queue" /\ Return(t)
      /\ UNCHANGED <<pause_queue, requesting, current, state, duration>>
      /\ IF Len(q) = Size THEN UNCHANGED sched_queue
                          ELSE sched_queue' = [sched_queue EXCEPT ![c] = Append(q, u)]
  BY DEF queue, At, fields
<1>2. /\ u \in Threads /\ plock[Process[u]] = t
      /\ pc'[t] = "user" /\ \A s \in Threads \ {t} : pc'[s] = pc[s] /\ call'[s] = call[s]
      /\ LocksHeld' /\ QuietRuns'
      /\ \A x \in Threads : InTransit(x)' <=> \E s \in Threads \ {t} :
                pc[s] \in {"queue", "dequeued"} /\ call[s].to = x
      /\ \A s \in Threads \ {t} : pc[s] \in WorkPlaces => call[s].to # u
  BY <1>1, ReturnQueues DEF WorkPlaces
<1>3. c \in Cpus /\ u \in Residents(c)
  BY <1>2, Values DEF Residents
<1>4. InTransit(u) /\ state[u] = "RUNNING"
  BY <1>1, <1>2 DEF InTransit, QInv, Moving, Target
<1>5. ~Member(q, u)
  BY <1>2, <1>4 DEF QInv, RunMatch, Runs
<1>6. q \in Seq(Residents(c)) /\ Distinct(q)
  BY <1>3 DEF QInv, Proper
<1>7. Len(q) # Size
  <2>1. IsFiniteSet(Residents(c))
    BY HomeAssumption, FS_Subset DEF Residents
  <2>2. Cardinality(Residents(c)) <= Size
    BY <1>3 DEF Room
  <2> HIDE DEF q, u, c
  <2>3. QED
    BY <1>3, <1>5, <1>6, <2>1, <2>2, FullQueue
<1>8. /\ Append(q, u) \in Seq(Residents(c)) /\ Distinct(Append(q, u))
      /\ \A x : Member(Append(q, u), x) <=> Member(q, x) \/ x = u
  BY <1>3, <1>5, <1>6, JoinQueue
<1>9. sched_queue'[c] = Append(q, u) /\ \A d \in Cpus : d # c => sched_queue'[d] = sched_queue[d]
  BY <1>1, <1>3, <1>7 DEF SInv, QueueTypes
<1>10. \A x \in Threads : InTransit(x)' <=> InTransit(x) /\ x # u
  BY <1>1, <1>2 DEF InTransit, Target, WorkPlaces
<1>11. Proper'
  BY <1>1, <1>8, <1>9 DEF QInv, Proper
<1>12. \A d \in Cpus : \A x : Member(sched_queue'[d], x) <=> Member(sched_queue[d], x) \/ (d = c /\ x = u)
  BY <1>8, <1>9
<1> HIDE DEF q
<1>13. RunMatch'
  <2>1. ASSUME NEW x \in Threads PROVE Runs(x)' <=> state'[x] = "RUNNING" /\ ~InTransit(x)'
    <3>1. Runs(x)' <=> Runs(x) \/ x = u
      BY <1>12, Values DEF Runs
    <3>2. Runs(x) <=> state[x] = "RUNNING" /\ ~InTransit(x)
      BY DEF QInv, RunMatch
    <3>3. QED
      BY <1>1, <1>4, <1>10, <3>1, <3>2
  <2>2. QED
    BY <2>1 DEF RunMatch
<1>14. CurrentRuns'
  BY <1>1, <1>12 DEF QInv, CurrentRuns
<1>15. Removing'
  BY <1>1, <1>2 DEF QInv, Removing
<1>16. Moving'
  BY <1>1, <1>2 DEF QInv, Moving, Sleeps
<1>17. SleepMatch'
  BY <1>1 DEF QInv, SleepMatch, Sleeps
<1>18. Requests'
  <2>1. ASSUME NEW d \in Cpus, NEW r \in Threads, requesting'[d].tr = r PROVE Asks(d, r)'
    <3>1. Asks(d, r) /\ requesting'[d] = requesting[d]
      BY <1>1, <2>1 DEF QInv, Requests
    <3>2. r # t
      BY <1>1, <3>1 DEF Asks, Asking, Asked
    <3>3. QED
      BY <1>1, <1>2, <1>10, <3>1, <3>2 DEF Asks
  <2>2. QED
    BY <2>1 DEF Requests
<1>19. QED
  BY <1>2, <1>11, <1>13, <1>14, <1>15, <1>16, <1>17, <1>18 DEF QInv

\* restart: the sleepers are the same, in another order.
LEMMA RestartQueues == ASSUME SInv, QInv, NEW t \in Threads, restart(t) PROVE QInv'
<1> DEFINE u == Target(t)
           c == Home[u]
           p == pause_queue[c]
           others == OtherSleepers(p, u)
           r == <<[tr |-> u, due |-> TRUE]>> \o others
<1>1. current[Home[t]] = t /\ pc[t] = "restart"
  BY DEF restart, At
<1>2. \/ Halt
      \/ /\ others # p
         /\ pause_queue' = [pause_queue EXCEPT ![c] = r]
         /\ Return(t)
         /\ UNCHANGED <<sched_queue, requesting, current, fields>>
  BY Zenon DEF restart, OtherSleepers
<1>3. CASE Halt
  BY <1>3, HaltQueues
<1>4. CASE /\ others # p
           /\ pause_queue' = [pause_queue EXCEPT ![c] = r]
           /\ Return(t)
           /\ UNCHANGED <<sched_queue, requesting, current, fields>>
  <2>1. /\ u \in Threads /\ plock[Process[u]] = t
        /\ pc'[t] = "user" /\ \A s \in Threads \ {t} : pc'[s] = pc[s] /\ call'[s] = call[s]
        /\ LocksHeld' /\ QuietRuns'
        /\ \A x \in Threads : InTransit(x)' <=> \E s \in Threads \ {t} :
                  pc[s] \in {"queue", "dequeued"} /\ call[s].to = x
    BY <1>1, <1>4, ReturnQueues DEF WorkPlaces
  <2>2. UNCHANGED <<state, duration>>
    BY <1>4 DEF fields
  <2>3. c \in Cpus /\ u \in Residents(c)
    BY <2>1, Values DEF Residents
  <2>4. p \in Seq(Sleepers(Residents(c))) /\ DistinctSleepers(p)
    BY <2>3 DEF QInv, Proper
  <2>5. /\ r \in Seq(Sleepers(Residents(c))) /\ DistinctSleepers(r)
        /\ \A x : Sleeper(r, x) => Sleeper(p, x)
    BY <1>4, <2>3, <2>4, MoveToFront
  <2>6. pause_queue'[c] = r /\ \A d \in Cpus : d # c => pause_queue'[d] = pause_queue[d]
    BY <1>4, <2>3 DEF SInv, QueueTypes
  <2> HIDE DEF r, others
  <2>7. \A x \in Threads : Sleeps(x)' => Sleeps(x)
    BY <2>5, <2>6, Values DEF Sleeps
  <2>8. \A x \in Threads : InTransit(x)' <=> InTransit(x)
    BY <1>1, <2>1 DEF InTransit, Target
  <2>9. Proper'
    BY <1>4, <2>5, <2>6 DEF QInv, Proper
  <2> HIDE DEF p, c, u
  <2>10. RunMatch' /\ CurrentRuns'
    BY <1>4, <2>2, <2>8 DEF QInv, RunMatch, Runs, CurrentRuns
  <2>11. Removing'
    BY <1>4, <2>1, <2>2 DEF QInv, Removing
  <2>12. Moving'
    BY <2>1, <2>2, <2>7 DEF QInv, Moving
  <2>13. SleepMatch'
    BY <1>4, <2>2, <2>7 DEF QInv, SleepMatch
  <2>14. Requests'
    <3>1. ASSUME NEW d \in Cpus, NEW x \in Threads, requesting'[d].tr = x PROVE Asks(d, x)'
      <4>1. Asks(d, x) /\ requesting'[d] = requesting[d]
        BY <1>4, <3>1 DEF QInv, Requests
      <4>2. x # t
        BY <1>1, <4>1 DEF Asks, Asking, Asked
      <4>3. QED
        BY <1>4, <2>1, <2>2, <2>8, <4>1, <4>2 DEF Asks
    <3>2. QED
      BY <3>1 DEF Requests
  <2>15. QED
    BY <2>1, <2>9, <2>10, <2>11, <2>12, <2>13, <2>14 DEF QInv
<1>5. QED
  BY <1>2, <1>3, <1>4

\* sub_dequeue: the thread leaves the run queue of the CPU that its remover keeps busy.
LEMMA SubDequeueQueues == ASSUME OneHome, SInv, QInv, NEW t \in Threads, sub_dequeue(t) PROVE QInv'
<1> DEFINE u == Target(t)
           c == Home[u]
           s0 == sched_queue[c]
           q == RemoveFirst(s0, u)
<1>1. current[Home[t]] = t /\ pc[t] = "dequeue"
  BY DEF sub_dequeue, At
<1>2. \/ Halt
      \/ /\ sched_queue' = [sched_queue EXCEPT ![c] = q]
         /\ pc' = [pc EXCEPT ![t] = "dequeued"]
         /\ UNCHANGED <<pause_queue, requesting, current, fields, call, plock>>
  BY DEF sub_dequeue, Without, Goto
<1>3. CASE Halt
  BY <1>3, HaltQueues
<1>4. CASE /\ sched_queue' = [sched_queue EXCEPT ![c] = q]
           /\ pc' = [pc EXCEPT ![t] = "dequeued"]
           /\ UNCHANGED <<pause_queue, requesting, current, fields, call, plock>>
  <2>1. /\ u \in Threads /\ u # t /\ Home[t] = c /\ c \in Cpus /\ state[u] = "RUNNING"
        /\ call[t].new # "RUNNING" /\ Process[u] = Process[t] /\ call[t].to = u
    BY <1>1, Values DEF SInv, CallsNamed, WorkPlaces, QInv, Removing, OneHome, Target
  <2>2. UNCHANGED <<state, duration>>
    BY <1>4 DEF fields
  <2>3. s0 \in Seq(Residents(c)) /\ Distinct(s0)
    BY <2>1 DEF QInv, Proper
  <2>4. /\ q \in Seq(Residents(c)) /\ Distinct(q)
        /\ \A x : Member(q, x) <=> Member(s0, x) /\ x # u
    BY <2>3, TakeOff
  <2>5. sched_queue'[c] = q /\ \A d \in Cpus : d # c => sched_queue'[d] = sched_queue[d]
    BY <1>4, <2>1 DEF SInv, QueueTypes
  <2>6. pc'[t] = "dequeued" /\ \A s \in Threads \ {t} : pc'[s] = pc[s]
    BY <1>4 DEF SInv, FieldTypes
  <2>7. requesting[c].tr = Nobody
    BY <1>1, <2>1, Caller DEF Asking
  <2>8. ~Sleeps(u)
    <3>1. requesting[c] # [tr |-> u, state |-> "DORMANT"]
      BY <2>1, <2>7, Values
    <3>2. QED
      BY <2>1, <3>1 DEF QInv, SleepMatch
  <2>9. \A d \in Cpus : \A x : Member(sched_queue'[d], x) <=> Member(sched_queue[d], x) /\ ~(d = c /\ x = u)
    BY <2>4, <2>5
  <2>10. Proper'
    BY <1>4, <2>4, <2>5 DEF QInv, Proper
  <2> HIDE DEF s0, q
  <2>11. \A x \in Threads : Runs(x)' <=> Runs(x) /\ x # u
    BY <2>9, Values DEF Runs
  <2> HIDE DEF c, u
  <2>12. \A x \in Threads : InTransit(x)' <=> InTransit(x) \/ x = u
    BY <1>1, <1>4, <2>1, <2>6 DEF InTransit, Target
  <2>13. \A x \in Threads : Sleeps(x)' = Sleeps(x)
    BY <1>4 DEF Sleeps
  <2>14. RunMatch'
    BY <2>2, <2>11, <2>12 DEF QInv, RunMatch
  <2>15. CurrentRuns'
    BY <1>1, <1>4, <2>1, <2>9 DEF QInv, CurrentRuns
  <2>16. QuietRuns'
    BY <1>1, <1>4, <2>1, <2>6 DEF QInv, QuietRuns, QuietPlaces
  <2>17. LocksHeld'
    BY <1>1, <1>4, <2>6 DEF QInv, LocksHeld, WorkPlaces, OwnLockPlaces
  <2>18. Removing'
    BY <1>1, <1>4, <2>2, <2>6 DEF QInv, Removing
  <2>19. Moving'
    BY <1>1, <1>4, <2>1, <2>2, <2>6, <2>8, <2>13 DEF QInv, Moving
  <2>20. SleepMatch'
    BY <1>4, <2>2, <2>13 DEF QInv, SleepMatch
  <2>21. Requests'
    <3>1. ASSUME NEW d \in Cpus, NEW x \in Threads, requesting'[d].tr = x PROVE Asks(d, x)'
      <4>1. Asks(d, x) /\ requesting'[d] = requesting[d]
        BY <1>4, <3>1 DEF QInv, Requests
      <4>2. x # t
        BY <1>1, <4>1 DEF Asks, Asking, Asked
      <4>3. x # u
        <5>1. x = u => d = c
          BY <4>1 DEF Asks, c
        <5>2. QED
          BY <1>4, <2>7, <3>1, <4>1, <5>1, Values
      <4>4. QED
        BY <1>4, <2>2, <2>6, <2>12, <4>1, <4>2, <4>3 DEF Asks
    <3>2. QED
      BY <3>1 DEF Requests
  <2>22. QED
    BY <2>10, <2>14, <2>15, <2>16, <2>17, <2>18, <2>19, <2>20, <2>21 DEF QInv
<1>5. QED
  BY <1>2, <1>3, <1>4

\* The thread taken off the run queue gets its new state.
LEMMA DequeuedQueues == ASSUME SInv, QInv, NEW t \in Threads, Dequeued(t) PROVE QInv'
<1> DEFINE u == Target(t)
<1>1. /\ current[Home[t]] = t /\ pc[t] = "dequeued" /\ Return(t)
      /\ UNCHANGED <<sched_queue, pause_queue, requesting, current, duration>>
      /\ state' = [state EXCEPT ![u] = call[t].new]
  BY DEF Dequeued, At, queues, cpus
<1>2. /\ u \in Threads /\ plock[Process[u]] = t
      /\ pc'[t] = "user" /\ \A s \in Threads \ {t} : pc'[s] = pc[s] /\ call'[s] = call[s]
      /\ LocksHeld' /\ QuietRuns'
      /\ \A x \in Threads : InTransit(x)' <=> \E s \in Threads \ {t} :
                pc[s] \in {"queue", "dequeued"} /\ call[s].to = x
      /\ \A s \in Threads \ {t} : pc[s] \in WorkPlaces => call[s].to # u
  BY <1>1, ReturnQueues DEF WorkPlaces
<1>3. state'[u] # "RUNNING" /\ \A x \in Threads : x # u => state'[x] = state[x]
  BY <1>1, <1>2 DEF QInv, Removing, SInv, FieldTypes
<1>4. InTransit(u) /\ ~Sleeps(u)
  BY <1>1, <1>2 DEF InTransit, QInv, Moving, Target
<1>5. \A x \in Threads : InTransit(x)' <=> InTransit(x) /\ x # u
  BY <1>1, <1>2 DEF InTransit, Target, WorkPlaces
<1>6. \A x \in Threads : Runs(x)' = Runs(x) /\ Sleeps(x)' = Sleeps(x)
  BY <1>1 DEF Runs, Sleeps
<1> HIDE DEF u
<1>7. Proper' /\ CurrentRuns'
  BY <1>1 DEF QInv, Proper, CurrentRuns
<1>8. RunMatch'
  BY <1>3, <1>4, <1>5, <1>6 DEF QInv, RunMatch
<1>9. Removing'
  <2>1. \A s \in Threads \ {t} : pc[s] \in {"dequeue", "dequeued"} => call[s].to \in Threads /\ call[s].to # u
    BY <1>2 DEF SInv, CallsNamed, WorkPlaces
  <2>2. QED
    BY <1>2, <1>3, <2>1 DEF QInv, Removing
<1>10. Moving'
  <2>1. \A s \in Threads \ {t} : pc[s] \in {"queue", "dequeued"} => call[s].to # u
    BY <1>2 DEF WorkPlaces
  <2>2. QED
    BY <1>2, <1>3, <1>6, <2>1 DEF QInv, Moving
<1>11. SleepMatch'
  BY <1>1, <1>3, <1>4, <1>6 DEF QInv, SleepMatch
<1>12. Requests'
  <2>1. ASSUME NEW d \in Cpus, NEW r \in Threads, requesting'[d].tr = r PROVE Asks(d, r)'
    <3>1. Asks(d, r) /\ requesting'[d] = requesting[d]
      BY <1>1, <2>1 DEF QInv, Requests
    <3>2. r # t /\ r # u
      BY <1>1, <1>4, <3>1 DEF Asks, Asking, Asked
    <3>3. QED
      BY <1>1, <1>2, <1>3, <1>5, <3>1, <3>2 DEF Asks
  <2>2. QED
    BY <2>1 DEF Requests
<1>13. QED
  BY <1>2, <1>7, <1>8, <1>9, <1>10, <1>11, <1>12 DEF QInv

\* So do its later steps, when the threads of a process share a CPU and there is room.
LEMMA QStateChange ==
  ASSUME OneHome, Room, SInv, QInv, NEW t \in Threads, StateChange(t) PROVE QInv'
<1>1. CASE sched_lock(t)
  <2>1. UNCHANGED <<sched_queue, pause_queue, requesting, current, duration, pc, call, plock, state>>
    BY <1>1 DEF sched_lock, queues, fields
  <2>2. QED
    BY <2>1, NoBeginQueues
<1>2. QED
  BY <1>1, QueueQueues, RestartQueues, SubDequeueQueues, DequeuedQueues DEF StateChange

\* An interrupt ends the run of a thread, or the rest of a CPU.
LEMMA InterruptQueues ==
  ASSUME HInv, SInv, QInv, NEW c \in Cpus, Interrupt(c) \/ IdleInterrupt(c) PROVE QInv'
<1>1. /\ UNCHANGED <<sched_queue, pause_queue, requesting, state, duration, pc, call, plock>>
      /\ current' = [current EXCEPT ![c] = Nobody]
      /\ current[c] \in intr \/ current[c] = Idle
  BY DEF Interrupt, IdleInterrupt, queues, fields
<1>2. current'[c] = Nobody /\ \A d \in Cpus : d # c => current'[d] = current[d]
  BY <1>1 DEF SInv, CpuTypes
<1>3. \A s \in Threads : pc[s] \in QuietPlaces => current[c] # s
  BY <1>1, Values DEF HInv, Quiet
<1>4. current[c] # Nobody
  BY <1>1, Values DEF SInv, FieldTypes
<1>5. /\ \A u : InTransit(u)' <=> InTransit(u)
      /\ Proper' /\ Removing' /\ Moving' /\ RunMatch'
  BY <1>1, WorkAlone
<1>6. LocksHeld' /\ SleepMatch'
  BY <1>1 DEF QInv, LocksHeld, SleepMatch, Sleeps
<1>7. QuietRuns'
  <2>1. ASSUME NEW s \in Threads, pc'[s] \in QuietPlaces PROVE current'[Home[s]] = s
    <3>1. pc[s] \in QuietPlaces /\ current[Home[s]] = s /\ Home[s] \in Cpus
      BY <1>1, <2>1, Values DEF QInv, QuietRuns
    <3>2. QED
      BY <1>2, <1>3, <3>1
  <2>2. QED
    BY <2>1 DEF QuietRuns
<1>8. CurrentRuns'
  BY <1>1, <1>2, Values DEF QInv, CurrentRuns
<1>9. Requests'
  <2>1. ASSUME NEW d \in Cpus, NEW r \in Threads, requesting'[d].tr = r PROVE Asks(d, r)'
    <3>1. Asks(d, r) /\ requesting'[d] = requesting[d]
      BY <1>1, <2>1 DEF QInv, Requests
    <3>2. CASE d # c
      BY <1>1, <1>2, <1>5, <3>1, <3>2 DEF Asks
    <3>3. CASE d = c
      <4>1. pc[r] \in Asking /\ current[c] = r
        BY <1>4, <3>1, <3>3 DEF Asks
      <4>2. pc[r] = "exit"
        BY <1>3, <4>1 DEF Asking, QuietPlaces
      <4>3. QED
        BY <1>1, <1>2, <1>5, <3>1, <3>3, <4>2 DEF Asks, Asked
    <3>4. QED
      BY <3>2, <3>3
  <2>2. QED
    BY <2>1 DEF Requests
<1>10. QED
  BY <1>5, <1>6, <1>7, <1>8, <1>9 DEF QInv

\* A round takes off the thread that asked for it and wakes the expired sleepers.
LEMMA RoundQueues ==
  ASSUME OneHome, SInv, QInv, NEW c \in Cpus, current[c] = Nobody, NEW k \in Expired(c), Round(c, k)
  PROVE  QInv'
<1> DEFINE p == pause_queue[c]
           w == FirstSleepers(p, k)
           rest == LaterSleepers(p, k)
           s0 == sched_queue[c]
           r == requesting[c].tr
           left == RemoveFirst(s0, r)
           q == left \o w
           pos == RemoveLast(c).position
<1>1. /\ p \in Seq(Sleepers(Residents(c))) /\ DistinctSleepers(p)
      /\ s0 \in Seq(Residents(c)) /\ Distinct(s0)
  BY DEF QInv, Proper
<1>2. k \in 0 .. Len(p)
  BY Zenon DEF Expired
<1>3. /\ RemoveLast(c).queue = left /\ pos \in Nat /\ (pos < Len(left) \/ pos = 0)
      /\ Leaving(c) \subseteq {r} /\ (r \in Leaving(c) <=> Member(s0, r))
  BY RemoveLastFacts
<1>4. NextQueue(c, k) = q /\ WokenBy(c, k) = w /\ StillAsleep(c, k) = rest
  BY <1>3 DEF NextQueue, WokenBy, StillAsleep
<1>5. /\ requesting' = [requesting EXCEPT ![c] = NoRequest]
      /\ pause_queue' = [pause_queue EXCEPT ![c] = rest]
      /\ sched_queue' = [sched_queue EXCEPT ![c] = q]
      /\ state' = [t \in Threads |-> IF t \in ToSet(w) THEN "RUNNING"
                                     ELSE IF t \in Leaving(c) THEN requesting[c].state
                                     ELSE state[t]]
      /\ duration \ ToSet(w) \subseteq duration'
      /\ UNCHANGED <<pc, call, plock>>
  <2> HIDE DEF q, w, rest, pos
  <2> QED BY <1>4, Zenon DEF Round
<1>6. \/ q = <<>> /\ current' = [current EXCEPT ![c] = Idle]
      \/ q # <<>> /\ current' = [current EXCEPT ![c] = q[pos + 1]]
  <2> HIDE DEF q, w, rest
  <2> QED BY <1>4, Zenon DEF Round
<1> HIDE DEF pos
<1>7. /\ w \in Seq(Residents(c)) /\ rest \in Seq(Sleepers(Residents(c)))
      /\ \A x : Sleeper(rest, x) => Sleeper(p, x)
      /\ \A x : Member(w, x) => Sleeper(p, x)
      /\ Distinct(w) /\ DistinctSleepers(rest)
      /\ \A x : ~(Member(w, x) /\ Sleeper(rest, x))
  <2> HIDE DEF p
  <2> QED BY <1>1, <1>2, Wake, Zenon
<1>8. /\ left \in Seq(Residents(c)) /\ Distinct(left)
      /\ \A x : Member(left, x) <=> Member(s0, x) /\ x # r
  <2> HIDE DEF s0, r
  <2> QED BY <1>1, TakeOff, Zenon
<1>9. \A x : x \in ToSet(w) <=> Member(w, x)
  <2> HIDE DEF w
  <2> QED BY <1>7, MemberIsToSet
<1> HIDE DEF w, rest, left
<1>10. \A x : Member(w, x) => x \in Threads /\ Home[x] = c /\ Sleeps(x)
  <2>1. \A x : Member(w, x) => x \in Residents(c)
    BY <1>7 DEF Member
  <2>2. QED
    BY <1>7, <2>1 DEF Residents, Sleeps
<1>11. r \in Threads => /\ Home[r] = c /\ state[r] = "RUNNING" /\ ~InTransit(r)
                        /\ requesting[c].state # "RUNNING" /\ r \in Leaving(c)
  <2>1. ASSUME r \in Threads PROVE Asks(c, r)
    <3> DEFINE r1 == r
    <3>1. r1 \in Threads /\ requesting[c].tr = r1
      BY <2>1
    <3> HIDE DEF r1
    <3>2. Asks(c, r1)
      BY <3>1 DEF QInv, Requests
    <3>3. QED
      BY <3>2 DEF r1
  <2>2. ASSUME r \in Threads
        PROVE  /\ Home[r] = c /\ state[r] = "RUNNING" /\ ~InTransit(r) /\ requesting[c].state # "RUNNING"
    BY <2>1, <2>2 DEF Asks
  <2>3. ASSUME r \in Threads PROVE Member(s0, r)
    BY <2>2, <2>3 DEF QInv, RunMatch, Runs
  <2>4. QED
    BY <1>3, <2>2, <2>3
<1>12. r \notin Threads => Leaving(c) = {}
  <2>1. r \in Threads \/ r = Nobody
    BY DEF SInv, RequestTypes
  <2>2. r = Nobody => ~Member(s0, r)
    BY <1>1, Values DEF Member, Residents
  <2>3. QED
    BY <1>3, <2>1, <2>2
<1>13. \A x : ~(Member(left, x) /\ Member(w, x))
  <2>1. ASSUME NEW x, Member(left, x), Member(w, x) PROVE FALSE
    <3>1. x \in Threads /\ Home[x] = c /\ Sleeps(x) /\ Member(s0, x) /\ x # r
      BY <1>8, <1>10, <2>1
    <3>2. state[x] = "RUNNING"
      BY <3>1 DEF QInv, RunMatch, Runs
    <3>3. requesting[c] = [tr |-> x, state |-> "DORMANT"]
      BY <3>1, <3>2 DEF QInv, SleepMatch
    <3>4. QED
      BY <3>1, <3>3
  <2>2. QED
    BY <2>1
<1>14. /\ q \in Seq(Residents(c)) /\ Distinct(q) /\ Len(q) = Len(left) + Len(w)
       /\ \A x : Member(q, x) <=> (Member(s0, x) /\ x # r) \/ Member(w, x)
  <2>1. /\ q \in Seq(Residents(c)) /\ Len(q) = Len(left) + Len(w)
        /\ \A x : Member(q, x) <=> Member(left, x) \/ Member(w, x)
        /\ Distinct(left) /\ Distinct(w) /\ (\A x : ~(Member(left, x) /\ Member(w, x))) => Distinct(q)
    BY <1>7, <1>8, JoinQueues
  <2>2. QED
    BY <1>7, <1>8, <1>13, <2>1
<1>15. q # <<>> => Member(q, q[pos + 1])
  <2> HIDE DEF q
  <2>1. ASSUME q # <<>> PROVE pos + 1 \in 1 .. Len(q)
    <3>1. Len(q) \in Nat \ {0} /\ Len(left) \in Nat /\ Len(w) \in Nat
      BY <1>7, <1>8, <1>14, <2>1
    <3>2. Len(q) = Len(left) + Len(w)
      BY <1>14
    <3>3. pos \in Nat /\ (pos < Len(left) \/ pos = 0)
      BY <1>3
    <3>4. QED
      BY <3>1, <3>2, <3>3
  <2>2. QED
    BY <2>1 DEF Member
<1> HIDE DEF q
<1>16. /\ sched_queue'[c] = q /\ pause_queue'[c] = rest /\ requesting'[c].tr = Nobody
       /\ \A d \in Cpus : d # c => /\ sched_queue'[d] = sched_queue[d] /\ pause_queue'[d] = pause_queue[d]
                                   /\ requesting'[d] = requesting[d] /\ current'[d] = current[d]
  BY <1>5, <1>6, Values DEF SInv, QueueTypes, RequestTypes, CpuTypes
<1>17. q # <<>> => current'[c] = q[pos + 1]
  BY <1>6 DEF SInv, CpuTypes
<1>18. q = <<>> => current'[c] = Idle
  BY <1>6 DEF SInv, CpuTypes
\* The states after the round.
<1>19. ASSUME NEW x \in Threads
       PROVE  /\ Member(w, x) => state'[x] = "RUNNING"
              /\ ~Member(w, x) /\ x = r => state'[x] = requesting[c].state
              /\ ~Member(w, x) /\ x # r => state'[x] = state[x]
              /\ Home[x] # c => state'[x] = state[x] /\ ~Member(w, x)
  <2>1. /\ Member(w, x) => state'[x] = "RUNNING"
        /\ ~Member(w, x) /\ x \in Leaving(c) => state'[x] = requesting[c].state
        /\ ~Member(w, x) /\ x \notin Leaving(c) => state'[x] = state[x]
    BY <1>5, <1>9
  <2>2. x # r => x \notin Leaving(c)
    BY <1>3
  <2>3. x = r => x \in Leaving(c) /\ Home[x] = c
    BY <1>11
  <2>4. Home[x] # c => ~Member(w, x) /\ x # r
    BY <1>10, <2>3
  <2> HIDE DEF r
  <2>5. QED
    BY <2>1, <2>2, <2>3, <2>4
<1>20. \A x : InTransit(x)' <=> InTransit(x)
  BY <1>5 DEF InTransit, Target
<1>21. ASSUME NEW x \in Threads, InTransit(x) PROVE x # r /\ ~Sleeps(x) /\ ~Member(w, x)
  <2>1. ~Sleeps(x)
    BY <1>21 DEF InTransit, Target, QInv, Moving
  <2>2. QED
    BY <1>10, <1>11, <1>21, <2>1
<1>22. ASSUME NEW x \in Threads, Sleeps(x)' PROVE Sleeps(x) /\ ~Member(w, x)
  <2>1. CASE Home[x] = c
    <3>1. Sleeper(rest, x)
      BY <1>16, <1>22, <2>1 DEF Sleeps
    <3>2. QED
      BY <1>7, <2>1, <3>1 DEF Sleeps
  <2>2. CASE Home[x] # c
    <3>1. pause_queue'[Home[x]] = pause_queue[Home[x]]
      BY <1>16, <2>2, Values
    <3>2. QED
      BY <1>19, <1>22, <2>2, <3>1 DEF Sleeps
  <2>3. QED
    BY <2>1, <2>2
<1>23. Proper'
  <2>1. ASSUME NEW d \in Cpus
        PROVE  /\ sched_queue'[d] \in Seq(Residents(d)) /\ Distinct(sched_queue'[d])
               /\ pause_queue'[d] \in Seq(Sleepers(Residents(d))) /\ DistinctSleepers(pause_queue'[d])
    <3>1. CASE d = c
      BY <1>7, <1>14, <1>16, <3>1
    <3>2. CASE d # c
      BY <1>16, <3>2 DEF QInv, Proper
    <3>3. QED
      BY <3>1, <3>2
  <2>2. QED
    BY <2>1 DEF Proper
<1>24. QuietRuns'
  <2>1. ASSUME NEW s \in Threads, pc'[s] \in QuietPlaces PROVE current'[Home[s]] = s
    <3>1. current[Home[s]] = s /\ s # Nobody /\ Home[s] \in Cpus
      BY <1>5, <2>1, Values DEF QInv, QuietRuns
    <3>2. QED
      BY <1>16, <3>1
  <2>2. QED
    BY <2>1 DEF QuietRuns
<1>25. LocksHeld'
  BY <1>5 DEF QInv, LocksHeld
<1>26. Removing'
  <2>1. ASSUME NEW s \in Threads, pc'[s] \in {"dequeue", "dequeued"}
        PROVE  /\ Process[call'[s].to] = Process[s] /\ call'[s].to # s
               /\ call'[s].new # "RUNNING" /\ state'[call'[s].to] = "RUNNING"
    <3>1. /\ Process[call[s].to] = Process[s] /\ call[s].to # s /\ call[s].new # "RUNNING"
          /\ state[call[s].to] = "RUNNING" /\ call[s].to \in Threads
      BY <1>5, <2>1 DEF QInv, Removing, SInv, CallsNamed, WorkPlaces
    <3>2. current[Home[s]] = s /\ s # Nobody
      BY <1>5, <2>1, Values DEF QInv, QuietRuns, QuietPlaces
    <3>3. Home[call[s].to] = Home[s] /\ Home[s] # c
      BY <3>1, <3>2 DEF OneHome
    <3>4. state'[call[s].to] = state[call[s].to]
      BY <1>19, <3>1, <3>3
    <3>5. QED
      BY <1>5, <3>1, <3>4
  <2>2. QED
    BY <2>1 DEF Removing
<1>27. Moving'
  <2>1. ASSUME NEW s \in Threads, NEW v \in Threads, pc'[s] \in {"queue", "dequeued"}, call'[s].to = v
        PROVE  state'[v] = "RUNNING" /\ ~Sleeps(v)'
    <3>1. InTransit(v) /\ state[v] = "RUNNING"
      BY <1>5, <2>1 DEF InTransit, Target, QInv, Moving
    <3>2. v # r /\ ~Sleeps(v) /\ ~Member(w, v)
      BY <1>21, <3>1
    <3>3. QED
      BY <1>19, <1>22, <3>1, <3>2
  <2>2. QED
    BY <2>1 DEF Moving
<1>28. Requests'
  <2>1. ASSUME NEW d \in Cpus, NEW x \in Threads, requesting'[d].tr = x PROVE Asks(d, x)'
    <3>1. d # c
      BY <1>16, <2>1, Values
    <3>2. Asks(d, x) /\ requesting'[d] = requesting[d] /\ current'[d] = current[d]
      BY <1>16, <2>1, <3>1 DEF QInv, Requests
    <3>3. Home[x] # c
      BY <3>1, <3>2 DEF Asks
    <3>4. state'[x] = state[x]
      BY <1>19, <3>3
    <3>5. QED
      BY <1>5, <1>20, <3>2, <3>4 DEF Asks
  <2>2. QED
    BY <2>1 DEF Requests
<1>29. RunMatch'
  <2>1. ASSUME NEW x \in Threads PROVE Runs(x)' <=> state'[x] = "RUNNING" /\ ~InTransit(x)'
    <3>1. Runs(x) <=> state[x] = "RUNNING" /\ ~InTransit(x)
      BY DEF QInv, RunMatch
    <3>2. CASE Home[x] # c
      <4>1. Runs(x)' <=> Runs(x)
        BY <1>16, <3>2, Values DEF Runs
      <4>2. QED
        BY <1>19, <1>20, <3>1, <3>2, <4>1
    <3>3. CASE Home[x] = c
      <4>1. Runs(x)' <=> (Runs(x) /\ x # r) \/ Member(w, x)
        BY <1>14, <1>16, <3>3 DEF Runs
      <4>2. CASE Member(w, x)
        BY <1>19, <1>20, <1>21, <4>1, <4>2
      <4>3. CASE ~Member(w, x) /\ x = r
        BY <1>11, <1>19, <4>1, <4>3
      <4>4. CASE ~Member(w, x) /\ x # r
        BY <1>19, <1>20, <3>1, <4>1, <4>4
      <4>5. QED
        BY <4>2, <4>3, <4>4
    <3>4. QED
      BY <3>2, <3>3
  <2>2. QED
    BY <2>1 DEF RunMatch
<1>30. SleepMatch'
  <2>1. ASSUME NEW x \in Threads, Sleeps(x)'
        PROVE  /\ x \in duration'
               /\ state'[x] = "DORMANT" \/ requesting'[Home[x]] = [tr |-> x, state |-> "DORMANT"]
    <3>1. Sleeps(x) /\ ~Member(w, x)
      BY <1>22, <2>1
    <3>2. /\ x \in duration
          /\ state[x] = "DORMANT" \/ requesting[Home[x]] = [tr |-> x, state |-> "DORMANT"]
      BY <3>1 DEF QInv, SleepMatch
    <3>3. x \in duration'
      BY <1>5, <1>9, <3>1, <3>2
    <3>4. CASE Home[x] # c
      BY <1>16, <1>19, <3>2, <3>3, <3>4, Values
    <3>5. CASE Home[x] = c
      <4>1. CASE state[x] = "DORMANT"
        <5>1. x # r
          BY <1>11, <4>1
        <5>2. QED
          BY <1>19, <3>1, <3>3, <4>1, <5>1
      <4>2. CASE requesting[Home[x]] = [tr |-> x, state |-> "DORMANT"]
        <5>1. x = r /\ requesting[c].state = "DORMANT"
          BY <3>5, <4>2
        <5>2. QED
          BY <1>19, <3>1, <3>3, <5>1
      <4>3. QED
        BY <3>2, <4>1, <4>2
    <3>6. QED
      BY <3>4, <3>5
  <2>2. QED
    BY <2>1 DEF SleepMatch
<1>31. CurrentRuns'
  <2>1. ASSUME NEW d \in Cpus, current'[d] \in Threads PROVE Member(sched_queue'[d], current'[d])
    <3>1. CASE d # c
      BY <1>16, <2>1, <3>1 DEF QInv, CurrentRuns
    <3>2. CASE d = c
      BY <1>15, <1>16, <1>17, <1>18, <2>1, <3>2, Values
    <3>3. QED
      BY <3>1, <3>2
  <2>2. QED
    BY <2>1 DEF CurrentRuns
<1>32. QED
  BY <1>23, <1>24, <1>25, <1>26, <1>27, <1>28, <1>29, <1>30, <1>31 DEF QInv

\* Interrupts and rounds keep them in agreement.
LEMMA QCpuStep == ASSUME OneHome, HInv, SInv, QInv, NEW c \in Cpus, CpuStep(c) PROVE QInv'
<1>1. CASE scheduler(c)
  <2>1. current[c] = Nobody /\ (Halt \/ \E k \in Expired(c) : Round(c, k))
    BY <1>1, SchedulerRound
  <2>2. QED
    BY <2>1, HaltQueues, RoundQueues
<1>2. CASE Interrupt(c) \/ IdleInterrupt(c)
  BY <1>2, InterruptQueues
<1>3. QED
  BY <1>1, <1>2 DEF CpuStep

\* Every step keeps queues and states in agreement.
LEMMA QNext == ASSUME OneHome, Room, HInv, SInv, QInv, [Next]_vars PROVE QInv'
<1>1. CASE UNCHANGED vars
  <2>1. UNCHANGED <<sched_queue, pause_queue, requesting, current, duration, pc, call, plock, state>>
    BY <1>1 DEF vars, queues, cpus, fields
  <2>2. UNCHANGED <<sched_queue, pause_queue, state, call>> /\ \A s \in Threads : pc'[s] = pc[s]
    BY <2>1
  <2>3. /\ \A u : InTransit(u)' <=> InTransit(u)
        /\ Proper' /\ Removing' /\ Moving' /\ RunMatch'
    BY <2>2, WorkAlone
  <2>4. Requests'
    BY <2>1, <2>3 DEF QInv, Requests, Asks
  <2>5. QuietRuns' /\ LocksHeld' /\ SleepMatch' /\ CurrentRuns'
    BY <2>1 DEF QInv, QuietRuns, LocksHeld, SleepMatch, Sleeps, CurrentRuns
  <2>6. QED
    BY <2>3, <2>4, <2>5 DEF QInv
<1>2. CASE Next
  BY <1>2, QSelfCall, QOtherCall, QStateChange, QCpuStep DEF Next
<1>3. QED
  BY <1>1, <1>2

\* In every execution of a kernel whose processes keep their threads on one CPU, and whose
\* run queues have room for the threads of their CPU, a running thread is in its run
\* queue exactly once, no other thread is, every sleeper is marked as one, and a CPU
\* executes only threads of its queue (set_thread_state, sub_queue, sub_dequeue, pause,
\* restart, remove_last, remove_timers).
THEOREM QueuesAgree ==
  ASSUME OneHome, Room
  PROVE  Spec => []QueuesMatchState
<1>1. HInv /\ SInv /\ QInv /\ [Next]_vars => (HInv /\ SInv /\ QInv)'
  BY HNext, SNext, QNext
<1>2. HInv /\ SInv /\ QInv => QueuesMatchState
  BY QMatches
<1>3. QED
  BY HInit, SInit, QInit, <1>1, <1>2, PTL DEF Spec
=============================================================================
