-------------------------- MODULE LifecycleProofs --------------------------
(***************************************************************************)
(* The life cycle of processes and threads, for every number of processes,  *)
(* threads, CPUs and calls.                                                 *)
(*                                                                          *)
(* That a process stays in the table while anybody waits for its lock or    *)
(* works on it needs no more than the table's lock: every actor inside      *)
(* checkouts counts at least as many times among its readers, and the table *)
(* only changes when it has none.  "At least", because gc_do_thread may     *)
(* return without its commit.                                               *)
(*                                                                          *)
(* That this never happens, that kernel_threads is exact, that the          *)
(* collector's assertions hold and that nothing dead is forgotten depend on *)
(* each other, and are proved from one inductive invariant, LifeInv, in     *)
(* layers:                                                                  *)
(*   RoleInv      threads and collectors are where they may be, a collector *)
(*                works on the head of its ring, and the members of a       *)
(*                process are its threads that exist;                       *)
(*   Born         no thread of a process runs before the process is started;*)
(*   LockInv      the lock of a process excludes: one writer, or readers;   *)
(*   TableInv     a living thread's process is in the table, and a process  *)
(*                that is deleted is finishing and has one collector;       *)
(*   KernelInv    kernel_threads counts the threads in the kernel;          *)
(*   KillQuiet    no thread sleeps with a timer while its process is        *)
(*                deleted;                                                  *)
(*   ExitInv      a thread is in the ring of its own CPU, once, and has     *)
(*                gone through the scheduler when the collector comes to it;*)
(*   CheckoutInv  an actor's checkouts are counted exactly.                 *)
(***************************************************************************)
EXTENDS Lifecycle, FiniteSetTheorems, TLAPS

UsingPlaces == {"lock", "work", "lock_parent", "clone", "kill"}

Shape == /\ tableLock \in Locks
         /\ DOMAIN pc = Actors /\ DOMAIN target = Actors

Counted == /\ tableLock.writer = Nobody
           /\ \A a \in Actors : tableLock.readers[a] >= Checkouts(a)

Present == \A a \in Actors : pc[a] \in UsingPlaces => target[a] \in table

Inv == Shape /\ Counted /\ Present

-----------------------------------------------------------------------------
(* What the operations of a lock do to its readers. *)

\* A new reader is counted once more, and nobody else is.
LEMMA ReadFacts ==
  ASSUME NEW l \in Locks, NEW a \in Actors
  PROVE  /\ Read(l, a) \in Locks
         /\ Read(l, a).writer = l.writer
         /\ Read(l, a).readers[a] = l.readers[a] + 1
         /\ \A b \in Actors \ {a} : Read(l, a).readers[b] = l.readers[b]
BY DEF Locks, Read

\* A reader that releases is counted once less, and nobody else is.
LEMMA ReleaseFacts ==
  ASSUME NEW l \in Locks, NEW a \in Actors, l.writer = Nobody, l.readers[a] >= 1
  PROVE  /\ Release(l, a) \in Locks
         /\ Release(l, a).writer = Nobody
         /\ Release(l, a).readers[a] = l.readers[a] - 1
         /\ \A b \in Actors \ {a} : Release(l, a).readers[b] = l.readers[b]
BY DEF Locks, Release

\* Writing and releasing leaves the readers as they were.
LEMMA WriteReleaseFacts ==
  ASSUME NEW l \in Locks, NEW a \in Actors, l.writer = Nobody
  PROVE  /\ Release(Write(l, a), a) \in Locks
         /\ Release(Write(l, a), a).writer = Nobody
         /\ Release(Write(l, a), a).readers = l.readers
<1>1. a # Nobody
  BY ActorAssumption DEF Actors
<1>2. Write(l, a) \in Locks /\ Write(l, a).writer = a /\ Write(l, a).readers = l.readers
  BY DEF Locks, Write
<1>3. QED
  BY <1>1, <1>2 DEF Locks, Release

\* A request changes neither the readers nor the writer.
LEMMA AskFacts ==
  ASSUME NEW l \in Locks
  PROVE  Ask(l) \in Locks /\ Ask(l).writer = l.writer /\ Ask(l).readers = l.readers
BY DEF Locks, Ask

-----------------------------------------------------------------------------
(* Steps by what they do to the table's lock. *)

\* The table and its readers stay; actors may only come to places outside checkouts.
LEMMA StayStep ==
  ASSUME Inv, tableLock' \in Locks, tableLock'.writer = Nobody,
         tableLock'.readers = tableLock.readers,
         DOMAIN pc' = Actors, DOMAIN target' = Actors,
         \A a \in Actors : \/ pc'[a] \notin UsingPlaces
                           \/ pc'[a] = pc[a] /\ target'[a] = target[a]
                           \/ /\ pc[a] \in {"lock", "work"} /\ pc'[a] \in {"lock", "work", "kill"}
                              /\ target'[a] = target[a]
                           \/ /\ pc[a] = "lock_parent" /\ pc'[a] = "clone"
                              /\ target'[a] = target[a],
         \A a \in Actors : pc'[a] \in UsingPlaces /\ target[a] \in table => target[a] \in table'
  PROVE  Inv'
<1>1. Shape'
  BY DEF Shape
<1>2. \A a \in Actors : Checkouts(a)' <= Checkouts(a) \/ Checkouts(a)' = 0
  BY DEF Checkouts, UsingPlaces
<1>3. \A a \in Actors : tableLock.readers[a] \in Nat /\ Checkouts(a) \in Nat
  BY DEF Inv, Shape, Locks, Checkouts
<1>4. Counted'
  BY <1>2, <1>3 DEF Inv, Counted, Checkouts
<1>5. Present'
  BY DEF Inv, Present, UsingPlaces
<1>6. QED
  BY <1>1, <1>4, <1>5 DEF Inv

\* Actor x commits its only checkout; others may only come to places outside checkouts.
LEMMA CommitStep ==
  ASSUME Inv, NEW x \in Actors, Checkouts(x) = 1,
         tableLock' = Release(tableLock, x), table' = table, target' = target,
         DOMAIN pc' = Actors, pc'[x] \notin UsingPlaces,
         \A a \in Actors : pc'[a] \notin UsingPlaces \/ pc'[a] = pc[a]
  PROVE  Inv'
<1>1. tableLock.readers[x] >= 1 /\ tableLock \in Locks /\ tableLock.writer = Nobody
  BY DEF Inv, Shape, Counted
<1>2. /\ tableLock' \in Locks
      /\ tableLock'.writer = Nobody
      /\ \A b \in Actors \ {x} : tableLock'.readers[b] = tableLock.readers[b]
  BY <1>1, ReleaseFacts
<1>3. Shape'
  BY <1>2 DEF Inv, Shape
<1>4. \A a \in Actors : /\ Checkouts(a)' = 0 \/ (a # x /\ Checkouts(a)' = Checkouts(a))
                        /\ tableLock'.readers[a] \in Nat
  BY <1>2 DEF Checkouts, UsingPlaces, Locks
<1>5. Counted'
  BY <1>2, <1>4 DEF Inv, Counted
<1>6. Present'
  BY DEF Inv, Present
<1>7. QED
  BY <1>3, <1>5, <1>6 DEF Inv

\* Actor x becomes a reader of the table once more and goes on inside a checkout
\* of a process that is there.
LEMMA ReadStep ==
  ASSUME Inv, NEW x \in Actors,
         tableLock' = Read(tableLock, x), table' = table, target' = target,
         NEW place, pc' = [pc EXCEPT ![x] = place],
         Checkouts(x)' = Checkouts(x) + 1, target[x] \in table
  PROVE  Inv'
<1>1. tableLock \in Locks /\ tableLock.writer = Nobody
  BY DEF Inv, Shape, Counted
<1>2. /\ tableLock' \in Locks
      /\ tableLock'.writer = Nobody
      /\ tableLock'.readers[x] = tableLock.readers[x] + 1
      /\ \A b \in Actors \ {x} : tableLock'.readers[b] = tableLock.readers[b]
  BY <1>1, ReadFacts
<1>3. Shape'
  BY <1>2 DEF Inv, Shape
<1>4. \A a \in Actors : /\ a # x => Checkouts(a)' = Checkouts(a)
                        /\ tableLock.readers[a] \in Nat /\ Checkouts(a) \in Nat
  BY <1>1 DEF Inv, Shape, Checkouts, Locks
<1>5. Counted'
  BY <1>2, <1>4 DEF Inv, Counted
<1>6. Present'
  BY DEF Inv, Present, Shape
<1>7. QED
  BY <1>3, <1>5, <1>6 DEF Inv

\* A thread or collector takes the table for writing, changes it and gives it back:
\* nobody is inside a checkout then.
LEMMA WriteStep ==
  ASSUME Inv, NEW x \in Actors, CanWrite(tableLock),
         tableLock' = Release(Write(tableLock, x), x), target' = target,
         NEW place, place \notin UsingPlaces, pc' = [pc EXCEPT ![x] = place]
  PROVE  Inv'
<1>1. tableLock \in Locks /\ tableLock.writer = Nobody
  BY DEF Inv, Shape, Counted
<1>2. /\ tableLock' \in Locks
      /\ tableLock'.writer = Nobody
      /\ tableLock'.readers = tableLock.readers
  BY <1>1, WriteReleaseFacts
<1>3. \A a \in Actors : pc[a] \notin UsingPlaces
  <2>1. SUFFICES ASSUME NEW a \in Actors PROVE pc[a] \notin UsingPlaces
    OBVIOUS
  <2>2. tableLock.readers[a] = 0 /\ tableLock.readers[a] >= Checkouts(a)
    BY DEF CanWrite, Inv, Counted
  <2>3. QED
    BY <2>2 DEF Checkouts, UsingPlaces
<1>4. \A a \in Actors : pc'[a] \notin UsingPlaces
  BY <1>3 DEF Inv, Shape
<1>5. DOMAIN pc' = Actors /\ DOMAIN target' = Actors
  BY DEF Inv, Shape
<1>6. QED
  BY <1>2, <1>4, <1>5, StayStep

\* The table and its lock are left alone.
LEMMA QuietStep ==
  ASSUME Inv, UNCHANGED <<table, tableLock>>,
         DOMAIN pc' = Actors, DOMAIN target' = Actors,
         \A a \in Actors : \/ pc'[a] \notin UsingPlaces
                           \/ pc'[a] = pc[a] /\ target'[a] = target[a]
                           \/ /\ pc[a] \in {"lock", "work"} /\ pc'[a] \in {"lock", "work", "kill"}
                              /\ target'[a] = target[a]
                           \/ /\ pc[a] = "lock_parent" /\ pc'[a] = "clone"
                              /\ target'[a] = target[a]
  PROVE  Inv'
<1>1. tableLock' \in Locks /\ tableLock'.writer = Nobody /\ tableLock'.readers = tableLock.readers
  BY DEF Inv, Shape, Counted
<1>2. QED
  BY <1>1, StayStep

\* Only actor x moves, to a place outside checkouts or on within the one it is in.
LEMMA MoveStep ==
  ASSUME Inv, NEW x \in Actors, UNCHANGED <<table, tableLock, target>>,
         NEW place, pc' = [pc EXCEPT ![x] = place],
         \/ place \notin UsingPlaces
         \/ pc[x] \in {"lock", "work"} /\ place \in {"lock", "work", "kill"}
         \/ pc[x] = "lock_parent" /\ place = "clone"
  PROVE  Inv'
<1>1. DOMAIN pc' = Actors /\ DOMAIN target' = Actors
  BY DEF Inv, Shape
<1>2. pc'[x] = place /\ \A a \in Actors \ {x} : pc'[a] = pc[a]
  BY DEF Inv, Shape
<1>3. QED
  BY <1>1, <1>2, QuietStep

\* Waking threads up brings nobody into a checkout.
LEMMA WakeUpFacts ==
  ASSUME NEW S, NEW x \in Actors, NEW place, place \notin UsingPlaces,
         pc' = [WakeUp(pc, S) EXCEPT ![x] = place]
  PROVE  /\ DOMAIN pc' = Actors
         /\ pc'[x] = place
         /\ \A a \in Actors : pc'[a] \notin UsingPlaces \/ pc'[a] = pc[a]
BY DEF WakeUp, UsingPlaces

\* A thread comes into being, or not, while x goes to a place outside checkouts.
LEMMA NewThreadFacts ==
  ASSUME Inv, NEW x \in Actors, NEW p, new_thread(x, p)
  PROVE  /\ DOMAIN pc' = Actors
         /\ pc'[x] \notin UsingPlaces
         /\ \A a \in Actors : pc'[a] \notin UsingPlaces \/ pc'[a] = pc[a]
<1>1. \/ pc' = [pc EXCEPT ![x] = "leave"]
      \/ \E u \in Threads : pc' = [pc EXCEPT ![u] = "new", ![x] = "leave"]
  BY DEF new_thread, Goto
<1>2. QED
  BY <1>1 DEF Inv, Shape, UsingPlaces, Actors

\* A failed assertion changes nothing that counts.
LEMMA HaltStep ==
  ASSUME Inv, Halt
  PROVE  Inv'
<1>1. DOMAIN pc' = Actors /\ DOMAIN target' = Actors
  BY DEF Inv, Shape, Halt
<1>2. QED
  BY <1>1, QuietStep DEF Halt, processes, locks

-----------------------------------------------------------------------------
(* One step per action. *)

\* checkout_process and the requests for the table keep the invariant.
LEMMA LockSteps ==
  ASSUME Inv, NEW a \in Actors, LockStep(a)
  PROVE  Inv'
<1>1. CASE Find(a)
  <2>1. CASE target[a] \in table
    <3>1. pc' = [pc EXCEPT ![a] = "lock"] /\ Checkouts(a) = 0 /\ Checkouts(a)' = 1
      BY <1>1, <2>1 DEF Find, At, Goto, Checkouts, Inv, Shape
    <3>2. Checkouts(a)' = Checkouts(a) + 1
      BY <3>1
    <3>3. tableLock' = Read(tableLock, a) /\ table' = table /\ target' = target
      BY <1>1, <2>1 DEF Find, processes
    <3>4. QED
      BY <2>1, <3>1, <3>2, <3>3, ReadStep
  <2>2. CASE target[a] \notin table /\ MayMiss(a)
    <3>1. Missing(a) \notin UsingPlaces
      BY DEF Missing, UsingPlaces
    <3>2. QED
      BY <1>1, <2>2, <3>1, MoveStep DEF Find, Goto, processes
  <2>3. CASE target[a] \notin table /\ ~MayMiss(a)
    BY <1>1, <2>3, HaltStep DEF Find
  <2>4. QED
    BY <2>1, <2>2, <2>3
<1>2. CASE LockProcess(a)
  <2>1. pc[a] = "lock" /\ UNCHANGED <<table, tableLock, target>>
    BY <1>2 DEF LockProcess, At, processes
  <2>2. CASE pc' = [pc EXCEPT ![a] = "work"]
    BY <2>1, <2>2, MoveStep
  <2>3. CASE pc' = pc
    <3>1. DOMAIN pc' = Actors /\ DOMAIN target' = Actors
      BY <2>1, <2>3 DEF Inv, Shape
    <3>2. QED
      BY <2>1, <2>3, <3>1, QuietStep
  <2>4. QED
    BY <1>2, <2>2, <2>3 DEF LockProcess, Goto
<1>3. CASE AskForTable(a)
  <2>1. /\ tableLock' \in Locks /\ tableLock'.writer = Nobody
        /\ tableLock'.readers = tableLock.readers
    BY <1>3, AskFacts DEF AskForTable, Inv, Shape, Counted
  <2>2. UNCHANGED <<table, pc, target>> /\ DOMAIN pc = Actors /\ DOMAIN target = Actors
    BY <1>3 DEF AskForTable, processes, Inv, Shape
  <2>3. QED
    BY <2>1, <2>2, StayStep
<1>4. QED
  BY <1>1, <1>2, <1>3 DEF LockStep

\* Entering and leaving the kernel, sleeping and waking keep the invariant.
LEMMA EntrySteps ==
  ASSUME Inv, NEW t \in Threads,
         \/ Enter(t) \/ Leave(t) \/ Stop(t) \/ Expire(t) \/ Awake(t)
         \/ \E name \in Calls[t], p \in Pids : syscall(t, name, p)
  PROVE  Inv'
<1> t \in Actors
  BY DEF Actors
<1>1. CASE Enter(t) \/ Expire(t) \/ Awake(t)
  <2>1. PICK place \in {"stuck", "entry", "leave"} : pc' = [pc EXCEPT ![t] = place]
    BY <1>1 DEF Enter, Expire, Awake, Goto
  <2>2. UNCHANGED <<table, tableLock, target>>
    BY <1>1 DEF Enter, Expire, Awake, processes, locks
  <2>3. place \notin UsingPlaces
    BY DEF UsingPlaces
  <2>4. QED
    BY <2>1, <2>2, <2>3, MoveStep
<1>2. CASE Stop(t)
  <2>1. PICK place \in {"asleep", "dozing", "finished"} : pc' = [pc EXCEPT ![t] = place]
    BY <1>2 DEF Stop, Goto
  <2>2. UNCHANGED <<table, tableLock, target>>
    BY <1>2 DEF Stop, locks
  <2>3. place \notin UsingPlaces
    BY DEF UsingPlaces
  <2>4. QED
    BY <2>1, <2>2, <2>3, MoveStep
<1>3. CASE Leave(t)
  <2>1. /\ UNCHANGED <<table, tableLock>>
        /\ pc' = [pc EXCEPT ![t] = "user"]
        /\ target' = [target EXCEPT ![t] = Own(t)]
    BY <1>3 DEF Leave, Done, Goto, locks
  <2>2. QED
    BY <2>1, QuietStep DEF Inv, Shape, UsingPlaces
<1>4. CASE \E name \in Calls[t], p \in Pids : syscall(t, name, p)
  <2>1. PICK p \in Pids, place \in {"insert", "list", "find"} :
           /\ UNCHANGED <<table, tableLock>>
           /\ pc' = [pc EXCEPT ![t] = place]
           /\ target' = [target EXCEPT ![t] = p]
    BY <1>4 DEF syscall, Goto, locks
  <2>2. QED
    BY <2>1, QuietStep DEF Inv, Shape, UsingPlaces
<1>5. QED
  BY <1>1, <1>2, <1>3, <1>4

\* The calls that commit what they have checked out keep the invariant.
LEMMA CommitCalls ==
  ASSUME Inv, NEW t \in Threads,
         \/ ReadCall(t) \/ SendCall(t) \/ StartCall(t) \/ SpawnCall(t) \/ ResumeCall(t)
         \/ SleepCall(t) \/ ExitThread(t) \/ ExitProcess(t)
  PROVE  Inv'
<1> t \in Actors
  BY DEF Actors
<1>1. pc[t] = "work" /\ Checkouts(t) = 1
  BY DEF ReadCall, SendCall, StartCall, SpawnCall, ResumeCall, SleepCall, ExitThread, ExitProcess,
         Working, At, Checkouts
<1>2. CASE StartCall(t) /\ Halt
  BY <1>2, HaltStep
<1>3. CASE ~(StartCall(t) /\ Halt)
  <2>1. tableLock' = Release(tableLock, t) /\ table' = table /\ target' = target
    BY <1>3 DEF ReadCall, SendCall, StartCall, SpawnCall, ResumeCall, SleepCall, ExitThread,
                ExitProcess, commit_process, processes
  <2>2. /\ DOMAIN pc' = Actors
        /\ pc'[t] \notin UsingPlaces
        /\ \A a \in Actors : pc'[a] \notin UsingPlaces \/ pc'[a] = pc[a]
    <3>1. CASE ReadCall(t) \/ SleepCall(t) \/ ExitThread(t) \/ ExitProcess(t)
      <4>1. PICK place \in {"leave", "sleep", "doze", "exiting"} : pc' = [pc EXCEPT ![t] = place]
        BY <3>1 DEF ReadCall, SleepCall, ExitThread, ExitProcess, Goto
      <4>2. QED
        BY <4>1 DEF Inv, Shape, UsingPlaces
    <3>2. CASE SendCall(t) \/ ResumeCall(t)
      <4>1. PICK S : pc' = [WakeUp(pc, S) EXCEPT ![t] = "leave"]
        BY <3>2 DEF SendCall, ResumeCall
      <4>2. "leave" \notin UsingPlaces
        BY DEF UsingPlaces
      <4>3. QED
        BY <4>1, <4>2, WakeUpFacts
    <3>3. CASE StartCall(t)
      <4>1. \/ pc' = [pc EXCEPT ![t] = "leave"]
            \/ pc' = [WakeUp(pc, members[target[t]]) EXCEPT ![t] = "leave"]
        BY <1>3, <3>3 DEF StartCall, Goto
      <4>2. "leave" \notin UsingPlaces
        BY DEF UsingPlaces
      <4>3. CASE pc' = [pc EXCEPT ![t] = "leave"]
        BY <4>2, <4>3 DEF Inv, Shape
      <4>4. QED
        BY <4>1, <4>2, <4>3, WakeUpFacts
    <3>4. CASE SpawnCall(t)
      BY <3>4, NewThreadFacts DEF SpawnCall
    <3>5. QED
      BY <3>1, <3>2, <3>3, <3>4
  <2>3. QED
    BY <1>1, <2>1, <2>2, CommitStep
<1>4. QED
  BY <1>2, <1>3

\* process_get_list and exec keep the invariant.
LEMMA ExecSteps ==
  ASSUME Inv, NEW t \in Threads,
         ListCall(t) \/ Insert(t) \/ FindParent(t) \/ LockParent(t) \/ Clone(t)
  PROVE  Inv'
<1> t \in Actors
  BY DEF Actors
<1>1. CASE ListCall(t)
  <2>1. "leave" \notin UsingPlaces
    BY DEF UsingPlaces
  <2>2. QED
    BY <1>1, <2>1, WriteStep DEF ListCall, Goto
<1>2. CASE Insert(t)
  <2>1. CASE Halt
    BY <2>1, HaltStep
  <2>2. CASE ~Halt
    <3>1. "find" \notin UsingPlaces
      BY DEF UsingPlaces
    <3>2. QED
      BY <1>2, <2>2, <3>1, WriteStep DEF Insert, Goto
  <2>3. QED
    BY <2>1, <2>2
<1>3. CASE FindParent(t)
  <2>1. CASE Halt
    BY <2>1, HaltStep
  <2>2. CASE ~Halt
    <3>1. /\ pc[t] = "work" /\ pc' = [pc EXCEPT ![t] = "lock_parent"]
          /\ tableLock' = Read(tableLock, t) /\ table' = table /\ target' = target
      BY <1>3, <2>2 DEF FindParent, Working, At, Goto, processes
    <3>2. Checkouts(t) = 1 /\ Checkouts(t)' = 2 /\ target[t] \in table
      BY <3>1 DEF Checkouts, Inv, Shape, Present, UsingPlaces
    <3>3. Checkouts(t)' = Checkouts(t) + 1
      BY <3>2
    <3>4. QED
      BY <3>1, <3>2, <3>3, ReadStep
  <2>3. QED
    BY <2>1, <2>2
<1>4. CASE LockParent(t)
  BY <1>4, MoveStep DEF LockParent, At, Goto, processes
<1>5. CASE Clone(t)
  <2>1. /\ pc[t] = "clone" /\ UNCHANGED <<table, target>>
        /\ tableLock' = Release(Release(tableLock, t), t)
    BY <1>5 DEF Clone, At
  <2>2. new_thread(t, target[t])
    BY <1>5 DEF Clone
  <2>3. tableLock \in Locks /\ tableLock.writer = Nobody /\ tableLock.readers[t] \in Nat
    BY DEF Inv, Shape, Counted, Locks
  <2>4. tableLock.readers[t] >= 2
    BY <2>1 DEF Inv, Counted, Checkouts
  <2>5. DEFINE once == Release(tableLock, t)
  <2>6. /\ once \in Locks /\ once.writer = Nobody
        /\ once.readers[t] = tableLock.readers[t] - 1
        /\ \A b \in Actors \ {t} : once.readers[b] = tableLock.readers[b]
    BY <2>3, <2>4, ReleaseFacts
  <2>7. once.readers[t] >= 1
    BY <2>3, <2>4, <2>6
  <2>8. tableLock' = Release(once, t)
    BY <2>1
  <2> HIDE DEF once
  <2>9. /\ tableLock' \in Locks /\ tableLock'.writer = Nobody
        /\ \A b \in Actors \ {t} : tableLock'.readers[b] = tableLock.readers[b]
    BY <2>6, <2>7, <2>8, ReleaseFacts
  <2>10. /\ DOMAIN pc' = Actors /\ pc'[t] \notin UsingPlaces
         /\ \A a \in Actors : pc'[a] \notin UsingPlaces \/ pc'[a] = pc[a]
    BY <2>2, NewThreadFacts
  <2>11. Shape'
    BY <2>1, <2>9, <2>10 DEF Inv, Shape
  <2>12. \A a \in Actors : /\ Checkouts(a)' = 0 \/ (a # t /\ Checkouts(a)' = Checkouts(a))
                           /\ tableLock'.readers[a] \in Nat
    BY <2>9, <2>10 DEF Checkouts, UsingPlaces, Locks
  <2>13. Counted'
    BY <2>9, <2>12 DEF Inv, Counted
  <2>14. Present'
    BY <2>1, <2>10 DEF Inv, Present
  <2>15. QED
    BY <2>11, <2>13, <2>14 DEF Inv
<1>6. QED
  BY <1>1, <1>2, <1>3, <1>4, <1>5

\* The collector keeps the invariant.
LEMMA CollectorSteps ==
  ASSUME Inv, NEW c \in Cpus, CollectorStep(c)
  PROVE  Inv'
<1> c \in Actors
  BY DEF Actors
<1>1. CASE Peek(c)
  <2>1. /\ UNCHANGED <<table, tableLock>>
        /\ pc' = [pc EXCEPT ![c] = "find"]
        /\ target' = [target EXCEPT ![c] = Head(ring[c]).pid]
    BY <1>1 DEF Peek, Goto, processes, locks
  <2>2. QED
    BY <2>1, QuietStep DEF Inv, Shape, UsingPlaces
<1>2. CASE Skip(c)
  BY <1>2, MoveStep DEF Skip, gc_next, Goto, processes, locks, UsingPlaces
<1>3. CASE gc_do_thread(c)
  <2>1. pc[c] = "work" /\ Checkouts(c) = 1
    BY <1>3 DEF gc_do_thread, At, Checkouts
  <2>2. CASE Victim(c) \notin members[target[c]]
    BY <1>3, <2>2, MoveStep DEF gc_do_thread, gc_next, Goto, processes, locks, UsingPlaces
  <2>3. CASE Halt
    BY <2>3, HaltStep
  <2>4. CASE Victim(c) \in members[target[c]] /\ ~Halt
    <3>1. /\ tableLock' = Release(tableLock, c) /\ table' = table /\ target' = target
          /\ pc' = [pc EXCEPT ![Victim(c)] = "deleted", ![c] = "none"]
      BY <1>3, <2>4 DEF gc_do_thread, commit_process
    <3>2. /\ DOMAIN pc' = Actors /\ pc'[c] \notin UsingPlaces
          /\ \A a \in Actors : pc'[a] \notin UsingPlaces \/ pc'[a] = pc[a]
      BY <3>1 DEF Inv, Shape, UsingPlaces
    <3>3. QED
      BY <2>1, <3>1, <3>2, CommitStep
  <2>5. QED
    BY <2>2, <2>3, <2>4
<1>4. CASE gc_do_process(c)
  <2>1. pc[c] = "work" /\ Checkouts(c) = 1
    BY <1>4 DEF gc_do_process, At, Checkouts
  <2>2. CASE Halt
    BY <2>2, HaltStep
  <2>3. CASE ~Halt /\ kernel_threads[target[c]] # 0
    <3>1. PICK S : pc' = [WakeUp(pc, S) EXCEPT ![c] = "find"]
      BY <1>4, <2>3 DEF gc_do_process
    <3>2. tableLock' = Release(tableLock, c) /\ table' = table /\ target' = target
      BY <1>4, <2>3 DEF gc_do_process, commit_process, processes
    <3>3. "find" \notin UsingPlaces
      BY DEF UsingPlaces
    <3>4. /\ DOMAIN pc' = Actors /\ pc'[c] \notin UsingPlaces
          /\ \A a \in Actors : pc'[a] \notin UsingPlaces \/ pc'[a] = pc[a]
      BY <3>1, <3>3, WakeUpFacts
    <3>5. QED
      BY <2>1, <3>2, <3>4, CommitStep
  <2>4. CASE ~Halt /\ kernel_threads[target[c]] = 0
    BY <1>4, <2>1, <2>4, MoveStep DEF gc_do_process, Goto, processes, locks
  <2>5. QED
    BY <2>2, <2>3, <2>4
<1>5. CASE Kill(c)
  <2>1. CASE Halt
    BY <2>1, HaltStep
  <2>2. CASE ~Halt
    <3>1. PICK t : pc' = [pc EXCEPT ![t] = "deleted"]
      BY <1>5, <2>2 DEF Kill, Goto
    <3>2. UNCHANGED <<table, tableLock, target>>
      BY <1>5, <2>2 DEF Kill, locks
    <3>3. /\ DOMAIN pc' = Actors /\ DOMAIN target' = Actors
          /\ \A a \in Actors : pc'[a] \notin UsingPlaces \/ pc'[a] = pc[a]
      BY <3>1, <3>2 DEF Inv, Shape, UsingPlaces
    <3>4. QED
      BY <3>2, <3>3, QuietStep
  <2>3. QED
    BY <2>1, <2>2
<1>6. CASE ReleaseTable(c)
  <2>1. /\ pc[c] = "kill" /\ pc' = [pc EXCEPT ![c] = "remove"]
        /\ tableLock' = Release(tableLock, c) /\ table' = table /\ target' = target
    BY <1>6 DEF ReleaseTable, At, Goto, processes
  <2>2. /\ DOMAIN pc' = Actors /\ pc'[c] \notin UsingPlaces
        /\ \A a \in Actors : pc'[a] \notin UsingPlaces \/ pc'[a] = pc[a]
    BY <2>1 DEF Inv, Shape, UsingPlaces
  <2>3. Checkouts(c) = 1
    BY <2>1 DEF Checkouts
  <2>4. QED
    BY <2>1, <2>2, <2>3, CommitStep
<1>7. CASE Remove(c)
  <2>1. "none" \notin UsingPlaces
    BY DEF UsingPlaces
  <2>2. QED
    BY <1>7, <2>1, WriteStep DEF Remove, gc_next, Goto
<1>8. QED
  BY <1>1, <1>2, <1>3, <1>4, <1>5, <1>6, <1>7 DEF CollectorStep

-----------------------------------------------------------------------------

\* The invariant holds at the beginning: nobody is inside a checkout.
LEMMA InitInv == Init => Inv
<1> SUFFICES ASSUME Init PROVE Inv
  OBVIOUS
<1>1. \A a \in Actors : pc[a] \in {"user", "none"}
  BY DEF Init
<1>2. \A a \in Actors : Checkouts(a) = 0 /\ pc[a] \notin UsingPlaces
  BY <1>1 DEF Checkouts, UsingPlaces
<1>3. tableLock \in Locks /\ tableLock.writer = Nobody
  BY DEF Init, NewLock, Locks
<1>4. \A a \in Actors : tableLock.readers[a] = 0
  BY DEF Init, NewLock
<1>5. DOMAIN pc = Actors /\ DOMAIN target = Actors
  BY DEF Init
<1>6. Counted
  BY <1>2, <1>3, <1>4 DEF Counted
<1>7. QED
  BY <1>2, <1>3, <1>5, <1>6 DEF Inv, Shape, Present

\* Every step of the kernel keeps it.
LEMMA NextInv == Inv /\ [Next]_vars => Inv'
<1> SUFFICES ASSUME Inv, [Next]_vars PROVE Inv'
  OBVIOUS
<1>1. CASE UNCHANGED vars
  <2>1. UNCHANGED <<table, tableLock, pc, target>>
    BY <1>1 DEF vars, processes, locks
  <2>2. DOMAIN pc' = Actors /\ DOMAIN target' = Actors
    BY <2>1 DEF Inv, Shape
  <2>3. QED
    BY <2>1, <2>2, QuietStep
<1>2. ASSUME NEW t \in Threads, ThreadStep(t) PROVE Inv'
  BY <1>2, EntrySteps, CommitCalls, ExecSteps DEF ThreadStep, CallStep
<1>3. ASSUME NEW c \in Cpus, CollectorStep(c) PROVE Inv'
  BY <1>3, CollectorSteps
<1>4. ASSUME NEW a \in Actors, LockStep(a) PROVE Inv'
  BY <1>4, LockSteps
<1>5. QED
  BY <1>1, <1>2, <1>3, <1>4 DEF Next

\* A process is in the table as long as anybody waits for its lock or works on it:
\* remove_process and delete_process (gc.c, process.c) never free a process under a
\* checkout, whatever the numbers of processes, threads, CPUs and calls.
THEOREM CheckoutSafety == Spec => []CheckedOutExists
<1>1. Inv => CheckedOutExists
  BY DEF Inv, Present, CheckedOutExists, Using, UsingPlaces
<1>2. QED
  BY InitInv, NextInv, <1>1, PTL DEF Spec

-----------------------------------------------------------------------------
(* Who is where: the places of threads and collectors, the objects in the   *)
(* rings, and the threads of a process.                                     *)

CollectorPlaces == {"none", "find", "lock", "work", "next", "kill", "remove"}
ThreadPlaces == Places \ {"next", "kill", "remove"}
Gone == {"none", "deleted"}
Entries == [pid : Pids, tid : Threads \cup {Nobody}]

Typed == /\ members \in [Pids -> SUBSET Threads]
         /\ ring \in [Cpus -> Seq(Entries)]
         /\ DOMAIN pc = Actors /\ DOMAIN target = Actors /\ DOMAIN call = Actors
         /\ \A c \in Cpus : call[c] = "none" /\ pc[c] \in CollectorPlaces
         /\ \A t \in Threads : pc[t] \in ThreadPlaces /\ target[t] \in Pids

\* Only send, start and exec are about a process that is not the caller's own.
OwnTarget == \A t \in Threads :
    /\ call[t] \notin {"send", "start", "exec"} => target[t] = Process[t]
    /\ pc[t] \in {"insert", "lock_parent", "clone"} => call[t] = "exec"

\* A collector at work is about the first object of its ring.
Heads == \A c \in Cpus : pc[c] # "none" =>
    /\ ring[c] # <<>> /\ target[c] = Head(ring[c]).pid
    /\ pc[c] \in {"kill", "remove"} => Victim(c) = Nobody

EntriesOwn == \A c \in Cpus : \A i \in 1 .. Len(ring[c]) :
    ring[c][i].tid # Nobody => Process[ring[c][i].tid] = ring[c][i].pid

\* The members of a process are its threads that exist.
Alive == \A p \in Pids : \A t \in Threads :
    t \in members[p] <=> Process[t] = p /\ pc[t] \notin Gone

RoleInv == Typed /\ OwnTarget /\ Heads /\ EntriesOwn /\ Alive

\* Thread t goes on to a place; nothing else of this concerns it.
LEMMA ThreadMoves ==
  ASSUME RoleInv, NEW t \in Threads, NEW place \in ThreadPlaces \ Gone,
         pc[t] \notin Gone, pc' = [pc EXCEPT ![t] = place],
         UNCHANGED <<call, target, members, ring>>,
         place \in {"insert", "lock_parent", "clone"} => call[t] = "exec"
  PROVE  RoleInv'
<1>1. /\ DOMAIN pc' = Actors /\ t \in Actors /\ t \notin Cpus
      /\ \A a \in Actors : pc'[a] = IF a = t THEN place ELSE pc[a]
  BY ActorAssumption DEF RoleInv, Typed, Actors
<1>2. Typed'
  BY <1>1 DEF RoleInv, Typed, Actors
<1>3. OwnTarget'
  BY <1>1 DEF RoleInv, OwnTarget, Actors
<1>4. Heads'
  BY <1>1 DEF RoleInv, Heads, Victim, Actors
<1>5. EntriesOwn'
  BY DEF RoleInv, EntriesOwn
<1>6. Alive'
  BY <1>1 DEF RoleInv, Alive, Actors
<1>7. QED
  BY <1>2, <1>3, <1>4, <1>5, <1>6 DEF RoleInv

\* Collector c goes on with the object it works on.
LEMMA CollectorMoves ==
  ASSUME RoleInv, NEW c \in Cpus, NEW place \in CollectorPlaces,
         pc[c] # "none", pc' = [pc EXCEPT ![c] = place],
         UNCHANGED <<call, target, members, ring>>,
         place \in {"kill", "remove"} => Victim(c) = Nobody
  PROVE  RoleInv'
<1>1. /\ DOMAIN pc' = Actors /\ c \in Actors /\ c \notin Threads
      /\ \A a \in Actors : pc'[a] = IF a = c THEN place ELSE pc[a]
  BY ActorAssumption DEF RoleInv, Typed, Actors
<1>2. Typed'
  BY <1>1 DEF RoleInv, Typed, Actors
<1>3. OwnTarget'
  BY <1>1 DEF RoleInv, OwnTarget, Actors
<1>4. Heads'
  BY <1>1 DEF RoleInv, Heads, Victim, Actors
<1>5. EntriesOwn'
  BY DEF RoleInv, EntriesOwn
<1>6. Alive'
  BY <1>1 DEF RoleInv, Alive, Actors
<1>7. QED
  BY <1>2, <1>3, <1>4, <1>5, <1>6 DEF RoleInv

\* What waking some members of a process does to the places.
LEMMA WakeUpPlaces ==
  ASSUME RoleInv, NEW p \in Pids, NEW S \in SUBSET members[p], NEW x \in Actors, NEW place,
         pc' = [WakeUp(pc, S) EXCEPT ![x] = place]
  PROVE  /\ DOMAIN pc' = Actors
         /\ pc'[x] = place
         /\ \A t \in S : t \in Threads /\ pc[t] \notin Gone
         /\ \A a \in Actors \ {x} : pc'[a] = IF a \notin S THEN pc[a]
                                             ELSE IF pc[a] = "asleep" THEN "awake"
                                             ELSE IF pc[a] = "dozing" THEN "leave" ELSE "user"
BY DEF WakeUp, RoleInv, Alive, Typed

\* Actor x goes on to a place and wakes some threads of process p.
LEMMA WakingMoves ==
  ASSUME RoleInv, NEW p \in Pids, NEW S \in SUBSET members[p], NEW x \in Actors, NEW place,
         pc' = [WakeUp(pc, S) EXCEPT ![x] = place],
         UNCHANGED <<call, target, members, ring>>,
         x \in Threads => place = "leave" /\ pc[x] \notin Gone,
         x \in Cpus => place = "find" /\ pc[x] # "none"
  PROVE  RoleInv'
<1> DEFINE W(a) == IF a \notin S THEN pc[a] ELSE IF pc[a] = "asleep" THEN "awake"
                   ELSE IF pc[a] = "dozing" THEN "leave" ELSE "user"
<1>1. /\ DOMAIN pc' = Actors /\ pc'[x] = place
      /\ \A t \in S : t \in Threads /\ pc[t] \notin Gone
      /\ \A a \in Actors \ {x} : pc'[a] = W(a)
  BY WakeUpPlaces, ZenonT(30)
<1>2. Threads \cap Cpus = {} /\ \A c \in Cpus \ {x} : pc'[c] = pc[c]
  BY <1>1, ActorAssumption DEF Actors
<1>3. \A t \in Threads : /\ pc'[t] \in {pc[t], "awake", "leave", "user"}
                         /\ pc'[t] \in Gone <=> pc[t] \in Gone
  BY <1>1, <1>2 DEF Gone, Actors
<1> HIDE DEF W
<1>4. Typed'
  <2>1. {"awake", "leave", "user"} \subseteq ThreadPlaces /\ "find" \in CollectorPlaces
    BY DEF ThreadPlaces, CollectorPlaces, Places, Inside, Checkout, InterruptsOff, Sleeping
  <2>2. QED
    BY <1>1, <1>2, <1>3, <2>1 DEF RoleInv, Typed, Actors
<1>5. OwnTarget'
  BY <1>3 DEF RoleInv, OwnTarget
<1>6. Heads'
  BY <1>1, <1>2 DEF RoleInv, Heads, Victim
<1>7. EntriesOwn'
  BY DEF RoleInv, EntriesOwn
<1>8. Alive'
  BY <1>3 DEF RoleInv, Alive
<1>9. QED
  BY <1>4, <1>5, <1>6, <1>7, <1>8 DEF RoleInv

\* new_thread
LEMMA NewThreadPlaces ==
  ASSUME RoleInv, NEW t \in Threads, NEW p \in Pids, pc[t] \notin Gone, new_thread(t, p)
  PROVE  /\ DOMAIN pc' = Actors /\ pc'[t] = "leave"
         /\ \/ members' = members /\ \A a \in Actors \ {t} : pc'[a] = pc[a]
            \/ \E u \in Threads :
                  /\ u # t /\ Process[u] = p /\ pc[u] = "none" /\ pc'[u] = "new"
                  /\ members' = [members EXCEPT ![p] = @ \cup {u}]
                  /\ \A a \in Actors \ {t, u} : pc'[a] = pc[a]
BY DEF new_thread, Goto, RoleInv, Typed, Gone, Actors

\* new_thread keeps threads and collectors in their roles.
LEMMA NewThreadMoves ==
  ASSUME RoleInv, NEW t \in Threads, NEW p \in Pids, pc[t] \notin Gone, new_thread(t, p),
         UNCHANGED <<call, target, ring>>
  PROVE  RoleInv'
<1>1. "leave" \in ThreadPlaces \ Gone /\ "new" \in ThreadPlaces \ Gone
  BY DEF ThreadPlaces, Gone, Places, Inside, Checkout, InterruptsOff, Sleeping
<1>2. CASE members' = members /\ pc' = [pc EXCEPT ![t] = "leave"]
  BY <1>1, <1>2, ThreadMoves
<1>3. ASSUME NEW u \in Threads, u # t, Process[u] = p, pc[u] = "none",
             pc'[t] = "leave", pc'[u] = "new", DOMAIN pc' = Actors,
             members' = [members EXCEPT ![p] = @ \cup {u}],
             \A a \in Actors \ {t, u} : pc'[a] = pc[a]
      PROVE  RoleInv'
  <2>1. Threads \cap Cpus = {} /\ \A c \in Cpus : pc'[c] = pc[c]
    BY <1>3, ActorAssumption DEF Actors
  <2>2. Typed'
    BY <1>1, <1>3, <2>1 DEF RoleInv, Typed, Actors
  <2>3. OwnTarget'
    BY <1>3 DEF RoleInv, OwnTarget, Actors
  <2>4. Heads'
    BY <2>1 DEF RoleInv, Heads, Victim
  <2>5. EntriesOwn'
    BY DEF RoleInv, EntriesOwn
  <2>6. Alive'
    BY <1>3 DEF RoleInv, Alive, Typed, Gone, Actors
  <2>7. QED
    BY <2>2, <2>3, <2>4, <2>5, <2>6 DEF RoleInv
<1>4. QED
  BY <1>2, <1>3, NewThreadPlaces DEF new_thread, Goto

\* One more object at the end of a ring.
LEMMA AppendFacts ==
  ASSUME NEW r \in Seq(Entries), NEW e \in Entries
  PROVE  /\ Append(r, e) \in Seq(Entries) /\ Append(r, e) # <<>>
         /\ Len(Append(r, e)) = Len(r) + 1 /\ Len(r) \in Nat
         /\ Append(r, e)[Len(r) + 1] = e
         /\ \A i \in 1 .. Len(r) : Append(r, e)[i] = r[i]
         /\ r # <<>> => Head(Append(r, e)) = Head(r)
OBVIOUS

\* One object less at the front.
LEMMA TailFacts ==
  ASSUME NEW r \in Seq(Entries), r # <<>>
  PROVE  /\ Tail(r) \in Seq(Entries)
         /\ Len(Tail(r)) = Len(r) - 1 /\ Len(r) \in Nat /\ Len(r) >= 1
         /\ Head(r) = r[1] /\ r[1] \in Entries
         /\ \A i \in 1 .. Len(r) - 1 : Tail(r)[i] = r[i + 1]
OBVIOUS

\* The object a collector works on.
LEMMA CollectorObject ==
  ASSUME RoleInv, NEW c \in Cpus, pc[c] # "none"
  PROVE  /\ ring[c] # <<>> /\ Head(ring[c]) = ring[c][1] /\ 1 \in 1 .. Len(ring[c])
         /\ target[c] = Head(ring[c]).pid /\ target[c] \in Pids
         /\ Victim(c) \in Threads \cup {Nobody}
<1>1. ring[c] # <<>> /\ ring[c] \in Seq(Entries) /\ target[c] = Head(ring[c]).pid
  BY DEF RoleInv, Typed, Heads
<1>2. Head(ring[c]) \in Entries /\ Head(ring[c]) = ring[c][1] /\ 1 \in 1 .. Len(ring[c])
  BY <1>1
<1>3. QED
  BY <1>1, <1>2 DEF Entries, Victim

\* What gc_queue does to the rings.
LEMMA RingAppends ==
  ASSUME RoleInv, NEW t \in Threads, NEW tid \in {t, Nobody}, gc_queue(t, tid)
  PROVE  /\ ring' \in [Cpus -> Seq(Entries)] /\ Cpu[t] \in Cpus
         /\ \A c \in Cpus : ring[c] # <<>> => ring'[c] # <<>> /\ Head(ring'[c]) = Head(ring[c])
         /\ \A c \in Cpus : \A i \in 1 .. Len(ring'[c]) :
               \/ i \in 1 .. Len(ring[c]) /\ ring'[c][i] = ring[c][i]
               \/ /\ c = Cpu[t] /\ i = Len(ring[c]) + 1
                  /\ ring'[c][i] = [pid |-> Process[t], tid |-> tid]
         /\ \A c \in Cpus : \A i \in 1 .. Len(ring[c]) :
               i \in 1 .. Len(ring'[c]) /\ ring'[c][i] = ring[c][i]
         /\ Len(ring[Cpu[t]]) + 1 \in 1 .. Len(ring'[Cpu[t]])
         /\ ring'[Cpu[t]][Len(ring[Cpu[t]]) + 1] = [pid |-> Process[t], tid |-> tid]
<1> DEFINE d == Cpu[t]
           r == ring[d]
           e == [pid |-> Process[t], tid |-> tid]
           s == Append(r, e)
<1>1. d \in Cpus /\ Process[t] \in Pids
  BY CpuAssumption, ProcessAssumption
<1>2. r \in Seq(Entries) /\ e \in Entries
  BY <1>1 DEF RoleInv, Typed, Entries
<1>3. ring' = [ring EXCEPT ![d] = s] /\ ring \in [Cpus -> Seq(Entries)]
  BY DEF gc_queue, RoleInv, Typed
<1> HIDE DEF e, s
<1>4. /\ s \in Seq(Entries) /\ s # <<>>
      /\ Len(s) = Len(r) + 1 /\ Len(r) \in Nat
      /\ s[Len(r) + 1] = e
      /\ \A i \in 1 .. Len(r) : s[i] = r[i]
      /\ r # <<>> => Head(s) = Head(r)
  BY <1>2, AppendFacts DEF s
<1>5. ring' \in [Cpus -> Seq(Entries)] /\ ring'[d] = s /\ \A c \in Cpus \ {d} : ring'[c] = ring[c]
  BY <1>1, <1>3, <1>4
<1> HIDE DEF d
<1>6. \A c \in Cpus : ring[c] # <<>> => ring'[c] # <<>> /\ Head(ring'[c]) = Head(ring[c])
  BY <1>4, <1>5
<1>7. \A c \in Cpus : \A i \in 1 .. Len(ring'[c]) :
         \/ i \in 1 .. Len(ring[c]) /\ ring'[c][i] = ring[c][i]
         \/ c = d /\ i = Len(ring[c]) + 1 /\ ring'[c][i] = e
  <2>1. \A i \in 1 .. Len(s) : i \in 1 .. Len(r) \/ i = Len(r) + 1
    BY <1>4
  <2>2. QED
    BY <1>4, <1>5, <2>1
<1>8. \A c \in Cpus : \A i \in 1 .. Len(ring[c]) : i \in 1 .. Len(ring'[c]) /\ ring'[c][i] = ring[c][i]
  <2>1. \A i \in 1 .. Len(r) : i \in 1 .. Len(s)
    BY <1>4
  <2>2. QED
    BY <1>4, <1>5, <2>1
<1>9. Len(r) + 1 \in 1 .. Len(ring'[d]) /\ ring'[d][Len(r) + 1] = e
  BY <1>4, <1>5
<1>10. QED
  BY <1>1, <1>5, <1>6, <1>7, <1>8, <1>9 DEF d, e

\* What gc_next does to the rings.
LEMMA RingPops ==
  ASSUME RoleInv, NEW c \in Cpus, pc[c] # "none", ring' = [ring EXCEPT ![c] = Tail(@)]
  PROVE  /\ ring' \in [Cpus -> Seq(Entries)]
         /\ 1 \in 1 .. Len(ring[c]) /\ Head(ring[c]) = ring[c][1] /\ Head(ring[c]) \in Entries
         /\ \A d \in Cpus \ {c} : ring'[d] = ring[d]
         /\ \A i \in 1 .. Len(ring'[c]) : i + 1 \in 1 .. Len(ring[c]) /\ ring'[c][i] = ring[c][i + 1]
         /\ \A j \in 1 .. Len(ring[c]) :
               j = 1 \/ (j - 1 \in 1 .. Len(ring'[c]) /\ ring'[c][j - 1] = ring[c][j])
<1> DEFINE r == ring[c]
<1>1. r # <<>> /\ r \in Seq(Entries) /\ ring \in [Cpus -> Seq(Entries)]
  BY DEF RoleInv, Heads, Typed
<1> DEFINE s == Tail(r)
<1>2. ring' = [ring EXCEPT ![c] = s]
  OBVIOUS
<1> HIDE DEF s
<1>3. /\ s \in Seq(Entries)
      /\ Len(s) = Len(r) - 1 /\ Len(r) \in Nat /\ Len(r) >= 1
      /\ Head(r) = r[1] /\ r[1] \in Entries
      /\ \A i \in 1 .. Len(r) - 1 : s[i] = r[i + 1]
  BY <1>1, TailFacts DEF s
<1>4. ring' \in [Cpus -> Seq(Entries)] /\ ring'[c] = s /\ \A d \in Cpus \ {c} : ring'[d] = ring[d]
  BY <1>1, <1>2, <1>3
<1>5. \A i \in 1 .. Len(s) : i + 1 \in 1 .. Len(r) /\ s[i] = r[i + 1]
  BY <1>3
<1>6. \A j \in 1 .. Len(r) : j = 1 \/ (j - 1 \in 1 .. Len(s) /\ s[j - 1] = r[j])
  <2>1. SUFFICES ASSUME NEW j \in 1 .. Len(r), j # 1
                 PROVE  j - 1 \in 1 .. Len(s) /\ s[j - 1] = r[j]
    OBVIOUS
  <2>2. j - 1 \in 1 .. Len(r) - 1 /\ (j - 1) + 1 = j
    BY <1>3, <2>1
  <2>3. QED
    BY <1>3, <2>2
<1>7. QED
  BY <1>3, <1>4, <1>5, <1>6

\* A thread that ends, with or without its process, puts an object into a ring.
LEMMA ExitMoves ==
  ASSUME RoleInv, NEW t \in Threads, NEW tid \in {t, Nobody}, pc[t] \notin Gone,
         gc_queue(t, tid), Goto(t, "exiting"), UNCHANGED <<call, target, members>>
  PROVE  RoleInv'
<1>1. /\ ring' \in [Cpus -> Seq(Entries)]
      /\ \A c \in Cpus : ring[c] # <<>> => ring'[c] # <<>> /\ Head(ring'[c]) = Head(ring[c])
      /\ \A c \in Cpus : \A i \in 1 .. Len(ring'[c]) :
            \/ i \in 1 .. Len(ring[c]) /\ ring'[c][i] = ring[c][i]
            \/ /\ c = Cpu[t] /\ i = Len(ring[c]) + 1
               /\ ring'[c][i] = [pid |-> Process[t], tid |-> tid]
  BY RingAppends, ZenonT(30)
<1>2. /\ DOMAIN pc' = Actors /\ Threads \cap Cpus = {}
      /\ \A a \in Actors : pc'[a] = IF a = t THEN "exiting" ELSE pc[a]
  BY ActorAssumption DEF RoleInv, Typed, Actors, Goto
<1>3. "exiting" \in ThreadPlaces \ Gone
  BY DEF ThreadPlaces, Gone, Places, Inside, Checkout, InterruptsOff, Sleeping
<1>4. Typed'
  BY <1>1, <1>2, <1>3 DEF RoleInv, Typed, Actors
<1>5. OwnTarget'
  BY <1>2 DEF RoleInv, OwnTarget, Actors
<1>6. Heads'
  <2>1. \A c \in Cpus : pc'[c] = pc[c]
    BY <1>2 DEF Actors
  <2>2. SUFFICES ASSUME NEW c \in Cpus, pc'[c] # "none"
                 PROVE  /\ ring'[c] # <<>> /\ target'[c] = Head(ring'[c]).pid
                        /\ pc'[c] \in {"kill", "remove"} => Head(ring'[c]).tid = Nobody
    BY DEF Heads, Victim
  <2>3. /\ ring[c] # <<>> /\ target[c] = Head(ring[c]).pid
        /\ pc[c] \in {"kill", "remove"} => Head(ring[c]).tid = Nobody
    BY <2>1, <2>2 DEF RoleInv, Heads, Victim
  <2>4. QED
    BY <1>1, <2>1, <2>2, <2>3
<1>7. EntriesOwn'
  <2>1. SUFFICES ASSUME NEW c \in Cpus, NEW i \in 1 .. Len(ring'[c]), ring'[c][i].tid # Nobody
                 PROVE  Process[ring'[c][i].tid] = ring'[c][i].pid
    BY DEF EntriesOwn
  <2>2. CASE i \in 1 .. Len(ring[c]) /\ ring'[c][i] = ring[c][i]
    BY <2>1, <2>2 DEF RoleInv, EntriesOwn
  <2>3. CASE ring'[c][i] = [pid |-> Process[t], tid |-> tid]
    BY <2>1, <2>3
  <2>4. QED
    BY <1>1, <2>2, <2>3
<1>8. Alive'
  BY <1>2, <1>3 DEF RoleInv, Alive, Actors
<1>9. QED
  BY <1>4, <1>5, <1>6, <1>7, <1>8 DEF RoleInv

\* The beginning and the end of a call.
LEMMA CallMoves ==
  ASSUME RoleInv, NEW t \in Threads, NEW place \in {"insert", "list", "find", "user"}, NEW name,
         NEW p \in Pids, pc[t] \notin Gone, pc' = [pc EXCEPT ![t] = place],
         call' = [call EXCEPT ![t] = name], target' = [target EXCEPT ![t] = p],
         UNCHANGED <<members, ring>>,
         name \notin {"send", "start", "exec"} => p = Process[t],
         place = "insert" => name = "exec"
  PROVE  RoleInv'
<1>1. /\ DOMAIN pc' = Actors /\ DOMAIN call' = Actors /\ DOMAIN target' = Actors
      /\ Threads \cap Cpus = {} /\ t \in Actors
      /\ \A a \in Actors : /\ pc'[a] = IF a = t THEN place ELSE pc[a]
                           /\ call'[a] = IF a = t THEN name ELSE call[a]
                           /\ target'[a] = IF a = t THEN p ELSE target[a]
  BY ActorAssumption DEF RoleInv, Typed, Actors
<1>2. place \in ThreadPlaces \ Gone
  BY DEF ThreadPlaces, Gone, Places, Inside, Checkout, InterruptsOff, Sleeping
<1>3. Typed'
  BY <1>1, <1>2 DEF RoleInv, Typed, Actors
<1>4. OwnTarget'
  BY <1>1 DEF RoleInv, OwnTarget, Actors
<1>5. Heads'
  BY <1>1 DEF RoleInv, Heads, Victim, Actors
<1>6. EntriesOwn'
  BY DEF RoleInv, EntriesOwn
<1>7. Alive'
  BY <1>1, <1>2 DEF RoleInv, Alive, Actors
<1>8. QED
  BY <1>3, <1>4, <1>5, <1>6, <1>7 DEF RoleInv

\* The collector is done with the first object of its ring, and the thread t of process
\* p may be gone.
LEMMA PopMoves ==
  ASSUME RoleInv, NEW c \in Cpus, pc[c] # "none", ring' = [ring EXCEPT ![c] = Tail(@)],
         UNCHANGED <<call, target>>, DOMAIN pc' = Actors, pc'[c] = "none",
         \/ members' = members /\ \A a \in Actors \ {c} : pc'[a] = pc[a]
         \/ \E p \in Pids : \E t \in members[p] :
               /\ members' = [members EXCEPT ![p] = @ \ {t}]
               /\ \A a \in Actors \ {c} : pc'[a] = IF a = t THEN "deleted" ELSE pc[a]
  PROVE  RoleInv'
<1>0. "deleted" \in ThreadPlaces /\ "none" \in CollectorPlaces /\ "deleted" \in Gone
  BY DEF ThreadPlaces, Gone, Places, CollectorPlaces
<1>1. /\ \A d \in Cpus \ {c} : pc'[d] = pc[d] /\ ring'[d] = ring[d]
      /\ Threads \cap Cpus = {} /\ ring'[c] = Tail(ring[c])
  BY ActorAssumption DEF RoleInv, Typed, Actors
<1>2. \A t \in Threads : pc'[t] \in {pc[t], "deleted"}
  BY <1>1 DEF Actors
<1>3. /\ ring' \in [Cpus -> Seq(Entries)]
      /\ \A i \in 1 .. Len(ring'[c]) : i + 1 \in 1 .. Len(ring[c]) /\ ring'[c][i] = ring[c][i + 1]
  BY RingPops
<1>4. Typed'
  <2>1. members' \in [Pids -> SUBSET Threads]
    BY DEF RoleInv, Typed
  <2>2. QED
    BY <1>0, <1>1, <1>2, <1>3, <2>1 DEF RoleInv, Typed
<1>5. OwnTarget'
  BY <1>2 DEF RoleInv, OwnTarget
<1>6. Heads'
  BY <1>1 DEF RoleInv, Heads, Victim
<1>7. EntriesOwn'
  BY <1>1, <1>3 DEF RoleInv, EntriesOwn
<1>8. Alive'
  <2>1. CASE members' = members /\ \A a \in Actors \ {c} : pc'[a] = pc[a]
    BY <1>1, <2>1 DEF RoleInv, Alive, Actors
  <2>2. ASSUME NEW p \in Pids, NEW t \in members[p], members' = [members EXCEPT ![p] = @ \ {t}],
               \A a \in Actors \ {c} : pc'[a] = IF a = t THEN "deleted" ELSE pc[a]
        PROVE  Alive'
    <3>1. t \in Threads /\ Process[t] = p
      BY DEF RoleInv, Alive, Typed
    <3>2. \A u \in Threads : pc'[u] = IF u = t THEN "deleted" ELSE pc[u]
      BY <1>1, <2>2 DEF Actors
    <3>3. \A q \in Pids, u \in Threads : u \in members'[q] <=> u \in members[q] /\ u # t
      BY <2>2, <3>1 DEF RoleInv, Typed, Alive
    <3>4. QED
      BY <1>0, <3>2, <3>3 DEF RoleInv, Alive
  <2>3. QED
    BY <2>1, <2>2
<1>9. QED
  BY <1>4, <1>5, <1>6, <1>7, <1>8 DEF RoleInv

\* One thread of a process is deleted by a collector that goes on killing.
LEMMA KillMoves ==
  ASSUME RoleInv, NEW p \in Pids, NEW t \in members[p], Goto(t, "deleted"),
         members' = [members EXCEPT ![p] = @ \ {t}], UNCHANGED <<call, target, ring>>
  PROVE  RoleInv'
<1>0. "deleted" \in ThreadPlaces /\ "deleted" \in Gone
  BY DEF ThreadPlaces, Gone, Places
<1>1. t \in Threads /\ Process[t] = p
  BY DEF RoleInv, Alive, Typed
<1>2. /\ DOMAIN pc' = Actors /\ Threads \cap Cpus = {}
      /\ \A a \in Actors : pc'[a] = IF a = t THEN "deleted" ELSE pc[a]
  BY <1>1, ActorAssumption DEF RoleInv, Typed, Actors, Goto
<1>3. Typed'
  <2>1. members' \in [Pids -> SUBSET Threads]
    BY DEF RoleInv, Typed
  <2>2. QED
    BY <1>0, <1>1, <1>2, <2>1 DEF RoleInv, Typed, Actors
<1>4. OwnTarget'
  BY <1>2 DEF RoleInv, OwnTarget, Actors
<1>5. Heads'
  BY <1>1, <1>2 DEF RoleInv, Heads, Victim, Actors
<1>6. EntriesOwn'
  BY DEF RoleInv, EntriesOwn
<1>7. Alive'
  <2>1. \A q \in Pids, u \in Threads : u \in members'[q] <=> u \in members[q] /\ u # t
    BY <1>1 DEF RoleInv, Typed, Alive
  <2>2. \A u \in Threads : pc'[u] = IF u = t THEN "deleted" ELSE pc[u]
    BY <1>2 DEF Actors
  <2>3. QED
    BY <1>0, <2>1, <2>2 DEF RoleInv, Alive
<1>8. QED
  BY <1>3, <1>4, <1>5, <1>6, <1>7 DEF RoleInv

\* gc_peek
LEMMA PeekMoves ==
  ASSUME RoleInv, NEW c \in Cpus, Peek(c)
  PROVE  RoleInv'
<1>1. /\ DOMAIN pc' = Actors /\ DOMAIN target' = Actors /\ Threads \cap Cpus = {} /\ c \in Actors
      /\ \A a \in Actors : /\ pc'[a] = IF a = c THEN "find" ELSE pc[a]
                           /\ target'[a] = IF a = c THEN Head(ring[c]).pid ELSE target[a]
      /\ UNCHANGED <<call, members, ring>> /\ ring[c] # <<>>
  BY ActorAssumption DEF RoleInv, Typed, Actors, Peek, Goto, processes
<1>2. Typed'
  BY <1>1 DEF RoleInv, Typed, Actors, CollectorPlaces
<1>3. OwnTarget'
  BY <1>1 DEF RoleInv, OwnTarget, Actors
<1>4. Heads'
  BY <1>1 DEF RoleInv, Heads, Victim, Actors
<1>5. EntriesOwn'
  BY <1>1 DEF RoleInv, EntriesOwn
<1>6. Alive'
  BY <1>1 DEF RoleInv, Alive, Actors
<1>7. QED
  BY <1>2, <1>3, <1>4, <1>5, <1>6 DEF RoleInv

\* A step that changes neither places, calls, members nor rings keeps the roles.
LEMMA RolesUnchanged ==
  ASSUME RoleInv, UNCHANGED <<pc, call, target, members, ring>>
  PROVE  RoleInv'
BY DEF RoleInv, Typed, OwnTarget, Heads, Victim, EntriesOwn, Alive

\* Every step keeps threads and collectors in their roles.
LEMMA RoleStep ==
  ASSUME RoleInv, [Next]_vars
  PROVE  RoleInv'
<1> USE DEF processes, locks, Goto
<1>0. /\ {"stuck", "entry", "leave", "asleep", "dozing", "finished", "sleep", "doze", "lock", "work",
         "find", "lock_parent", "clone"} \subseteq ThreadPlaces \ Gone
      /\ {"next", "lock", "work", "kill", "remove", "find"} \subseteq CollectorPlaces
  BY DEF ThreadPlaces, CollectorPlaces, Gone, Places, Inside, Checkout, InterruptsOff, Sleeping
<1>1. CASE UNCHANGED vars \/ Halt
  BY <1>1, RolesUnchanged DEF vars, Halt
<1>2. ASSUME NEW t \in Threads,
             Enter(t) \/ Stop(t) \/ Expire(t) \/ Awake(t) \/ ReadCall(t) \/ SleepCall(t) \/ ListCall(t)
      PROVE  RoleInv'
  <2>1. pc[t] \notin Gone
    BY <1>2 DEF Enter, Stop, Expire, Awake, ReadCall, SleepCall, ListCall, Working, At,
                InterruptsOff, Gone
  <2>2. \E place \in {"stuck", "entry", "leave", "asleep", "dozing", "finished", "sleep", "doze"} :
           pc' = [pc EXCEPT ![t] = place]
    BY <1>2 DEF Enter, Stop, Expire, Awake, ReadCall, SleepCall, ListCall
  <2>3. UNCHANGED <<call, target, members, ring>>
    BY <1>2 DEF Enter, Stop, Expire, Awake, ReadCall, SleepCall, ListCall
  <2>4. QED
    BY <1>0, <2>1, <2>2, <2>3, ThreadMoves
<1>3. ASSUME NEW t \in Threads, ~Halt, Insert(t) \/ FindParent(t) \/ LockParent(t) PROVE RoleInv'
  <2>1. pc[t] \notin Gone
    BY <1>3 DEF Insert, FindParent, LockParent, Working, At, Gone
  <2>2. UNCHANGED <<call, target, members, ring>>
    BY <1>3 DEF Insert, FindParent, LockParent
  <2>3. \/ pc' = [pc EXCEPT ![t] = "find"]
        \/ pc' = [pc EXCEPT ![t] = "lock_parent"] /\ call[t] = "exec"
        \/ pc' = [pc EXCEPT ![t] = "clone"] /\ call[t] = "exec"
    BY <1>3 DEF Insert, FindParent, LockParent, Working, At, RoleInv, OwnTarget
  <2>4. QED
    BY <1>0, <2>1, <2>2, <2>3, ThreadMoves
<1>4. ASSUME NEW a \in Actors, ~Halt, LockStep(a) PROVE RoleInv'
  <2>1. UNCHANGED <<call, target, members, ring>>
    BY <1>4 DEF LockStep, Find, LockProcess, AskForTable
  <2>2. CASE pc' = pc
    BY <2>1, <2>2, RolesUnchanged
  <2>3. CASE pc' # pc
    <3>1. pc[a] \in {"find", "lock"} /\ \E place \in {"lock", "work", Missing(a)} : pc' = [pc EXCEPT ![a] = place]
      BY <1>4, <2>3 DEF LockStep, Find, LockProcess, AskForTable, At
    <3>2. pc[a] \notin Gone
      BY <3>1 DEF Gone
    <3>3. CASE a \in Threads
      <4>1. Missing(a) = "leave"
        BY <3>3, ActorAssumption DEF Missing
      <4>2. QED
        BY <1>0, <2>1, <3>1, <3>2, <3>3, <4>1, ThreadMoves
    <3>4. CASE a \in Cpus
      <4>1. Missing(a) = "next"
        BY <3>4 DEF Missing
      <4>2. QED
        BY <1>0, <2>1, <3>1, <3>4, <4>1, CollectorMoves
    <3>5. QED
      BY <3>3, <3>4 DEF Actors
  <2>4. QED
    BY <2>2, <2>3
<1>5. ASSUME NEW t \in Threads, ~Halt, SendCall(t) \/ ResumeCall(t) \/ StartCall(t) PROVE RoleInv'
  <2>1. /\ UNCHANGED <<call, target, members, ring>> /\ pc[t] \notin Gone
        /\ t \in Actors /\ target[t] \in Pids /\ t \notin Cpus
    BY <1>5, ActorAssumption DEF SendCall, ResumeCall, StartCall, Working, At, Gone, RoleInv, Typed, Actors
  <2>2. \/ \E S \in SUBSET members[target[t]] : pc' = [WakeUp(pc, S) EXCEPT ![t] = "leave"]
        \/ pc' = [pc EXCEPT ![t] = "leave"]
    BY <1>5 DEF SendCall, ResumeCall, StartCall
  <2>3. QED
    BY <1>0, <2>1, <2>2, ThreadMoves, WakingMoves
<1>6. ASSUME NEW t \in Threads, SpawnCall(t) \/ Clone(t) PROVE RoleInv'
  <2>1. /\ UNCHANGED <<call, target, ring>> /\ pc[t] \notin Gone /\ target[t] \in Pids
        /\ new_thread(t, target[t])
    BY <1>6 DEF SpawnCall, Clone, Working, At, Gone, RoleInv, Typed
  <2>2. QED
    BY <2>1, NewThreadMoves
<1>7. ASSUME NEW t \in Threads, ExitThread(t) \/ ExitProcess(t) PROVE RoleInv'
  <2>1. /\ UNCHANGED <<call, target, members>> /\ pc[t] \notin Gone /\ Goto(t, "exiting")
        /\ gc_queue(t, t) \/ gc_queue(t, Nobody)
    BY <1>7 DEF ExitThread, ExitProcess, Working, At, Gone
  <2>2. QED
    BY <2>1, ExitMoves
<1>8. ASSUME NEW t \in Threads, NEW name, NEW p \in Pids, syscall(t, name, p) PROVE RoleInv'
  <2> DEFINE place == IF name = "exec" THEN "insert" ELSE IF name = "list" THEN "list" ELSE "find"
  <2>1. /\ UNCHANGED <<members, ring>> /\ pc[t] \notin Gone /\ pc' = [pc EXCEPT ![t] = place]
        /\ call' = [call EXCEPT ![t] = name] /\ target' = [target EXCEPT ![t] = p]
        /\ p \in Targets(t, name)
    BY <1>8 DEF syscall, At, Gone
  <2>2. /\ name \notin {"send", "start", "exec"} => p = Process[t]
        /\ place \in {"insert", "list", "find", "user"} /\ (place = "insert" => name = "exec")
    BY <2>1 DEF Targets
  <2> HIDE DEF place
  <2>3. QED
    BY <2>1, <2>2, CallMoves
<1>9. ASSUME NEW t \in Threads, Leave(t) PROVE RoleInv'
  <2>1. /\ UNCHANGED <<members, ring>> /\ pc[t] \notin Gone /\ pc' = [pc EXCEPT ![t] = "user"]
        /\ call' = [call EXCEPT ![t] = "none"] /\ target' = [target EXCEPT ![t] = Process[t]]
        /\ Process[t] \in Pids
    BY <1>9, ProcessAssumption DEF Leave, Done, Own, At, Gone
  <2>2. QED
    BY <2>1, CallMoves
<1>10. ASSUME NEW c \in Cpus, CollectorStep(c), ~Halt PROVE RoleInv'
  <2>0. c \in Actors /\ c \notin Threads
    BY ActorAssumption DEF Actors
  <2>1. CASE Peek(c)
    BY <2>1, PeekMoves
  <2>2. CASE Skip(c) \/ Remove(c) \/ (gc_do_thread(c) /\ members' = members)
    <3>1. /\ UNCHANGED <<call, target, members>> /\ pc[c] # "none"
          /\ ring' = [ring EXCEPT ![c] = Tail(@)] /\ pc' = [pc EXCEPT ![c] = "none"]
      <4>1. CASE Skip(c) \/ Remove(c)
        BY <4>1 DEF Skip, Remove, At, gc_next
      <4>2. CASE gc_do_thread(c) /\ members' = members
        <5>1. Victim(c) \in members[target[c]] =>
                 target[c] \in Pids /\ members'[target[c]] # members[target[c]]
          BY <1>10, <4>2, CollectorObject DEF gc_do_thread, At, RoleInv, Typed
        <5>2. QED
          BY <1>10, <4>2, <5>1 DEF gc_do_thread, At, gc_next
      <4>3. QED
        BY <2>2, <4>1, <4>2
    <3>2. DOMAIN pc' = Actors /\ pc'[c] = "none" /\ \A a \in Actors \ {c} : pc'[a] = pc[a]
      BY <2>0, <3>1 DEF RoleInv, Typed
    <3>3. QED
      BY <3>1, <3>2, PopMoves
  <2>3. CASE gc_do_thread(c) /\ members' # members
    <3>1. /\ UNCHANGED <<call, target>> /\ pc[c] # "none"
          /\ Victim(c) \in members[target[c]]
          /\ ring' = [ring EXCEPT ![c] = Tail(@)]
          /\ pc' = [pc EXCEPT ![Victim(c)] = "deleted", ![c] = "none"]
          /\ members' = [members EXCEPT ![target[c]] = @ \ {Victim(c)}]
      BY <1>10, <2>3 DEF gc_do_thread, At
    <3>2. target[c] \in Pids
      BY <3>1, CollectorObject
    <3>3. Victim(c) \in Threads
      BY <3>1, <3>2 DEF RoleInv, Typed
    <3>4. /\ DOMAIN pc' = Actors /\ pc'[c] = "none"
          /\ \A a \in Actors \ {c} : pc'[a] = IF a = Victim(c) THEN "deleted" ELSE pc[a]
      BY <2>0, <3>1, <3>3 DEF RoleInv, Typed, Actors
    <3>5. \E p \in Pids : \E t \in members[p] :
             /\ members' = [members EXCEPT ![p] = @ \ {t}]
             /\ \A a \in Actors \ {c} : pc'[a] = IF a = t THEN "deleted" ELSE pc[a]
      BY <3>1, <3>2, <3>4
    <3>6. QED
      BY <3>1, <3>4, <3>5, PopMoves
  <2>4. CASE gc_do_process(c) \/ ReleaseTable(c)
    <3>1. UNCHANGED <<call, target, members, ring>> /\ pc[c] \in {"work", "kill"}
      BY <1>10, <2>4 DEF gc_do_process, ReleaseTable, At
    <3>2. target[c] \in Pids /\ (pc[c] = "kill" => Victim(c) = Nobody)
      BY <3>1, CollectorObject DEF RoleInv, Heads
    <3>3. \/ \E S \in SUBSET members[target[c]] : pc' = [WakeUp(pc, S) EXCEPT ![c] = "find"]
          \/ pc' = [pc EXCEPT ![c] = "kill"] /\ Victim(c) = Nobody
          \/ pc' = [pc EXCEPT ![c] = "remove"] /\ pc[c] = "kill"
      BY <1>10, <2>4 DEF gc_do_process, ReleaseTable, At
    <3>4. QED
      BY <1>0, <2>0, <3>1, <3>2, <3>3, WakingMoves, CollectorMoves
  <2>5. CASE Kill(c)
    <3>1. PICK t \in members[target[c]] : /\ members' = [members EXCEPT ![target[c]] = @ \ {t}]
                                          /\ Goto(t, "deleted") /\ UNCHANGED <<call, target, ring>>
      BY <1>10, <2>5 DEF Kill
    <3>2. target[c] \in Pids
      BY <2>5, CollectorObject DEF Kill, At
    <3>3. QED
      BY <3>1, <3>2, KillMoves
  <2>6. QED
    BY <1>10, <2>1, <2>2, <2>3, <2>4, <2>5 DEF CollectorStep
<1>11. QED
  BY <1>1, <1>2, <1>3, <1>4, <1>5, <1>6, <1>7, <1>8, <1>9, <1>10 DEF Next, ThreadStep, CallStep

-----------------------------------------------------------------------------
(* A process that does not run yet has no thread that has started, and no   *)
(* object in a ring.                                                        *)

States == {"unborn", "INIT", "RUNNING", "FINISHING", "deleted"}
Unborn == {"unborn", "INIT"}

Born == /\ pstate \in [Pids -> States]
        /\ \A t \in Threads : pstate[Process[t]] \in Unborn => pc[t] \in {"none", "new"}
        /\ \A c \in Cpus : \A i \in 1 .. Len(ring[c]) : pstate[ring[c][i].pid] \notin Unborn
        /\ \A t \in Threads : call[t] = "exec" => target[t] # Process[t]

\* The steps that change the state of a process.
LEMMA StateMoves ==
  ASSUME RoleInv, [Next]_vars
  PROVE  \/ pstate' = pstate
         \/ \E t \in Threads, p \in Pids :
               /\ syscall(t, "exec", p) /\ pstate[p] = "unborn" /\ pc[t] = "entry"
               /\ pstate' = [pstate EXCEPT ![p] = "INIT"]
         \/ \E t \in Threads :
               /\ StartCall(t) /\ ~Halt /\ pc[t] = "work" /\ target[t] \in Pids /\ pstate[target[t]] = "INIT"
               /\ pstate' = [pstate EXCEPT ![target[t]] = "RUNNING"]
         \/ \E t \in Threads :
               /\ ExitProcess(t) /\ pc[t] = "work"
               /\ pstate' = [pstate EXCEPT ![Process[t]] = "FINISHING"]
         \/ \E c \in Cpus :
               /\ Remove(c) /\ pc[c] = "remove" /\ target[c] \in Pids
               /\ pstate' = [pstate EXCEPT ![target[c]] = "deleted"]
<1> USE DEF processes
<1>1. CASE UNCHANGED vars \/ Halt
  BY <1>1 DEF vars, Halt
<1>2. ASSUME NEW t \in Threads, ThreadStep(t), pstate' # pstate, ~Halt
      PROVE  \/ \E p \in Pids : syscall(t, "exec", p) /\ pstate' = [pstate EXCEPT ![p] = "INIT"]
             \/ /\ StartCall(t) /\ pstate[target[t]] = "INIT"
                /\ pstate' = [pstate EXCEPT ![target[t]] = "RUNNING"]
             \/ /\ ExitProcess(t) /\ pstate' = [pstate EXCEPT ![Process[t]] = "FINISHING"]
  <2>1. CASE \/ Enter(t) \/ Leave(t) \/ Stop(t) \/ Expire(t) \/ Awake(t)
             \/ ReadCall(t) \/ SendCall(t) \/ SpawnCall(t) \/ ResumeCall(t) \/ SleepCall(t)
             \/ ExitThread(t) \/ ListCall(t) \/ Insert(t) \/ FindParent(t) \/ LockParent(t) \/ Clone(t)
    <3>1. pstate' = pstate
      BY <1>2, <2>1 DEF Enter, Leave, Stop, Expire, Awake, ReadCall, SendCall, SpawnCall, ResumeCall,
             SleepCall, ExitThread, ListCall, Insert, FindParent, LockParent, Clone
    <3>2. QED
      BY <1>2, <3>1
  <2>2. CASE StartCall(t)
    BY <1>2, <2>2 DEF StartCall
  <2>3. CASE ExitProcess(t)
    BY <1>2, <2>3 DEF ExitProcess
  <2>4. CASE \E name \in Calls[t], p \in Pids : syscall(t, name, p)
    BY <1>2, <2>4 DEF syscall
  <2>5. QED
    BY <1>2, <2>1, <2>2, <2>3, <2>4 DEF ThreadStep, CallStep
<1>3. ASSUME NEW c \in Cpus, CollectorStep(c), pstate' # pstate, ~Halt
      PROVE  Remove(c) /\ pstate' = [pstate EXCEPT ![target[c]] = "deleted"]
  <2>1. CASE Peek(c) \/ Skip(c) \/ gc_do_thread(c) \/ gc_do_process(c) \/ Kill(c) \/ ReleaseTable(c)
    <3>1. pstate' = pstate
      BY <1>3, <2>1 DEF Peek, Skip, gc_do_thread, gc_do_process, Kill, ReleaseTable
    <3>2. QED
      BY <1>3, <3>1
  <2>2. CASE Remove(c)
    BY <2>2 DEF Remove
  <2>3. QED
    BY <1>3, <2>1, <2>2 DEF CollectorStep
<1>4. ASSUME NEW a \in Actors, LockStep(a), ~Halt
      PROVE  pstate' = pstate
  BY <1>4 DEF LockStep, Find, LockProcess, AskForTable
<1>5. \A t \in Threads : \A p \in Pids : syscall(t, "exec", p) => pstate[p] = "unborn" /\ pc[t] = "entry"
  BY DEF syscall, Targets, At
<1>6. \A t \in Threads : StartCall(t) \/ ExitProcess(t) => pc[t] = "work" /\ target[t] \in Pids
  BY DEF StartCall, ExitProcess, Working, At, RoleInv, Typed
<1>7. \A c \in Cpus : Remove(c) => pc[c] = "remove" /\ target[c] \in Pids
  <2>1. \A c \in Cpus : Remove(c) => pc[c] = "remove"
    BY DEF Remove, At
  <2>2. QED
    BY <2>1, CollectorObject
<1>8. QED
  BY <1>1, <1>2, <1>3, <1>4, <1>5, <1>6, <1>7 DEF Next

\* Who starts or deletes a thread that has not started.
LEMMA NewMoves ==
  ASSUME RoleInv, [Next]_vars, DOMAIN pstate = Pids, NEW u \in Threads, pc[u] \in {"none", "new"}
  PROVE  \/ pc'[u] \in {"none", "new"}
         \/ pstate'[Process[u]] = "RUNNING"
         \/ \E t \in Threads : pc[t] = "work" /\ Process[t] = Process[u]
         \/ \E c \in Cpus : pc[c] # "none" /\ target[c] = Process[u]
<1> USE DEF processes, Goto
<1>0. u \in Actors /\ u \notin Cpus /\ DOMAIN pc = Actors /\ Threads \cap Cpus = {}
  BY ActorAssumption DEF Actors, RoleInv, Typed
<1>1. CASE UNCHANGED vars \/ Halt
  BY <1>1 DEF vars, Halt
<1>2. ASSUME NEW a \in Actors, a # u, NEW place, pc' = [pc EXCEPT ![a] = place]
      PROVE  pc'[u] \in {"none", "new"}
  BY <1>0, <1>2
<1>3. ASSUME NEW t \in Threads, ~Halt,
             \/ Enter(t) \/ Leave(t) \/ Stop(t) \/ Expire(t) \/ Awake(t)
             \/ ReadCall(t) \/ SleepCall(t) \/ ExitThread(t) \/ ExitProcess(t) \/ ListCall(t)
             \/ Insert(t) \/ FindParent(t) \/ LockParent(t)
             \/ \E name \in Calls[t], p \in Pids : syscall(t, name, p)
      PROVE  pc'[u] \in {"none", "new"}
  <2>1. pc[t] \notin {"none", "new"}
    BY <1>3 DEF Enter, Leave, Stop, Expire, Awake, ReadCall, SleepCall, ExitThread, ExitProcess, ListCall,
                Insert, FindParent, LockParent, syscall, Working, At, InterruptsOff
  <2>2. \E place : pc' = [pc EXCEPT ![t] = place]
    BY <1>3 DEF Enter, Leave, Done, Stop, Expire, Awake, ReadCall, SleepCall, ExitThread, ExitProcess, ListCall,
                Insert, FindParent, LockParent, syscall
  <2>3. QED
    BY <1>2, <2>1, <2>2 DEF Actors
<1>4. ASSUME NEW t \in Threads, SendCall(t) PROVE pc'[u] \in {"none", "new"}
  <2>1. PICK S \in SUBSET {v \in members[target[t]] : pc[v] \in Sleeping} :
           pc' = [WakeUp(pc, S) EXCEPT ![t] = "leave"]
    BY <1>4 DEF SendCall
  <2>2. u \notin S /\ u # t /\ pc'[u] = WakeUp(pc, S)[u]
    BY <1>0, <1>4, <2>1 DEF Sleeping, SendCall, Working, At, WakeUp
  <2>3. QED
    BY <1>0, <2>2 DEF WakeUp
<1>5. ASSUME NEW t \in Threads, ~Halt, StartCall(t)
      PROVE  pc'[u] \in {"none", "new"} \/ pstate'[Process[u]] = "RUNNING"
  <2>1. pc[t] = "work" /\ t # u /\ t \in Actors /\ target[t] \in Pids
    BY <1>5 DEF StartCall, Working, At, RoleInv, Typed, Actors
  <2>2. CASE pc' = [pc EXCEPT ![t] = "leave"]
    BY <1>2, <2>1, <2>2
  <2>3. CASE /\ pc' = [WakeUp(pc, members[target[t]]) EXCEPT ![t] = "leave"]
             /\ pstate' = [pstate EXCEPT ![target[t]] = "RUNNING"]
    <3>1. CASE u \in members[target[t]]
      <4>1. Process[u] = target[t]
        BY <2>1, <3>1 DEF RoleInv, Alive
      <4>2. QED
        BY <2>1, <2>3, <4>1
    <3>2. CASE u \notin members[target[t]]
      <4>1. pc'[u] = pc[u]
        BY <1>0, <2>1, <2>3, <3>2 DEF WakeUp
      <4>2. QED
        BY <4>1
    <3>3. QED
      BY <3>1, <3>2
  <2>4. QED
    BY <1>5, <2>2, <2>3 DEF StartCall
<1>6. ASSUME NEW t \in Threads, ResumeCall(t)
      PROVE  pc'[u] \in {"none", "new"} \/ (pc[t] = "work" /\ Process[t] = Process[u])
  <2>1. /\ pc[t] = "work" /\ t # u /\ t \in Actors /\ target[t] = Process[t] /\ target[t] \in Pids
    BY <1>6 DEF ResumeCall, Working, At, RoleInv, OwnTarget, Typed, Actors
  <2>2. PICK S \in SUBSET members[target[t]] : pc' = [WakeUp(pc, S) EXCEPT ![t] = "leave"]
    BY <1>6 DEF ResumeCall
  <2>3. CASE u \in S
    BY <2>1, <2>2, <2>3 DEF RoleInv, Alive
  <2>4. CASE u \notin S
    <3>1. pc'[u] = pc[u]
      BY <1>0, <2>1, <2>2, <2>4 DEF WakeUp
    <3>2. QED
      BY <3>1
  <2>5. QED
    BY <2>3, <2>4
<1>7. ASSUME NEW t \in Threads, SpawnCall(t) \/ Clone(t) PROVE pc'[u] \in {"none", "new"}
  <2>1. pc[t] \in {"work", "clone"} /\ target[t] \in Pids /\ new_thread(t, target[t]) /\ t # u
    BY <1>7 DEF SpawnCall, Clone, Working, At, RoleInv, Typed
  <2>2. pc[t] \notin Gone
    BY <2>1 DEF Gone
  <2>3. QED
    BY <1>0, <2>1, <2>2, NewThreadPlaces
<1>8. ASSUME NEW c \in Cpus, CollectorStep(c), ~Halt
      PROVE  pc'[u] \in {"none", "new"} \/ (pc[c] # "none" /\ target[c] = Process[u])
  <2>0. c \in Actors /\ c # u
    BY <1>0 DEF Actors
  <2>1. CASE Peek(c) \/ Skip(c) \/ ReleaseTable(c) \/ Remove(c)
    BY <1>2, <2>0, <2>1 DEF Peek, Skip, ReleaseTable, Remove, gc_next
  <2>2. CASE gc_do_thread(c)
    BY <1>0, <1>8, <2>0, <2>2 DEF gc_do_thread, gc_next
  <2>3. CASE gc_do_process(c)
    <3>1. \/ pc' = [pc EXCEPT ![c] = "kill"]
          \/ \E S \in SUBSET {t \in members[target[c]] : pc[t] \in Sleeping} :
                pc' = [WakeUp(pc, S) EXCEPT ![c] = "find"]
      BY <1>8, <2>3 DEF gc_do_process
    <3>2. ASSUME NEW S \in SUBSET {t \in members[target[c]] : pc[t] \in Sleeping},
                 pc' = [WakeUp(pc, S) EXCEPT ![c] = "find"]
          PROVE  pc'[u] \in {"none", "new"}
      <4>1. u \notin S
        BY DEF Sleeping
      <4>2. pc'[u] = pc[u]
        BY <1>0, <2>0, <3>2, <4>1 DEF WakeUp
      <4>3. QED
        BY <4>2
    <3>3. QED
      BY <1>2, <2>0, <3>1, <3>2
  <2>4. CASE Kill(c)
    <3>1. PICK t \in members[target[c]] : pc' = [pc EXCEPT ![t] = "deleted"]
      BY <1>8, <2>4 DEF Kill
    <3>2. pc[c] # "none"
      BY <2>4 DEF Kill, At
    <3>3. target[c] \in Pids
      BY <3>2, CollectorObject
    <3>4. CASE t = u
      BY <3>1, <3>2, <3>3, <3>4 DEF RoleInv, Alive
    <3>5. CASE t # u
      BY <1>0, <3>1, <3>5
    <3>6. QED
      BY <3>4, <3>5
  <2>5. QED
    BY <1>8, <2>1, <2>2, <2>3, <2>4 DEF CollectorStep
<1>9. ASSUME NEW a \in Actors, LockStep(a), ~Halt PROVE pc'[u] \in {"none", "new"}
  <2>1. pc' = pc \/ (pc[a] \in {"find", "lock"} /\ \E place : pc' = [pc EXCEPT ![a] = place])
    BY <1>9 DEF LockStep, Find, LockProcess, AskForTable, At
  <2>2. QED
    BY <1>2, <2>1
<1>10. QED
  BY <1>1, <1>3, <1>4, <1>5, <1>6, <1>7, <1>8, <1>9 DEF Next, ThreadStep, CallStep

\* The steps that change the rings.
LEMMA RingMoves ==
  ASSUME RoleInv, [Next]_vars
  PROVE  \/ ring' = ring
         \/ \E t \in Threads : ExitThread(t) /\ pc[t] = "work" /\ gc_queue(t, t)
         \/ \E t \in Threads : ExitProcess(t) /\ pc[t] = "work" /\ gc_queue(t, Nobody)
         \/ \E c \in Cpus : /\ Skip(c) \/ Remove(c) \/ gc_do_thread(c)
                            /\ pc[c] # "none" /\ ring' = [ring EXCEPT ![c] = Tail(@)]
<1> USE DEF processes
<1>1. CASE UNCHANGED vars \/ Halt
  BY <1>1 DEF vars, Halt
<1>2. ASSUME NEW t \in Threads, ThreadStep(t), ring' # ring, ~Halt
      PROVE  /\ pc[t] = "work"
             /\ (ExitThread(t) /\ gc_queue(t, t)) \/ (ExitProcess(t) /\ gc_queue(t, Nobody))
  <2>1. CASE \/ Enter(t) \/ Leave(t) \/ Stop(t) \/ Expire(t) \/ Awake(t)
             \/ ReadCall(t) \/ SendCall(t) \/ StartCall(t) \/ SpawnCall(t) \/ ResumeCall(t) \/ SleepCall(t)
             \/ ListCall(t) \/ Insert(t) \/ FindParent(t) \/ LockParent(t) \/ Clone(t)
             \/ \E name \in Calls[t], p \in Pids : syscall(t, name, p)
    <3>1. ring' = ring
      BY <1>2, <2>1 DEF Enter, Leave, Stop, Expire, Awake, ReadCall, SendCall, StartCall, SpawnCall, ResumeCall,
             SleepCall, ListCall, Insert, FindParent, LockParent, Clone, syscall
    <3>2. QED
      BY <1>2, <3>1
  <2>2. CASE ExitThread(t)
    BY <2>2 DEF ExitThread, Working, At
  <2>3. CASE ExitProcess(t)
    BY <2>3 DEF ExitProcess, Working, At
  <2>4. QED
    BY <1>2, <2>1, <2>2, <2>3 DEF ThreadStep, CallStep
<1>3. ASSUME NEW c \in Cpus, CollectorStep(c), ring' # ring, ~Halt
      PROVE  /\ Skip(c) \/ Remove(c) \/ gc_do_thread(c)
             /\ pc[c] # "none" /\ ring' = [ring EXCEPT ![c] = Tail(@)]
  <2>1. CASE Peek(c) \/ gc_do_process(c) \/ Kill(c) \/ ReleaseTable(c)
    <3>1. ring' = ring
      BY <1>3, <2>1 DEF Peek, gc_do_process, Kill, ReleaseTable
    <3>2. QED
      BY <1>3, <3>1
  <2>2. CASE Skip(c) \/ Remove(c)
    BY <2>2 DEF Skip, Remove, At, gc_next
  <2>3. CASE gc_do_thread(c)
    BY <1>3, <2>3 DEF gc_do_thread, At, gc_next
  <2>4. QED
    BY <1>3, <2>1, <2>2, <2>3 DEF CollectorStep
<1>4. ASSUME NEW a \in Actors, LockStep(a), ~Halt
      PROVE  ring' = ring
  <2>1. CASE Find(a)
    BY <1>4, <2>1 DEF Find
  <2>2. CASE LockProcess(a) \/ AskForTable(a)
    BY <2>2 DEF LockProcess, AskForTable
  <2>3. QED
    BY <1>4, <2>1, <2>2 DEF LockStep
<1>5. QED
  BY <1>1, <1>2, <1>3, <1>4 DEF Next

\* The steps that change what a thread is about.
LEMMA CallChanges ==
  ASSUME RoleInv, [Next]_vars, NEW t \in Threads
  PROVE  \/ call'[t] = call[t] /\ target'[t] = target[t]
         \/ /\ pc[t] = "leave" /\ pc'[t] = "user" /\ call'[t] = "none" /\ target'[t] = Process[t]
         \/ \E name : \E p \in Pids :
               /\ syscall(t, name, p) /\ pc[t] = "entry" /\ p \in Targets(t, name)
               /\ pc'[t] \in {"insert", "list", "find"}
               /\ pc'[t] = "insert" <=> name = "exec"
               /\ call'[t] = name /\ target'[t] = p
<1>0. t \in Actors /\ t \notin Cpus /\ DOMAIN pc = Actors /\ DOMAIN call = Actors /\ DOMAIN target = Actors
  BY ActorAssumption DEF Actors, RoleInv, Typed
<1>1. CASE UNCHANGED vars \/ Halt
  BY <1>1 DEF vars, Halt
<1>2. ASSUME NEW u \in Threads, ThreadStep(u), ~Halt, ~Leave(u), ~ \E name \in Calls[u], p \in Pids : syscall(u, name, p)
      PROVE  call' = call /\ target' = target
  BY <1>2 DEF ThreadStep, CallStep, Enter, Stop, Expire, Awake, ReadCall, SendCall, StartCall, SpawnCall,
              ResumeCall, SleepCall, ExitThread, ExitProcess, ListCall, Insert, FindParent, LockParent, Clone
<1>3. ASSUME NEW u \in Threads, Leave(u)
      PROVE  \/ call'[t] = call[t] /\ target'[t] = target[t]
             \/ pc[t] = "leave" /\ pc'[t] = "user" /\ call'[t] = "none" /\ target'[t] = Process[t]
  BY <1>0, <1>3 DEF Leave, Done, At, Own, Goto
<1>4. ASSUME NEW u \in Threads, NEW name, NEW p \in Pids, syscall(u, name, p)
      PROVE  \/ call'[t] = call[t] /\ target'[t] = target[t]
             \/ /\ u = t /\ pc[t] = "entry" /\ p \in Targets(t, name)
                /\ pc'[t] \in {"insert", "list", "find"}
                /\ pc'[t] = "insert" <=> name = "exec"
                /\ call'[t] = name /\ target'[t] = p
  BY <1>0, <1>4 DEF syscall, At, Goto
<1>5. ASSUME NEW c \in Cpus, CollectorStep(c), ~Halt
      PROVE  call'[t] = call[t] /\ target'[t] = target[t]
  BY <1>0, <1>5 DEF CollectorStep, Peek, Skip, gc_do_thread, gc_do_process, Kill, ReleaseTable, Remove
<1>6. ASSUME NEW a \in Actors, LockStep(a), ~Halt
      PROVE  call' = call /\ target' = target
  BY <1>6 DEF LockStep, Find, LockProcess, AskForTable
<1>7. QED
  BY <1>1, <1>2, <1>3, <1>4, <1>5, <1>6 DEF Next, ThreadStep

\* Where an object of a ring comes from.
LEMMA RingEntries ==
  ASSUME RoleInv, [Next]_vars, NEW c \in Cpus, NEW i \in 1 .. Len(ring'[c])
  PROVE  \/ \E j \in 1 .. Len(ring[c]) : ring'[c][i] = ring[c][j]
         \/ \E t \in Threads : /\ ExitThread(t) /\ pc[t] = "work" /\ c = Cpu[t]
                               /\ ring'[c][i] = [pid |-> Process[t], tid |-> t]
         \/ \E t \in Threads : /\ ExitProcess(t) /\ pc[t] = "work" /\ c = Cpu[t]
                               /\ ring'[c][i] = [pid |-> Process[t], tid |-> Nobody]
<1>1. CASE ring' = ring
  BY <1>1
<1>2. ASSUME NEW t \in Threads, NEW tid \in {t, Nobody}, gc_queue(t, tid)
      PROVE  \/ \E j \in 1 .. Len(ring[c]) : ring'[c][i] = ring[c][j]
             \/ c = Cpu[t] /\ ring'[c][i] = [pid |-> Process[t], tid |-> tid]
  <2>1. \A d \in Cpus : \A k \in 1 .. Len(ring'[d]) :
           \/ k \in 1 .. Len(ring[d]) /\ ring'[d][k] = ring[d][k]
           \/ /\ d = Cpu[t] /\ k = Len(ring[d]) + 1
              /\ ring'[d][k] = [pid |-> Process[t], tid |-> tid]
    BY <1>2, RingAppends, ZenonT(30)
  <2>2. QED
    BY <2>1
<1>3. ASSUME NEW d \in Cpus, pc[d] # "none", ring' = [ring EXCEPT ![d] = Tail(@)]
      PROVE  \E j \in 1 .. Len(ring[c]) : ring'[c][i] = ring[c][j]
  <2>1. /\ \A e \in Cpus \ {d} : ring'[e] = ring[e]
        /\ \A k \in 1 .. Len(ring'[d]) : k + 1 \in 1 .. Len(ring[d]) /\ ring'[d][k] = ring[d][k + 1]
    BY <1>3, RingPops
  <2>2. QED
    BY <2>1
<1>4. QED
  BY <1>1, <1>2, <1>3, RingMoves

\* Every step keeps it.
LEMMA BornStep ==
  ASSUME RoleInv, Born, [Next]_vars
  PROVE  Born'
<1>1. pstate' \in [Pids -> States] /\ \A p \in Pids : pstate'[p] \in Unborn => pstate[p] \in Unborn
  <2>1. pstate \in [Pids -> States] /\ {"RUNNING", "FINISHING", "deleted"} \cap Unborn = {}
    BY DEF Born, Unborn
  <2>2. QED
    BY <2>1, StateMoves, ProcessAssumption DEF States, Unborn
<1>2. \A t \in Threads : Process[t] \in Pids
  BY ProcessAssumption
<1>3. \A t \in Threads : pc[t] \notin {"none", "new"} => pstate[Process[t]] \notin Unborn
  BY DEF Born
<1>4. \A c \in Cpus : pc[c] # "none" => pstate[target[c]] \notin Unborn
  <2>1. SUFFICES ASSUME NEW c \in Cpus, pc[c] # "none" PROVE pstate[target[c]] \notin Unborn
    OBVIOUS
  <2>2. 1 \in 1 .. Len(ring[c]) /\ target[c] = ring[c][1].pid
    BY <2>1, CollectorObject
  <2>3. QED
    BY <2>2 DEF Born
<1>5. ASSUME NEW t \in Threads, pstate'[Process[t]] \in Unborn PROVE pc'[t] \in {"none", "new"}
  <2>1. pstate[Process[t]] \in Unborn /\ pc[t] \in {"none", "new"}
    BY <1>1, <1>2, <1>5 DEF Born
  <2>2. DOMAIN pstate = Pids /\ "RUNNING" \notin Unborn
    BY DEF Born, Unborn
  <2>3. QED
    BY <1>3, <1>4, <1>5, <2>1, <2>2, NewMoves
<1>6. ASSUME NEW c \in Cpus, NEW i \in 1 .. Len(ring'[c]) PROVE pstate'[ring'[c][i].pid] \notin Unborn
  <2>1. \/ \E j \in 1 .. Len(ring[c]) : ring'[c][i] = ring[c][j]
        \/ \E t \in Threads : /\ ExitThread(t) /\ pc[t] = "work" /\ c = Cpu[t]
                              /\ ring'[c][i] = [pid |-> Process[t], tid |-> t]
        \/ \E t \in Threads : /\ ExitProcess(t) /\ pc[t] = "work" /\ c = Cpu[t]
                              /\ ring'[c][i] = [pid |-> Process[t], tid |-> Nobody]
    BY <1>6, RingEntries
  <2>2. ASSUME NEW j \in 1 .. Len(ring[c]), ring'[c][i] = ring[c][j]
        PROVE  pstate'[ring'[c][i].pid] \notin Unborn
    <3>1. ring[c][j] \in Entries
      BY DEF RoleInv, Typed
    <3>2. pstate[ring[c][j].pid] \notin Unborn /\ ring[c][j].pid \in Pids
      BY <3>1 DEF Born, Entries
    <3>3. QED
      BY <1>1, <2>2, <3>2
  <2>3. ASSUME NEW t \in Threads, NEW tid, pc[t] = "work", ring'[c][i] = [pid |-> Process[t], tid |-> tid]
        PROVE  pstate'[ring'[c][i].pid] \notin Unborn
    <3>1. ring'[c][i].pid = Process[t] /\ pstate[Process[t]] \notin Unborn
      BY <1>3, <2>3
    <3>2. QED
      BY <1>1, <1>2, <3>1
  <2>4. QED
    BY <2>1, <2>2, <2>3
<1>7. ASSUME NEW t \in Threads, call'[t] = "exec" PROVE target'[t] # Process[t]
  <2>1. CASE call'[t] = call[t] /\ target'[t] = target[t]
    BY <1>7, <2>1 DEF Born
  <2>2. ASSUME NEW name, NEW p \in Pids, p \in Targets(t, name), call'[t] = name, target'[t] = p, pc[t] = "entry"
        PROVE  target'[t] # Process[t]
    <3>1. pstate[p] = "unborn"
      BY <1>7, <2>2 DEF Targets
    <3>2. pstate[Process[t]] \notin Unborn
      BY <1>3, <2>2
    <3>3. QED
      BY <2>2, <3>1, <3>2 DEF Unborn
  <2>3. CASE call'[t] = "none"
    BY <1>7, <2>3
  <2>4. \/ call'[t] = call[t] /\ target'[t] = target[t]
        \/ /\ pc[t] = "leave" /\ pc'[t] = "user" /\ call'[t] = "none" /\ target'[t] = Process[t]
        \/ \E name : \E p \in Pids :
              p \in Targets(t, name) /\ call'[t] = name /\ target'[t] = p /\ pc[t] = "entry"
    BY CallChanges
  <2>5. QED
    BY <2>1, <2>2, <2>3, <2>4
<1>8. QED
  BY <1>1, <1>5, <1>6, <1>7 DEF Born

-----------------------------------------------------------------------------
(* The locks of the processes. *)

\* Where an actor has the lock of its target, or of its own process.
Holding == {"work", "lock_parent", "clone", "kill", "remove"}
Writing(a) == pc[a] = "remove" \/ (pc[a] \in Holding /\ call[a] # "read")
Reading(a) == pc[a] = "work" /\ call[a] = "read"

\* Nobody reads what somebody writes.
Excluded == \A p \in Pids : lock[p].writer # Nobody => \A a \in Actors : lock[p].readers[a] = 0

WritersHave == \A a \in Actors : Writing(a) => lock[target[a]].writer = a

ReadersHave == \A a \in Actors : /\ Reading(a) => lock[target[a]].readers[a] >= 1
                                 /\ pc[a] = "clone" => lock[Process[a]].readers[a] >= 1

LockInv == lock \in [Pids -> Locks] /\ Excluded /\ WritersHave /\ ReadersHave

\* What writers do to a lock.
LEMMA WriterFacts ==
  ASSUME NEW l \in Locks, NEW a \in Actors
  PROVE  /\ Write(l, a) \in Locks /\ Write(l, a).writer = a /\ Write(l, a).readers = l.readers
         /\ l.writer # Nobody => /\ Release(l, a) \in Locks /\ Release(l, a).writer = Nobody
                                 /\ Release(l, a).readers = l.readers
         /\ l.readers \in [Actors -> Nat]
BY DEF Locks, Write, Release

\* An actor that has a target has a pid.
LEMMA HoldersTargets ==
  ASSUME RoleInv, NEW a \in Actors, pc[a] # "none"
  PROVE  target[a] \in Pids
BY CollectorObject DEF RoleInv, Typed, Actors

\* Actor x changes locks that nobody else writes, leaving the other readers alone.
LEMMA LockChanges ==
  ASSUME RoleInv, LockInv, NEW x \in Actors, lock' \in [Pids -> Locks],
         \A p \in Pids : \/ lock'[p] = lock[p]
                         \/ /\ lock'[p].writer # Nobody => \A a \in Actors : lock'[p].readers[a] = 0
                            /\ lock[p].writer \in {Nobody, x} \/ lock'[p].writer = lock[p].writer
                            /\ \A a \in Actors \ {x} : lock'[p].readers[a] = lock[p].readers[a],
         \A a \in Actors \ {x} : \/ pc'[a] \notin Holding
                                 \/ pc'[a] = pc[a] /\ call'[a] = call[a] /\ target'[a] = target[a],
         Writing(x)' => lock'[target'[x]].writer = x,
         Reading(x)' => lock'[target'[x]].readers[x] >= 1,
         pc'[x] = "clone" => lock'[Process[x]].readers[x] >= 1
  PROVE  LockInv'
<1>1. Excluded'
  BY DEF LockInv, Excluded
<1>2. \A a \in Actors \ {x} : /\ Writing(a)' => Writing(a) /\ target'[a] = target[a] /\ pc[a] # "none"
                              /\ Reading(a)' => Reading(a) /\ target'[a] = target[a] /\ pc[a] # "none"
                              /\ pc'[a] = "clone" => pc[a] = "clone"
  BY DEF Writing, Reading, Holding
<1>3. WritersHave'
  <2>1. SUFFICES ASSUME NEW a \in Actors \ {x}, Writing(a)' PROVE lock'[target'[a]].writer = a
    BY DEF WritersHave
  <2>2. lock[target[a]].writer = a /\ target'[a] = target[a] /\ a # Nobody
    BY <1>2, <2>1, ActorAssumption DEF LockInv, WritersHave, Actors
  <2>3. target[a] \in Pids
    BY <1>2, <2>1, HoldersTargets
  <2>4. QED
    BY <2>1, <2>2, <2>3
<1>4. ReadersHave'
  <2>1. ASSUME NEW a \in Actors \ {x}, Reading(a)' PROVE lock'[target'[a]].readers[a] >= 1
    <3>1. lock[target[a]].readers[a] >= 1 /\ target'[a] = target[a]
      BY <1>2, <2>1 DEF LockInv, ReadersHave
    <3>2. target[a] \in Pids
      BY <1>2, <2>1, HoldersTargets
    <3>3. QED
      BY <3>1, <3>2
  <2>2. ASSUME NEW a \in Actors \ {x}, pc'[a] = "clone" PROVE lock'[Process[a]].readers[a] >= 1
    <3>1. lock[Process[a]].readers[a] >= 1 /\ pc[a] = "clone"
      BY <1>2, <2>2 DEF LockInv, ReadersHave
    <3>2. Process[a] \in Pids
      BY <3>1, ProcessAssumption DEF RoleInv, Typed, Actors, CollectorPlaces
    <3>3. QED
      BY <3>1, <3>2
  <2>3. QED
    BY <2>1, <2>2 DEF ReadersHave
<1>5. QED
  BY <1>1, <1>3, <1>4 DEF LockInv

\* The locks of the processes are left alone.
LEMMA LocksIdle ==
  ASSUME RoleInv, LockInv, lock' = lock,
         \A a \in Actors : \/ pc'[a] \notin Holding
                           \/ pc'[a] = pc[a] /\ call'[a] = call[a] /\ target'[a] = target[a]
                           \/ /\ Writing(a) /\ Writing(a)' /\ target'[a] = target[a]
                              /\ pc'[a] \notin {"work", "clone"}
  PROVE  LockInv'
<1>1. \A a \in Actors : /\ Writing(a)' => Writing(a) /\ target'[a] = target[a]
                        /\ Reading(a)' => Reading(a) /\ target'[a] = target[a]
                        /\ pc'[a] = "clone" => pc[a] = "clone"
  BY DEF Writing, Reading, Holding
<1>2. QED
  BY <1>1 DEF LockInv, Excluded, WritersHave, ReadersHave

\* commit_process by an actor at work.
LEMMA CommitLocks ==
  ASSUME RoleInv, LockInv, NEW x \in Actors, pc[x] = "work", commit_process(x, target[x]),
         call' = call, target' = target, pc'[x] \notin Holding,
         \A a \in Actors \ {x} : pc'[a] \notin Holding \/ pc'[a] = pc[a]
  PROVE  LockInv'
<1> DEFINE p == target[x]
           l == Release(lock[p], x)
<1>1. p \in Pids /\ lock[p] \in Locks /\ x # Nobody
  BY HoldersTargets, ActorAssumption DEF LockInv, Actors
<1>2. Writing(x) \/ Reading(x)
  BY DEF Writing, Reading, Holding
<1>3. /\ l \in Locks /\ l.writer = Nobody /\ lock[p].writer \in {Nobody, x}
      /\ \A a \in Actors \ {x} : l.readers[a] = lock[p].readers[a]
  <2>1. CASE Writing(x)
    <3>1. lock[p].writer = x
      BY <2>1 DEF LockInv, WritersHave
    <3>2. QED
      BY <1>1, <3>1, WriterFacts
  <2>2. CASE Reading(x)
    <3>1. lock[p].readers[x] >= 1
      BY <2>2 DEF LockInv, ReadersHave
    <3>2. lock[p].readers[x] # 0
      BY <3>1
    <3>3. lock[p].writer = Nobody
      BY <1>1, <3>2 DEF LockInv, Excluded
    <3>4. QED
      BY <1>1, <3>1, <3>3, ReleaseFacts
  <2>3. QED
    BY <1>2, <2>1, <2>2
<1>4. lock' = [lock EXCEPT ![p] = l] /\ lock \in [Pids -> Locks]
  BY DEF commit_process, LockInv
<1> HIDE DEF l, p
<1>5. lock' \in [Pids -> Locks] /\ lock'[p] = l /\ \A q \in Pids \ {p} : lock'[q] = lock[q]
  BY <1>1, <1>3, <1>4
<1>6. ~Writing(x)' /\ ~Reading(x)' /\ pc'[x] # "clone"
  BY DEF Writing, Reading, Holding
<1>7. \A q \in Pids : \/ lock'[q] = lock[q]
                      \/ /\ lock'[q].writer # Nobody => \A a \in Actors : lock'[q].readers[a] = 0
                         /\ lock[q].writer \in {Nobody, x} \/ lock'[q].writer = lock[q].writer
                         /\ \A a \in Actors \ {x} : lock'[q].readers[a] = lock[q].readers[a]
  BY <1>3, <1>5
<1>8. QED
  BY <1>5, <1>6, <1>7, LockChanges

\* checkout_process: the lock of the process.
LEMMA LockProcessLocks ==
  ASSUME RoleInv, LockInv, NEW x \in Actors, LockProcess(x)
  PROVE  LockInv'
<1> DEFINE p == target[x]
<1>1. p \in Pids /\ lock[p] \in Locks /\ x # Nobody /\ pc[x] = "lock" /\ lock \in [Pids -> Locks]
  BY HoldersTargets, ActorAssumption DEF LockInv, Actors, LockProcess, At
<1>2. call' = call /\ target' = target /\ DOMAIN pc = Actors
  BY DEF LockProcess, RoleInv, Typed
<1>3. CASE call[x] = "read" /\ CanRead(lock[p]) /\ lock' = [lock EXCEPT ![p] = Read(lock[p], x)] /\ Goto(x, "work")
  <2> DEFINE l == Read(lock[p], x)
  <2>1. /\ l \in Locks /\ l.writer = Nobody /\ lock[p].writer = Nobody /\ l.readers[x] = lock[p].readers[x] + 1
        /\ \A a \in Actors \ {x} : l.readers[a] = lock[p].readers[a]
    BY <1>1, <1>3, ReadFacts DEF CanRead
  <2>2. lock' = [lock EXCEPT ![p] = l]
    BY <1>3
  <2> HIDE DEF l, p
  <2>3. lock' \in [Pids -> Locks] /\ lock'[p] = l /\ \A q \in Pids \ {p} : lock'[q] = lock[q]
    BY <1>1, <2>1, <2>2
  <2>4. pc'[x] = "work" /\ \A a \in Actors \ {x} : pc'[a] = pc[a]
    BY <1>2, <1>3 DEF Goto
  <2>5. ~Writing(x)' /\ target'[x] = p /\ lock'[p].readers[x] >= 1
    <3>1. lock[p].readers[x] \in Nat
      BY <1>1 DEF Locks
    <3>2. QED
      BY <1>2, <1>3, <2>1, <2>3, <2>4, <3>1 DEF Writing, p
  <2>6. \A q \in Pids : \/ lock'[q] = lock[q]
                        \/ /\ lock'[q].writer # Nobody => \A a \in Actors : lock'[q].readers[a] = 0
                           /\ lock[q].writer \in {Nobody, x} \/ lock'[q].writer = lock[q].writer
                           /\ \A a \in Actors \ {x} : lock'[q].readers[a] = lock[q].readers[a]
    BY <2>1, <2>3
  <2>7. QED
    BY <1>2, <2>3, <2>4, <2>5, <2>6, LockChanges
<1>4. CASE call[x] # "read" /\ CanWrite(lock[p]) /\ lock' = [lock EXCEPT ![p] = Write(lock[p], x)] /\ Goto(x, "work")
  <2> DEFINE l == Write(lock[p], x)
  <2>1. /\ l \in Locks /\ l.writer = x /\ lock[p].writer = Nobody
        /\ \A a \in Actors : l.readers[a] = 0 /\ lock[p].readers[a] = 0
    BY <1>1, <1>4, WriterFacts DEF CanWrite
  <2>2. lock' = [lock EXCEPT ![p] = l]
    BY <1>4
  <2> HIDE DEF l, p
  <2>3. lock' \in [Pids -> Locks] /\ lock'[p] = l /\ \A q \in Pids \ {p} : lock'[q] = lock[q]
    BY <1>1, <2>1, <2>2
  <2>4. pc'[x] = "work" /\ \A a \in Actors \ {x} : pc'[a] = pc[a]
    BY <1>2, <1>4 DEF Goto
  <2>5. ~Reading(x)' /\ target'[x] = p /\ lock'[p].writer = x
    BY <1>2, <1>4, <2>1, <2>3, <2>4 DEF Reading, p
  <2>6. \A q \in Pids : \/ lock'[q] = lock[q]
                        \/ /\ lock'[q].writer # Nobody => \A a \in Actors : lock'[q].readers[a] = 0
                           /\ lock[q].writer \in {Nobody, x} \/ lock'[q].writer = lock[q].writer
                           /\ \A a \in Actors \ {x} : lock'[q].readers[a] = lock[q].readers[a]
    BY <2>1, <2>3
  <2>7. QED
    BY <1>2, <2>3, <2>4, <2>5, <2>6, LockChanges
<1>5. CASE lock' = [lock EXCEPT ![p] = Ask(lock[p])] /\ pc' = pc
  <2> DEFINE l == Ask(lock[p])
  <2>1. l \in Locks /\ l.writer = lock[p].writer /\ l.readers = lock[p].readers
    BY <1>1, AskFacts
  <2>2. lock' = [lock EXCEPT ![p] = l]
    BY <1>5
  <2> HIDE DEF l, p
  <2>3. lock' \in [Pids -> Locks] /\ lock'[p] = l /\ \A q \in Pids \ {p} : lock'[q] = lock[q]
    BY <1>1, <2>1, <2>2
  <2>4. ~Writing(x)' /\ ~Reading(x)' /\ pc'[x] # "clone"
    BY <1>1, <1>5 DEF Writing, Reading, Holding
  <2>5. \A q \in Pids : \/ lock'[q] = lock[q]
                        \/ /\ lock'[q].writer # Nobody => \A a \in Actors : lock'[q].readers[a] = 0
                           /\ lock[q].writer \in {Nobody, x} \/ lock'[q].writer = lock[q].writer
                           /\ \A a \in Actors \ {x} : lock'[q].readers[a] = lock[q].readers[a]
    BY <2>1, <2>3 DEF LockInv, Excluded
  <2>6. QED
    BY <1>2, <1>5, <2>3, <2>4, <2>5, LockChanges
<1>6. QED
  BY <1>3, <1>4, <1>5 DEF LockProcess

\* The lock of the parent.
LEMMA LockParentLocks ==
  ASSUME RoleInv, LockInv, NEW t \in Threads, LockParent(t)
  PROVE  LockInv'
<1> DEFINE p == Process[t]
           l == Read(lock[p], t)
<1>1. /\ p \in Pids /\ lock[p] \in Locks /\ t \in Actors /\ pc[t] = "lock_parent" /\ lock \in [Pids -> Locks]
      /\ call' = call /\ target' = target /\ DOMAIN pc = Actors /\ target[t] \in Pids
      /\ call[t] = "exec"
  BY ProcessAssumption DEF LockInv, Actors, LockParent, At, RoleInv, Typed, OwnTarget
<1>2. /\ l \in Locks /\ l.writer = Nobody /\ lock[p].writer = Nobody /\ l.readers[t] = lock[p].readers[t] + 1
      /\ \A a \in Actors \ {t} : l.readers[a] = lock[p].readers[a]
  BY <1>1, ReadFacts DEF CanRead, LockParent
<1>3. lock' = [lock EXCEPT ![p] = l]
  BY DEF LockParent
<1> HIDE DEF l, p
<1>4. lock' \in [Pids -> Locks] /\ lock'[p] = l /\ \A q \in Pids \ {p} : lock'[q] = lock[q]
  BY <1>1, <1>2, <1>3
<1>5. pc'[t] = "clone" /\ \A a \in Actors \ {t} : pc'[a] = pc[a]
  BY <1>1 DEF LockParent, Goto
<1>6. \A q \in Pids : \/ lock'[q] = lock[q]
                      \/ /\ lock'[q].writer # Nobody => \A a \in Actors : lock'[q].readers[a] = 0
                         /\ lock[q].writer \in {Nobody, t} \/ lock'[q].writer = lock[q].writer
                         /\ \A a \in Actors \ {t} : lock'[q].readers[a] = lock[q].readers[a]
  BY <1>2, <1>4
<1>7. Writing(t) /\ ~Reading(t)'
  BY <1>1, <1>5 DEF Writing, Reading, Holding
<1>8. lock'[target'[t]].writer = t
  <2>1. lock[target[t]].writer = t /\ t # Nobody
    BY <1>1, <1>7, ActorAssumption DEF LockInv, WritersHave
  <2>2. target[t] # p
    BY <1>2, <2>1
  <2>3. QED
    BY <1>1, <1>4, <2>1, <2>2
<1>9. lock'[Process[t]].readers[t] >= 1
  <2>1. lock[p].readers[t] \in Nat
    BY <1>1 DEF Locks
  <2>2. QED
    BY <1>2, <1>4, <2>1 DEF p
<1>10. QED
  BY <1>1, <1>4, <1>5, <1>6, <1>7, <1>8, <1>9, LockChanges

\* Two locks at once: the child's, written, and the parent's, read.
LEMMA CloneLocks ==
  ASSUME RoleInv, Born, LockInv, NEW t \in Threads, Clone(t)
  PROVE  LockInv'
<1> DEFINE p == target[t]
           q == Process[t]
           l == Release(lock[p], t)
           m == Release(lock[q], t)
<1>1. /\ p \in Pids /\ q \in Pids /\ lock[p] \in Locks /\ lock[q] \in Locks
      /\ t \in Actors /\ t # Nobody /\ pc[t] = "clone" /\ lock \in [Pids -> Locks]
      /\ call' = call /\ target' = target /\ DOMAIN pc = Actors
      /\ call[t] = "exec"
  BY ProcessAssumption, ActorAssumption DEF LockInv, Actors, Clone, At, RoleInv, Typed, OwnTarget
<1>2. p # q
  BY <1>1 DEF Born
<1>3. lock[p].writer = t /\ lock[q].readers[t] >= 1
  BY <1>1 DEF LockInv, WritersHave, ReadersHave, Writing, Holding
<1>4. lock[q].writer = Nobody
  <2>1. lock[q].readers[t] # 0
    BY <1>3
  <2>2. QED
    BY <1>1, <2>1 DEF LockInv, Excluded
<1>5. /\ l \in Locks /\ l.writer = Nobody
      /\ \A a \in Actors \ {t} : l.readers[a] = lock[p].readers[a]
  BY <1>1, <1>3, WriterFacts
<1>6. /\ m \in Locks /\ m.writer = Nobody
      /\ \A a \in Actors \ {t} : m.readers[a] = lock[q].readers[a]
  BY <1>1, <1>3, <1>4, ReleaseFacts
<1>7. lock' = [lock EXCEPT ![p] = l, ![q] = m]
  BY <1>1, <1>2 DEF Clone
<1>8. new_thread(t, p)
  BY DEF Clone
<1> HIDE DEF l, m, p, q
<1>9. /\ lock' \in [Pids -> Locks] /\ lock'[p] = l /\ lock'[q] = m
      /\ \A r \in Pids \ {p, q} : lock'[r] = lock[r]
  BY <1>1, <1>2, <1>5, <1>6, <1>7
<1>10. pc'[t] = "leave" /\ \A a \in Actors \ {t} : pc'[a] = pc[a] \/ pc'[a] = "new"
  <2>1. pc[t] \notin Gone
    BY <1>1 DEF Gone
  <2>2. QED
    BY <1>1, <1>8, <2>1, NewThreadPlaces
<1>11. ~Writing(t)' /\ ~Reading(t)' /\ pc'[t] # "clone" /\ "new" \notin Holding
  BY <1>10 DEF Writing, Reading, Holding
<1>12. \A r \in Pids : \/ lock'[r] = lock[r]
                       \/ /\ lock'[r].writer # Nobody => \A a \in Actors : lock'[r].readers[a] = 0
                          /\ lock[r].writer \in {Nobody, t} \/ lock'[r].writer = lock[r].writer
                          /\ \A a \in Actors \ {t} : lock'[r].readers[a] = lock[r].readers[a]
  BY <1>3, <1>4, <1>5, <1>6, <1>9
<1>13. QED
  BY <1>1, <1>9, <1>10, <1>11, <1>12, LockChanges

\* delete_process: the lock is gone with the process, and nobody had it but the collector.
LEMMA RemoveLocks ==
  ASSUME RoleInv, LockInv, NEW c \in Cpus, Remove(c)
  PROVE  LockInv'
<1> DEFINE p == target[c]
<1>1. /\ lock[p] \in Locks /\ p \in Pids /\ c \in Actors /\ c # Nobody /\ pc[c] = "remove" /\ lock \in [Pids -> Locks]
      /\ call' = call /\ target' = target /\ DOMAIN pc = Actors
  BY HoldersTargets, ActorAssumption DEF LockInv, Actors, Remove, At, RoleInv, Typed
<1>2. lock[p].writer = c
  BY <1>1 DEF LockInv, WritersHave, Writing
<1>3. \A a \in Actors : lock[p].readers[a] = 0
  BY <1>1, <1>2 DEF LockInv, Excluded
<1>4. NewLock \in Locks /\ NewLock.writer = Nobody /\ \A a \in Actors : NewLock.readers[a] = 0
  BY DEF NewLock, Locks
<1>5. lock' = [lock EXCEPT ![p] = NewLock]
  BY DEF Remove
<1> HIDE DEF p
<1>6. lock' \in [Pids -> Locks] /\ lock'[p] = NewLock /\ \A q \in Pids \ {p} : lock'[q] = lock[q]
  BY <1>1, <1>4, <1>5
<1>7. pc'[c] = "none" /\ \A a \in Actors \ {c} : pc'[a] = pc[a]
  BY <1>1 DEF Remove, gc_next, Goto
<1>8. ~Writing(c)' /\ ~Reading(c)' /\ pc'[c] # "clone"
  BY <1>7 DEF Writing, Reading, Holding
<1>9. \A q \in Pids : \/ lock'[q] = lock[q]
                      \/ /\ lock'[q].writer # Nobody => \A a \in Actors : lock'[q].readers[a] = 0
                         /\ lock[q].writer \in {Nobody, c} \/ lock'[q].writer = lock[q].writer
                         /\ \A a \in Actors \ {c} : lock'[q].readers[a] = lock[q].readers[a]
  BY <1>2, <1>3, <1>4, <1>6
<1>10. QED
  BY <1>1, <1>6, <1>7, <1>8, <1>9, LockChanges

\* Every step keeps the locks.
LEMMA LockInvStep ==
  ASSUME RoleInv, Born, LockInv, [Next]_vars
  PROVE  LockInv'
<1> USE DEF processes, locks, Goto
<1>0. /\ DOMAIN pc = Actors /\ DOMAIN call = Actors /\ DOMAIN target = Actors /\ Threads \cap Cpus = {}
      /\ Threads \subseteq Actors /\ Cpus \subseteq Actors
      /\ {"new", "none", "find", "lock", "leave", "next", "user", "entry", "stuck", "asleep", "dozing",
          "finished", "insert", "list", "deleted", "awake", "sleep", "doze", "exiting"} \cap Holding = {}
  BY ActorAssumption DEF RoleInv, Typed, Actors, Holding
<1>1. CASE UNCHANGED vars \/ Halt
  BY <1>1, LocksIdle DEF vars, Halt
<1>2. ASSUME NEW x \in Actors, NEW place, place \notin Holding, pc' = [pc EXCEPT ![x] = place],
             lock' = lock, \A a \in Actors \ {x} : call'[a] = call[a] /\ target'[a] = target[a]
      PROVE  LockInv'
  BY <1>0, <1>2, LocksIdle
<1>3. ASSUME NEW t \in Threads, ~Halt, Enter(t) \/ Stop(t) \/ Expire(t) \/ Awake(t) \/ ListCall(t) \/ Insert(t)
      PROVE  LockInv'
  <2>1. call' = call /\ target' = target /\ lock' = lock
    BY <1>3 DEF Enter, Stop, Expire, Awake, ListCall, Insert
  <2>2. \E place \in {"stuck", "entry", "asleep", "dozing", "finished", "leave", "find"} : pc' = [pc EXCEPT ![t] = place]
    BY <1>3 DEF Enter, Stop, Expire, Awake, ListCall, Insert
  <2>3. QED
    BY <1>0, <1>2, <2>1, <2>2
<1>4. ASSUME NEW t \in Threads, Leave(t) \/ \E name \in Calls[t], p \in Pids : syscall(t, name, p)
      PROVE  LockInv'
  <2>1. lock' = lock /\ \A a \in Actors \ {t} : call'[a] = call[a] /\ target'[a] = target[a]
    BY <1>0, <1>4 DEF Leave, Done, syscall
  <2>2. \E place \in {"user", "insert", "list", "find"} : pc' = [pc EXCEPT ![t] = place]
    BY <1>4 DEF Leave, Done, syscall
  <2>3. QED
    BY <1>0, <1>2, <2>1, <2>2
<1>5. ASSUME NEW t \in Threads, ~Halt, FindParent(t) PROVE LockInv'
  <2>1. /\ call' = call /\ target' = target /\ lock' = lock /\ pc[t] = "work" /\ call[t] = "exec"
        /\ pc' = [pc EXCEPT ![t] = "lock_parent"]
    BY <1>5 DEF FindParent, Working, At
  <2>2. Writing(t) /\ Writing(t)' /\ pc'[t] \notin {"work", "clone"}
    BY <1>0, <2>1 DEF Writing, Holding
  <2>3. QED
    BY <1>0, <2>1, <2>2, LocksIdle
<1>6. ASSUME NEW t \in Threads, ~Halt,
             \/ ReadCall(t) \/ SendCall(t) \/ StartCall(t) \/ SpawnCall(t) \/ ResumeCall(t)
             \/ SleepCall(t) \/ ExitThread(t) \/ ExitProcess(t)
      PROVE  LockInv'
  <2>1. /\ pc[t] = "work" /\ call' = call /\ target' = target /\ target[t] \in Pids
        /\ ExitThread(t) \/ ExitProcess(t) => target[t] = Process[t]
    BY <1>6 DEF ReadCall, SendCall, StartCall, SpawnCall, ResumeCall, SleepCall, ExitThread, ExitProcess,
                Working, At, RoleInv, OwnTarget, Typed
  <2>2. commit_process(t, target[t])
    BY <1>6, <2>1 DEF ReadCall, SendCall, StartCall, SpawnCall, ResumeCall, SleepCall, ExitThread, ExitProcess
  <2>3. pc'[t] \notin Holding /\ \A a \in Actors \ {t} : pc'[a] \notin Holding \/ pc'[a] = pc[a]
    <3>1. CASE ReadCall(t) \/ SleepCall(t) \/ ExitThread(t) \/ ExitProcess(t)
      <4>1. \E place \in {"leave", "sleep", "doze", "exiting"} : pc' = [pc EXCEPT ![t] = place]
        BY <3>1 DEF ReadCall, SleepCall, ExitThread, ExitProcess
      <4>2. QED
        BY <1>0, <4>1
    <3>2. CASE SendCall(t) \/ ResumeCall(t) \/ StartCall(t)
      <4>1. \/ pc' = [pc EXCEPT ![t] = "leave"]
            \/ \E S : pc' = [WakeUp(pc, S) EXCEPT ![t] = "leave"]
        BY <1>6, <3>2 DEF SendCall, ResumeCall, StartCall
      <4>2. ASSUME NEW S, pc' = [WakeUp(pc, S) EXCEPT ![t] = "leave"]
            PROVE  pc'[t] = "leave" /\ \A a \in Actors \ {t} : pc'[a] \in {pc[a], "awake", "leave", "user"}
        BY <1>0, <4>2 DEF WakeUp
      <4>3. QED
        BY <1>0, <4>1, <4>2
    <3>3. CASE SpawnCall(t)
      <4>1. new_thread(t, target[t]) /\ pc[t] \notin Gone
        BY <2>1, <3>3 DEF SpawnCall, Gone
      <4>2. QED
        BY <1>0, <2>1, <4>1, NewThreadPlaces
    <3>4. QED
      BY <1>6, <3>1, <3>2, <3>3
  <2>4. QED
    BY <1>0, <2>1, <2>2, <2>3, CommitLocks
<1>7. ASSUME NEW c \in Cpus, CollectorStep(c), ~Halt PROVE LockInv'
  <2>0. call[c] # "read"
    BY DEF RoleInv, Typed
  <2>1. CASE Peek(c) \/ Skip(c)
    <3>1. lock' = lock /\ \A a \in Actors \ {c} : call'[a] = call[a] /\ target'[a] = target[a]
      BY <1>0, <2>1 DEF Peek, Skip
    <3>2. \E place \in {"find", "none"} : pc' = [pc EXCEPT ![c] = place]
      BY <2>1 DEF Peek, Skip, gc_next
    <3>3. QED
      BY <1>0, <1>2, <3>1, <3>2
  <2>2. CASE gc_do_thread(c) /\ Victim(c) \notin members[target[c]]
    <3>1. lock' = lock /\ call' = call /\ target' = target /\ pc' = [pc EXCEPT ![c] = "none"]
      BY <2>2 DEF gc_do_thread, gc_next
    <3>2. QED
      BY <1>0, <1>2, <3>1
  <2>3. CASE gc_do_thread(c) /\ Victim(c) \in members[target[c]]
    <3>1. /\ pc[c] = "work" /\ commit_process(c, target[c]) /\ call' = call /\ target' = target
          /\ pc' = [pc EXCEPT ![Victim(c)] = "deleted", ![c] = "none"]
      BY <1>7, <2>3 DEF gc_do_thread, At
    <3>2. pc'[c] \notin Holding /\ \A a \in Actors \ {c} : pc'[a] \notin Holding \/ pc'[a] = pc[a]
      BY <1>0, <3>1
    <3>3. QED
      BY <1>0, <3>1, <3>2, CommitLocks
  <2>4. CASE gc_do_process(c) /\ kernel_threads[target[c]] # 0
    <3>1. /\ pc[c] = "work" /\ commit_process(c, target[c]) /\ call' = call /\ target' = target
          /\ \E S : pc' = [WakeUp(pc, S) EXCEPT ![c] = "find"]
      BY <1>7, <2>4 DEF gc_do_process, At
    <3>2. pc'[c] = "find" /\ \A a \in Actors \ {c} : pc'[a] \in {pc[a], "awake", "leave", "user"}
      BY <1>0, <3>1 DEF WakeUp
    <3>3. pc'[c] \notin Holding /\ \A a \in Actors \ {c} : pc'[a] \notin Holding \/ pc'[a] = pc[a]
      BY <1>0, <3>2
    <3>4. QED
      BY <1>0, <3>1, <3>3, CommitLocks
  <2>5. CASE (gc_do_process(c) /\ kernel_threads[target[c]] = 0) \/ ReleaseTable(c)
    <3>1. /\ lock' = lock /\ call' = call /\ target' = target /\ pc[c] \in {"work", "kill"}
          /\ \E place \in {"kill", "remove"} : pc' = [pc EXCEPT ![c] = place]
      BY <1>7, <2>5 DEF gc_do_process, ReleaseTable, At
    <3>2. Writing(c) /\ Writing(c)' /\ pc'[c] \notin {"work", "clone"} /\ \A a \in Actors \ {c} : pc'[a] = pc[a]
      BY <1>0, <2>0, <3>1 DEF Writing, Holding
    <3>3. QED
      BY <1>0, <3>1, <3>2, LocksIdle
  <2>6. CASE Kill(c)
    <3>1. PICK t : pc' = [pc EXCEPT ![t] = "deleted"] /\ lock' = lock /\ call' = call /\ target' = target
      BY <1>7, <2>6 DEF Kill
    <3>2. \A a \in Actors : pc'[a] \notin Holding \/ pc'[a] = pc[a]
      BY <1>0, <3>1
    <3>3. QED
      BY <3>1, <3>2, LocksIdle
  <2>7. CASE Remove(c)
    BY <2>7, RemoveLocks
  <2>8. QED
    BY <1>7, <2>1, <2>2, <2>3, <2>4, <2>5, <2>6, <2>7 DEF CollectorStep
<1>8. ASSUME NEW a \in Actors, LockStep(a), ~Halt PROVE LockInv'
  <2>1. CASE Find(a)
    <3>1. lock' = lock /\ call' = call /\ target' = target
      BY <1>8, <2>1 DEF Find
    <3>2. Missing(a) \in {"next", "leave"} /\ \E place \in {"lock", Missing(a)} : pc' = [pc EXCEPT ![a] = place]
      BY <1>8, <2>1 DEF Find, Missing
    <3>3. QED
      BY <1>0, <1>2, <3>1, <3>2
  <2>2. CASE LockProcess(a)
    BY <2>2, LockProcessLocks
  <2>3. CASE AskForTable(a)
    BY <2>3, LocksIdle DEF AskForTable
  <2>4. QED
    BY <1>8, <2>1, <2>2, <2>3 DEF LockStep
<1>9. QED
  BY <1>1, <1>3, <1>4, <1>5, <1>6, <1>7, <1>8, LockParentLocks, CloneLocks DEF Next, ThreadStep, CallStep

\* No two actors write the same process.
LEMMA OneWriter ==
  ASSUME LockInv, NEW a \in Actors, NEW b \in Actors, Writing(a), Writing(b), target[a] = target[b]
  PROVE  a = b
BY DEF LockInv, WritersHave

-----------------------------------------------------------------------------
(* Steps seen from one thread, one collector, one process. *)

\* Threads are added to a process only by somebody who has checked it out.
LEMMA MembersGrow ==
  ASSUME RoleInv, [Next]_vars, NEW p \in Pids, NEW u \in members'[p], u \notin members[p]
  PROVE  \E t \in Threads : /\ (pc[t] = "work" /\ call[t] = "spawn") \/ pc[t] = "clone"
                            /\ target[t] = p /\ UNCHANGED <<table, pstate>>
<1> USE DEF processes
<1>1. CASE UNCHANGED vars \/ Halt
  BY <1>1 DEF vars, Halt
<1>2. ASSUME NEW t \in Threads, ~Halt,
             \/ Enter(t) \/ Leave(t) \/ Stop(t) \/ Expire(t) \/ Awake(t) \/ ReadCall(t) \/ SendCall(t)
             \/ StartCall(t) \/ ResumeCall(t) \/ SleepCall(t) \/ ExitThread(t) \/ ExitProcess(t)
             \/ ListCall(t) \/ Insert(t) \/ FindParent(t) \/ LockParent(t)
             \/ \E name \in Calls[t], q \in Pids : syscall(t, name, q)
      PROVE  members' = members
  BY <1>2 DEF Enter, Leave, Stop, Expire, Awake, ReadCall, SendCall, StartCall, ResumeCall, SleepCall,
              ExitThread, ExitProcess, ListCall, Insert, FindParent, LockParent, syscall
<1>3. ASSUME NEW t \in Threads, SpawnCall(t) \/ Clone(t), members' # members
      PROVE  /\ (pc[t] = "work" /\ call[t] = "spawn") \/ pc[t] = "clone"
             /\ target[t] = p /\ UNCHANGED <<table, pstate>>
  <2>1. /\ (pc[t] = "work" /\ call[t] = "spawn") \/ pc[t] = "clone"
        /\ UNCHANGED <<table, pstate>> /\ new_thread(t, target[t])
    BY <1>3 DEF SpawnCall, Clone, Working, At
  <2>2. \E v : members' = [members EXCEPT ![target[t]] = @ \cup {v}]
    BY <1>3, <2>1 DEF new_thread
  <2>3. QED
    BY <2>1, <2>2 DEF RoleInv, Typed
<1>4. ASSUME NEW c \in Cpus, CollectorStep(c), ~Halt
      PROVE  members'[p] \subseteq members[p]
  <2>1. members' = members \/ \E v : members' = [members EXCEPT ![target[c]] = @ \ {v}]
    BY <1>4 DEF CollectorStep, Peek, Skip, gc_do_thread, gc_do_process, Kill, ReleaseTable, Remove
  <2>2. QED
    BY <2>1 DEF RoleInv, Typed
<1>5. ASSUME NEW a \in Actors, LockStep(a), ~Halt
      PROVE  members' = members
  BY <1>5 DEF LockStep, Find, LockProcess, AskForTable
<1>6. QED
  BY <1>1, <1>2, <1>3, <1>4, <1>5 DEF Next, ThreadStep, CallStep

\* The steps that change the table.
LEMMA TableMoves ==
  ASSUME RoleInv, [Next]_vars
  PROVE  \/ table' = table
         \/ \E t \in Threads : Insert(t) /\ ~Halt /\ pc[t] = "insert" /\ pc'[t] = "find"
                                 /\ table' = table \cup {target[t]} /\ UNCHANGED <<pstate, members, ring, target>>
         \/ \E c \in Cpus : Remove(c) /\ pc[c] = "remove" /\ table' = table \ {target[c]}
                                 /\ target[c] \in Pids /\ pstate' = [pstate EXCEPT ![target[c]] = "deleted"]
<1> USE DEF processes
<1>1. CASE UNCHANGED vars \/ Halt
  BY <1>1 DEF vars, Halt
<1>2. ASSUME NEW t \in Threads, ~Halt,
             \/ Enter(t) \/ Leave(t) \/ Stop(t) \/ Expire(t) \/ Awake(t) \/ ReadCall(t) \/ SendCall(t)
             \/ StartCall(t) \/ ResumeCall(t) \/ SleepCall(t) \/ ExitThread(t) \/ ExitProcess(t) \/ SpawnCall(t)
             \/ ListCall(t) \/ Clone(t) \/ FindParent(t) \/ LockParent(t)
             \/ \E name \in Calls[t], q \in Pids : syscall(t, name, q)
      PROVE  table' = table
  BY <1>2 DEF Enter, Leave, Stop, Expire, Awake, ReadCall, SendCall, StartCall, ResumeCall, SleepCall,
              ExitThread, ExitProcess, SpawnCall, ListCall, Clone, FindParent, LockParent, syscall
<1>3. ASSUME NEW t \in Threads, Insert(t), ~Halt
      PROVE  /\ pc[t] = "insert" /\ table' = table \cup {target[t]} /\ UNCHANGED <<pstate, members, ring, target>>
             /\ pc'[t] = "find"
  <2>1. /\ pc[t] = "insert" /\ table' = table \cup {target[t]} /\ UNCHANGED <<pstate, members, ring, target>>
        /\ Goto(t, "find")
    BY <1>3 DEF Insert, At
  <2>2. QED
    BY <2>1 DEF Goto, RoleInv, Typed, Actors
<1>4. ASSUME NEW c \in Cpus, CollectorStep(c), ~Halt
      PROVE  \/ table' = table
             \/ Remove(c) /\ pc[c] = "remove" /\ table' = table \ {target[c]}
                  /\ pstate' = [pstate EXCEPT ![target[c]] = "deleted"]
  <2>1. CASE Remove(c)
    BY <2>1 DEF Remove, At
  <2>2. CASE ~Remove(c)
    BY <1>4, <2>2 DEF CollectorStep, Peek, Skip, gc_do_thread, gc_do_process, Kill, ReleaseTable
  <2>3. QED
    BY <2>1, <2>2
<1>5. ASSUME NEW a \in Actors, LockStep(a), ~Halt
      PROVE  table' = table
  BY <1>5 DEF LockStep, Find, LockProcess, AskForTable
<1>6. \A c \in Cpus : pc[c] = "remove" => target[c] \in Pids
  BY CollectorObject
<1>7. QED
  BY <1>1, <1>2, <1>3, <1>4, <1>5, <1>6 DEF Next, ThreadStep, CallStep

\* A thread does not move a collector.
LEMMA ThreadsApart ==
  ASSUME RoleInv, NEW t \in Threads, ThreadStep(t), NEW c \in Cpus
  PROVE  pc'[c] = pc[c] /\ target'[c] = target[c]
<1> USE DEF Goto
<1>0. /\ c \in Actors /\ c # t /\ DOMAIN pc = Actors /\ DOMAIN target = Actors /\ t \in Actors
      /\ c \notin Threads
  BY ActorAssumption DEF Actors, RoleInv, Typed
<1>1. CASE Halt
  BY <1>1 DEF Halt
<1>2. CASE ~Halt /\ (\/ Enter(t) \/ Leave(t) \/ Stop(t) \/ Expire(t) \/ Awake(t)
             \/ ReadCall(t) \/ SleepCall(t) \/ ExitThread(t) \/ ExitProcess(t) \/ ListCall(t)
             \/ Insert(t) \/ FindParent(t) \/ LockParent(t)
             \/ \E name \in Calls[t], p \in Pids : syscall(t, name, p))
  <2>1. \E place : pc' = [pc EXCEPT ![t] = place]
    BY <1>2 DEF Enter, Leave, Done, Stop, Expire, Awake, ReadCall, SleepCall, ExitThread, ExitProcess, ListCall,
                Insert, FindParent, LockParent, syscall
  <2>2. target' = target \/ \E p : target' = [target EXCEPT ![t] = p]
    BY <1>2 DEF Enter, Leave, Done, Stop, Expire, Awake, ReadCall, SleepCall, ExitThread, ExitProcess, ListCall,
                Insert, FindParent, LockParent, syscall
  <2>3. QED
    BY <1>0, <2>1, <2>2
<1>3. CASE ~Halt /\ (SendCall(t) \/ StartCall(t) \/ ResumeCall(t))
  <2>1. /\ target' = target
        /\ \/ pc' = [pc EXCEPT ![t] = "leave"]
           \/ \E S \in SUBSET members[target[t]] : pc' = [WakeUp(pc, S) EXCEPT ![t] = "leave"]
    BY <1>3 DEF SendCall, StartCall, ResumeCall
  <2>2. target[t] \in Pids /\ members[target[t]] \subseteq Threads
    BY DEF RoleInv, Typed
  <2>3. ASSUME NEW S \in SUBSET members[target[t]], pc' = [WakeUp(pc, S) EXCEPT ![t] = "leave"]
        PROVE  pc'[c] = pc[c]
    <3>1. c \notin S
      BY <1>0, <2>2
    <3>2. QED
      BY <1>0, <2>3, <3>1 DEF WakeUp
  <2>4. QED
    BY <1>0, <2>1, <2>3
<1>4. CASE SpawnCall(t) \/ Clone(t)
  <2>1. target' = target /\ new_thread(t, target[t]) /\ target[t] \in Pids /\ pc[t] \notin Gone
    BY <1>4 DEF SpawnCall, Clone, Working, At, RoleInv, Typed, Gone
  <2>2. QED
    BY <1>0, <2>1, NewThreadPlaces
<1>5. QED
  BY <1>1, <1>2, <1>3, <1>4 DEF ThreadStep, CallStep

\* What a step may do with collector c.
LEMMA CollectorChanges ==
  ASSUME RoleInv, [Next]_vars, NEW c \in Cpus
  PROVE  /\ pc[c] # "none" => target'[c] = target[c]
         /\ pc[c] = "none" => pc'[c] = "none" \/ (Peek(c) /\ pc'[c] = "find")
         /\ pc'[c] = "kill" =>
               \/ pc[c] = "kill"
               \/ /\ pc[c] = "work" /\ Victim(c) = Nobody
                  /\ kernel_threads[target[c]] = 0 /\ pstate[target[c]] = "FINISHING"
                  /\ UNCHANGED <<table, pstate, members>> /\ \A t \in Threads : pc'[t] = pc[t]
         /\ pc'[c] = "remove" =>
               \/ pc[c] = "remove"
               \/ pc[c] = "kill" /\ members[target[c]] = {} /\ UNCHANGED <<table, pstate, members>>
         /\ pc'[c] = "next" =>
               \/ pc[c] = "next"
               \/ pc[c] = "find" /\ target[c] \notin table /\ UNCHANGED <<table, pstate, members>>
         /\ pc[c] = "kill" => pc'[c] \in {"kill", "remove"}
         /\ pc[c] = "remove" => pc'[c] = "remove" \/ Remove(c)
         /\ pc[c] = "next" => pc'[c] = "next" \/ Skip(c)
<1> USE DEF processes, locks, Goto
<1>0. c \in Actors /\ DOMAIN pc = Actors /\ DOMAIN target = Actors /\ c \notin Threads /\ Threads \subseteq Actors
  BY ActorAssumption DEF Actors, RoleInv, Typed
<1>1. CASE pc'[c] = pc[c] /\ target'[c] = target[c]
  BY <1>1
<1>2. CASE UNCHANGED vars \/ Halt
  BY <1>1, <1>2 DEF vars, Halt
<1>3. ASSUME NEW t \in Threads, ThreadStep(t) PROVE pc'[c] = pc[c] /\ target'[c] = target[c]
  BY <1>3, ThreadsApart
<1>4. ASSUME NEW a \in Actors \ {c}, LockStep(a), ~Halt PROVE pc'[c] = pc[c] /\ target'[c] = target[c]
  <2>1. target' = target /\ (pc' = pc \/ \E place : pc' = [pc EXCEPT ![a] = place])
    BY <1>4 DEF LockStep, Find, LockProcess, AskForTable
  <2>2. QED
    BY <1>0, <2>1
<1>5. ASSUME NEW d \in Cpus \ {c}, CollectorStep(d), ~Halt PROVE pc'[c] = pc[c] /\ target'[c] = target[c]
  <2>0. d \in Actors
    BY DEF Actors
  <2>1. CASE Peek(d) \/ Skip(d) \/ ReleaseTable(d) \/ Remove(d)
    BY <1>0, <2>0, <2>1 DEF Peek, Skip, ReleaseTable, Remove, gc_next
  <2>2. CASE gc_do_thread(d)
    <3>1. pc[d] = "work" /\ target' = target
      BY <1>5, <2>2 DEF gc_do_thread, At
    <3>2. target[d] \in Pids /\ members[target[d]] \subseteq Threads
      BY <3>1, CollectorObject DEF RoleInv, Typed
    <3>3. \/ pc' = [pc EXCEPT ![d] = "none"]
          \/ pc' = [pc EXCEPT ![Victim(d)] = "deleted", ![d] = "none"] /\ Victim(d) \in members[target[d]]
      BY <1>5, <2>2 DEF gc_do_thread, gc_next
    <3>4. QED
      BY <1>0, <2>0, <3>1, <3>2, <3>3
  <2>3. CASE gc_do_process(d)
    <3>1. pc[d] = "work" /\ target' = target
      BY <1>5, <2>3 DEF gc_do_process, At
    <3>2. target[d] \in Pids /\ members[target[d]] \subseteq Threads
      BY <3>1, CollectorObject DEF RoleInv, Typed
    <3>3. \/ pc' = [pc EXCEPT ![d] = "kill"]
          \/ \E S \in SUBSET members[target[d]] : pc' = [WakeUp(pc, S) EXCEPT ![d] = "find"]
      BY <1>5, <2>3 DEF gc_do_process
    <3>4. ASSUME NEW S \in SUBSET members[target[d]], pc' = [WakeUp(pc, S) EXCEPT ![d] = "find"]
          PROVE  pc'[c] = pc[c]
      <4>1. c \notin S
        BY <1>0, <3>2
      <4>2. QED
        BY <1>0, <3>4, <4>1 DEF WakeUp
    <3>5. QED
      BY <1>0, <2>0, <3>1, <3>3, <3>4
  <2>4. CASE Kill(d)
    <3>1. pc[d] = "kill" /\ target' = target
      BY <1>5, <2>4 DEF Kill, At
    <3>2. target[d] \in Pids /\ members[target[d]] \subseteq Threads
      BY <3>1, CollectorObject DEF RoleInv, Typed
    <3>3. \E t \in members[target[d]] : pc' = [pc EXCEPT ![t] = "deleted"]
      BY <1>5, <2>4 DEF Kill
    <3>4. QED
      BY <1>0, <3>1, <3>2, <3>3
  <2>5. QED
    BY <1>5, <2>1, <2>2, <2>3, <2>4 DEF CollectorStep
<1>6. CASE ~Halt /\ Find(c)
  <2>1. /\ pc[c] = "find" /\ target' = target /\ UNCHANGED <<table, pstate, members>>
        /\ \/ pc' = [pc EXCEPT ![c] = "lock"]
           \/ target[c] \notin table /\ pc' = [pc EXCEPT ![c] = "next"]
    BY <1>6 DEF Find, At, Missing
  <2>2. QED
    BY <1>0, <2>1
<1>7. CASE LockProcess(c) \/ AskForTable(c)
  <2>1. target' = target /\ (pc' = pc \/ (pc[c] = "lock" /\ pc' = [pc EXCEPT ![c] = "work"]))
    BY <1>7 DEF LockProcess, AskForTable, At
  <2>2. QED
    BY <1>0, <2>1
<1>8. CASE ~Halt /\ CollectorStep(c)
  <2>1. CASE Peek(c) \/ Skip(c) \/ Remove(c)
    <3>1. \/ Peek(c) /\ pc[c] = "none" /\ pc' = [pc EXCEPT ![c] = "find"]
          \/ /\ (Skip(c) /\ pc[c] = "next") \/ (Remove(c) /\ pc[c] = "remove")
             /\ pc' = [pc EXCEPT ![c] = "none"] /\ target' = target
      BY <2>1 DEF Peek, Skip, Remove, gc_next, At
    <3>2. QED
      BY <1>0, <3>1
  <2>2. CASE ReleaseTable(c)
    <3>1. /\ pc[c] = "kill" /\ members[target[c]] = {} /\ UNCHANGED <<table, pstate, members>>
          /\ pc' = [pc EXCEPT ![c] = "remove"] /\ target' = target
      BY <2>2 DEF ReleaseTable, At
    <3>2. QED
      BY <1>0, <3>1
  <2>3. CASE gc_do_thread(c)
    <3>1. pc[c] = "work" /\ pc'[c] = "none" /\ target' = target
      BY <1>0, <1>8, <2>3 DEF gc_do_thread, At, gc_next
    <3>2. QED
      BY <3>1
  <2>4. CASE gc_do_process(c) /\ kernel_threads[target[c]] # 0
    <3>1. pc[c] = "work" /\ pc'[c] = "find" /\ target' = target
      BY <1>0, <1>8, <2>4 DEF gc_do_process, At, WakeUp
    <3>2. QED
      BY <3>1
  <2>5. CASE gc_do_process(c) /\ kernel_threads[target[c]] = 0
    <3>1. /\ pc[c] = "work" /\ Victim(c) = Nobody /\ kernel_threads[target[c]] = 0
          /\ pstate[target[c]] = "FINISHING" /\ target' = target
          /\ UNCHANGED <<table, pstate, members>> /\ pc' = [pc EXCEPT ![c] = "kill"]
      BY <1>8, <2>5 DEF gc_do_process, At
    <3>2. pc'[c] = "kill" /\ \A t \in Threads : pc'[t] = pc[t]
      BY <1>0, <3>1
    <3>3. QED
      BY <3>1, <3>2
  <2>6. CASE Kill(c)
    <3>1. pc[c] = "kill" /\ target' = target
      BY <1>8, <2>6 DEF Kill, At
    <3>2. target[c] \in Pids /\ members[target[c]] \subseteq Threads
      BY <3>1, CollectorObject DEF RoleInv, Typed
    <3>3. \E t \in members[target[c]] : pc' = [pc EXCEPT ![t] = "deleted"]
      BY <1>8, <2>6 DEF Kill
    <3>4. pc'[c] = pc[c]
      BY <1>0, <3>2, <3>3
    <3>5. QED
      BY <1>1, <3>1, <3>4
  <2>7. QED
    BY <1>8, <2>1, <2>2, <2>3, <2>4, <2>5, <2>6 DEF CollectorStep
<1>9. QED
  <2>1. ASSUME NEW d \in Cpus, CollectorStep(d)
        PROVE  Halt \/ (pc'[c] = pc[c] /\ target'[c] = target[c]) \/ (~Halt /\ CollectorStep(c))
    BY <1>5, <2>1
  <2>2. ASSUME NEW a \in Actors, LockStep(a)
        PROVE  Halt \/ (pc'[c] = pc[c] /\ target'[c] = target[c]) \/ (~Halt /\ LockStep(c))
    BY <1>4, <2>2
  <2>3. \/ UNCHANGED vars \/ Halt \/ (pc'[c] = pc[c] /\ target'[c] = target[c])
        \/ (~Halt /\ CollectorStep(c)) \/ (~Halt /\ LockStep(c))
    BY <1>3, <2>1, <2>2 DEF Next
  <2>4. CASE ~Halt /\ LockStep(c)
    BY <1>6, <1>7, <2>4 DEF LockStep
  <2>5. QED
    BY <1>1, <1>2, <1>8, <2>3, <2>4

\* What a step may do with thread t: it goes on by itself, is woken, made or deleted.
LEMMA ThreadChanges ==
  ASSUME RoleInv, Born, [Next]_vars, NEW t \in Threads
  PROVE  \/ pc'[t] = pc[t]
         \/ /\ pc[t] \in {"user", "find", "lock", "list", "insert", "lock_parent", "clone", "awake", "dozing", "leave"}
            /\ pc'[t] \in {"entry", "stuck", "leave", "lock", "work", "find", "clone", "user"}
         \/ /\ pc[t] = "entry" /\ \E name : \E p \in Pids : syscall(t, name, p)
            /\ pc'[t] \in {"insert", "list", "find"}
         \/ pc[t] = "work" /\ pc'[t] \in {"leave", "lock_parent"}
         \/ pc[t] = "work" /\ pc'[t] \in {"sleep", "doze"} /\ call[t] = "sleep"
         \/ pc[t] = "work" /\ pc'[t] = "exiting" /\ (ExitThread(t) \/ ExitProcess(t))
         \/ pc[t] = "sleep" /\ pc'[t] = "asleep"
         \/ pc[t] = "doze" /\ pc'[t] = "dozing"
         \/ pc[t] = "exiting" /\ pc'[t] = "finished"
         \/ pc[t] = "asleep" /\ pc'[t] = "awake"
         \/ pc[t] = "new" /\ pc'[t] = "user"
         \/ pc[t] = "none" /\ pc'[t] = "new"
         \/ /\ pc[t] = "finished" /\ pc'[t] = "deleted"
            /\ \E c \in Cpus : gc_do_thread(c) /\ Victim(c) = t /\ pc[c] = "work" /\ ring' = [ring EXCEPT ![c] = Tail(@)]
         \/ /\ pc[t] \notin InterruptsOff \cup {"dozing"} /\ pc'[t] = "deleted"
            /\ \E c \in Cpus : pc[c] = "kill" /\ pc'[c] = "kill" /\ target[c] = Process[t]
            /\ target' = target /\ ring' = ring
<1> USE DEF processes, locks, Goto
<1>0. t \in Actors /\ DOMAIN pc = Actors /\ t \notin Cpus /\ Threads \subseteq Actors /\ Cpus \subseteq Actors
  BY ActorAssumption DEF Actors, RoleInv, Typed
<1>1. CASE UNCHANGED vars \/ Halt
  BY <1>1 DEF vars, Halt
\* Threads that are woken.
<1>2. ASSUME NEW x \in Actors, x # t, NEW S, NEW place, pc' = [WakeUp(pc, S) EXCEPT ![x] = place],
             \A u \in S : pc[u] \in {"asleep", "dozing", "new"}
      PROVE  \/ pc'[t] = pc[t] \/ (pc[t] = "asleep" /\ pc'[t] = "awake")
             \/ (pc[t] = "dozing" /\ pc'[t] = "leave") \/ (pc[t] = "new" /\ pc'[t] = "user")
  BY <1>0, <1>2 DEF WakeUp
\* Steps of another thread.
<1>3. ASSUME NEW u \in Threads \ {t}, ThreadStep(u), ~Halt
      PROVE  \/ pc'[t] = pc[t] \/ (pc[t] = "asleep" /\ pc'[t] = "awake")
             \/ (pc[t] = "dozing" /\ pc'[t] = "leave") \/ (pc[t] = "new" /\ pc'[t] = "user")
             \/ (pc[t] = "none" /\ pc'[t] = "new")
  <2>0. u \in Actors /\ target[u] \in Pids
    BY <1>0 DEF RoleInv, Typed
  <2>1. CASE \/ Enter(u) \/ Leave(u) \/ Stop(u) \/ Expire(u) \/ Awake(u)
             \/ ReadCall(u) \/ SleepCall(u) \/ ExitThread(u) \/ ExitProcess(u) \/ ListCall(u)
             \/ Insert(u) \/ FindParent(u) \/ LockParent(u)
             \/ \E name \in Calls[u], p \in Pids : syscall(u, name, p)
    <3>1. \E place : pc' = [pc EXCEPT ![u] = place]
      BY <1>3, <2>1 DEF Enter, Leave, Done, Stop, Expire, Awake, ReadCall, SleepCall, ExitThread, ExitProcess,
                  ListCall, Insert, FindParent, LockParent, syscall
    <3>2. QED
      BY <1>0, <3>1
  <2>2. CASE SendCall(u) \/ ResumeCall(u)
    <3>1. \E S : /\ pc' = [WakeUp(pc, S) EXCEPT ![u] = "leave"]
                 /\ \A v \in S : pc[v] \in {"asleep", "dozing", "new"}
      BY <2>2 DEF SendCall, ResumeCall, Sleeping
    <3>2. QED
      BY <1>2, <2>0, <3>1
  <2>3. CASE StartCall(u)
    <3>1. \/ pc' = [pc EXCEPT ![u] = "leave"]
          \/ pstate[target[u]] = "INIT" /\ pc' = [WakeUp(pc, members[target[u]]) EXCEPT ![u] = "leave"]
      BY <1>3, <2>3 DEF StartCall
    <3>2. ASSUME pstate[target[u]] = "INIT", NEW v \in members[target[u]]
          PROVE  pc[v] = "new"
      <4>1. v \in Threads /\ Process[v] = target[u] /\ pc[v] \notin Gone
        BY <2>0 DEF RoleInv, Typed, Alive
      <4>2. QED
        BY <3>2, <4>1 DEF Born, Unborn, Gone
    <3>3. QED
      BY <1>0, <1>2, <2>0, <3>1, <3>2
  <2>4. CASE SpawnCall(u) \/ Clone(u)
    <3>1. new_thread(u, target[u]) /\ pc[u] \notin Gone
      BY <2>4 DEF SpawnCall, Clone, Working, At, Gone
    <3>2. QED
      BY <1>0, <2>0, <3>1, NewThreadPlaces
  <2>5. QED
    BY <1>3, <2>1, <2>2, <2>3, <2>4 DEF ThreadStep, CallStep
\* Its own steps.
<1>4. CASE ~Halt /\ (Enter(t) \/ Leave(t) \/ Expire(t) \/ Awake(t) \/ ListCall(t) \/ Insert(t) \/ LockParent(t))
  <2>1. /\ pc[t] \in {"user", "list", "insert", "lock_parent", "awake", "dozing", "leave"}
        /\ \E place \in {"entry", "stuck", "leave", "find", "clone", "user"} : pc' = [pc EXCEPT ![t] = place]
    BY <1>4 DEF Enter, Leave, Done, Expire, Awake, ListCall, Insert, LockParent, At
  <2>2. QED
    BY <1>0, <2>1
<1>5. CASE ~Halt /\ LockStep(t)
  <2>1. \/ pc' = pc
        \/ /\ pc[t] \in {"find", "lock"}
           /\ \E place \in {"lock", "leave", "work"} : pc' = [pc EXCEPT ![t] = place]
    BY <1>0, <1>5 DEF LockStep, Find, LockProcess, AskForTable, At, Missing
  <2>2. QED
    BY <1>0, <2>1
<1>6. CASE \E name \in Calls[t], p \in Pids : syscall(t, name, p)
  <2>1. PICK name \in Calls[t], p \in Pids : syscall(t, name, p)
    BY <1>6
  <2>2. pc[t] = "entry" /\ \E place \in {"insert", "list", "find"} : pc' = [pc EXCEPT ![t] = place]
    BY <2>1 DEF syscall, At
  <2>3. QED
    BY <1>0, <1>6, <2>2
<1>7. CASE ~Halt /\ (ReadCall(t) \/ SendCall(t) \/ StartCall(t) \/ ResumeCall(t) \/ FindParent(t) \/ SpawnCall(t) \/ Clone(t))
  <2>1. pc[t] \in {"work", "clone"}
    BY <1>7 DEF ReadCall, SendCall, StartCall, ResumeCall, FindParent, SpawnCall, Clone, Working, At
  <2>2. /\ pc'[t] \in {"leave", "lock_parent"}
        /\ pc'[t] = "lock_parent" => pc[t] = "work"
    <3>1. CASE ReadCall(t) \/ SendCall(t) \/ StartCall(t) \/ ResumeCall(t) \/ FindParent(t)
      <4>1. pc[t] = "work"
        BY <3>1 DEF ReadCall, SendCall, StartCall, ResumeCall, FindParent, Working, At
      <4>2. \/ \E place \in {"leave", "lock_parent"} : pc' = [pc EXCEPT ![t] = place]
            \/ \E S : pc' = [WakeUp(pc, S) EXCEPT ![t] = "leave"]
        BY <1>7, <3>1 DEF ReadCall, SendCall, StartCall, ResumeCall, FindParent
      <4>3. QED
        BY <1>0, <4>1, <4>2 DEF WakeUp
    <3>2. CASE SpawnCall(t) \/ Clone(t)
      <4>1. new_thread(t, target[t]) /\ pc[t] \notin Gone /\ target[t] \in Pids
        BY <2>1, <3>2 DEF SpawnCall, Clone, Gone, RoleInv, Typed
      <4>2. pc'[t] = "leave"
        BY <4>1, NewThreadPlaces
      <4>3. QED
        BY <4>2
    <3>3. QED
      BY <1>7, <3>1, <3>2
  <2>3. QED
    BY <2>1, <2>2
<1>8. CASE SleepCall(t) \/ Stop(t)
  <2>1. \/ pc[t] = "work" /\ call[t] = "sleep" /\ \E place \in {"leave", "sleep", "doze"} : pc' = [pc EXCEPT ![t] = place]
        \/ pc[t] = "sleep" /\ pc' = [pc EXCEPT ![t] = "asleep"]
        \/ pc[t] = "doze" /\ pc' = [pc EXCEPT ![t] = "dozing"]
        \/ pc[t] = "exiting" /\ pc' = [pc EXCEPT ![t] = "finished"]
    BY <1>8 DEF SleepCall, Stop, Working, At, InterruptsOff
  <2>2. QED
    BY <1>0, <2>1
<1>9. CASE ExitThread(t) \/ ExitProcess(t)
  <2>1. pc[t] = "work" /\ pc' = [pc EXCEPT ![t] = "exiting"]
    BY <1>9 DEF ExitThread, ExitProcess, Working, At
  <2>2. QED
    BY <1>0, <1>9, <2>1
\* Steps of the collectors.
<1>10. ASSUME NEW c \in Cpus, CollectorStep(c), ~Halt
       PROVE  \/ pc'[t] = pc[t] \/ (pc[t] = "asleep" /\ pc'[t] = "awake")
              \/ (pc[t] = "dozing" /\ pc'[t] = "leave") \/ (pc[t] = "new" /\ pc'[t] = "user")
              \/ /\ pc[t] = "finished" /\ pc'[t] = "deleted"
                 /\ gc_do_thread(c) /\ Victim(c) = t /\ pc[c] = "work" /\ ring' = [ring EXCEPT ![c] = Tail(@)]
              \/ /\ pc[t] \notin InterruptsOff \cup {"dozing"} /\ pc'[t] = "deleted"
                 /\ pc[c] = "kill" /\ pc'[c] = "kill" /\ target[c] = Process[t]
                 /\ target' = target /\ ring' = ring
  <2>0. c \in Actors /\ c # t
    BY <1>0
  <2>1. CASE Peek(c) \/ Skip(c) \/ ReleaseTable(c) \/ Remove(c)
    BY <1>0, <2>0, <2>1 DEF Peek, Skip, ReleaseTable, Remove, gc_next
  <2>2. CASE gc_do_thread(c)
    <3>1. /\ pc[c] = "work"
          /\ \/ pc' = [pc EXCEPT ![c] = "none"]
             \/ /\ pc[Victim(c)] = "finished" /\ ring' = [ring EXCEPT ![c] = Tail(@)]
                /\ pc' = [pc EXCEPT ![Victim(c)] = "deleted", ![c] = "none"]
      BY <1>10, <2>2 DEF gc_do_thread, gc_next, At
    <3>2. CASE t = Victim(c)
      BY <1>0, <2>0, <2>2, <3>1, <3>2
    <3>3. CASE t # Victim(c)
      BY <1>0, <2>0, <3>1, <3>3
    <3>4. QED
      BY <3>2, <3>3
  <2>3. CASE gc_do_process(c)
    <3>1. \/ pc' = [pc EXCEPT ![c] = "kill"]
          \/ \E S : /\ pc' = [WakeUp(pc, S) EXCEPT ![c] = "find"]
                    /\ \A v \in S : pc[v] \in {"asleep", "dozing", "new"}
      BY <1>10, <2>3 DEF gc_do_process, Sleeping
    <3>2. QED
      BY <1>0, <1>2, <2>0, <3>1
  <2>4. CASE Kill(c)
    <3>1. /\ pc[c] = "kill" /\ target' = target /\ ring' = ring
          /\ \E u \in members[target[c]] : pc[u] \notin InterruptsOff \cup {"dozing"} /\ pc' = [pc EXCEPT ![u] = "deleted"]
      BY <1>10, <2>4 DEF Kill, At
    <3>2. PICK u \in members[target[c]] : pc[u] \notin InterruptsOff \cup {"dozing"} /\ pc' = [pc EXCEPT ![u] = "deleted"]
      BY <3>1
    <3>3. target[c] \in Pids
      BY <3>1, CollectorObject
    <3>4. u \in Threads /\ Process[u] = target[c] /\ u # c
      BY <3>3, ActorAssumption DEF RoleInv, Typed, Alive
    <3>5. pc'[c] = "kill"
      BY <1>0, <2>0, <3>1, <3>2, <3>4
    <3>6. CASE u = t
      BY <1>0, <3>1, <3>2, <3>4, <3>5, <3>6
    <3>7. CASE u # t
      BY <1>0, <3>2, <3>7
    <3>8. QED
      BY <3>6, <3>7
  <2>5. QED
    BY <1>10, <2>1, <2>2, <2>3, <2>4 DEF CollectorStep
<1>11. ASSUME NEW a \in Actors \ {t}, LockStep(a), ~Halt PROVE pc'[t] = pc[t]
  <2>1. pc' = pc \/ \E place : pc' = [pc EXCEPT ![a] = place]
    BY <1>11 DEF LockStep, Find, LockProcess, AskForTable
  <2>2. QED
    BY <1>0, <2>1
<1>12. QED
  <2>1. CASE ~Halt /\ ThreadStep(t)
    BY <1>4, <1>6, <1>7, <1>8, <1>9, <2>1 DEF ThreadStep, CallStep
  <2>2. CASE ~Halt /\ \E c \in Cpus : CollectorStep(c)
    BY <1>10, <2>2
  <2>3. CASE ~Halt /\ \E a \in Actors : LockStep(a)
    BY <1>5, <1>11, <2>3
  <2>4. CASE ~Halt /\ \E u \in Threads \ {t} : ThreadStep(u)
    BY <1>3, <2>4
  <2>5. QED
    BY <1>1, <2>1, <2>2, <2>3, <2>4 DEF Next

-----------------------------------------------------------------------------
(* The table: whom it lists, and what the collectors find there. *)

\* A process on its way into the table is new, and somebody's only.
Inserting == \A t \in Threads : pc[t] = "insert" =>
               /\ pstate[target[t]] = "INIT" /\ target[t] \notin table
               /\ \A u \in Threads : pc[u] = "insert" /\ target[u] = target[t] => u = t

TableBorn == \A p \in table : p \in Pids /\ pstate[p] \notin {"unborn", "deleted"}

\* A collector that deletes a process has one that is finishing, and has it to itself.
Deleting == \A c \in Cpus : /\ pc[c] \in {"kill", "remove"} => pstate[target[c]] = "FINISHING"
                            /\ pc[c] = "remove" => members[target[c]] = {}
                            /\ pc[c] = "next" => target[c] \notin table

AliveInTable == \A t \in Threads : pc[t] \notin Gone => Process[t] \in table

EntriesFinish == \A c \in Cpus : \A i \in 1 .. Len(ring[c]) :
                   ring[c][i].tid = Nobody => pstate[ring[c][i].pid] \in {"FINISHING", "deleted"}

TableInv == Inserting /\ TableBorn /\ Deleting /\ AliveInTable /\ EntriesFinish

\* How a thread comes to insert a process: it has made it.
LEMMA InsertArrival ==
  ASSUME RoleInv, Born, [Next]_vars, NEW t \in Threads, pc'[t] = "insert"
  PROVE  \/ pc[t] = "insert" /\ target'[t] = target[t]
         \/ /\ target'[t] \in Pids /\ pstate[target'[t]] = "unborn"
            /\ pstate' = [pstate EXCEPT ![target'[t]] = "INIT"] /\ table' = table
            /\ \A u \in Threads \ {t} : pc'[u] = pc[u] /\ target'[u] = target[u]
<1>0. t \in Actors /\ DOMAIN pc = Actors /\ DOMAIN target = Actors /\ Threads \subseteq Actors
  BY DEF Actors, RoleInv, Typed
<1>1. pc[t] = "insert" \/ (pc[t] = "entry" /\ \E name : \E p \in Pids : syscall(t, name, p))
  BY ThreadChanges
<1>2. CASE pc[t] = "insert"
  BY <1>2, CallChanges
<1>3. ASSUME NEW name, NEW p \in Pids, syscall(t, name, p)
      PROVE  /\ target'[t] \in Pids /\ pstate[target'[t]] = "unborn"
             /\ pstate' = [pstate EXCEPT ![target'[t]] = "INIT"] /\ table' = table
             /\ \A u \in Threads \ {t} : pc'[u] = pc[u] /\ target'[u] = target[u]
  <2>1. pc' = [pc EXCEPT ![t] = IF name = "exec" THEN "insert" ELSE IF name = "list" THEN "list" ELSE "find"]
    BY <1>3 DEF syscall, Goto
  <2>2. name = "exec"
    BY <1>0, <2>1
  <2>3. target' = [target EXCEPT ![t] = p] /\ p \in Targets(t, name) /\ table' = table
        /\ pstate' = [pstate EXCEPT ![p] = "INIT"]
    BY <1>3, <2>2 DEF syscall
  <2>4. target'[t] = p /\ pstate[p] = "unborn"
    BY <1>0, <2>2, <2>3 DEF Targets
  <2>5. QED
    BY <1>0, <2>1, <2>3, <2>4
<1>4. QED
  BY <1>1, <1>2, <1>3

\* A collector works on a process that is not new.
LEMMA CollectorBorn ==
  ASSUME RoleInv, Born, NEW c \in Cpus, pc[c] # "none"
  PROVE  pstate[target[c]] \notin Unborn
<1>1. 1 \in 1 .. Len(ring[c]) /\ target[c] = ring[c][1].pid
  BY CollectorObject
<1>2. QED
  BY <1>1 DEF Born

\* Collectors that delete write the process.
LEMMA DeletersWrite ==
  ASSUME RoleInv, NEW c \in Cpus, pc[c] \in {"kill", "remove"}
  PROVE  Writing(c) /\ c \in Actors
BY DEF RoleInv, Typed, Writing, Holding, Actors

\* The states that a step leaves alone.
LEMMA StatesStay ==
  ASSUME Inv, RoleInv, Born, LockInv, TableInv, [Next]_vars, NEW p \in Pids
  PROVE  /\ pstate[p] = "INIT" /\ p \notin table => pstate'[p] = "INIT"
         /\ pstate[p] = "FINISHING" => pstate'[p] = "FINISHING" \/ \E c \in Cpus : Remove(c) /\ target[c] = p
         /\ pstate[p] \in {"FINISHING", "deleted"} => pstate'[p] \in {"FINISHING", "deleted"}
         /\ pstate[p] = "deleted" => pstate'[p] = "deleted"
         /\ pstate'[p] = "unborn" => pstate[p] = "unborn"
         /\ pstate'[p] = "deleted" => pstate[p] = "deleted" \/ \E c \in Cpus : Remove(c) /\ target[c] = p
<1>0. DOMAIN pstate = Pids
  BY DEF Born
<1>1. CASE pstate' = pstate
  BY <1>1
<1>2. ASSUME NEW q \in Pids, pstate[q] = "unborn", pstate' = [pstate EXCEPT ![q] = "INIT"]
      PROVE  pstate'[p] = pstate[p] \/ (p = q /\ pstate[p] = "unborn" /\ pstate'[p] = "INIT")
  BY <1>0, <1>2
<1>3. ASSUME NEW t \in Threads, pc[t] = "work", target[t] \in Pids, pstate[target[t]] = "INIT",
             pstate' = [pstate EXCEPT ![target[t]] = "RUNNING"]
      PROVE  pstate'[p] = pstate[p] \/ (p \in table /\ pstate[p] = "INIT" /\ pstate'[p] = "RUNNING")
  <2>1. target[t] \in table
    BY <1>3 DEF Inv, Present, UsingPlaces, Actors
  <2>2. QED
    BY <1>0, <1>3, <2>1
<1>4. ASSUME NEW t \in Threads, pc[t] = "work", pstate' = [pstate EXCEPT ![Process[t]] = "FINISHING"]
      PROVE  pstate'[p] = pstate[p] \/ (p \in table /\ pstate'[p] = "FINISHING")
  <2>1. Process[t] \in table
    BY <1>4 DEF TableInv, AliveInTable, Gone
  <2>2. QED
    BY <1>0, <1>4, <2>1
<1>5. ASSUME NEW c \in Cpus, Remove(c), pc[c] = "remove", target[c] \in Pids,
             pstate' = [pstate EXCEPT ![target[c]] = "deleted"]
      PROVE  \/ pstate'[p] = pstate[p]
             \/ target[c] = p /\ pstate[p] = "FINISHING" /\ pstate'[p] = "deleted"
  <2>1. pstate[target[c]] = "FINISHING"
    BY <1>5 DEF TableInv, Deleting
  <2>2. QED
    BY <1>0, <1>5, <2>1
<1>6. \/ pstate'[p] = pstate[p]
      \/ pstate[p] = "unborn" /\ pstate'[p] = "INIT"
      \/ p \in table /\ pstate[p] = "INIT" /\ pstate'[p] = "RUNNING"
      \/ p \in table /\ pstate'[p] = "FINISHING"
      \/ pstate[p] = "FINISHING" /\ pstate'[p] = "deleted" /\ \E c \in Cpus : Remove(c) /\ target[c] = p
  BY <1>1, <1>2, <1>3, <1>4, <1>5, StateMoves
<1>7. p \in table => pstate[p] # "deleted"
  BY DEF TableInv, TableBorn
<1>8. QED
  BY <1>6, <1>7

\* Every step keeps the table.
LEMMA TableStep ==
  ASSUME Inv, RoleInv, Born, LockInv, TableInv, [Next]_vars
  PROVE  TableInv'
<1>0. /\ \A t \in Threads : Process[t] \in Pids /\ target[t] \in Pids /\ t \in Actors /\ t \notin Cpus
      /\ \A c \in Cpus : c \in Actors
      /\ RoleInv' /\ Born'
  BY ProcessAssumption, ActorAssumption, RoleStep, BornStep DEF RoleInv, Typed, Actors
<1>1. \A c \in Cpus : Remove(c) => /\ pc[c] = "remove" /\ table' = table \ {target[c]} /\ pc'[c] = "none"
                                   /\ target' = target /\ target[c] \in Pids
  <2>1. SUFFICES ASSUME NEW c \in Cpus, Remove(c)
                 PROVE  /\ pc[c] = "remove" /\ table' = table \ {target[c]} /\ pc'[c] = "none"
                        /\ target' = target /\ target[c] \in Pids
    OBVIOUS
  <2>2. pc[c] = "remove" /\ table' = table \ {target[c]} /\ target' = target /\ pc' = [pc EXCEPT ![c] = "none"]
    BY <2>1 DEF Remove, At, gc_next, Goto
  <2>3. QED
    BY <1>0, <2>2, CollectorObject DEF RoleInv, Typed
<1>2. \A t \in Threads : pc[t] = "insert" => pstate[target[t]] = "INIT" /\ target[t] \notin table
  BY DEF TableInv, Inserting
<1>3. Inserting'
  <2>1. ASSUME NEW t \in Threads, pc'[t] = "insert", pc[t] = "insert", target'[t] = target[t]
        PROVE  pstate'[target'[t]] = "INIT" /\ target'[t] \notin table'
    <3>1. pstate'[target[t]] = "INIT"
      BY <1>0, <1>2, <2>1, StatesStay
    <3>2. ASSUME NEW u \in Threads, pc[u] = "insert", pc'[u] = "find", target[u] = target[t] PROVE FALSE
      BY <2>1, <3>2 DEF TableInv, Inserting
    <3>3. target[t] \notin table'
      BY <1>2, <2>1, <3>2, TableMoves
    <3>4. QED
      BY <2>1, <3>1, <3>3
  <2>2. ASSUME NEW t \in Threads, target'[t] \in Pids, pstate[target'[t]] = "unborn",
               pstate' = [pstate EXCEPT ![target'[t]] = "INIT"], table' = table
        PROVE  pstate'[target'[t]] = "INIT" /\ target'[t] \notin table'
    BY <2>2 DEF Born, TableInv, TableBorn
  <2>3. ASSUME NEW t \in Threads, pc'[t] = "insert"
        PROVE  pstate'[target'[t]] = "INIT" /\ target'[t] \notin table'
    BY <2>1, <2>2, <2>3, InsertArrival
  <2>4. ASSUME NEW t \in Threads, NEW u \in Threads, pc'[t] = "insert", pc'[u] = "insert",
               target'[u] = target'[t], u # t
        PROVE  FALSE
    <3>1. CASE pc[t] = "insert" /\ pc[u] = "insert" /\ target'[t] = target[t] /\ target'[u] = target[u]
      BY <2>4, <3>1 DEF TableInv, Inserting
    <3>2. ASSUME NEW v \in Threads, NEW w \in Threads, v # w, pc'[v] = "insert", pc'[w] = "insert",
                 target'[v] = target'[w], pstate[target'[v]] = "unborn",
                 \A x \in Threads \ {v} : pc'[x] = pc[x] /\ target'[x] = target[x]
          PROVE  FALSE
      <4>1. pc[w] = "insert" /\ target'[w] = target[w]
        BY <3>2
      <4>2. QED
        BY <1>2, <3>2, <4>1
    <3>3. QED
      BY <2>4, <3>1, <3>2, InsertArrival
  <2>5. QED
    BY <2>3, <2>4 DEF Inserting
<1>4. TableBorn'
  <2>1. SUFFICES ASSUME NEW p \in table' PROVE p \in Pids /\ pstate'[p] \notin {"unborn", "deleted"}
    BY DEF TableBorn
  <2>2. CASE p \notin table
    <3>1. PICK t \in Threads : pc[t] = "insert" /\ p = target[t] /\ pstate' = pstate
      BY <2>1, <2>2, TableMoves
    <3>2. QED
      BY <1>0, <1>2, <3>1
  <2>3. CASE p \in table
    <3>1. p \in Pids /\ pstate[p] \notin {"unborn", "deleted"}
      BY <2>3 DEF TableInv, TableBorn
    <3>2. ~ \E c \in Cpus : Remove(c) /\ target[c] = p
      BY <1>1, <2>1
    <3>3. QED
      BY <3>1, <3>2, StatesStay
  <2>4. QED
    BY <2>2, <2>3
<1>5. Deleting'
  <2>1. ASSUME NEW c \in Cpus, pc'[c] \in {"kill", "remove"} PROVE pstate'[target'[c]] = "FINISHING"
    <3>1. /\ target'[c] = target[c] /\ pstate[target[c]] = "FINISHING"
          /\ pc[c] \in {"kill", "remove"} \/ pstate' = pstate
      BY <2>1, CollectorChanges DEF TableInv, Deleting
    <3>2. target[c] \in Pids
      BY <2>1, <3>1, CollectorObject, CollectorChanges
    <3>3. CASE pstate' = pstate
      BY <3>1, <3>3
    <3>4. CASE pc[c] \in {"kill", "remove"}
      <4>1. ASSUME NEW d \in Cpus, Remove(d), target[d] = target[c] PROVE FALSE
        <5>1. pc[d] = "remove" /\ pc'[d] = "none"
          BY <1>1, <4>1
        <5>2. c = d
          BY <3>4, <4>1, <5>1, DeletersWrite, OneWriter
        <5>3. QED
          BY <2>1, <5>1, <5>2
      <4>2. QED
        BY <3>1, <3>2, <4>1, StatesStay
    <3>5. QED
      BY <3>1, <3>3, <3>4
  <2>2. ASSUME NEW c \in Cpus, pc'[c] = "remove" PROVE members'[target'[c]] = {}
    <3>1. /\ target'[c] = target[c] /\ members[target[c]] = {}
          /\ pc[c] = "remove" \/ members' = members
      BY <2>2, CollectorChanges DEF TableInv, Deleting
    <3>2. CASE members' = members
      BY <3>1, <3>2
    <3>3. CASE pc[c] = "remove"
      <4>1. target[c] \in Pids
        BY <3>3, CollectorObject
      <4>2. ASSUME NEW u \in members'[target[c]] PROVE FALSE
        <5>1. PICK t \in Threads : /\ (pc[t] = "work" /\ call[t] = "spawn") \/ pc[t] = "clone"
                                   /\ target[t] = target[c]
          BY <3>1, <4>1, MembersGrow
        <5>2. CASE pc[t] = "work" /\ call[t] = "spawn"
          <6>1. Process[t] = target[c] /\ pc[t] \notin Gone
            BY <5>1, <5>2 DEF RoleInv, OwnTarget, Gone
          <6>2. t \in members[target[c]]
            BY <4>1, <6>1 DEF RoleInv, Alive
          <6>3. QED
            BY <3>1, <6>2
        <5>3. CASE pc[t] = "clone"
          <6>1. Writing(t)
            BY <5>3 DEF Writing, Holding, RoleInv, OwnTarget
          <6>2. t = c
            BY <1>0, <3>3, <5>1, <6>1, DeletersWrite, OneWriter
          <6>3. QED
            BY <1>0, <6>2
        <5>4. QED
          BY <5>1, <5>2, <5>3
      <4>3. QED
        BY <3>1, <4>2
    <3>4. QED
      BY <3>1, <3>2, <3>3
  <2>3. ASSUME NEW c \in Cpus, pc'[c] = "next" PROVE target'[c] \notin table'
    <3>1. /\ target'[c] = target[c] /\ target[c] \notin table /\ pc[c] # "none"
      BY <2>3, CollectorChanges DEF TableInv, Deleting
    <3>2. pstate[target[c]] \notin Unborn
      BY <3>1, CollectorBorn
    <3>3. \A t \in Threads : pc[t] = "insert" => target[t] # target[c]
      BY <1>2, <3>2 DEF Unborn
    <3>4. QED
      BY <3>1, <3>3, TableMoves
  <2>4. QED
    BY <2>1, <2>2, <2>3 DEF Deleting
<1>6. AliveInTable'
  <2>1. SUFFICES ASSUME NEW t \in Threads, pc'[t] \notin Gone PROVE Process[t] \in table'
    BY DEF AliveInTable
  <2>2. CASE pc[t] \in Gone
    <3>1. t \in members'[Process[t]] /\ t \notin members[Process[t]]
      BY <1>0, <2>1, <2>2 DEF RoleInv, Alive
    <3>2. PICK u \in Threads : pc[u] \in {"work", "clone"} /\ target[u] = Process[t] /\ table' = table
      BY <1>0, <3>1, MembersGrow
    <3>3. target[u] \in table
      BY <1>0, <3>2 DEF Inv, Present, UsingPlaces
    <3>4. QED
      BY <3>2, <3>3
  <2>3. CASE pc[t] \notin Gone
    <3>1. Process[t] \in table /\ t \in members[Process[t]]
      BY <1>0, <2>3 DEF TableInv, AliveInTable, RoleInv, Alive
    <3>2. \A c \in Cpus : pc[c] = "remove" => target[c] # Process[t]
      BY <3>1 DEF TableInv, Deleting
    <3>3. QED
      BY <3>1, <3>2, TableMoves
  <2>4. QED
    BY <2>2, <2>3
<1>7. EntriesFinish'
  <2>1. SUFFICES ASSUME NEW c \in Cpus, NEW i \in 1 .. Len(ring'[c]), ring'[c][i].tid = Nobody
                 PROVE  pstate'[ring'[c][i].pid] \in {"FINISHING", "deleted"}
    BY DEF EntriesFinish
  <2>2. ASSUME NEW j \in 1 .. Len(ring[c]), ring'[c][i] = ring[c][j]
        PROVE  pstate'[ring'[c][i].pid] \in {"FINISHING", "deleted"}
    <3>1. ring[c][j] \in Entries
      BY DEF RoleInv, Typed
    <3>2. ring[c][j].pid \in Pids /\ pstate[ring[c][j].pid] \in {"FINISHING", "deleted"}
      BY <2>1, <2>2, <3>1 DEF Entries, TableInv, EntriesFinish
    <3>3. QED
      BY <2>2, <3>2, StatesStay
  <2>3. ASSUME NEW t \in Threads, ring'[c][i] = [pid |-> Process[t], tid |-> t] PROVE FALSE
    BY <2>1, <2>3, ActorAssumption
  <2>4. ASSUME NEW t \in Threads, ExitProcess(t), ring'[c][i] = [pid |-> Process[t], tid |-> Nobody]
        PROVE  pstate'[ring'[c][i].pid] \in {"FINISHING", "deleted"}
    <3>1. pstate' = [pstate EXCEPT ![Process[t]] = "FINISHING"] /\ ring'[c][i].pid = Process[t]
      BY <2>4 DEF ExitProcess
    <3>2. QED
      BY <1>0, <3>1 DEF Born
  <2>5. \/ \E j \in 1 .. Len(ring[c]) : ring'[c][i] = ring[c][j]
        \/ \E t \in Threads : /\ ExitThread(t) /\ pc[t] = "work" /\ c = Cpu[t]
                              /\ ring'[c][i] = [pid |-> Process[t], tid |-> t]
        \/ \E t \in Threads : /\ ExitProcess(t) /\ pc[t] = "work" /\ c = Cpu[t]
                              /\ ring'[c][i] = [pid |-> Process[t], tid |-> Nobody]
    BY RingEntries
  <2>6. QED
    BY <2>2, <2>3, <2>4, <2>5
<1>8. QED
  BY <1>3, <1>4, <1>5, <1>6, <1>7 DEF TableInv

-----------------------------------------------------------------------------
(* kernel_threads. *)

\* Where a thread counts as inside the kernel.
Kernel == Inside \ {"exiting"}
InKernel(p) == {t \in members[p] : pc[t] \in Kernel}

KernelInv == /\ kernel_threads \in [Pids -> Nat]
             /\ \A p \in Pids : /\ IsFiniteSet(InKernel(p))
                                /\ Cardinality(InKernel(p)) <= kernel_threads[p]
                                /\ ~BeingDeleted(p) /\ pstate[p] # "deleted"
                                     => kernel_threads[p] = Cardinality(InKernel(p))

\* When the collector deletes the threads of a process, none has a timer.
KillQuiet == \A c \in Cpus : pc[c] = "kill" => \A t \in members[target[c]] : pc[t] \notin {"doze", "dozing"}

\* kernel_threads changes with the one thread that enters or leaves.
LEMMA KernelMoves ==
  ASSUME RoleInv, Born, [Next]_vars
  PROVE  \/ /\ kernel_threads' = kernel_threads
            /\ \A u \in Threads : pc'[u] \in Kernel <=> pc[u] \in Kernel
         \/ \E t \in Threads : /\ kernel_threads' = [kernel_threads EXCEPT ![Process[t]] = @ + 1]
                               /\ pc[t] \notin Kernel /\ pc'[t] \in Kernel
                               /\ \A u \in Threads \ {t} : pc'[u] \in Kernel <=> pc[u] \in Kernel
         \/ \E t \in Threads : /\ kernel_threads' = [kernel_threads EXCEPT ![Process[t]] = @ + -1]
                               /\ pc[t] \in Kernel /\ pc'[t] \notin Kernel
                               /\ \A u \in Threads \ {t} : pc'[u] \in Kernel <=> pc[u] \in Kernel
         \/ \E t \in Threads : /\ kernel_threads' = kernel_threads /\ pc'[t] \notin Kernel
                               /\ \A u \in Threads \ {t} : pc'[u] \in Kernel <=> pc[u] \in Kernel
                               /\ \E c \in Cpus : pc'[c] = "kill" /\ target'[c] = Process[t]
<1> USE DEF processes, locks, Goto
<1>0. DOMAIN pc = Actors /\ Threads \subseteq Actors /\ Cpus \subseteq Actors /\ Threads \cap Cpus = {}
  BY ActorAssumption DEF Actors, RoleInv, Typed
<1>k. /\ {"find", "lock", "sleep", "doze", "work", "insert", "list", "lock_parent", "clone", "leave", "dozing"} \subseteq Kernel
      /\ {"none", "user", "entry", "stuck", "asleep", "awake", "new", "finished", "deleted", "exiting"} \cap Kernel = {}
  BY DEF Kernel, Inside, Checkout, InterruptsOff
<1>1. CASE UNCHANGED vars \/ Halt
  BY <1>1 DEF vars, Halt
\* One thread moves, in the kernel or outside.
<1>2. ASSUME NEW t \in Threads, NEW place, pc' = [pc EXCEPT ![t] = place], kernel_threads' = kernel_threads,
             place \in Kernel <=> pc[t] \in Kernel
      PROVE  kernel_threads' = kernel_threads /\ \A u \in Threads : pc'[u] \in Kernel <=> pc[u] \in Kernel
  BY <1>0, <1>2
<1>3. ASSUME NEW t \in Threads, ~Halt,
             \/ Enter(t) \/ Expire(t) \/ ListCall(t) \/ Insert(t) \/ FindParent(t) \/ LockParent(t)
             \/ ReadCall(t) \/ SleepCall(t) \/ (Stop(t) /\ pc[t] # "sleep")
      PROVE  kernel_threads' = kernel_threads /\ \A u \in Threads : pc'[u] \in Kernel <=> pc[u] \in Kernel
  <2>1. kernel_threads' = kernel_threads
    BY <1>3 DEF Enter, Expire, ListCall, Insert, FindParent, LockParent, ReadCall, SleepCall, Stop
  <2>2. \/ /\ pc[t] \in {"user", "exiting"}
           /\ \E place \in {"stuck", "entry", "finished"} : pc' = [pc EXCEPT ![t] = place]
        \/ /\ pc[t] \in {"dozing", "list", "insert", "work", "lock_parent", "doze"}
           /\ \E place \in {"leave", "find", "lock_parent", "clone", "sleep", "doze", "dozing"} : pc' = [pc EXCEPT ![t] = place]
    BY <1>3 DEF Enter, Expire, ListCall, Insert, FindParent, LockParent, ReadCall, SleepCall, Stop, Working, At,
                InterruptsOff
  <2>3. QED
    BY <1>k, <1>2, <2>1, <2>2
\* Wakers.
<1>4. ASSUME NEW x \in Actors, NEW S, NEW place, pc' = [WakeUp(pc, S) EXCEPT ![x] = place],
             \A u \in S : pc[u] \in {"asleep", "dozing", "new"},
             x \in Threads => place \in Kernel /\ pc[x] \in Kernel
      PROVE  \A u \in Threads : pc'[u] \in Kernel <=> pc[u] \in Kernel
  <2>1. SUFFICES ASSUME NEW u \in Threads \ {x} PROVE pc'[u] \in Kernel <=> pc[u] \in Kernel
    BY <1>0, <1>4 DEF WakeUp
  <2>2. \/ pc'[u] = pc[u] \/ (pc[u] = "asleep" /\ pc'[u] = "awake")
        \/ (pc[u] = "dozing" /\ pc'[u] = "leave") \/ (pc[u] = "new" /\ pc'[u] = "user")
    BY <1>0, <1>4 DEF WakeUp
  <2>3. QED
    BY <1>k, <2>2
<1>5. ASSUME NEW t \in Threads, ~Halt, SendCall(t) \/ ResumeCall(t) \/ StartCall(t)
      PROVE  kernel_threads' = kernel_threads /\ \A u \in Threads : pc'[u] \in Kernel <=> pc[u] \in Kernel
  <2>0. t \in Actors /\ target[t] \in Pids /\ pc[t] = "work" /\ kernel_threads' = kernel_threads
    BY <1>0, <1>5 DEF RoleInv, Typed, SendCall, ResumeCall, StartCall, Working, At
  <2>1. CASE SendCall(t) \/ ResumeCall(t)
    <3>1. \E S : /\ pc' = [WakeUp(pc, S) EXCEPT ![t] = "leave"]
                 /\ \A v \in S : pc[v] \in {"asleep", "dozing", "new"}
      BY <2>1 DEF SendCall, ResumeCall, Sleeping
    <3>2. QED
      BY <1>k, <1>4, <2>0, <3>1
  <2>2. CASE StartCall(t)
    <3>1. \/ pc' = [pc EXCEPT ![t] = "leave"]
          \/ pstate[target[t]] = "INIT" /\ pc' = [WakeUp(pc, members[target[t]]) EXCEPT ![t] = "leave"]
      BY <1>5, <2>2 DEF StartCall
    <3>2. ASSUME pstate[target[t]] = "INIT", NEW v \in members[target[t]]
          PROVE  pc[v] \in {"asleep", "dozing", "new"}
      <4>1. v \in Threads /\ Process[v] = target[t] /\ pc[v] \notin Gone
        BY <2>0 DEF RoleInv, Typed, Alive
      <4>2. QED
        BY <3>2, <4>1 DEF Born, Unborn, Gone
    <3>3. QED
      BY <1>k, <1>2, <1>4, <2>0, <3>1, <3>2
  <2>3. QED
    BY <1>5, <2>1, <2>2
<1>6. ASSUME NEW t \in Threads, SpawnCall(t) \/ Clone(t)
      PROVE  kernel_threads' = kernel_threads /\ \A u \in Threads : pc'[u] \in Kernel <=> pc[u] \in Kernel
  <2>1. /\ new_thread(t, target[t]) /\ pc[t] \in {"work", "clone"} /\ target[t] \in Pids
        /\ kernel_threads' = kernel_threads
    BY <1>6 DEF SpawnCall, Clone, Working, At, RoleInv, Typed
  <2>2. pc[t] \notin Gone
    BY <2>1 DEF Gone
  <2>3. pc'[t] = "leave" /\ \A u \in Threads \ {t} : pc'[u] = pc[u] \/ (pc[u] = "none" /\ pc'[u] = "new")
    BY <1>0, <2>1, <2>2, NewThreadPlaces
  <2>4. QED
    BY <1>k, <2>1, <2>3
\* A thread enters.
<1>7. ASSUME NEW t \in Threads, Awake(t) \/ \E name \in Calls[t], p \in Pids : syscall(t, name, p)
      PROVE  /\ kernel_threads' = [kernel_threads EXCEPT ![Process[t]] = @ + 1]
             /\ pc[t] \notin Kernel /\ pc'[t] \in Kernel
             /\ \A u \in Threads \ {t} : pc'[u] \in Kernel <=> pc[u] \in Kernel
  <2>1. /\ kernel_threads' = [kernel_threads EXCEPT ![Process[t]] = @ + 1]
        /\ pc[t] \in {"awake", "entry"}
        /\ \E place \in {"leave", "insert", "list", "find"} : pc' = [pc EXCEPT ![t] = place]
    BY <1>7 DEF Awake, syscall, Count, At
  <2>2. QED
    BY <1>0, <1>k, <2>1
\* A thread leaves.
<1>8. ASSUME NEW t \in Threads, Leave(t) \/ ExitThread(t) \/ ExitProcess(t) \/ (Stop(t) /\ pc[t] = "sleep")
      PROVE  /\ kernel_threads' = [kernel_threads EXCEPT ![Process[t]] = @ + -1]
             /\ pc[t] \in Kernel /\ pc'[t] \notin Kernel
             /\ \A u \in Threads \ {t} : pc'[u] \in Kernel <=> pc[u] \in Kernel
  <2>1. /\ kernel_threads' = [kernel_threads EXCEPT ![Process[t]] = @ + -1]
        /\ pc[t] \in {"leave", "work", "sleep"}
        /\ \E place \in {"user", "exiting", "asleep"} : pc' = [pc EXCEPT ![t] = place]
    BY <1>8 DEF Leave, Done, ExitThread, ExitProcess, Stop, Count, Working, At
  <2>2. QED
    BY <1>0, <1>k, <2>1
\* Collectors.
<1>9. ASSUME NEW c \in Cpus, CollectorStep(c), ~Halt
      PROVE  /\ kernel_threads' = kernel_threads
             /\ \/ \A u \in Threads : pc'[u] \in Kernel <=> pc[u] \in Kernel
                \/ \E t \in Threads : /\ pc'[t] \notin Kernel
                                      /\ \A u \in Threads \ {t} : pc'[u] \in Kernel <=> pc[u] \in Kernel
                                      /\ pc'[c] = "kill" /\ target'[c] = Process[t]
  <2>0. c \in Actors /\ c \notin Threads
    BY <1>0
  <2>1. kernel_threads' = kernel_threads
    BY <1>9 DEF CollectorStep, Peek, Skip, gc_do_thread, gc_do_process, Kill, ReleaseTable, Remove
  <2>2. CASE Peek(c) \/ Skip(c) \/ ReleaseTable(c) \/ Remove(c)
    <3>1. \E place : pc' = [pc EXCEPT ![c] = place]
      BY <2>2 DEF Peek, Skip, ReleaseTable, Remove, gc_next
    <3>2. QED
      BY <1>0, <2>0, <2>1, <3>1
  <2>3. CASE gc_do_thread(c)
    <3>1. \/ pc' = [pc EXCEPT ![c] = "none"]
          \/ pc[Victim(c)] = "finished" /\ pc' = [pc EXCEPT ![Victim(c)] = "deleted", ![c] = "none"]
      BY <1>9, <2>3 DEF gc_do_thread, gc_next, At
    <3>2. \A u \in Threads : pc'[u] = pc[u] \/ (pc[u] = "finished" /\ pc'[u] = "deleted")
      BY <1>0, <2>0, <3>1
    <3>3. QED
      BY <1>k, <2>1, <3>2
  <2>4. CASE gc_do_process(c)
    <3>1. \/ pc' = [pc EXCEPT ![c] = "kill"]
          \/ \E S : /\ pc' = [WakeUp(pc, S) EXCEPT ![c] = "find"]
                    /\ \A v \in S : pc[v] \in {"asleep", "dozing", "new"}
      BY <1>9, <2>4 DEF gc_do_process, Sleeping
    <3>2. CASE pc' = [pc EXCEPT ![c] = "kill"]
      BY <1>0, <2>0, <2>1, <3>2
    <3>3. QED
      BY <1>4, <2>0, <2>1, <3>1, <3>2
  <2>5. CASE Kill(c)
    <3>1. /\ pc[c] = "kill" /\ target' = target
          /\ \E u \in members[target[c]] : pc' = [pc EXCEPT ![u] = "deleted"]
      BY <1>9, <2>5 DEF Kill, At
    <3>2. PICK u \in members[target[c]] : pc' = [pc EXCEPT ![u] = "deleted"]
      BY <3>1
    <3>3. target[c] \in Pids
      BY <3>1, CollectorObject
    <3>4. u \in Threads /\ Process[u] = target[c] /\ u # c
      BY <2>0, <3>3 DEF RoleInv, Typed, Alive
    <3>5. pc'[c] = "kill" /\ pc'[u] = "deleted" /\ \A v \in Threads \ {u} : pc'[v] = pc[v]
      BY <1>0, <2>0, <3>1, <3>2, <3>4
    <3>6. QED
      BY <1>k, <2>1, <3>1, <3>4, <3>5
  <2>6. QED
    BY <1>9, <2>2, <2>3, <2>4, <2>5 DEF CollectorStep
<1>10. ASSUME NEW a \in Actors, LockStep(a), ~Halt
       PROVE  kernel_threads' = kernel_threads /\ \A u \in Threads : pc'[u] \in Kernel <=> pc[u] \in Kernel
  <2>1. /\ kernel_threads' = kernel_threads
        /\ \/ pc' = pc
           \/ /\ pc[a] \in {"find", "lock"} /\ a \in Threads
              /\ \E place \in {"lock", "leave", "work"} : pc' = [pc EXCEPT ![a] = place]
           \/ a \notin Threads /\ \E place : pc' = [pc EXCEPT ![a] = place]
    BY <1>0, <1>10 DEF LockStep, Find, LockProcess, AskForTable, At, Missing, Actors
  <2>2. QED
    BY <1>0, <1>k, <1>2, <2>1
<1>11. QED
  <2>1. ASSUME NEW t \in Threads, ThreadStep(t), ~Halt
        PROVE  \/ kernel_threads' = kernel_threads /\ \A u \in Threads : pc'[u] \in Kernel <=> pc[u] \in Kernel
               \/ /\ kernel_threads' = [kernel_threads EXCEPT ![Process[t]] = @ + 1]
                  /\ pc[t] \notin Kernel /\ pc'[t] \in Kernel
                  /\ \A u \in Threads \ {t} : pc'[u] \in Kernel <=> pc[u] \in Kernel
               \/ /\ kernel_threads' = [kernel_threads EXCEPT ![Process[t]] = @ + -1]
                  /\ pc[t] \in Kernel /\ pc'[t] \notin Kernel
                  /\ \A u \in Threads \ {t} : pc'[u] \in Kernel <=> pc[u] \in Kernel
    <3>1. CASE \/ Enter(t) \/ Expire(t) \/ ListCall(t) \/ Insert(t) \/ FindParent(t) \/ LockParent(t)
               \/ ReadCall(t) \/ SleepCall(t) \/ (Stop(t) /\ pc[t] # "sleep")
      BY <1>3, <2>1, <3>1
    <3>2. CASE SendCall(t) \/ ResumeCall(t) \/ StartCall(t)
      BY <1>5, <2>1, <3>2
    <3>3. CASE SpawnCall(t) \/ Clone(t)
      BY <1>6, <3>3
    <3>4. CASE Awake(t) \/ \E name \in Calls[t], p \in Pids : syscall(t, name, p)
      BY <1>7, <3>4
    <3>5. CASE Leave(t) \/ ExitThread(t) \/ ExitProcess(t) \/ (Stop(t) /\ pc[t] = "sleep")
      BY <1>8, <3>5
    <3>6. QED
      BY <2>1, <3>1, <3>2, <3>3, <3>4, <3>5 DEF ThreadStep, CallStep
  <2>2. CASE ~Halt /\ \E t \in Threads : ThreadStep(t)
    BY <2>1, <2>2
  <2>3. CASE ~Halt /\ \E c \in Cpus : CollectorStep(c)
    BY <1>9, <2>3
  <2>4. CASE ~Halt /\ \E a \in Actors : LockStep(a)
    BY <1>10, <2>4
  <2>5. QED
    BY <1>1, <2>2, <2>3, <2>4 DEF Next

\* A process whose deletion has begun is being deleted, or deleted.
LEMMA DoomStays ==
  ASSUME Inv, RoleInv, Born, LockInv, TableInv, [Next]_vars, NEW p \in Pids,
         BeingDeleted(p) \/ pstate[p] = "deleted"
  PROVE  BeingDeleted(p)' \/ pstate'[p] = "deleted"
<1>1. CASE pstate[p] = "deleted"
  BY <1>1, StatesStay
<1>2. ASSUME NEW c \in Cpus, pc[c] \in {"kill", "remove"}, target[c] = p
      PROVE  (pc'[c] \in {"kill", "remove"} /\ target'[c] = p) \/ pstate'[p] = "deleted"
  <2>1. target'[c] = p /\ (pc'[c] \in {"kill", "remove"} \/ Remove(c))
    BY <1>2, CollectorChanges
  <2>2. Remove(c) => pstate' = [pstate EXCEPT ![p] = "deleted"]
    BY <1>2 DEF Remove
  <2>3. QED
    BY <2>1, <2>2 DEF Born
<1>3. QED
  BY <1>1, <1>2 DEF BeingDeleted

\* The threads of a process that are in the kernel, by their places.
LEMMA InKernelIs ==
  ASSUME RoleInv, NEW p \in Pids
  PROVE  \A t : t \in InKernel(p) <=> t \in Threads /\ Process[t] = p /\ pc[t] \in Kernel
<1>1. Kernel \cap Gone = {}
  BY DEF Kernel, Gone, Inside, Checkout, InterruptsOff
<1>2. QED
  BY <1>1 DEF InKernel, RoleInv, Typed, Alive

\* Every step keeps the count of the threads in the kernel.
LEMMA KernelStep ==
  ASSUME Inv, RoleInv, Born, LockInv, TableInv, KernelInv, [Next]_vars
  PROVE  KernelInv'
<1>0. RoleInv' /\ kernel_threads \in [Pids -> Nat] /\ \A t \in Threads : Process[t] \in Pids
  BY RoleStep, ProcessAssumption DEF KernelInv
<1>1. ASSUME NEW p \in Pids
      PROVE  /\ \A t : t \in InKernel(p) <=> t \in Threads /\ Process[t] = p /\ pc[t] \in Kernel
             /\ \A t : t \in InKernel(p)' <=> t \in Threads /\ Process[t] = p /\ pc'[t] \in Kernel
  <2>1. Kernel \cap Gone = {}
    BY DEF Kernel, Gone, Inside, Checkout, InterruptsOff
  <2>2. \A t : t \in InKernel(p)' <=> t \in Threads /\ Process[t] = p /\ pc'[t] \in Kernel
    BY <1>0, <2>1 DEF InKernel, RoleInv, Typed, Alive
  <2>3. QED
    BY <2>2, InKernelIs
<1>2. ASSUME NEW p \in Pids
      PROVE  /\ IsFiniteSet(InKernel(p)) /\ Cardinality(InKernel(p)) \in Nat
             /\ Cardinality(InKernel(p)) <= kernel_threads[p] /\ kernel_threads[p] \in Nat
             /\ ~BeingDeleted(p)' /\ pstate'[p] # "deleted" => kernel_threads[p] = Cardinality(InKernel(p))
  <2>1. /\ IsFiniteSet(InKernel(p)) /\ Cardinality(InKernel(p)) <= kernel_threads[p] /\ kernel_threads[p] \in Nat
        /\ ~BeingDeleted(p) /\ pstate[p] # "deleted" => kernel_threads[p] = Cardinality(InKernel(p))
    BY DEF KernelInv
  <2>2. Cardinality(InKernel(p)) \in Nat
    BY <2>1, FS_CardinalityType
  <2>3. QED
    BY <2>1, <2>2, DoomStays
\* The three ways a count may go.
<1>3. ASSUME NEW p \in Pids, InKernel(p)' = InKernel(p), kernel_threads'[p] = kernel_threads[p]
      PROVE  /\ kernel_threads'[p] \in Nat /\ IsFiniteSet(InKernel(p)')
             /\ Cardinality(InKernel(p)') <= kernel_threads'[p]
             /\ ~BeingDeleted(p)' /\ pstate'[p] # "deleted" => kernel_threads'[p] = Cardinality(InKernel(p)')
  BY <1>2, <1>3
<1>4. ASSUME NEW p \in Pids, NEW t, t \notin InKernel(p), InKernel(p)' = InKernel(p) \cup {t},
             kernel_threads'[p] = kernel_threads[p] + 1
      PROVE  /\ kernel_threads'[p] \in Nat /\ IsFiniteSet(InKernel(p)')
             /\ Cardinality(InKernel(p)') <= kernel_threads'[p]
             /\ ~BeingDeleted(p)' /\ pstate'[p] # "deleted" => kernel_threads'[p] = Cardinality(InKernel(p)')
  <2>1. IsFiniteSet(InKernel(p)') /\ Cardinality(InKernel(p)') = Cardinality(InKernel(p)) + 1
    BY <1>2, <1>4, FS_AddElement
  <2>2. QED
    BY <1>2, <1>4, <2>1
<1>5. ASSUME NEW p \in Pids, NEW t, t \in InKernel(p), InKernel(p)' = InKernel(p) \ {t},
             kernel_threads'[p] = kernel_threads[p] - 1
      PROVE  /\ kernel_threads'[p] \in Nat /\ IsFiniteSet(InKernel(p)')
             /\ Cardinality(InKernel(p)') <= kernel_threads'[p]
             /\ ~BeingDeleted(p)' /\ pstate'[p] # "deleted" => kernel_threads'[p] = Cardinality(InKernel(p)')
  <2>1. IsFiniteSet(InKernel(p)') /\ Cardinality(InKernel(p)') = Cardinality(InKernel(p)) - 1
    BY <1>2, <1>5, FS_RemoveElement
  <2>2. Cardinality(InKernel(p)') \in Nat
    BY <2>1, FS_CardinalityType
  <2>3. QED
    BY <1>2, <1>5, <2>1, <2>2
<1>6. ASSUME NEW p \in Pids, InKernel(p)' \subseteq InKernel(p), kernel_threads'[p] = kernel_threads[p], BeingDeleted(p)'
      PROVE  /\ kernel_threads'[p] \in Nat /\ IsFiniteSet(InKernel(p)')
             /\ Cardinality(InKernel(p)') <= kernel_threads'[p]
             /\ ~BeingDeleted(p)' /\ pstate'[p] # "deleted" => kernel_threads'[p] = Cardinality(InKernel(p)')
  <2>1. IsFiniteSet(InKernel(p)') /\ Cardinality(InKernel(p)') <= Cardinality(InKernel(p))
    BY <1>2, <1>6, FS_Subset
  <2>2. Cardinality(InKernel(p)') \in Nat
    BY <2>1, FS_CardinalityType
  <2>3. QED
    BY <1>2, <1>6, <2>1, <2>2
<1>7. DOMAIN kernel_threads' = Pids
  BY <1>0, KernelMoves
<1>8. SUFFICES ASSUME NEW p \in Pids
               PROVE  /\ kernel_threads'[p] \in Nat /\ IsFiniteSet(InKernel(p)')
                      /\ Cardinality(InKernel(p)') <= kernel_threads'[p]
                      /\ ~BeingDeleted(p)' /\ pstate'[p] # "deleted"
                           => kernel_threads'[p] = Cardinality(InKernel(p)')
  <2>1. kernel_threads' = [p \in Pids |-> kernel_threads'[p]]
    <3>1. kernel_threads = [p \in Pids |-> kernel_threads[p]]
      BY <1>0
    <3>2. QED
      BY <1>0, <3>1, KernelMoves
  <2>2. (\A p \in Pids : kernel_threads'[p] \in Nat) => kernel_threads' \in [Pids -> Nat]
    BY <2>1
  <2>3. QED
    BY <1>8, <2>2 DEF KernelInv
<1>9. CASE kernel_threads' = kernel_threads /\ \A u \in Threads : pc'[u] \in Kernel <=> pc[u] \in Kernel
  <2>1. InKernel(p)' = InKernel(p)
    BY <1>1, <1>9
  <2>2. QED
    BY <1>3, <1>9, <2>1
<1>10. ASSUME NEW t \in Threads, kernel_threads' = [kernel_threads EXCEPT ![Process[t]] = @ + 1],
              pc[t] \notin Kernel, pc'[t] \in Kernel,
              \A u \in Threads \ {t} : pc'[u] \in Kernel <=> pc[u] \in Kernel
       PROVE  /\ kernel_threads'[p] \in Nat /\ IsFiniteSet(InKernel(p)')
              /\ Cardinality(InKernel(p)') <= kernel_threads'[p]
              /\ ~BeingDeleted(p)' /\ pstate'[p] # "deleted" => kernel_threads'[p] = Cardinality(InKernel(p)')
  <2>1. CASE Process[t] = p
    <3>1. t \notin InKernel(p) /\ InKernel(p)' = InKernel(p) \cup {t}
      BY <1>1, <1>10, <2>1
    <3>2. kernel_threads'[p] = kernel_threads[p] + 1
      BY <1>0, <1>10, <2>1
    <3>3. QED
      BY <1>4, <3>1, <3>2
  <2>2. CASE Process[t] # p
    <3>1. InKernel(p)' = InKernel(p)
      BY <1>1, <1>10, <2>2
    <3>2. kernel_threads'[p] = kernel_threads[p]
      BY <1>0, <1>10, <2>2
    <3>3. QED
      BY <1>3, <3>1, <3>2
  <2>3. QED
    BY <2>1, <2>2
<1>11. ASSUME NEW t \in Threads, kernel_threads' = [kernel_threads EXCEPT ![Process[t]] = @ + -1],
              pc[t] \in Kernel, pc'[t] \notin Kernel,
              \A u \in Threads \ {t} : pc'[u] \in Kernel <=> pc[u] \in Kernel
       PROVE  /\ kernel_threads'[p] \in Nat /\ IsFiniteSet(InKernel(p)')
              /\ Cardinality(InKernel(p)') <= kernel_threads'[p]
              /\ ~BeingDeleted(p)' /\ pstate'[p] # "deleted" => kernel_threads'[p] = Cardinality(InKernel(p)')
  <2>1. CASE Process[t] = p
    <3>1. t \in InKernel(p) /\ InKernel(p)' = InKernel(p) \ {t}
      BY <1>1, <1>11, <2>1
    <3>2. kernel_threads'[p] = kernel_threads[p] - 1
      <4>1. kernel_threads'[p] = kernel_threads[p] + -1
        BY <1>0, <1>11, <2>1
      <4>2. QED
        BY <1>2, <4>1
    <3>3. QED
      BY <1>5, <3>1, <3>2
  <2>2. CASE Process[t] # p
    <3>1. InKernel(p)' = InKernel(p)
      BY <1>1, <1>11, <2>2
    <3>2. kernel_threads'[p] = kernel_threads[p]
      BY <1>0, <1>11, <2>2
    <3>3. QED
      BY <1>3, <3>1, <3>2
  <2>3. QED
    BY <2>1, <2>2
<1>12. ASSUME NEW t \in Threads, kernel_threads' = kernel_threads, pc'[t] \notin Kernel,
              \A u \in Threads \ {t} : pc'[u] \in Kernel <=> pc[u] \in Kernel,
              NEW c \in Cpus, pc'[c] = "kill", target'[c] = Process[t]
       PROVE  /\ kernel_threads'[p] \in Nat /\ IsFiniteSet(InKernel(p)')
              /\ Cardinality(InKernel(p)') <= kernel_threads'[p]
              /\ ~BeingDeleted(p)' /\ pstate'[p] # "deleted" => kernel_threads'[p] = Cardinality(InKernel(p)')
  <2>1. CASE Process[t] = p
    <3>1. InKernel(p)' \subseteq InKernel(p)
      BY <1>1, <1>12
    <3>2. BeingDeleted(p)'
      BY <1>12, <2>1 DEF BeingDeleted
    <3>3. QED
      BY <1>6, <1>12, <3>1, <3>2
  <2>2. CASE Process[t] # p
    <3>1. InKernel(p)' = InKernel(p)
      BY <1>1, <1>12, <2>2
    <3>2. QED
      BY <1>3, <1>12, <3>1
  <2>3. QED
    BY <2>1, <2>2
<1>13. QED
  BY <1>9, <1>10, <1>11, <1>12, KernelMoves

\* While a process is deleted none of its threads falls asleep with a timer.
LEMMA KillQuietStep ==
  ASSUME Inv, RoleInv, Born, LockInv, KernelInv, KillQuiet, [Next]_vars
  PROVE  KillQuiet'
<1>1. SUFFICES ASSUME NEW c \in Cpus, pc'[c] = "kill", NEW t \in members'[target'[c]], pc'[t] \in {"doze", "dozing"}
               PROVE  FALSE
  BY DEF KillQuiet
<1>2. /\ target'[c] = target[c] /\ target[c] \in Pids
      /\ \/ pc[c] = "kill"
         \/ /\ pc[c] = "work" /\ kernel_threads[target[c]] = 0
            /\ \A u \in Threads : pc'[u] = pc[u]
  BY <1>1, CollectorChanges, CollectorObject
<1>3. RoleInv'
  BY RoleStep
<1>4. t \in Threads /\ Process[t] = target[c] /\ t \in Actors /\ t \notin Cpus /\ c \in Actors
  BY <1>1, <1>2, <1>3, ActorAssumption DEF RoleInv, Typed, Alive, Actors
<1>5. CASE pc[c] = "work" /\ kernel_threads[target[c]] = 0 /\ pc'[t] = pc[t]
  <2>1. t \in InKernel(target[c])
    <3>1. pc[t] \in Kernel
      BY <1>1, <1>5 DEF Kernel, Inside, InterruptsOff
    <3>2. QED
      BY <1>2, <1>4, <3>1, InKernelIs
  <2>2. IsFiniteSet(InKernel(target[c])) /\ Cardinality(InKernel(target[c])) <= 0
    BY <1>2, <1>5 DEF KernelInv
  <2>3. Cardinality(InKernel(target[c])) = 0
    BY <2>2, FS_CardinalityType
  <2>4. QED
    BY <2>1, <2>2, <2>3, FS_EmptySet
<1>6. CASE pc[c] = "kill"
  <2>1. \/ pc[t] \in {"doze", "dozing"}
        \/ pc[t] = "work" /\ call[t] = "sleep"
    BY <1>1, <1>4, ThreadChanges
  <2>2. CASE pc[t] \in {"doze", "dozing"}
    <3>1. t \in members[target[c]]
      BY <1>2, <1>4, <2>2 DEF RoleInv, Alive, Gone
    <3>2. QED
      BY <1>6, <2>2, <3>1 DEF KillQuiet
  <2>3. CASE pc[t] = "work" /\ call[t] = "sleep"
    <3>1. target[t] = target[c] /\ Writing(t)
      BY <1>4, <2>3 DEF RoleInv, OwnTarget, Writing, Holding
    <3>2. t = c
      BY <1>4, <1>6, <3>1, DeletersWrite, OneWriter
    <3>3. QED
      BY <1>4, <3>2
  <2>4. QED
    BY <2>1, <2>2, <2>3
<1>7. QED
  BY <1>2, <1>4, <1>5, <1>6

-----------------------------------------------------------------------------
(* Threads in the rings. *)

ExitPlaces == \A c \in Cpus : \A i \in 1 .. Len(ring[c]) : ring[c][i].tid # Nobody =>
                 c = Cpu[ring[c][i].tid] /\ pc[ring[c][i].tid] \in {"exiting", "finished", "deleted"}

\* A thread is put into a ring once.
ExitOnce == \A c \in Cpus : \A i, j \in 1 .. Len(ring[c]) :
                 ring[c][i].tid # Nobody /\ ring[c][i].tid = ring[c][j].tid => i = j

\* The collector comes to a thread when it has gone through the scheduler.
HeadStopped == \A c \in Cpus : pc[c] # "none" /\ Victim(c) # Nobody => pc[Victim(c)] # "exiting"

\* A thread in a ring is not deleted before its process is.
DeadGone == \A c \in Cpus : \A i \in 1 .. Len(ring[c]) :
                 ring[c][i].tid # Nobody /\ pc[ring[c][i].tid] = "deleted"
                    => BeingDeleted(ring[c][i].pid) \/ ring[c][i].pid \notin table

ExitInv == ExitPlaces /\ ExitOnce /\ HeadStopped /\ DeadGone

\* Every step keeps the order in which threads leave.
LEMMA ExitStep ==
  ASSUME Inv, RoleInv, Born, LockInv, TableInv, ExitInv, [Next]_vars
  PROVE  ExitInv'
<1>0. RoleInv' /\ TableInv' /\ Threads \subseteq Actors /\ DOMAIN pc = Actors /\ Nobody \notin Threads
  BY RoleStep, TableStep, ActorAssumption DEF Actors, RoleInv, Typed
<1>1. ASSUME NEW c \in Cpus, NEW j \in 1 .. Len(ring[c]), ring[c][j].tid # Nobody
      PROVE  /\ ring[c][j].tid \in Threads /\ ring[c][j].pid \in Pids /\ Process[ring[c][j].tid] = ring[c][j].pid
             /\ c = Cpu[ring[c][j].tid] /\ pc[ring[c][j].tid] \in {"exiting", "finished", "deleted"}
             /\ pc'[ring[c][j].tid] \in {"exiting", "finished", "deleted"}
             /\ pc'[ring[c][j].tid] = "exiting" => pc[ring[c][j].tid] = "exiting"
  <2>1. ring[c][j] \in Entries
    BY DEF RoleInv, Typed
  <2>2. ring[c][j].tid \in Threads /\ ring[c][j].pid \in Pids
    BY <1>1, <2>1 DEF Entries
  <2>3. /\ Process[ring[c][j].tid] = ring[c][j].pid
        /\ c = Cpu[ring[c][j].tid] /\ pc[ring[c][j].tid] \in {"exiting", "finished", "deleted"}
    BY <1>1 DEF RoleInv, EntriesOwn, ExitInv, ExitPlaces
  <2>4. QED
    BY <2>2, <2>3, ThreadChanges
<1>2. ASSUME NEW t \in Threads, ExitThread(t) PROVE pc'[t] = "exiting"
  BY <1>0, <1>2 DEF ExitThread, Goto
<1>3. ASSUME NEW t \in Threads, ExitThread(t) \/ ExitProcess(t)
      PROVE  \A c \in Cpus : \A j \in 1 .. Len(ring[c]) : ring[c][j].tid # t
  <2>1. pc[t] = "work" /\ t # Nobody
    BY <1>0, <1>3 DEF ExitThread, ExitProcess, Working, At
  <2>2. QED
    BY <1>1, <2>1
\* An object is an old one, or the thread that ends now.
<1>4. ASSUME NEW c \in Cpus, NEW i \in 1 .. Len(ring'[c]), ring'[c][i].tid # Nobody
      PROVE  \/ \E j \in 1 .. Len(ring[c]) : ring'[c][i] = ring[c][j]
             \/ \E t \in Threads : ExitThread(t) /\ c = Cpu[t] /\ ring'[c][i].tid = t
  <2>1. \/ \E j \in 1 .. Len(ring[c]) : ring'[c][i] = ring[c][j]
        \/ \E t \in Threads : /\ ExitThread(t) /\ pc[t] = "work" /\ c = Cpu[t]
                              /\ ring'[c][i] = [pid |-> Process[t], tid |-> t]
        \/ \E t \in Threads : /\ ExitProcess(t) /\ pc[t] = "work" /\ c = Cpu[t]
                              /\ ring'[c][i] = [pid |-> Process[t], tid |-> Nobody]
    BY <1>4, RingEntries
  <2>2. ASSUME NEW t \in Threads, ring'[c][i] = [pid |-> Process[t], tid |-> t] PROVE ring'[c][i].tid = t
    BY <2>2
  <2>3. ASSUME NEW t \in Threads, ring'[c][i] = [pid |-> Process[t], tid |-> Nobody] PROVE FALSE
    BY <1>4, <2>3
  <2>4. QED
    BY <2>1, <2>2, <2>3
<1>5. ExitPlaces'
  <2>1. SUFFICES ASSUME NEW c \in Cpus, NEW i \in 1 .. Len(ring'[c]), ring'[c][i].tid # Nobody
                 PROVE  c = Cpu[ring'[c][i].tid] /\ pc'[ring'[c][i].tid] \in {"exiting", "finished", "deleted"}
    BY DEF ExitPlaces
  <2>2. ASSUME NEW j \in 1 .. Len(ring[c]), ring'[c][i] = ring[c][j]
        PROVE  c = Cpu[ring'[c][i].tid] /\ pc'[ring'[c][i].tid] \in {"exiting", "finished", "deleted"}
    BY <1>1, <2>1, <2>2
  <2>3. ASSUME NEW t \in Threads, ExitThread(t), c = Cpu[t], ring'[c][i].tid = t
        PROVE  c = Cpu[ring'[c][i].tid] /\ pc'[ring'[c][i].tid] \in {"exiting", "finished", "deleted"}
    BY <1>2, <2>3
  <2>4. QED
    BY <1>4, <2>1, <2>2, <2>3
<1>6. ExitOnce'
  <2>1. SUFFICES ASSUME NEW c \in Cpus, NEW i \in 1 .. Len(ring'[c]), NEW j \in 1 .. Len(ring'[c]),
                        ring'[c][i].tid # Nobody, ring'[c][i].tid = ring'[c][j].tid
                 PROVE  i = j
    BY DEF ExitOnce
  <2>2. CASE ring' = ring
    BY <2>1, <2>2 DEF ExitInv, ExitOnce
  <2>3. ASSUME NEW t \in Threads, NEW tid \in {t, Nobody}, gc_queue(t, tid), ExitThread(t) \/ ExitProcess(t)
        PROVE  i = j
    <3>1. \A d \in Cpus : \A k \in 1 .. Len(ring'[d]) :
             \/ k \in 1 .. Len(ring[d]) /\ ring'[d][k] = ring[d][k]
             \/ /\ d = Cpu[t] /\ k = Len(ring[d]) + 1
                /\ ring'[d][k] = [pid |-> Process[t], tid |-> tid]
      BY <2>3, RingAppends, ZenonT(30)
    <3>2. ASSUME NEW k \in 1 .. Len(ring'[c])
          PROVE  \/ k \in 1 .. Len(ring[c]) /\ ring'[c][k] = ring[c][k] /\ ring'[c][k].tid # t
                 \/ k = Len(ring[c]) + 1 /\ ring'[c][k].tid = tid
      <4>1. CASE k \in 1 .. Len(ring[c]) /\ ring'[c][k] = ring[c][k]
        BY <1>3, <2>3, <4>1
      <4>2. CASE k = Len(ring[c]) + 1 /\ ring'[c][k] = [pid |-> Process[t], tid |-> tid]
        BY <4>2
      <4>3. QED
        BY <3>1, <4>1, <4>2
    <3>3. CASE ring'[c][i].tid = t
      BY <2>1, <3>2, <3>3
    <3>4. CASE ring'[c][i].tid # t
      <4>1. /\ i \in 1 .. Len(ring[c]) /\ ring'[c][i] = ring[c][i]
            /\ j \in 1 .. Len(ring[c]) /\ ring'[c][j] = ring[c][j]
        BY <2>1, <3>2, <3>4
      <4>2. QED
        BY <2>1, <4>1 DEF ExitInv, ExitOnce
    <3>5. QED
      BY <3>3, <3>4
  <2>4. ASSUME NEW d \in Cpus, pc[d] # "none", ring' = [ring EXCEPT ![d] = Tail(@)]
        PROVE  i = j
    <3>1. /\ \A e \in Cpus \ {d} : ring'[e] = ring[e]
          /\ \A k \in 1 .. Len(ring'[d]) : k + 1 \in 1 .. Len(ring[d]) /\ ring'[d][k] = ring[d][k + 1]
      BY <2>4, RingPops
    <3>2. CASE c # d
      BY <2>1, <3>1, <3>2 DEF ExitInv, ExitOnce
    <3>3. CASE c = d
      <4>0. /\ i + 1 \in 1 .. Len(ring[c]) /\ ring'[c][i] = ring[c][i + 1]
            /\ j + 1 \in 1 .. Len(ring[c]) /\ ring'[c][j] = ring[c][j + 1]
        BY <2>1, <3>1, <3>3
      <4>1. i + 1 = j + 1
        BY <2>1, <4>0 DEF ExitInv, ExitOnce
      <4>2. QED
        BY <4>1
    <3>4. QED
      BY <3>2, <3>3
  <2>5. QED
    BY <2>2, <2>3, <2>4, RingMoves
<1>7. HeadStopped'
  <2>1. SUFFICES ASSUME NEW c \in Cpus, pc'[c] # "none", Head(ring'[c]).tid # Nobody, pc'[Head(ring'[c]).tid] = "exiting"
                 PROVE  FALSE
    BY DEF HeadStopped, Victim
  <2>2. Head(ring'[c]) = Head(ring[c]) /\ ring[c] # <<>>
    <3>1. CASE pc[c] = "none"
      <4>1. ring' = ring /\ ring[c] # <<>>
        BY <2>1, <3>1, CollectorChanges DEF Peek
      <4>2. QED
        BY <4>1
    <3>2. CASE pc[c] # "none"
      <4>1. ring[c] # <<>>
        BY <3>2, CollectorObject
      <4>2. ASSUME NEW t \in Threads, NEW tid \in {t, Nobody}, gc_queue(t, tid)
            PROVE  Head(ring'[c]) = Head(ring[c])
        <5>1. \A d \in Cpus : ring[d] # <<>> => ring'[d] # <<>> /\ Head(ring'[d]) = Head(ring[d])
          BY <4>2, RingAppends
        <5>2. QED
          BY <4>1, <5>1
      <4>3. ASSUME NEW d \in Cpus, pc[d] # "none", ring' = [ring EXCEPT ![d] = Tail(@)],
                   Skip(d) \/ Remove(d) \/ gc_do_thread(d)
            PROVE  Head(ring'[c]) = Head(ring[c])
        <5>1. CASE d = c
          <6>1. ring[c] # Tail(ring[c])
            BY <4>1 DEF RoleInv, Typed
          <6>2. ring' # ring
            BY <4>3, <5>1, <6>1 DEF RoleInv, Typed
          <6>3. pc'[c] = "none"
            BY <1>0, <4>3, <5>1, <6>2 DEF Skip, Remove, gc_do_thread, gc_next, Goto, Halt, Actors
          <6>4. QED
            BY <2>1, <6>3
        <5>2. CASE d # c
          BY <4>3, <5>2 DEF RoleInv, Typed
        <5>3. QED
          BY <5>1, <5>2
      <4>4. QED
        BY <4>1, <4>2, <4>3, RingMoves
    <3>3. QED
      BY <3>1, <3>2
  <2>3. Head(ring[c]) = ring[c][1] /\ 1 \in 1 .. Len(ring[c])
    BY <2>2 DEF RoleInv, Typed
  <2> DEFINE t == ring[c][1].tid
  <2>4. t \in Threads /\ c = Cpu[t] /\ pc[t] = "exiting"
    BY <1>1, <2>1, <2>2, <2>3
  <2>5. CASE pc[c] # "none"
    BY <2>1, <2>2, <2>3, <2>4, <2>5 DEF ExitInv, HeadStopped, Victim
  <2>6. CASE pc[c] = "none"
    <3>1. Peek(c)
      BY <2>1, <2>6, CollectorChanges
    <3>2. \A u \in Threads \ {c} : Cpu[u] = c => pc[u] # "exiting"
      BY <3>1 DEF Peek, At, CpuOf, InterruptsOff
    <3>3. t # c
      BY <2>4, ActorAssumption
    <3>4. QED
      BY <2>4, <3>2, <3>3
  <2>7. QED
    BY <2>5, <2>6
<1>8. DeadGone'
  <2>1. SUFFICES ASSUME NEW c \in Cpus, NEW i \in 1 .. Len(ring'[c]), ring'[c][i].tid # Nobody,
                        pc'[ring'[c][i].tid] = "deleted"
                 PROVE  \/ \E d \in Cpus : pc'[d] \in {"kill", "remove"} /\ target'[d] = ring'[c][i].pid
                        \/ ring'[c][i].pid \notin table'
    BY DEF DeadGone, BeingDeleted
  <2>2. PICK j \in 1 .. Len(ring[c]) : ring'[c][i] = ring[c][j]
    BY <1>2, <1>4, <2>1
  <2>3. PICK t \in Threads, p \in Pids : t = ring[c][j].tid /\ p = ring[c][j].pid
    BY <1>1, <2>1, <2>2
  <2>4. t # Nobody /\ Process[t] = p /\ c = Cpu[t] /\ pc'[t] = "deleted" /\ pstate[p] \notin Unborn
    BY <1>1, <2>1, <2>2, <2>3 DEF Born
  <2>5. SUFFICES (\E d \in Cpus : pc'[d] \in {"kill", "remove"} /\ target'[d] = p) \/ p \notin table'
    BY <2>2, <2>3
  <2>6. CASE pc[t] = "deleted"
    <3>1. BeingDeleted(p) \/ p \notin table
      BY <2>3, <2>4, <2>6 DEF ExitInv, DeadGone
    <3>2. CASE BeingDeleted(p)
      <4>1. BeingDeleted(p)' \/ pstate'[p] = "deleted"
        BY <3>2, DoomStays
      <4>2. pstate'[p] = "deleted" => p \notin table'
        BY <1>0 DEF TableInv, TableBorn
      <4>3. QED
        BY <4>1, <4>2 DEF BeingDeleted
    <3>3. CASE p \notin table
      <4>1. \A u \in Threads : pc[u] = "insert" => target[u] # p
        BY <2>4 DEF TableInv, Inserting, Unborn
      <4>2. p \notin table'
        BY <3>3, <4>1, TableMoves
      <4>3. QED
        BY <4>2
    <3>4. QED
      BY <3>1, <3>2, <3>3
  <2>7. ASSUME NEW d \in Cpus, gc_do_thread(d), Victim(d) = t, pc[d] = "work", ring' = [ring EXCEPT ![d] = Tail(@)]
        PROVE  FALSE
    <3>1. ring[d][1].tid = t /\ 1 \in 1 .. Len(ring[d])
      BY <2>7, CollectorObject DEF Victim
    <3>2. d = c
      BY <1>1, <2>4, <3>1
    <3>3. \A k \in 1 .. Len(ring'[d]) : k + 1 \in 1 .. Len(ring[d]) /\ ring'[d][k] = ring[d][k + 1]
      BY <2>7, RingPops
    <3>4. i + 1 \in 1 .. Len(ring[c]) /\ ring[c][i + 1].tid = t
      BY <2>2, <2>3, <3>2, <3>3
    <3>5. i + 1 = 1
      BY <2>4, <3>1, <3>2, <3>4 DEF ExitInv, ExitOnce
    <3>6. QED
      BY <3>5
  <2>8. \/ pc[t] = "deleted"
        \/ \E d \in Cpus : gc_do_thread(d) /\ Victim(d) = t /\ pc[d] = "work" /\ ring' = [ring EXCEPT ![d] = Tail(@)]
        \/ \E d \in Cpus : pc'[d] = "kill" /\ target'[d] = Process[t]
    BY <2>4, ThreadChanges
  <2>9. QED
    BY <2>4, <2>6, <2>7, <2>8
<1>9. QED
  BY <1>5, <1>6, <1>7, <1>8 DEF ExitInv

-----------------------------------------------------------------------------
(* What the collector finds. *)

\* gc_do_thread finds the thread in its process, and finished.
LEMMA HeadFound ==
  ASSUME Inv, RoleInv, LockInv, ExitInv, NEW c \in Cpus, pc[c] = "work", Victim(c) # Nobody
  PROVE  Victim(c) \in members[target[c]] /\ pc[Victim(c)] = "finished"
<1>1. /\ 1 \in 1 .. Len(ring[c]) /\ Victim(c) = ring[c][1].tid /\ target[c] = ring[c][1].pid
      /\ target[c] \in Pids /\ Victim(c) \in Threads
  BY CollectorObject DEF Victim
<1>2. Process[Victim(c)] = target[c]
  BY <1>1 DEF RoleInv, EntriesOwn
<1>3. pc[Victim(c)] \in {"finished", "deleted"}
  BY <1>1 DEF ExitInv, ExitPlaces, HeadStopped
<1>4. c \in Actors /\ target[c] \in table /\ Writing(c)
  BY DEF Actors, Inv, Present, UsingPlaces, Writing, Holding, RoleInv, Typed
<1>5. ~BeingDeleted(target[c])
  <2>1. SUFFICES ASSUME NEW d \in Cpus, pc[d] \in {"kill", "remove"}, target[d] = target[c]
                 PROVE  FALSE
    BY DEF BeingDeleted
  <2>2. Writing(d) /\ d \in Actors
    BY <2>1, DeletersWrite
  <2>3. c = d
    BY <1>4, <2>1, <2>2, OneWriter
  <2>4. QED
    BY <2>1, <2>3
<1>6. pc[Victim(c)] # "deleted"
  BY <1>1, <1>4, <1>5 DEF ExitInv, DeadGone
<1>7. QED
  BY <1>1, <1>2, <1>3, <1>6 DEF RoleInv, Alive, Gone

-----------------------------------------------------------------------------
(* Every checkout has its commit. *)

Exact == \A a \in Actors : pc[a] # "deleted" => tableLock.readers[a] = Checkouts(a)

\* The writer of a process works on it.
WriterAt == \A p \in Pids : lock[p].writer # Nobody =>
               \/ pc[lock[p].writer] = "deleted"
               \/ target[lock[p].writer] = p /\ pc[lock[p].writer] \in Holding

CheckoutInv == Exact /\ WriterAt

Busy == UsingPlaces \cup Holding

\* A step that has nothing to do with the checkouts of actor a.
Aside(a) == \/ target'[a] = target[a] /\ (pc'[a] = pc[a] \/ pc'[a] = "deleted")
            \/ pc[a] \notin Busy \cup {"deleted"} /\ pc'[a] \notin Busy

\* Actor x goes on; what it does to the locks fits its new place.
LEMMA CheckoutMoves ==
  ASSUME CheckoutInv, lock' \in [Pids -> Locks], NEW x \in Actors,
         \A a \in Actors \ {x} : Aside(a) /\ tableLock'.readers[a] = tableLock.readers[a],
         pc'[x] # "deleted" => tableLock'.readers[x] = Checkouts(x)',
         \A p \in Pids : \/ lock'[p].writer = Nobody
                         \/ lock'[p].writer = x /\ target'[x] = p /\ pc'[x] \in Holding
                         \/ lock'[p].writer = lock[p].writer /\ lock[p].writer # x
  PROVE  CheckoutInv'
<1>1. Exact'
  <2>1. SUFFICES ASSUME NEW a \in Actors, pc'[a] # "deleted" PROVE tableLock'.readers[a] = Checkouts(a)'
    BY DEF Exact
  <2>2. CASE a = x
    BY <2>1, <2>2
  <2>3. CASE a # x
    <3>1. Aside(a) /\ tableLock'.readers[a] = tableLock.readers[a]
      BY <2>3
    <3>2. pc[a] # "deleted" /\ Checkouts(a)' = Checkouts(a)
      BY <2>1, <3>1 DEF Aside, Checkouts, Busy, UsingPlaces
    <3>3. QED
      BY <3>1, <3>2 DEF CheckoutInv, Exact
  <2>4. QED
    BY <2>2, <2>3
<1>2. WriterAt'
  <2>1. SUFFICES ASSUME NEW p \in Pids, NEW a, a = lock'[p].writer, a # Nobody
                 PROVE  pc'[a] = "deleted" \/ (target'[a] = p /\ pc'[a] \in Holding)
    BY DEF WriterAt
  <2>2. a \in Actors
    BY <2>1 DEF Locks
  <2>3. CASE a = x
    BY <2>1, <2>3
  <2>4. CASE a # x
    <3>1. a = lock[p].writer /\ Aside(a)
      BY <2>1, <2>2, <2>4
    <3>2. pc[a] = "deleted" \/ (target[a] = p /\ pc[a] \in Holding)
      BY <2>1, <3>1 DEF CheckoutInv, WriterAt
    <3>3. QED
      BY <3>1, <3>2 DEF Aside, Busy
  <2>5. QED
    BY <2>3, <2>4
<1>3. QED
  BY <1>1, <1>2 DEF CheckoutInv

\* Nobody's checkouts change.
LEMMA CheckoutsStay ==
  ASSUME CheckoutInv, lock' \in [Pids -> Locks], lock' = lock,
         tableLock'.readers = tableLock.readers, \A a \in Actors : Aside(a)
  PROVE  CheckoutInv'
<1>1. ASSUME NEW a \in Actors, pc'[a] # "deleted"
      PROVE  tableLock'.readers[a] = Checkouts(a)'
  <2>1. pc[a] # "deleted" /\ Checkouts(a)' = Checkouts(a)
    BY <1>1 DEF Aside, Checkouts, Busy, UsingPlaces
  <2>2. QED
    BY <2>1 DEF CheckoutInv, Exact
<1>2. ASSUME NEW p \in Pids, lock[p].writer # Nobody
      PROVE  LET a == lock[p].writer IN pc'[a] = "deleted" \/ (target'[a] = p /\ pc'[a] \in Holding)
  <2>1. lock[p].writer \in Actors
    BY <1>2 DEF Locks
  <2>2. pc[lock[p].writer] = "deleted" \/ (target[lock[p].writer] = p /\ pc[lock[p].writer] \in Holding)
    BY <1>2 DEF CheckoutInv, WriterAt
  <2>3. QED
    BY <2>1, <2>2 DEF Aside, Busy
<1>3. QED
  BY <1>1, <1>2 DEF CheckoutInv, Exact, WriterAt

\* After a release nobody writes.
LEMMA ReleasedWriter ==
  ASSUME NEW l \in Locks, NEW a
  PROVE  Release(l, a).writer = Nobody
BY DEF Locks, Release

\* The actor whose only checkout this is commits.
LEMMA CommitCheckouts ==
  ASSUME Inv, RoleInv, LockInv, CheckoutInv, lock' \in [Pids -> Locks], NEW x \in Actors, pc[x] = "work",
         commit_process(x, target[x]), pc'[x] \notin Busy \cup {"deleted"},
         \A a \in Actors \ {x} : Aside(a)
  PROVE  CheckoutInv'
<1> DEFINE p == target[x]
<1>1. p \in Pids /\ lock \in [Pids -> Locks] /\ tableLock \in Locks /\ tableLock.writer = Nobody
  BY HoldersTargets DEF LockInv, Inv, Shape, Counted
<1>2. tableLock.readers[x] = 1
  BY DEF CheckoutInv, Exact, Checkouts
<1>3. tableLock'.readers[x] = 0 /\ \A a \in Actors \ {x} : tableLock'.readers[a] = tableLock.readers[a]
  BY <1>1, <1>2, ReleaseFacts DEF commit_process
<1>4. Checkouts(x)' = 0
  BY DEF Checkouts, Busy, UsingPlaces
<1>5. Release(lock[p], x).writer = Nobody
  BY <1>1, ReleasedWriter
<1>6. ASSUME NEW q \in Pids
      PROVE  \/ lock'[q].writer = Nobody
             \/ lock'[q].writer = lock[q].writer /\ lock[q].writer # x
  <2>1. CASE q = p
    BY <1>1, <1>5, <2>1 DEF commit_process
  <2>2. CASE q # p
    <3>1. lock'[q] = lock[q]
      BY <1>1, <2>2 DEF commit_process
    <3>2. lock[q].writer = x => lock[q].writer = Nobody
      BY <2>2 DEF CheckoutInv, WriterAt
    <3>3. QED
      BY <3>1, <3>2
  <2>3. QED
    BY <2>1, <2>2
<1>7. QED
  BY <1>3, <1>4, <1>6, CheckoutMoves

\* checkout_process: the lock of the process.
LEMMA LockProcessCheckouts ==
  ASSUME Inv, RoleInv, LockInv, CheckoutInv, lock' \in [Pids -> Locks], NEW x \in Actors, LockProcess(x)
  PROVE  CheckoutInv'
<1>1. /\ target[x] \in Pids /\ lock \in [Pids -> Locks] /\ x # Nobody /\ pc[x] = "lock" /\ DOMAIN pc = Actors
      /\ tableLock' = tableLock /\ target' = target
  BY HoldersTargets, ActorAssumption DEF LockInv, Actors, LockProcess, At, RoleInv, Typed
<1>2. tableLock.readers[x] = 1
  BY <1>1 DEF CheckoutInv, Exact, Checkouts
<1>3. PICK l \in {Read(lock[target[x]], x), Write(lock[target[x]], x), Ask(lock[target[x]])} :
         /\ lock' = [lock EXCEPT ![target[x]] = l]
         /\ l = Write(lock[target[x]], x) => pc' = [pc EXCEPT ![x] = "work"]
         /\ pc' = pc \/ pc' = [pc EXCEPT ![x] = "work"]
  <2>1. CASE call[x] = "read"
    BY <2>1 DEF LockProcess, Goto
  <2>2. CASE pc' = [pc EXCEPT ![x] = "work"]
    BY <2>2 DEF LockProcess, Goto
  <2>3. CASE call[x] # "read" /\ pc' # [pc EXCEPT ![x] = "work"]
    <3>1. lock' = [lock EXCEPT ![target[x]] = Ask(lock[target[x]])] /\ pc' = pc /\ ~CanWrite(lock[target[x]])
      BY <2>3 DEF LockProcess, Goto
    <3>2. Ask(lock[target[x]]) # Write(lock[target[x]], x)
      <4>1. lock[target[x]] \in Locks
        BY <1>1
      <4>2. Write(lock[target[x]], x).writer = x /\ Ask(lock[target[x]]).writer = lock[target[x]].writer
        BY <4>1, WriterFacts, AskFacts
      <4>3. lock[target[x]].writer # x
        BY <1>1 DEF CheckoutInv, WriterAt, Holding
      <4>4. QED
        BY <4>2, <4>3
    <3>3. QED
      BY <3>1, <3>2
  <2>4. QED
    BY <2>1, <2>2, <2>3
<1>4. /\ pc'[x] \in {"lock", "work"}
      /\ l = Write(lock[target[x]], x) => pc'[x] = "work"
      /\ \A a \in Actors \ {x} : pc'[a] = pc[a]
  BY <1>1, <1>3
<1>5. Checkouts(x)' = 1
  BY <1>4 DEF Checkouts
<1>6. \A a \in Actors \ {x} : Aside(a)
  BY <1>1, <1>4 DEF Aside
<1>7. \A q \in Pids : lock[q].writer # x
  BY <1>1 DEF CheckoutInv, WriterAt, Holding
<1>8. /\ l.writer = lock[target[x]].writer \/ (l.writer = x /\ pc'[x] \in Holding)
      /\ lock'[target[x]] = l /\ \A q \in Pids \ {target[x]} : lock'[q] = lock[q]
  <2>1. lock[target[x]] \in Locks
    BY <1>1
  <2>2. QED
    BY <1>1, <1>3, <1>4, <2>1, ReadFacts, WriterFacts, AskFacts DEF Holding
<1>9. QED
  BY <1>1, <1>2, <1>5, <1>6, <1>7, <1>8, CheckoutMoves

\* The parent and the child are committed.
LEMMA CloneCheckouts ==
  ASSUME Inv, RoleInv, LockInv, Born, CheckoutInv, lock' \in [Pids -> Locks], NEW t \in Threads, Clone(t)
  PROVE  CheckoutInv'
<1> DEFINE p == target[t]
           q == Process[t]
           m == Release(tableLock, t)
<1>1. /\ p \in Pids /\ q \in Pids /\ t \in Actors /\ pc[t] = "clone" /\ lock \in [Pids -> Locks]
      /\ target' = target /\ tableLock \in Locks /\ tableLock.writer = Nobody
      /\ lock' = [lock EXCEPT ![p] = Release(@, t), ![q] = Release(@, t)]
      /\ tableLock' = Release(m, t) /\ new_thread(t, p)
  BY ProcessAssumption DEF LockInv, Actors, Clone, At, RoleInv, Typed, Inv, Shape, Counted
<1>2. tableLock.readers[t] = 2
  BY <1>1 DEF CheckoutInv, Exact, Checkouts
<1>3. /\ m \in Locks /\ m.writer = Nobody /\ m.readers[t] = 1
      /\ \A a \in Actors \ {t} : m.readers[a] = tableLock.readers[a]
  BY <1>1, <1>2, ReleaseFacts
<1> HIDE DEF m
<1>4. tableLock'.readers[t] = 0 /\ \A a \in Actors \ {t} : tableLock'.readers[a] = tableLock.readers[a]
  BY <1>1, <1>3, ReleaseFacts
<1>5. /\ pc'[t] = "leave"
      /\ \A a \in Actors \ {t} : pc'[a] = pc[a] \/ (pc[a] = "none" /\ pc'[a] = "new")
  <2>1. pc[t] \notin Gone
    BY <1>1 DEF Gone
  <2>2. QED
    BY <1>1, <2>1, NewThreadPlaces
<1>6. Checkouts(t)' = 0
  BY <1>5 DEF Checkouts
<1>7. \A a \in Actors \ {t} : Aside(a)
  BY <1>1, <1>5 DEF Aside, Busy, UsingPlaces, Holding
<1>8. ASSUME NEW r \in Pids
      PROVE  \/ lock'[r].writer = Nobody
             \/ lock'[r].writer = lock[r].writer /\ lock[r].writer # t
  <2>1. CASE r \notin {p, q}
    <3>1. lock'[r] = lock[r]
      BY <1>1, <2>1
    <3>2. lock[r].writer = t => lock[r].writer = Nobody
      BY <1>1, <2>1 DEF CheckoutInv, WriterAt
    <3>3. QED
      BY <3>1, <3>2
  <2>2. CASE r \in {p, q}
    <3>1. PICK l \in Locks : lock'[r] = Release(l, t)
      <4>1. p # q
        BY <1>1 DEF Born, RoleInv, OwnTarget
      <4>2. lock[p] \in Locks /\ lock[q] \in Locks /\ lock'[p] = Release(lock[p], t) /\ lock'[q] = Release(lock[q], t)
        BY <1>1, <4>1
      <4>3. QED
        BY <2>2, <4>2
    <3>2. QED
      BY <3>1, ReleasedWriter
  <2>3. QED
    BY <2>1, <2>2
<1>9. QED
  BY <1>1, <1>4, <1>5, <1>6, <1>7, <1>8, CheckoutMoves

\* The lock is gone with the process.
LEMMA RemoveCheckouts ==
  ASSUME Inv, RoleInv, LockInv, CheckoutInv, lock' \in [Pids -> Locks], NEW c \in Cpus, Remove(c)
  PROVE  CheckoutInv'
<1>1. /\ target[c] \in Pids /\ c \in Actors /\ pc[c] = "remove" /\ lock \in [Pids -> Locks]
      /\ target' = target /\ DOMAIN pc = Actors /\ lock' = [lock EXCEPT ![target[c]] = NewLock]
      /\ tableLock \in Locks /\ tableLock.writer = Nobody /\ tableLock' = Release(Write(tableLock, c), c)
  BY HoldersTargets DEF LockInv, Actors, Remove, At, RoleInv, Typed, Inv, Shape, Counted
<1>2. tableLock'.readers = tableLock.readers
  BY <1>1, WriteReleaseFacts
<1>3. tableLock.readers[c] = 0
  BY <1>1 DEF CheckoutInv, Exact, Checkouts
<1>4. pc'[c] = "none" /\ \A a \in Actors \ {c} : pc'[a] = pc[a]
  BY <1>1 DEF Remove, gc_next, Goto
<1>5. Checkouts(c)' = 0
  BY <1>4 DEF Checkouts
<1>6. \A a \in Actors \ {c} : Aside(a)
  BY <1>1, <1>4 DEF Aside
<1>7. ASSUME NEW q \in Pids
      PROVE  \/ lock'[q].writer = Nobody
             \/ lock'[q].writer = lock[q].writer /\ lock[q].writer # c
  <2>1. CASE q = target[c]
    BY <1>1, <2>1 DEF NewLock
  <2>2. CASE q # target[c]
    <3>1. lock'[q] = lock[q]
      BY <1>1, <2>2
    <3>2. lock[q].writer = c => lock[q].writer = Nobody
      BY <1>1, <2>2 DEF CheckoutInv, WriterAt
    <3>3. QED
      BY <3>1, <3>2
  <2>3. QED
    BY <2>1, <2>2
<1>8. QED
  BY <1>1, <1>2, <1>3, <1>5, <1>6, <1>7, CheckoutMoves

\* Actor x goes on with what it has: the locks of processes are left alone.
LEMMA GoOnCheckouts ==
  ASSUME Inv, LockInv, CheckoutInv, lock' = lock, NEW x \in Actors,
         DOMAIN pc = Actors, NEW place, pc' = [pc EXCEPT ![x] = place], target' = target,
         tableLock'.readers[x] = Checkouts(x)',
         \A a \in Actors \ {x} : tableLock'.readers[a] = tableLock.readers[a],
         pc[x] \notin Holding \cup {"deleted"} \/ place \in Holding, pc[x] # "deleted"
  PROVE  CheckoutInv'
<1>1. lock' \in [Pids -> Locks]
  BY DEF LockInv
<1>2. pc'[x] = place /\ \A a \in Actors \ {x} : Aside(a)
  BY DEF Aside
<1>3. ASSUME NEW p \in Pids, lock'[p].writer = x, x # Nobody
      PROVE  target'[x] = p /\ pc'[x] \in Holding
  BY <1>2, <1>3 DEF CheckoutInv, WriterAt
<1>4. QED
  BY <1>1, <1>2, <1>3, CheckoutMoves

\* Waking threads of a process up has nothing to do with their checkouts.
LEMMA WakeUpAside ==
  ASSUME RoleInv, NEW p \in Pids, NEW S \in SUBSET members[p], NEW x \in Actors, NEW place,
         \A u \in S : pc[u] \in Sleeping \cup {"new"},
         pc' = [WakeUp(pc, S) EXCEPT ![x] = place], target' = target
  PROVE  pc'[x] = place /\ \A a \in Actors \ {x} : Aside(a)
<1>1. /\ pc'[x] = place
      /\ \A a \in Actors \ {x} : pc'[a] = IF a \notin S THEN pc[a]
                                          ELSE IF pc[a] = "asleep" THEN "awake"
                                          ELSE IF pc[a] = "dozing" THEN "leave" ELSE "user"
  BY WakeUpPlaces
<1>2. QED
  BY <1>1 DEF Aside, Busy, UsingPlaces, Holding, Sleeping

\* Every step keeps the checkouts.
LEMMA CheckoutStep ==
  ASSUME Inv, RoleInv, Born, LockInv, TableInv, ExitInv, CheckoutInv, [Next]_vars
  PROVE  CheckoutInv'
<1> USE DEF processes, locks, Goto
<1>0. /\ DOMAIN pc = Actors /\ DOMAIN call = Actors /\ DOMAIN target = Actors /\ Threads \cap Cpus = {}
      /\ Threads \subseteq Actors /\ Cpus \subseteq Actors
      /\ {"new", "none", "find", "leave", "next", "user", "entry", "stuck", "asleep", "dozing", "finished",
          "insert", "list", "deleted", "awake", "sleep", "doze", "exiting"} \cap Busy = {}
  BY ActorAssumption DEF RoleInv, Typed, Actors, Busy, UsingPlaces, Holding
<1>1. /\ lock' \in [Pids -> Locks] /\ lock \in [Pids -> Locks]
      /\ tableLock \in Locks /\ tableLock.writer = Nobody
  BY LockInvStep DEF LockInv, Inv, Shape, Counted
<1>2. CASE UNCHANGED vars \/ Halt
  <2>1. UNCHANGED <<lock, tableLock, pc, target>>
    BY <1>2 DEF vars, Halt
  <2>2. \A a \in Actors : Aside(a)
    BY <2>1 DEF Aside
  <2>3. QED
    BY <1>1, <2>1, <2>2, CheckoutsStay
\* Actor x moves outside checkouts.
<1>3. ASSUME NEW x \in Actors, NEW place, place \notin Busy, pc' = [pc EXCEPT ![x] = place],
             pc[x] \notin Busy \cup {"deleted"},
             lock' = lock, tableLock'.readers = tableLock.readers, \A a \in Actors \ {x} : target'[a] = target[a]
      PROVE  CheckoutInv'
  <2>1. \A a \in Actors : Aside(a)
    BY <1>0, <1>3 DEF Aside
  <2>2. QED
    BY <1>1, <1>3, <2>1, CheckoutsStay
<1>4. ASSUME NEW t \in Threads, ~Halt, Enter(t) \/ Stop(t) \/ Expire(t) \/ Awake(t) \/ ListCall(t) \/ Insert(t)
      PROVE  CheckoutInv'
  <2>1. target' = target /\ lock' = lock
    BY <1>4 DEF Enter, Stop, Expire, Awake, ListCall, Insert
  <2>2. tableLock' = tableLock \/ tableLock' = Release(Write(tableLock, t), t)
    BY <1>4 DEF Enter, Stop, Expire, Awake, ListCall, Insert
  <2>3. tableLock'.readers = tableLock.readers
    BY <1>0, <1>1, <2>2, WriteReleaseFacts
  <2>4. \E place \in {"stuck", "entry", "asleep", "dozing", "finished", "leave", "find"} : pc' = [pc EXCEPT ![t] = place]
    BY <1>4 DEF Enter, Stop, Expire, Awake, ListCall, Insert
  <2>5. pc[t] \in {"user", "sleep", "doze", "exiting", "dozing", "awake", "list", "insert"}
    BY <1>4 DEF Enter, Stop, Expire, Awake, ListCall, Insert, At, InterruptsOff
  <2>6. QED
    BY <1>0, <1>3, <2>1, <2>3, <2>4, <2>5
<1>5. ASSUME NEW t \in Threads, Leave(t) \/ \E name \in Calls[t], p \in Pids : syscall(t, name, p)
      PROVE  CheckoutInv'
  <2>1. lock' = lock /\ tableLock' = tableLock /\ \A a \in Actors \ {t} : target'[a] = target[a]
    BY <1>0, <1>5 DEF Leave, Done, syscall
  <2>2. \E place \in {"user", "insert", "list", "find"} : pc' = [pc EXCEPT ![t] = place]
    BY <1>5 DEF Leave, Done, syscall
  <2>3. pc[t] \in {"leave", "entry"}
    BY <1>5 DEF Leave, syscall, At
  <2>4. QED
    BY <1>0, <1>3, <2>1, <2>2, <2>3
<1>6. ASSUME NEW t \in Threads, ~Halt, FindParent(t) PROVE CheckoutInv'
  <2>1. /\ target' = target /\ lock' = lock /\ pc[t] = "work" /\ pc' = [pc EXCEPT ![t] = "lock_parent"]
        /\ tableLock' = Read(tableLock, t)
    BY <1>6 DEF FindParent, Working, At
  <2>2. tableLock.readers[t] = 1
    BY <1>0, <2>1 DEF CheckoutInv, Exact, Checkouts
  <2>3. tableLock'.readers[t] = 2 /\ \A a \in Actors \ {t} : tableLock'.readers[a] = tableLock.readers[a]
    BY <1>0, <1>1, <2>1, <2>2, ReadFacts
  <2>4. Checkouts(t)' = 2 /\ "lock_parent" \in Holding
    BY <1>0, <2>1 DEF Checkouts, Holding
  <2>5. QED
    BY <1>0, <2>1, <2>3, <2>4, GoOnCheckouts
<1>7. ASSUME NEW t \in Threads, LockParent(t) PROVE CheckoutInv'
  <2>1. /\ target' = target /\ pc[t] = "lock_parent" /\ pc' = [pc EXCEPT ![t] = "clone"] /\ tableLock' = tableLock
        /\ lock' = [lock EXCEPT ![Process[t]] = Read(@, t)] /\ Process[t] \in Pids /\ t # Nobody
    BY <1>7, ProcessAssumption, ActorAssumption DEF LockParent, At
  <2>2. tableLock'.readers[t] = 2
    BY <1>0, <2>1 DEF CheckoutInv, Exact, Checkouts
  <2>3. Checkouts(t)' = 2 /\ pc'[t] \in Holding
    BY <1>0, <2>1 DEF Checkouts, Holding
  <2>4. \A a \in Actors \ {t} : Aside(a)
    BY <1>0, <2>1 DEF Aside
  <2>5. \A p \in Pids : lock'[p].writer = lock[p].writer
    <3>1. Read(lock[Process[t]], t).writer = lock[Process[t]].writer
      BY <1>0, <1>1, <2>1, ReadFacts
    <3>2. QED
      BY <1>1, <2>1, <3>1
  <2>6. \A p \in Pids : lock[p].writer = t => target[t] = p
    BY <2>1 DEF CheckoutInv, WriterAt
  <2>7. QED
    BY <1>0, <1>1, <2>1, <2>2, <2>3, <2>4, <2>5, <2>6, CheckoutMoves
<1>8. ASSUME NEW t \in Threads, ~Halt,
             \/ ReadCall(t) \/ SendCall(t) \/ StartCall(t) \/ SpawnCall(t) \/ ResumeCall(t)
             \/ SleepCall(t) \/ ExitThread(t) \/ ExitProcess(t)
      PROVE  CheckoutInv'
  <2>1. /\ pc[t] = "work" /\ target' = target /\ target[t] \in Pids
        /\ ExitThread(t) \/ ExitProcess(t) => target[t] = Process[t]
    BY <1>8 DEF ReadCall, SendCall, StartCall, SpawnCall, ResumeCall, SleepCall, ExitThread, ExitProcess,
                Working, At, RoleInv, OwnTarget, Typed
  <2>2. commit_process(t, target[t])
    BY <1>8, <2>1 DEF ReadCall, SendCall, StartCall, SpawnCall, ResumeCall, SleepCall, ExitThread, ExitProcess
  <2>3. pc'[t] \in {"leave", "sleep", "doze", "exiting"} /\ \A a \in Actors \ {t} : Aside(a)
    <3>1. CASE \E place \in {"leave", "sleep", "doze", "exiting"} : pc' = [pc EXCEPT ![t] = place]
      BY <1>0, <2>1, <3>1 DEF Aside
    <3>2. ASSUME NEW S \in SUBSET members[target[t]], \A u \in S : pc[u] \in Sleeping \cup {"new"},
                 pc' = [WakeUp(pc, S) EXCEPT ![t] = "leave"]
          PROVE  pc'[t] \in {"leave", "sleep", "doze", "exiting"} /\ \A a \in Actors \ {t} : Aside(a)
      <4>1. t \in Actors
        BY <1>0
      <4>2. pc'[t] = "leave" /\ \A a \in Actors \ {t} : Aside(a)
        BY <2>1, <3>2, <4>1, WakeUpAside
      <4>3. QED
        BY <4>2
    <3>3. CASE SendCall(t) \/ ResumeCall(t)
      <4>1. PICK S : /\ S \in {{}} \cup {{u} : u \in {v \in members[target[t]] : pc[v] \in Sleeping}}
                        \/ S \in {{}} \cup {{u} : u \in {v \in members[target[t]] : pc[v] \in Sleeping \cup {"new"}}}
                     /\ pc' = [WakeUp(pc, S) EXCEPT ![t] = "leave"]
        BY <3>3 DEF SendCall, ResumeCall
      <4>2. S \in SUBSET members[target[t]] /\ \A u \in S : pc[u] \in Sleeping \cup {"new"}
        BY <4>1
      <4>3. QED
        BY <3>2, <4>1, <4>2
    <3>4. CASE StartCall(t) /\ pstate[target[t]] = "INIT"
      <4>1. pc' = [WakeUp(pc, members[target[t]]) EXCEPT ![t] = "leave"]
        BY <1>8, <3>4 DEF StartCall
      <4>2. \A u \in members[target[t]] : pc[u] \in Sleeping \cup {"new"}
        BY <2>1, <3>4 DEF Born, Unborn, RoleInv, Alive, Gone, Typed
      <4>3. QED
        BY <3>2, <4>1, <4>2
    <3>5. CASE StartCall(t) /\ pstate[target[t]] # "INIT"
      BY <3>1, <3>5 DEF StartCall
    <3>6. CASE SpawnCall(t)
      <4>1. new_thread(t, target[t]) /\ pc[t] \notin Gone
        BY <2>1, <3>6 DEF SpawnCall, Gone
      <4>2. pc'[t] = "leave" /\ \A a \in Actors \ {t} : pc'[a] = pc[a] \/ (pc[a] = "none" /\ pc'[a] = "new")
        BY <1>0, <2>1, <4>1, NewThreadPlaces
      <4>3. QED
        BY <1>0, <2>1, <4>2 DEF Aside
    <3>7. CASE ReadCall(t) \/ SleepCall(t) \/ ExitThread(t) \/ ExitProcess(t)
      <4>1. \E place \in {"leave", "sleep", "doze", "exiting"} : pc' = [pc EXCEPT ![t] = place]
        BY <3>7 DEF ReadCall, SleepCall, ExitThread, ExitProcess
      <4>2. QED
        BY <3>1, <4>1
    <3>8. QED
      BY <1>8, <3>3, <3>4, <3>5, <3>6, <3>7
  <2>4. pc'[t] \notin Busy \cup {"deleted"}
    BY <1>0, <2>3
  <2>5. QED
    BY <1>0, <1>1, <2>1, <2>2, <2>3, <2>4, CommitCheckouts
<1>9. ASSUME NEW c \in Cpus, CollectorStep(c), ~Halt PROVE CheckoutInv'
  <2>1. CASE Peek(c) \/ Skip(c)
    <3>1. lock' = lock /\ tableLock' = tableLock /\ \A a \in Actors \ {c} : target'[a] = target[a]
      BY <1>0, <2>1 DEF Peek, Skip
    <3>2. pc[c] \in {"none", "next"} /\ \E place \in {"find", "none"} : pc' = [pc EXCEPT ![c] = place]
      BY <2>1 DEF Peek, Skip, gc_next, At
    <3>3. QED
      BY <1>0, <1>3, <3>1, <3>2
  <2>2. CASE gc_do_thread(c)
    <3>1. /\ pc[c] = "work" /\ Victim(c) # Nobody
      BY <2>2 DEF gc_do_thread, At
    <3>2. Victim(c) \in members[target[c]]
      BY <3>1, HeadFound
    <3>3. /\ commit_process(c, target[c]) /\ target' = target
          /\ pc' = [pc EXCEPT ![Victim(c)] = "deleted", ![c] = "none"]
      BY <1>9, <2>2, <3>2 DEF gc_do_thread
    <3>4. pc'[c] = "none" /\ \A a \in Actors \ {c} : Aside(a)
      BY <1>0, <3>3 DEF Aside
    <3>5. pc'[c] \notin Busy \cup {"deleted"}
      BY <1>0, <3>4
    <3>6. QED
      BY <1>0, <1>1, <3>1, <3>3, <3>4, <3>5, CommitCheckouts
  <2>3. CASE gc_do_process(c) /\ kernel_threads[target[c]] # 0
    <3>1. /\ pc[c] = "work" /\ commit_process(c, target[c]) /\ target' = target
          /\ \E S \in SUBSET {t \in members[target[c]] : pc[t] \in Sleeping} :
                pc' = [WakeUp(pc, S) EXCEPT ![c] = "find"]
      BY <1>9, <2>3 DEF gc_do_process, At
    <3>2. PICK S \in SUBSET {t \in members[target[c]] : pc[t] \in Sleeping} :
             pc' = [WakeUp(pc, S) EXCEPT ![c] = "find"]
      BY <3>1
    <3>3. S \in SUBSET members[target[c]] /\ \A u \in S : pc[u] \in Sleeping \cup {"new"}
      BY <3>2
    <3>4. target[c] \in Pids
      BY <3>1, CollectorObject
    <3>5. pc'[c] = "find" /\ \A a \in Actors \ {c} : Aside(a)
      BY <1>0, <3>1, <3>2, <3>3, <3>4, WakeUpAside
    <3>6. pc'[c] \notin Busy \cup {"deleted"}
      BY <1>0, <3>5
    <3>7. QED
      BY <1>0, <1>1, <3>1, <3>5, <3>6, CommitCheckouts
  <2>4. CASE gc_do_process(c) /\ kernel_threads[target[c]] = 0
    <3>1. /\ lock' = lock /\ tableLock' = tableLock /\ target' = target /\ pc[c] = "work"
          /\ pc' = [pc EXCEPT ![c] = "kill"]
      BY <1>9, <2>4 DEF gc_do_process, At
    <3>2. Checkouts(c) = 1 /\ Checkouts(c)' = 1 /\ "kill" \in Holding
      BY <1>0, <3>1 DEF Checkouts, Holding
    <3>3. tableLock.readers[c] = 1
      BY <1>0, <3>1, <3>2 DEF CheckoutInv, Exact
    <3>4. QED
      BY <1>0, <3>1, <3>2, <3>3, GoOnCheckouts
  <2>5. CASE ReleaseTable(c)
    <3>1. /\ lock' = lock /\ target' = target /\ pc[c] = "kill" /\ tableLock' = Release(tableLock, c)
          /\ pc' = [pc EXCEPT ![c] = "remove"]
      BY <2>5 DEF ReleaseTable, At
    <3>2. Checkouts(c) = 1 /\ Checkouts(c)' = 0 /\ "remove" \in Holding
      BY <1>0, <3>1 DEF Checkouts, Holding
    <3>3. tableLock.readers[c] = 1
      BY <1>0, <3>1, <3>2 DEF CheckoutInv, Exact
    <3>4. tableLock'.readers[c] = 0 /\ \A a \in Actors \ {c} : tableLock'.readers[a] = tableLock.readers[a]
      BY <1>0, <1>1, <3>1, <3>3, ReleaseFacts
    <3>5. QED
      BY <1>0, <3>1, <3>2, <3>4, GoOnCheckouts
  <2>6. CASE Kill(c)
    <3>1. PICK t : pc' = [pc EXCEPT ![t] = "deleted"] /\ lock' = lock /\ tableLock' = tableLock /\ target' = target
      BY <1>9, <2>6 DEF Kill
    <3>2. \A a \in Actors : Aside(a)
      BY <1>0, <3>1 DEF Aside
    <3>3. QED
      BY <1>1, <3>1, <3>2, CheckoutsStay
  <2>7. CASE Remove(c)
    BY <1>1, <2>7, RemoveCheckouts
  <2>8. QED
    BY <1>9, <2>1, <2>2, <2>3, <2>4, <2>5, <2>6, <2>7 DEF CollectorStep
<1>10. ASSUME NEW a \in Actors, LockStep(a), ~Halt PROVE CheckoutInv'
  <2>1. CASE Find(a) /\ target[a] \in table
    <3>1. /\ lock' = lock /\ target' = target /\ pc[a] = "find" /\ tableLock' = Read(tableLock, a)
          /\ pc' = [pc EXCEPT ![a] = "lock"]
      BY <2>1 DEF Find, At
    <3>2. Checkouts(a) = 0 /\ Checkouts(a)' = 1 /\ "find" \notin Holding
      BY <1>0, <3>1 DEF Checkouts, Holding
    <3>3. tableLock.readers[a] = 0
      BY <1>0, <3>1, <3>2 DEF CheckoutInv, Exact
    <3>4. tableLock'.readers[a] = 1 /\ \A b \in Actors \ {a} : tableLock'.readers[b] = tableLock.readers[b]
      BY <1>0, <1>1, <3>1, <3>3, ReadFacts
    <3>5. QED
      BY <1>0, <3>1, <3>2, <3>4, GoOnCheckouts
  <2>2. CASE Find(a) /\ target[a] \notin table
    <3>1. /\ lock' = lock /\ target' = target /\ pc[a] = "find" /\ tableLock' = tableLock
          /\ pc' = [pc EXCEPT ![a] = Missing(a)]
      BY <1>10, <2>2 DEF Find, At
    <3>2. Missing(a) \in {"next", "leave"}
      BY DEF Missing
    <3>3. QED
      BY <1>0, <1>3, <3>1, <3>2
  <2>3. CASE LockProcess(a)
    BY <1>1, <2>3, LockProcessCheckouts
  <2>4. CASE AskForTable(a)
    <3>1. UNCHANGED <<lock, pc, target>> /\ tableLock' = Ask(tableLock)
      BY <2>4 DEF AskForTable
    <3>2. tableLock'.readers = tableLock.readers
      BY <1>1, <3>1, AskFacts
    <3>3. \A b \in Actors : Aside(b)
      BY <3>1 DEF Aside
    <3>4. QED
      BY <1>1, <3>1, <3>2, <3>3, CheckoutsStay
  <2>5. QED
    BY <1>10, <2>1, <2>2, <2>3, <2>4 DEF LockStep
<1>11. ASSUME NEW t \in Threads, Clone(t) PROVE CheckoutInv'
  BY <1>1, <1>11, CloneCheckouts
<1>12. QED
  BY <1>2, <1>4, <1>5, <1>6, <1>7, <1>8, <1>9, <1>10, <1>11 DEF Next, ThreadStep, CallStep

-----------------------------------------------------------------------------
(* Nothing dead is forgotten. *)

\* An object stays in the rings until its collector goes on to the next one.
LEMMA QueuedStays ==
  ASSUME RoleInv, [Next]_vars, NEW p, NEW tid, Queued(p, tid)
  PROVE  \/ Queued(p, tid)'
         \/ \E c \in Cpus : /\ Skip(c) \/ Remove(c) \/ gc_do_thread(c)
                            /\ pc[c] # "none" /\ target[c] = p /\ Victim(c) = tid
<1> DEFINE e == [pid |-> p, tid |-> tid]
<1>1. PICK d \in Cpus, i \in Nat : i \in 1 .. Len(ring[d]) /\ ring[d][i] = e
  BY DEF Queued, RoleInv, Typed
<1>2. RoleInv'
  BY RoleStep
<1>3. ASSUME NEW k \in 1 .. Len(ring'[d]), ring'[d][k] = e
      PROVE  Queued(p, tid)'
  <2>1. ring'[d] \in Seq(Entries)
    BY <1>2 DEF RoleInv, Typed
  <2>2. k \in DOMAIN ring'[d]
    BY <2>1
  <2>3. QED
    BY <1>3, <2>2 DEF Queued
<1> HIDE DEF e
<1>4. CASE ring' = ring
  BY <1>1, <1>3, <1>4
<1>5. ASSUME NEW t \in Threads, NEW u \in {t, Nobody}, gc_queue(t, u)
      PROVE  Queued(p, tid)'
  <2>1. \A c \in Cpus : \A k \in 1 .. Len(ring[c]) : k \in 1 .. Len(ring'[c]) /\ ring'[c][k] = ring[c][k]
    BY <1>5, RingAppends
  <2>2. QED
    BY <1>1, <1>3, <2>1
<1>6. ASSUME NEW c \in Cpus, Skip(c) \/ Remove(c) \/ gc_do_thread(c), pc[c] # "none",
             ring' = [ring EXCEPT ![c] = Tail(@)]
      PROVE  Queued(p, tid)' \/ (target[c] = p /\ Victim(c) = tid)
  <2>1. /\ \A b \in Cpus \ {c} : ring'[b] = ring[b]
        /\ \A j \in 1 .. Len(ring[c]) :
              j = 1 \/ (j - 1 \in 1 .. Len(ring'[c]) /\ ring'[c][j - 1] = ring[c][j])
    BY <1>6, RingPops
  <2>2. CASE d # c
    BY <1>1, <1>3, <2>1, <2>2
  <2>3. CASE d = c /\ i # 1
    BY <1>1, <1>3, <2>1, <2>3
  <2>4. CASE d = c /\ i = 1
    <3>1. Head(ring[c]) = e /\ target[c] = Head(ring[c]).pid
      BY <1>1, <1>6, <2>4, CollectorObject
    <3>2. QED
      BY <3>1 DEF e, Victim
  <2>5. QED
    BY <2>2, <2>3, <2>4
<1>7. QED
  BY <1>4, <1>5, <1>6, RingMoves

\* Every step keeps the dead in the rings.
LEMMA QueuedStep ==
  ASSUME Inv, RoleInv, Born, LockInv, TableInv, ExitInv, DeadAreQueued, [Next]_vars
  PROVE  DeadAreQueued'
<1>0. RoleInv' /\ TableInv' /\ Nobody \notin Threads /\ DOMAIN pstate = Pids /\ DOMAIN pc = Actors
      /\ Threads \subseteq Actors /\ Cpus \subseteq Actors
  BY RoleStep, TableStep, ActorAssumption DEF Born, RoleInv, Typed, Actors
<1> SUFFICES ASSUME NEW p \in table'
             PROVE  /\ pstate'[p] = "FINISHING" => Queued(p, Nobody)'
                    /\ \A t \in members'[p] : pc'[t] \in {"exiting", "finished"}
                                                => Queued(p, t)' \/ Queued(p, Nobody)'
  BY DEF DeadAreQueued
<1>1. p \in Pids
  BY <1>0 DEF TableInv, TableBorn
\* Who goes on to the next object has done its work.
<1>2. ASSUME NEW c \in Cpus, Skip(c) \/ Remove(c), target[c] = p, p \in table
      PROVE  FALSE
  <2>1. CASE Skip(c)
    <3>1. pc[c] = "next"
      BY <2>1 DEF Skip, At
    <3>2. QED
      BY <1>2, <3>1 DEF TableInv, Deleting
  <2>2. CASE Remove(c)
    BY <1>2, <2>2 DEF Remove
  <2>3. QED
    BY <1>2, <2>1, <2>2
<1>3. ASSUME p \in table, Queued(p, Nobody)
      PROVE  Queued(p, Nobody)'
  <2>1. \A c \in Cpus : gc_do_thread(c) => Victim(c) # Nobody
    BY DEF gc_do_thread
  <2>2. QED
    BY <1>2, <1>3, <2>1, QueuedStays
\* What an exit puts into a ring is there.
<1>4. ASSUME NEW t \in Threads, NEW tid \in {t, Nobody}, gc_queue(t, tid)
      PROVE  Queued(Process[t], tid)'
  <2>1. /\ ring' \in [Cpus -> Seq(Entries)] /\ Cpu[t] \in Cpus
        /\ Len(ring[Cpu[t]]) + 1 \in 1 .. Len(ring'[Cpu[t]])
        /\ ring'[Cpu[t]][Len(ring[Cpu[t]]) + 1] = [pid |-> Process[t], tid |-> tid]
    <3>1. gc_queue(t, tid) /\ tid \in {t, Nobody}
      BY <1>4
    <3>2. ring' \in [Cpus -> Seq(Entries)] /\ Cpu[t] \in Cpus
      BY <3>1, RingAppends, ZenonT(30)
    <3>3. Len(ring[Cpu[t]]) + 1 \in 1 .. Len(ring'[Cpu[t]])
      BY <3>1, RingAppends, ZenonT(30)
    <3>4. ring'[Cpu[t]][Len(ring[Cpu[t]]) + 1] = [pid |-> Process[t], tid |-> tid]
      BY <3>1, RingAppends, ZenonT(30)
    <3> QED BY <3>2, <3>3, <3>4
  <2>2. ring'[Cpu[t]] \in Seq(Entries)
    BY <2>1
  <2>3. Len(ring[Cpu[t]]) + 1 \in DOMAIN ring'[Cpu[t]]
    BY <2>1, <2>2
  <2>4. QED
    BY <2>1, <2>3 DEF Queued
<1>5. ASSUME pstate'[p] = "FINISHING" PROVE Queued(p, Nobody)'
  <2>1. CASE pstate[p] = "FINISHING"
    <3>1. p \in table
      <4>1. \A t \in Threads : pc[t] = "insert" => target[t] # p
        BY <2>1 DEF TableInv, Inserting
      <4>2. QED
        BY <4>1, TableMoves
    <3>2. QED
      BY <1>3, <2>1, <3>1 DEF DeadAreQueued
  <2>2. CASE pstate[p] # "FINISHING"
    <3>1. \E t \in Threads : ExitProcess(t) /\ Process[t] = p
      BY <1>0, <1>1, <1>5, <2>2, StateMoves
    <3>2. QED
      BY <1>4, <3>1 DEF ExitProcess
  <2>3. QED
    BY <2>1, <2>2
<1>6. ASSUME NEW t \in members'[p], pc'[t] \in {"exiting", "finished"}
      PROVE  Queued(p, t)' \/ Queued(p, Nobody)'
  <2>1. t \in Threads /\ Process[t] = p
    BY <1>0, <1>1, <1>6 DEF RoleInv, Alive, Typed
  <2>2. \/ pc[t] \in {"exiting", "finished"}
        \/ ExitThread(t) \/ ExitProcess(t)
    BY <1>6, <2>1, ThreadChanges
  <2>3. CASE ExitThread(t) \/ ExitProcess(t)
    BY <1>4, <2>1, <2>3 DEF ExitThread, ExitProcess
  <2>4. CASE pc[t] \in {"exiting", "finished"}
    <3>1. t \in members[p] /\ p \in table
      BY <1>1, <2>1, <2>4 DEF RoleInv, Alive, TableInv, AliveInTable, Gone
    <3>2. ASSUME NEW c \in Cpus, gc_do_thread(c), Victim(c) = t
          PROVE  FALSE
      <4>1. pc[c] = "work" /\ Victim(c) # Nobody
        BY <3>2 DEF gc_do_thread, At
      <4>2. Victim(c) \in members[target[c]] /\ pc[Victim(c)] = "finished"
        BY <4>1, HeadFound
      <4>3. pc' = [pc EXCEPT ![t] = "deleted", ![c] = "none"]
        BY <3>2, <4>2 DEF gc_do_thread
      <4>4. t # c
        BY <2>1, ActorAssumption
      <4>5. QED
        BY <1>0, <1>6, <2>1, <4>3, <4>4
    <3>3. CASE Queued(p, t)
      BY <1>2, <3>1, <3>2, <3>3, QueuedStays
    <3>4. QED
      BY <1>3, <2>4, <3>1, <3>3 DEF DeadAreQueued
  <2>5. QED
    BY <2>2, <2>3, <2>4
<1>7. QED
  BY <1>5, <1>6

-----------------------------------------------------------------------------
(* The inductive invariant of the whole life cycle. *)

LifeInv == /\ Inv /\ RoleInv /\ Born /\ LockInv /\ TableInv
           /\ KernelInv /\ KillQuiet /\ ExitInv /\ CheckoutInv /\ DeadAreQueued

\* At the beginning the first threads run in user mode and the rings are empty.
LEMMA InitLife == Init => LifeInv
<1> SUFFICES ASSUME Init PROVE LifeInv
  OBVIOUS
<1>1. /\ \A a \in Actors : pc[a] = (IF a \in Initial THEN "user" ELSE "none") /\ call[a] = "none"
      /\ DOMAIN pc = Actors /\ DOMAIN call = Actors /\ DOMAIN target = Actors
      /\ \A c \in Cpus : pc[c] = "none" /\ call[c] = "none" /\ ring[c] = <<>> /\ Len(ring[c]) = 0
      /\ \A t \in Threads : /\ t \in Actors /\ call[t] = "none" /\ target[t] = Process[t] /\ Process[t] \in Pids
                            /\ pc[t] = IF t \in Initial THEN "user" ELSE "none"
      /\ Initial \subseteq Threads
  BY ProcessAssumption, ActorAssumption DEF Init, Actors, Own
<1>2. /\ table = {Process[t] : t \in Initial}
      /\ pstate = [p \in Pids |-> IF p \in table THEN "RUNNING" ELSE "unborn"]
      /\ members = [p \in Pids |-> {t \in Initial : Process[t] = p}]
      /\ kernel_threads = [p \in Pids |-> 0] /\ ring = [c \in Cpus |-> <<>>]
      /\ tableLock = NewLock /\ lock = [p \in Pids |-> NewLock]
  BY DEF Init
<1>3. RoleInv
  <2>1. ring \in [Cpus -> Seq(Entries)]
    BY <1>2
  <2>2. members \in [Pids -> SUBSET Threads]
    BY <1>1, <1>2
  <2>3. Typed
    BY <1>1, <2>1, <2>2 DEF Typed, CollectorPlaces, ThreadPlaces, Places
  <2>4. EntriesOwn
    BY <1>1 DEF EntriesOwn
  <2>5. Alive
    BY <1>1, <1>2 DEF Alive, Gone
  <2>6. QED
    BY <1>1, <2>3, <2>4, <2>5 DEF RoleInv, OwnTarget, Heads
<1>4. Born
  BY <1>1, <1>2 DEF Born, States, Unborn
<1>5. NewLock \in Locks /\ NewLock.writer = Nobody /\ \A a \in Actors : NewLock.readers[a] = 0
  BY DEF NewLock, Locks
<1>6. LockInv
  BY <1>1, <1>2, <1>5 DEF LockInv, Excluded, WritersHave, ReadersHave, Writing, Reading, Holding
<1>7. TableInv
  <2>1. TableBorn
    BY <1>1, <1>2 DEF TableBorn
  <2>2. QED
    BY <1>1, <1>2, <2>1 DEF TableInv, Inserting, Deleting, AliveInTable, EntriesFinish, Gone
<1>8. KernelInv
  <2>1. ASSUME NEW p \in Pids
        PROVE  IsFiniteSet(InKernel(p)) /\ Cardinality(InKernel(p)) = 0
    <3>1. {"user", "none"} \cap Kernel = {}
      BY DEF Kernel, Inside, Checkout, InterruptsOff
    <3>2. \A t \in members[p] : pc[t] \in {"user", "none"}
      BY <1>1, <1>2, <2>1
    <3>3. InKernel(p) = {}
      BY <3>1, <3>2 DEF InKernel
    <3>4. QED
      BY <3>3, FS_EmptySet
  <2>2. QED
    BY <1>2, <2>1 DEF KernelInv
<1>9. KillQuiet /\ ExitInv
  BY <1>1 DEF KillQuiet, ExitInv, ExitPlaces, ExitOnce, HeadStopped, DeadGone
<1>10. CheckoutInv
  BY <1>1, <1>2, <1>5 DEF CheckoutInv, Exact, WriterAt, Checkouts
<1>11. DeadAreQueued
  BY <1>1, <1>2 DEF DeadAreQueued
<1>12. QED
  BY <1>3, <1>4, <1>6, <1>7, <1>8, <1>9, <1>10, <1>11, InitInv DEF LifeInv

\* Every step of the kernel keeps it.
LEMMA NextLife == LifeInv /\ [Next]_vars => LifeInv'
<1> SUFFICES ASSUME LifeInv, [Next]_vars PROVE LifeInv'
  OBVIOUS
<1>1. /\ Inv /\ RoleInv /\ Born /\ LockInv /\ TableInv
      /\ KernelInv /\ KillQuiet /\ ExitInv /\ CheckoutInv /\ DeadAreQueued
  BY DEF LifeInv
<1>2. Inv' /\ RoleInv' /\ Born' /\ LockInv'
  BY <1>1, NextInv, RoleStep, BornStep, LockInvStep
<1>3. TableInv' /\ KernelInv' /\ KillQuiet'
  BY <1>1, TableStep, KernelStep, KillQuietStep
<1>4. ExitInv' /\ CheckoutInv' /\ DeadAreQueued'
  BY <1>1, ExitStep, CheckoutStep, QueuedStep
<1>5. QED
  BY <1>2, <1>3, <1>4 DEF LifeInv

\* Every checkout has its commit, on every path of every system call and of the
\* collector: the table is read-locked exactly once for each checkout an actor is
\* inside of, and the writer of a process works on it (checkout_process and
\* commit_process, process.c).  gc_do_thread never returns with the process still
\* checked out, although the code has such a path.
THEOREM CheckoutsCommitted == Spec => []CheckoutsMatch
<1>1. LifeInv => CheckoutsMatch
  <2> SUFFICES ASSUME LifeInv PROVE CheckoutsMatch
    OBVIOUS
  <2>1. CheckoutInv /\ tableLock.writer = Nobody
    BY DEF LifeInv, Inv, Counted
  <2>2. Nobody \notin Actors
    BY ActorAssumption DEF Actors
  <2>3. QED
    BY <2>1, <2>2 DEF CheckoutInv, Exact, WriterAt, CheckoutsMatch, Holding
<1>2. QED
  BY InitLife, NextLife, <1>1, PTL DEF Spec

\* The kernel_threads of a process is exactly the number of its threads that are
\* inside the kernel (syscall, go_dormant and the exits count in and out), until the
\* collector has read it as zero: it neither waits forever nor too short.
THEOREM KernelThreadsCounted == Spec => []KernelThreadsExact
<1>1. LifeInv => KernelThreadsExact
  <2> SUFFICES ASSUME LifeInv, NEW p \in table, ~BeingDeleted(p)
               PROVE  kernel_threads[p] = Cardinality({t \in members[p] : pc[t] \in Inside \ {"exiting"}})
    BY DEF KernelThreadsExact
  <2>1. p \in Pids /\ pstate[p] # "deleted" /\ KernelInv
    BY DEF LifeInv, TableInv, TableBorn
  <2>2. kernel_threads[p] = Cardinality(InKernel(p))
    BY <2>1 DEF KernelInv
  <2>3. QED
    BY <2>2 DEF InKernel, Kernel
<1>2. QED
  BY InitLife, NextLife, <1>1, PTL DEF Spec

\* None of the assertions in the paths of the collector and of the calls on the own
\* process can fail (gc_do_thread, gc_do_process, set_thread_state, insert_process,
\* exec): a thread in a ring is found and finished, a process in a ring is finishing,
\* a thread with a timer is not deleted, and the process of a living thread is there.
THEOREM AssertionsHold == Spec => []CollectorAssertions
<1>1. LifeInv => CollectorAssertions
  <2> SUFFICES ASSUME LifeInv PROVE CollectorAssertions
    OBVIOUS
  <2>1. Inv /\ RoleInv /\ LockInv /\ TableInv /\ KillQuiet /\ ExitInv
    BY DEF LifeInv
  <2>2. \A t \in Threads : pc[t] \notin {"none", "deleted"} => Process[t] \in table
    BY <2>1 DEF TableInv, AliveInTable, Gone
  <2>3. ASSUME NEW c \in Cpus, pc[c] = "work", Victim(c) # Nobody
        PROVE  Victim(c) \in members[target[c]] /\ pc[Victim(c)] = "finished"
    BY <2>1, <2>3, HeadFound
  <2>4. ASSUME NEW c \in Cpus, pc[c] = "work", Victim(c) = Nobody
        PROVE  pstate[target[c]] = "FINISHING"
    <3>1. /\ 1 \in 1 .. Len(ring[c]) /\ ring[c][1].tid = Nobody /\ ring[c][1].pid = target[c]
      BY <2>1, <2>4, CollectorObject DEF Victim
    <3>2. pstate[target[c]] \in {"FINISHING", "deleted"}
      BY <2>1, <3>1 DEF TableInv, EntriesFinish
    <3>3. target[c] \in table
      BY <2>1, <2>4 DEF Inv, Present, UsingPlaces, Actors
    <3>4. QED
      BY <2>1, <3>2, <3>3 DEF TableInv, TableBorn
  <2>5. ASSUME NEW c \in Cpus, pc[c] = "kill"
        PROVE  \A t \in members[target[c]] : pc[t] # "dozing"
    BY <2>1, <2>5 DEF KillQuiet
  <2>6. QED
    BY <2>2, <2>3, <2>4, <2>5 DEF CollectorAssertions
<1>2. QED
  BY InitLife, NextLife, <1>1, PTL DEF Spec

\* Nothing dead is forgotten: a process that is finishing, and a finished thread of a
\* process, stay in the ring of a collector until they are deleted (gc_queue before
\* every exit, gc_next only after the work), however full the rings are.
THEOREM DeadStayQueued == Spec => []DeadAreQueued
<1>1. LifeInv => DeadAreQueued
  BY DEF LifeInv
<1>2. QED
  BY InitLife, NextLife, <1>1, PTL DEF Spec

-----------------------------------------------------------------------------
(* Types. *)

PlacesTyped == pc \in [Actors -> Places]
TargetsTyped == target \in [Actors -> Pids]

\* Every step keeps actors at places.
LEMMA PlacesStep ==
  ASSUME PlacesTyped, [Next]_vars
  PROVE  PlacesTyped'
<1> USE DEF Goto
<1>0. {"new", "none", "find", "lock", "work", "leave", "next", "user", "entry", "stuck", "asleep", "dozing",
       "finished", "insert", "list", "deleted", "awake", "sleep", "doze", "exiting", "kill", "remove",
       "lock_parent", "clone"} \subseteq Places
  BY DEF Places, Inside, Checkout, InterruptsOff, Sleeping
<1>1. ASSUME NEW x, NEW place \in Places, pc' = [pc EXCEPT ![x] = place]
      PROVE  PlacesTyped'
  BY <1>1 DEF PlacesTyped
<1>2. ASSUME NEW x, NEW y, NEW v \in Places, NEW w \in Places, pc' = [pc EXCEPT ![x] = v, ![y] = w]
      PROVE  PlacesTyped'
  BY <1>2 DEF PlacesTyped
<1>3. ASSUME NEW x, NEW S, NEW place \in Places, pc' = [WakeUp(pc, S) EXCEPT ![x] = place]
      PROVE  PlacesTyped'
  <2>1. WakeUp(pc, S) \in [Actors -> Places]
    BY <1>0 DEF WakeUp, PlacesTyped
  <2>2. QED
    BY <1>3, <2>1 DEF PlacesTyped
<1>4. CASE UNCHANGED vars \/ Halt
  BY <1>4 DEF vars, Halt, PlacesTyped
<1>5. ASSUME NEW t \in Threads, ThreadStep(t), ~Halt PROVE PlacesTyped'
  <2>1. CASE \/ Enter(t) \/ Leave(t) \/ Stop(t) \/ Expire(t) \/ Awake(t) \/ ReadCall(t) \/ SleepCall(t)
             \/ ExitThread(t) \/ ExitProcess(t) \/ ListCall(t) \/ Insert(t) \/ FindParent(t) \/ LockParent(t)
             \/ \E name \in Calls[t], p \in Pids : syscall(t, name, p)
    <3>1. \E place \in {"stuck", "entry", "user", "asleep", "dozing", "finished", "leave", "sleep", "doze",
                        "exiting", "find", "lock_parent", "clone", "insert", "list"} : pc' = [pc EXCEPT ![t] = place]
      BY <1>5, <2>1 DEF Enter, Leave, Done, Stop, Expire, Awake, ReadCall, SleepCall, ExitThread, ExitProcess,
                        ListCall, Insert, FindParent, LockParent, syscall
    <3>2. QED
      BY <1>0, <1>1, <3>1
  <2>2. CASE SendCall(t) \/ ResumeCall(t) \/ StartCall(t)
    <3>1. \/ pc' = [pc EXCEPT ![t] = "leave"]
          \/ \E S : pc' = [WakeUp(pc, S) EXCEPT ![t] = "leave"]
      BY <1>5, <2>2 DEF SendCall, ResumeCall, StartCall
    <3>2. QED
      BY <1>0, <1>1, <1>3, <3>1
  <2>3. CASE SpawnCall(t) \/ Clone(t)
    <3>1. \/ pc' = [pc EXCEPT ![t] = "leave"]
          \/ \E u : pc' = [pc EXCEPT ![u] = "new", ![t] = "leave"]
      BY <2>3 DEF SpawnCall, Clone, new_thread
    <3>2. QED
      BY <1>0, <1>1, <1>2, <3>1
  <2>4. QED
    BY <1>5, <2>1, <2>2, <2>3 DEF ThreadStep, CallStep
<1>6. ASSUME NEW c \in Cpus, CollectorStep(c), ~Halt PROVE PlacesTyped'
  <2>1. \/ \E place \in {"find", "none", "kill", "remove"} : pc' = [pc EXCEPT ![c] = place]
        \/ \E t : pc' = [pc EXCEPT ![t] = "deleted"]
        \/ \E t : pc' = [pc EXCEPT ![t] = "deleted", ![c] = "none"]
        \/ \E S : pc' = [WakeUp(pc, S) EXCEPT ![c] = "find"]
    BY <1>6 DEF CollectorStep, Peek, Skip, gc_do_thread, gc_do_process, Kill, ReleaseTable, Remove, gc_next
  <2>2. QED
    BY <1>0, <1>1, <1>2, <1>3, <2>1
<1>7. ASSUME NEW a \in Actors, LockStep(a), ~Halt PROVE PlacesTyped'
  <2>1. pc' = pc \/ \E place \in {"lock", "work", "next", "leave"} : pc' = [pc EXCEPT ![a] = place]
    BY <1>7 DEF LockStep, Find, LockProcess, AskForTable, Missing
  <2>2. CASE pc' = pc
    BY <2>2 DEF PlacesTyped
  <2>3. QED
    BY <1>0, <1>1, <2>1, <2>2
<1>8. QED
  BY <1>4, <1>5, <1>6, <1>7 DEF Next

\* Every step leaves everybody with a pid.
LEMMA TargetsStep ==
  ASSUME RoleInv, TargetsTyped, [Next]_vars
  PROVE  TargetsTyped' /\ (panic \in BOOLEAN => panic' \in BOOLEAN)
<1>1. CASE UNCHANGED vars \/ Halt
  <2>1. target' = target
    BY <1>1 DEF vars, Halt
  <2>2. (panic' = panic) \/ (panic' = TRUE)
    BY <1>1 DEF vars, Halt
  <2>3. TargetsTyped'
    BY <2>1 DEF TargetsTyped
  <2>4. QED
    BY <2>2, <2>3, Zenon
<1>2. ASSUME NEW x, NEW p \in Pids, target' = [target EXCEPT ![x] = p]
      PROVE  TargetsTyped'
  BY <1>2 DEF TargetsTyped
<1>3. ASSUME target' = target PROVE TargetsTyped'
  BY <1>3 DEF TargetsTyped
<1>4. ASSUME NEW t \in Threads, ThreadStep(t), ~Halt
      PROVE  TargetsTyped' /\ panic' = panic
  <2>1. Own(t) \in Pids
    BY ProcessAssumption DEF Own
  <2>2. CASE Leave(t) \/ \E name \in Calls[t], p \in Pids : syscall(t, name, p)
    <3>1. panic' = panic /\ \E p \in Pids : target' = [target EXCEPT ![t] = p]
      BY <2>1, <2>2 DEF Leave, Done, syscall
    <3>2. QED
      BY <1>2, <3>1
  <2>3. CASE ~(Leave(t) \/ \E name \in Calls[t], p \in Pids : syscall(t, name, p))
    <3>1. panic' = panic /\ target' = target
      BY <1>4, <2>3 DEF ThreadStep, CallStep, Enter, Stop, Expire, Awake, ReadCall, SleepCall, ExitThread, ExitProcess,
                 ListCall, Insert, FindParent, LockParent, SendCall, ResumeCall, StartCall, SpawnCall, Clone
    <3>2. QED
      BY <1>3, <3>1
  <2>4. QED
    BY <2>2, <2>3
<1>5. ASSUME NEW c \in Cpus, CollectorStep(c), ~Halt
      PROVE  TargetsTyped' /\ panic' = panic
  <2>1. CASE Peek(c)
    <3>1. panic' = panic /\ target' = [target EXCEPT ![c] = Head(ring[c]).pid]
      BY <2>1 DEF Peek
    <3>2. ring[c] \in Seq(Entries) /\ ring[c] # <<>>
      BY <2>1 DEF Peek, RoleInv, Typed
    <3>3. Head(ring[c]) \in Entries
      BY <3>2
    <3>4. QED
      BY <1>2, <3>1, <3>3 DEF Entries
  <2>2. CASE ~Peek(c)
    <3>1. panic' = panic /\ target' = target
      BY <1>5, <2>2 DEF CollectorStep, Skip, gc_do_thread, gc_do_process, Kill, ReleaseTable, Remove
    <3>2. QED
      BY <1>3, <3>1
  <2>3. QED
    BY <2>1, <2>2
<1>6. ASSUME NEW a \in Actors, LockStep(a), ~Halt
      PROVE  TargetsTyped' /\ panic' = panic
  <2>1. panic' = panic /\ target' = target
    BY <1>6 DEF LockStep, Find, LockProcess, AskForTable
  <2>2. QED
    BY <1>3, <2>1
<1>7. QED
  BY <1>1, <1>4, <1>5, <1>6 DEF Next

\* The types hold in every state.  In particular kernel_threads, which is unsigned, is
\* never taken below zero, and no lock of a process and not the table's is released by
\* somebody who does not hold it.
THEOREM LifecycleTypes ==
  ASSUME Pids # {}
  PROVE  Spec => []TypeOK
<1> DEFINE Typing == LifeInv /\ PlacesTyped /\ TargetsTyped /\ panic \in BOOLEAN
<1>1. Init => Typing
  <2> SUFFICES ASSUME Init PROVE PlacesTyped /\ TargetsTyped /\ panic \in BOOLEAN
    BY InitLife
  <2>1. PlacesTyped
    BY DEF Init, PlacesTyped, Places
  <2>2. \A a \in Actors : Own(a) \in Pids
    BY ProcessAssumption DEF Own, Actors
  <2>3. QED
    BY <2>1, <2>2 DEF Init, TargetsTyped
<1>2. Typing /\ [Next]_vars => Typing'
  BY NextLife, PlacesStep, TargetsStep DEF LifeInv
<1>3. Typing => TypeOK
  <2> SUFFICES ASSUME Typing PROVE TypeOK
    OBVIOUS
  <2>1. table \subseteq Pids /\ tableLock \in Locks /\ lock \in [Pids -> Locks] /\ kernel_threads \in [Pids -> Nat]
    BY DEF LifeInv, TableInv, TableBorn, Inv, Shape, LockInv, KernelInv
  <2>2. pstate \in [Pids -> {"unborn", "INIT", "RUNNING", "FINISHING", "deleted"}]
    BY DEF LifeInv, Born, States
  <2>3. members \in [Pids -> SUBSET Threads] /\ ring \in [Cpus -> Seq([pid : Pids, tid : Threads \cup {Nobody}])]
    BY DEF LifeInv, RoleInv, Typed, Entries
  <2>4. QED
    BY <2>1, <2>2, <2>3 DEF TypeOK, PlacesTyped, TargetsTyped
<1> HIDE DEF Typing
<1>4. QED
  BY <1>1, <1>2, <1>3, PTL DEF Spec
=============================================================================
