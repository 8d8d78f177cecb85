----------------------------- MODULE Lifecycle -----------------------------
(***************************************************************************)
(* How processes and threads come and go: the process table and its lock    *)
(* (kernel/src/process.c), system call entry (syscalls.c), exec (exec.c),    *)
(* sleeping (go_dormant), exits, and the collector of each CPU (gc.c).      *)
(*                                                                          *)
(* checkout_process takes the table's lock for reading, keeps it, and takes *)
(* the lock of the process.  Both are reader-writer locks, modelled by what *)
(* rwlock.c does in one undisturbed call (RWLock has the steps inside): a   *)
(* writer that has to wait leaves a request, which keeps new readers out.   *)
(* Waiting for a lock is a place; what happens between two waits is a step. *)
(*                                                                          *)
(* Threads run on fixed CPUs and are preempted anywhere, except between the *)
(* commit and the yield of a sleep or an exit, where interrupts are off.    *)
(* Process and thread ids are not reused.                                   *)
(***************************************************************************)
EXTENDS Integers, Sequences, FiniteSets

CONSTANTS Pids, Threads,
          Process,   \* Process[t]: the process that thread t belongs to
          Cpus,
          Cpu,       \* Cpu[t]: the CPU of thread t; a collector is named by its CPU
          Initial,   \* the threads that exist at the beginning
          Calls,     \* Calls[t]: the system calls thread t makes
          MaxGC,     \* MAX_GC
          Nobody     \* no writer, no thread

ASSUME ProcessAssumption == Process \in [Threads -> Pids] /\ Initial \subseteq Threads
ASSUME CpuAssumption == Cpu \in [Threads -> Cpus]
ASSUME ActorAssumption == Threads \cap Cpus = {} /\ Nobody \notin Threads \cup Cpus
ASSUME RingAssumption == MaxGC \in Nat \ {0}

Actors == Threads \cup Cpus

VARIABLES
    table,           \* the pids in l_processTable
    tableLock,       \* l_processLock
    lock,            \* proc->lock
    pstate,          \* proc->state
    members,         \* proc->threads
    kernel_threads,  \* proc->kernel_threads
    ring,            \* qdata: the objects each collector has to destroy
    pc,              \* where a thread or a collector is
    call, target,    \* the system call it works on, and the pid it checks out
    panic            \* the kernel has stopped

processes == <<table, pstate, members, kernel_threads>>
locks == <<tableLock, lock>>
vars == <<processes, locks, ring, pc, call, target, panic>>

-----------------------------------------------------------------------------
(* Reader-writer locks. *)

NewLock == [readers |-> [a \in Actors |-> 0], writer |-> Nobody, request |-> FALSE]

\* Mutant: readers do not keep a writer out.
CanWriteIgnoringReaders(l) == l.writer = Nobody

CanRead(l) == l.writer = Nobody /\ ~l.request
CanWrite(l) == l.writer = Nobody /\ \A a \in Actors : l.readers[a] = 0

Read(l, a) == [l EXCEPT !.readers[a] = @ + 1]
Write(l, a) == [l EXCEPT !.writer = a]
Ask(l) == [l EXCEPT !.request = TRUE]

\* rwlock_release
Release(l, a) == IF l.writer # Nobody THEN [l EXCEPT !.writer = Nobody, !.request = FALSE]
                 ELSE [l EXCEPT !.readers[a] = @ - 1]

\* commit_process, by actor a.
commit_process(a, p) == /\ lock' = [lock EXCEPT ![p] = Release(@, a)]
                        /\ tableLock' = Release(tableLock, a)

-----------------------------------------------------------------------------

Sleeping == {"asleep", "dozing"}                 \* THREAD_DORMANT, without and with a timeout
InterruptsOff == {"sleep", "doze", "exiting"}    \* on the way to the scheduler
Checkout == {"find", "lock"}
Inside == Checkout \cup InterruptsOff
            \cup {"work", "insert", "list", "lock_parent", "clone", "leave", "dozing"}

\* What target is between calls.
Own(a) == IF a \in Threads THEN Process[a] ELSE CHOOSE p \in Pids : TRUE

\* exec made the first threads: processes that exist at the beginning run.
Init ==
    /\ table = {Process[t] : t \in Initial}
    /\ tableLock = NewLock
    /\ lock = [p \in Pids |-> NewLock]
    /\ pstate = [p \in Pids |-> IF p \in table THEN "RUNNING" ELSE "unborn"]
    /\ members = [p \in Pids |-> {t \in Initial : Process[t] = p}]
    /\ kernel_threads = [p \in Pids |-> 0]
    /\ ring = [c \in Cpus |-> <<>>]
    /\ pc = [a \in Actors |-> IF a \in Initial THEN "user" ELSE "none"]
    /\ call = [a \in Actors |-> "none"]
    /\ target = [a \in Actors |-> Own(a)]
    /\ panic = FALSE

Goto(a, place) == pc' = [pc EXCEPT ![a] = place]

CpuOf(a) == IF a \in Cpus THEN a ELSE Cpu[a]

\* Actor a is at a place, and no other thread keeps its CPU.
At(a, place) == /\ pc[a] = place
                /\ \A t \in Threads \ {a} : Cpu[t] = CpuOf(a) => pc[t] \notin InterruptsOff

\* A failed assertion.
Halt == /\ panic' = TRUE
        /\ UNCHANGED <<processes, locks, ring, pc, call, target>>

Count(p, n) == kernel_threads' = [kernel_threads EXCEPT ![p] = @ + n]

\* set_thread_state( t, THREAD_RUNNING ) for the threads of a set; a dormant thread
\* goes on in go_dormant, a new one starts.
WakeUp(place, S) == [t \in Actors |-> IF t \notin S THEN place[t]
                                      ELSE IF place[t] = "asleep" THEN "awake"
                                      ELSE IF place[t] = "dozing" THEN "leave" ELSE "user"]

-----------------------------------------------------------------------------
(* System call entry and checkout_process. *)

\* The threads of a dying process are kept out.
Enter(t) ==
    /\ At(t, "user")
    /\ Goto(t, IF pstate[Process[t]] = "FINISHING" THEN "stuck" ELSE "entry")
    /\ UNCHANGED <<processes, locks, ring, call, target, panic>>

\* The pids a call may be about: any that is known, a new one, or the caller's own.
Targets(t, name) == IF name \in {"send", "start"} THEN Pids
                    ELSE IF name = "exec" THEN {p \in Pids : pstate[p] = "unborn"}
                    ELSE {Process[t]}

\* The thread counts itself in and the call begins.
syscall(t, name, p) ==
    /\ At(t, "entry") /\ p \in Targets(t, name)
    /\ Count(Process[t], 1)
    /\ call' = [call EXCEPT ![t] = name]
    /\ target' = [target EXCEPT ![t] = p]
    /\ Goto(t, IF name = "exec" THEN "insert" ELSE IF name = "list" THEN "list" ELSE "find")
    /\ pstate' = IF name = "exec" THEN [pstate EXCEPT ![p] = "INIT"] ELSE pstate
    /\ UNCHANGED <<table, members, locks, ring, panic>>

Done(t) == /\ Goto(t, "user")
           /\ call' = [call EXCEPT ![t] = "none"]
           /\ target' = [target EXCEPT ![t] = Own(t)]

\* Mutant: a call returns without counting itself out.
LeaveCounted(t) ==
    /\ At(t, "leave")
    /\ Done(t)
    /\ UNCHANGED <<processes, locks, ring, panic>>

\* The way back to user mode.
Leave(t) ==
    /\ At(t, "leave")
    /\ Count(Process[t], -1)
    /\ Done(t)
    /\ UNCHANGED <<table, pstate, members, locks, ring, panic>>

\* The callers that test whether the process was there; the others assert it.
MayMiss(a) == a \in Cpus \/ call[a] \in {"send", "start", "exec"}

\* Where such a caller goes on.
Missing(a) == IF a \in Cpus THEN "next" ELSE "leave"

\* checkout_process: the look-up, under the table's lock.
Find(a) ==
    /\ At(a, "find") /\ CanRead(tableLock)
    /\ IF target[a] \notin table /\ ~MayMiss(a) THEN Halt
       ELSE /\ IF target[a] \in table THEN tableLock' = Read(tableLock, a) /\ Goto(a, "lock")
                                      ELSE Goto(a, Missing(a)) /\ UNCHANGED tableLock
            /\ UNCHANGED <<processes, lock, ring, call, target, panic>>

\* checkout_process: the lock of the process.
LockProcess(a) ==
    LET l == lock[target[a]]
    IN
    /\ At(a, "lock")
    /\ \/ /\ call[a] = "read" /\ CanRead(l)
          /\ lock' = [lock EXCEPT ![target[a]] = Read(l, a)]
          /\ Goto(a, "work")
       \/ /\ call[a] # "read" /\ CanWrite(l)
          /\ lock' = [lock EXCEPT ![target[a]] = Write(l, a)]
          /\ Goto(a, "work")
       \/ /\ call[a] # "read" /\ ~CanWrite(l) /\ ~l.request
          /\ lock' = [lock EXCEPT ![target[a]] = Ask(l)]
          /\ UNCHANGED pc
    /\ UNCHANGED <<processes, tableLock, ring, call, target, panic>>

\* rwlock_get_write_access of the table has to wait.
AskForTable(a) ==
    /\ pc[a] \in {"insert", "list", "remove"} /\ At(a, pc[a])
    /\ ~CanWrite(tableLock) /\ ~tableLock.request
    /\ tableLock' = Ask(tableLock)
    /\ UNCHANGED <<processes, lock, ring, pc, call, target, panic>>

-----------------------------------------------------------------------------
(* The calls, with the process checked out. *)

Working(t, name) == At(t, "work") /\ call[t] = name

\* Calls that only look (READER): waiting pulses and messages, flags, the environment.
ReadCall(t) ==
    /\ Working(t, "read")
    /\ commit_process(t, target[t])
    /\ Goto(t, "leave")
    /\ UNCHANGED <<processes, ring, call, target, panic>>

\* Mutant: a send that finds no port returns early.
SendCallEarlyReturn(t) ==
    /\ Working(t, "send")
    /\ Goto(t, "leave")
    /\ UNCHANGED <<processes, locks, ring, call, target, panic>>

\* send_message and send_pulse may wake a dormant thread of the target.
SendCall(t) ==
    /\ Working(t, "send")
    /\ \E S \in {{}} \cup {{u} : u \in {v \in members[target[t]] : pc[v] \in Sleeping}} :
          pc' = [WakeUp(pc, S) EXCEPT ![t] = "leave"]
    /\ commit_process(t, target[t])
    /\ UNCHANGED <<processes, ring, call, target, panic>>

\* SYS_PROCESS | SYS_TWO starts a process that exec has made.
StartCall(t) ==
    LET p == target[t]
    IN
    /\ Working(t, "start")
    /\ \/ /\ pstate[p] # "INIT"
          /\ commit_process(t, p)
          /\ Goto(t, "leave")
          /\ UNCHANGED <<processes, ring, call, target, panic>>
       \/ /\ pstate[p] = "INIT" /\ members[p] # {}
          /\ pstate' = [pstate EXCEPT ![p] = "RUNNING"]
          /\ pc' = [WakeUp(pc, members[p]) EXCEPT ![t] = "leave"]
          /\ commit_process(t, p)
          /\ UNCHANGED <<table, members, kernel_threads, ring, call, target, panic>>
       \/ /\ pstate[p] = "INIT" /\ members[p] = {}
          /\ Halt

\* new_thread for process p, and thread t goes on to leave the kernel; there may be
\* no memory for it.
new_thread(t, p) ==
    \/ \E u \in {v \in Threads : Process[v] = p /\ pc[v] = "none"} :
          /\ members' = [members EXCEPT ![p] = @ \cup {u}]
          /\ pc' = [pc EXCEPT ![u] = "new", ![t] = "leave"]
    \/ UNCHANGED members /\ Goto(t, "leave")

\* SYS_THREAD | SYS_ONE makes a suspended thread.
SpawnCall(t) ==
    /\ Working(t, "spawn")
    /\ new_thread(t, target[t])
    /\ commit_process(t, target[t])
    /\ UNCHANGED <<table, pstate, kernel_threads, ring, call, target, panic>>

\* SYS_THREAD | SYS_TWO starts or wakes another thread of the process.
ResumeCall(t) ==
    /\ Working(t, "resume")
    /\ \E S \in {{}} \cup {{u} : u \in {v \in members[target[t]] : pc[v] \in Sleeping \cup {"new"}}} :
          pc' = [WakeUp(pc, S) EXCEPT ![t] = "leave"]
    /\ commit_process(t, target[t])
    /\ UNCHANGED <<processes, ring, call, target, panic>>

\* go_dormant, up to commit_process; it may find something waiting and return.
SleepCall(t) ==
    /\ Working(t, "sleep")
    /\ \E place \in {"leave", "sleep", "doze"} : Goto(t, place)
    /\ commit_process(t, target[t])
    /\ UNCHANGED <<processes, ring, call, target, panic>>

\* Mutant: what does not fit into the ring is forgotten.
GcQueueForgetting(t, tid) ==
    ring' = IF Len(ring[Cpu[t]]) < MaxGC - 1
            THEN [ring EXCEPT ![Cpu[t]] = Append(@, [pid |-> Process[t], tid |-> tid])]
            ELSE ring

\* gc_queue by a thread that waits, with its process checked out, until there is room.
gc_queue(t, tid) ==
    /\ Len(ring[Cpu[t]]) < MaxGC
    /\ ring' = [ring EXCEPT ![Cpu[t]] = Append(@, [pid |-> Process[t], tid |-> tid])]

\* The end of a thread, up to commit_process.
ExitThread(t) ==
    /\ Working(t, "exit")
    /\ gc_queue(t, t)
    /\ Count(Process[t], -1)
    /\ commit_process(t, Process[t])
    /\ Goto(t, "exiting")
    /\ UNCHANGED <<table, pstate, members, call, target, panic>>

\* The end of a process, by its own request or aborted.
ExitProcess(t) ==
    /\ Working(t, "exit_process")
    /\ gc_queue(t, Nobody)
    /\ Count(Process[t], -1)
    /\ pstate' = [pstate EXCEPT ![Process[t]] = "FINISHING"]
    /\ commit_process(t, Process[t])
    /\ Goto(t, "exiting")
    /\ UNCHANGED <<table, members, call, target, panic>>

\* The scheduler takes the thread off its queue (remove_last).  An untimed sleep
\* first counts the thread out.
Stop(t) ==
    /\ pc[t] \in InterruptsOff
    /\ Goto(t, IF pc[t] = "sleep" THEN "asleep" ELSE IF pc[t] = "doze" THEN "dozing" ELSE "finished")
    /\ IF pc[t] = "sleep" THEN Count(Process[t], -1) ELSE UNCHANGED kernel_threads
    /\ UNCHANGED <<table, pstate, members, locks, ring, call, target, panic>>

\* A timeout ends.
Expire(t) ==
    /\ pc[t] = "dozing"
    /\ Goto(t, "leave")
    /\ UNCHANGED <<processes, locks, ring, call, target, panic>>

\* The rest of an untimed sleep.
Awake(t) ==
    /\ At(t, "awake")
    /\ Count(Process[t], 1)
    /\ Goto(t, "leave")
    /\ UNCHANGED <<table, pstate, members, locks, ring, call, target, panic>>

\* process_get_list takes the table for writing and gives it back.
ListCall(t) ==
    /\ At(t, "list") /\ CanWrite(tableLock)
    /\ tableLock' = Release(Write(tableLock, t), t)
    /\ Goto(t, "leave")
    /\ UNCHANGED <<processes, lock, ring, call, target, panic>>

-----------------------------------------------------------------------------
(* exec_memory_region; the new process is target[t]. *)

\* insert_process
Insert(t) ==
    /\ At(t, "insert") /\ CanWrite(tableLock)
    /\ IF Process[t] \notin table THEN Halt
       ELSE /\ table' = table \cup {target[t]}
            /\ tableLock' = Release(Write(tableLock, t), t)
            /\ Goto(t, "find")
            /\ UNCHANGED <<pstate, members, kernel_threads, lock, ring, call, target, panic>>

\* The parent is checked out while the child still is.
FindParent(t) ==
    /\ Working(t, "exec") /\ CanRead(tableLock)
    /\ IF Process[t] \notin table THEN Halt
       ELSE /\ tableLock' = Read(tableLock, t)
            /\ Goto(t, "lock_parent")
            /\ UNCHANGED <<processes, lock, ring, call, target, panic>>

LockParent(t) ==
    /\ At(t, "lock_parent") /\ CanRead(lock[Process[t]])
    /\ lock' = [lock EXCEPT ![Process[t]] = Read(@, t)]
    /\ Goto(t, "clone")
    /\ UNCHANGED <<processes, tableLock, ring, call, target, panic>>

\* The environment is cloned, the parent committed, the main thread made and the
\* child committed.
Clone(t) ==
    LET p == target[t]
    IN
    /\ At(t, "clone")
    /\ new_thread(t, p)
    /\ lock' = [lock EXCEPT ![p] = Release(@, t), ![Process[t]] = Release(@, t)]
    /\ tableLock' = Release(Release(tableLock, t), t)
    /\ UNCHANGED <<table, pstate, kernel_threads, ring, call, target, panic>>

-----------------------------------------------------------------------------
(* The collector of a CPU. *)

\* gc_peek: the first object, which stays in the ring while it is worked on.
Peek(c) ==
    /\ At(c, "none") /\ ring[c] # <<>>
    /\ target' = [target EXCEPT ![c] = Head(ring[c]).pid]
    /\ Goto(c, "find")
    /\ UNCHANGED <<processes, locks, ring, call, panic>>

\* gc_next, and the collector looks for more.
gc_next(c) == /\ ring' = [ring EXCEPT ![c] = Tail(@)]
              /\ Goto(c, "none")

\* The process was not there.
Skip(c) ==
    /\ At(c, "next")
    /\ gc_next(c)
    /\ UNCHANGED <<processes, locks, call, target, panic>>

Victim(c) == Head(ring[c]).tid

\* gc_do_thread; a thread that is gone leaves the process checked out.
gc_do_thread(c) ==
    LET t == Victim(c)
        p == target[c]
    IN
    /\ At(c, "work") /\ t # Nobody
    /\ \/ /\ t \notin members[p]
          /\ gc_next(c)
          /\ UNCHANGED <<processes, locks, call, target, panic>>
       \/ /\ t \in members[p] /\ pc[t] # "finished"
          /\ Halt
       \/ /\ t \in members[p] /\ pc[t] = "finished"
          /\ members' = [members EXCEPT ![p] = @ \ {t}]
          /\ pc' = [pc EXCEPT ![t] = "deleted", ![c] = "none"]
          /\ ring' = [ring EXCEPT ![c] = Tail(@)]
          /\ commit_process(c, p)
          /\ UNCHANGED <<table, pstate, kernel_threads, call, target, panic>>

\* Mutant: the threads in the kernel are not waited for.
CollectAtOnce(c) ==
    /\ At(c, "work") /\ Victim(c) = Nobody
    /\ Goto(c, "kill")
    /\ UNCHANGED <<processes, locks, ring, call, target, panic>>

\* gc_do_process while threads of the process are in the kernel: wake the dormant
\* threads and try again; otherwise the process stays checked out.  The scan may miss
\* threads when the first thread of the process is gone (ThreadTree).
gc_do_process(c) ==
    LET p == target[c]
    IN
    /\ At(c, "work") /\ Victim(c) = Nobody
    /\ \/ /\ pstate[p] # "FINISHING"
          /\ Halt
       \/ /\ pstate[p] = "FINISHING" /\ kernel_threads[p] # 0
          /\ \E S \in SUBSET {t \in members[p] : pc[t] \in Sleeping} :
                pc' = [WakeUp(pc, S) EXCEPT ![c] = "find"]
          /\ commit_process(c, p)
          /\ UNCHANGED <<processes, ring, call, target, panic>>
       \/ /\ pstate[p] = "FINISHING" /\ kernel_threads[p] = 0
          /\ Goto(c, "kill")
          /\ UNCHANGED <<processes, locks, ring, call, target, panic>>

\* One thread is stopped, wherever it is, and deleted.
Kill(c) ==
    LET p == target[c]
    IN
    /\ At(c, "kill")
    /\ \E t \in members[p] :
         \/ /\ pc[t] = "dozing"
            /\ Halt
         \/ /\ pc[t] \notin InterruptsOff \cup {"dozing"}
            /\ members' = [members EXCEPT ![p] = @ \ {t}]
            /\ Goto(t, "deleted")
            /\ UNCHANGED <<table, pstate, kernel_threads, locks, ring, call, target, panic>>

\* No thread is left: release_processes.
ReleaseTable(c) ==
    /\ At(c, "kill") /\ members[target[c]] = {}
    /\ tableLock' = Release(tableLock, c)
    /\ Goto(c, "remove")
    /\ UNCHANGED <<processes, lock, ring, call, target, panic>>

\* remove_process and delete_process.
Remove(c) ==
    LET p == target[c]
    IN
    /\ At(c, "remove") /\ CanWrite(tableLock)
    /\ table' = table \ {p}
    /\ pstate' = [pstate EXCEPT ![p] = "deleted"]
    /\ lock' = [lock EXCEPT ![p] = NewLock]
    /\ tableLock' = Release(Write(tableLock, c), c)
    /\ gc_next(c)
    /\ UNCHANGED <<members, kernel_threads, call, target, panic>>

-----------------------------------------------------------------------------

CallStep(t) == \/ ReadCall(t) \/ SendCall(t) \/ StartCall(t) \/ SpawnCall(t) \/ ResumeCall(t)
               \/ SleepCall(t) \/ ExitThread(t) \/ ExitProcess(t) \/ ListCall(t)
               \/ Insert(t) \/ FindParent(t) \/ LockParent(t) \/ Clone(t)

ThreadStep(t) == \/ Enter(t) \/ Leave(t) \/ CallStep(t) \/ Stop(t) \/ Expire(t) \/ Awake(t)
                 \/ \E name \in Calls[t], p \in Pids : syscall(t, name, p)

CollectorStep(c) == \/ Peek(c) \/ Skip(c) \/ gc_do_thread(c) \/ gc_do_process(c)
                    \/ Kill(c) \/ ReleaseTable(c) \/ Remove(c)

LockStep(a) == Find(a) \/ LockProcess(a) \/ AskForTable(a)

Next == /\ ~panic
        /\ \/ \E t \in Threads : ThreadStep(t)
           \/ \E c \in Cpus : CollectorStep(c)
           \/ \E a \in Actors : LockStep(a)

Spec == Init /\ [][Next]_vars

-----------------------------------------------------------------------------

Places == Inside \cup Sleeping \cup {"none", "user", "entry", "stuck", "awake", "new", "finished",
                                     "deleted", "next", "kill", "remove"}
Locks == [readers : [Actors -> Nat], writer : Actors \cup {Nobody}, request : BOOLEAN]

\* The types of the variables: in particular the unsigned kernel_threads is never
\* taken below zero, and no lock is released by somebody who does not hold it.
TypeOK ==
    /\ table \subseteq Pids
    /\ tableLock \in Locks /\ lock \in [Pids -> Locks]
    /\ pstate \in [Pids -> {"unborn", "INIT", "RUNNING", "FINISHING", "deleted"}]
    /\ members \in [Pids -> SUBSET Threads]
    /\ kernel_threads \in [Pids -> Nat]
    /\ ring \in [Cpus -> Seq([pid : Pids, tid : Threads \cup {Nobody}])]
    /\ pc \in [Actors -> Places]
    /\ target \in [Actors -> Pids]
    /\ panic \in BOOLEAN

\* The actors inside a checkout, of the process they want or have.
Using(p) == {a \in Actors : target[a] = p /\ pc[a] \in {"lock", "work", "lock_parent", "clone", "kill"}}

\* A process is in the table as long as anybody waits for its lock or works on it:
\* remove_process and delete_process never take it from under a checkout
\* ("DELETING A PROCESS BUT SOMEONE ELSE COULD BE ACQUIRING IT", gc.c).
CheckedOutExists == \A p \in Pids : Using(p) # {} => p \in table

\* How many checkouts an actor is inside of, by the place it has reached.
Checkouts(a) == IF pc[a] \in {"lock", "work", "kill"} THEN 1
                ELSE IF pc[a] \in {"lock_parent", "clone"} THEN 2 ELSE 0

\* Every checkout has its commit, on every path of every call: an actor that still
\* exists has the table read-locked once for each checkout it is inside of, the
\* writer of a process's lock is an actor that works on that process, and nobody
\* keeps the table for writing.
CheckoutsMatch ==
    /\ \A a \in Actors : pc[a] # "deleted" => tableLock.readers[a] = Checkouts(a)
    /\ \A p \in Pids : lock[p].writer \in Actors \ {a \in Actors : pc[a] = "deleted"}
            => /\ target[lock[p].writer] = p
               /\ pc[lock[p].writer] \in {"work", "lock_parent", "clone", "kill", "remove"}
    /\ tableLock.writer = Nobody

\* Whether a collector has begun to delete process p.
BeingDeleted(p) == \E c \in Cpus : pc[c] \in {"kill", "remove"} /\ target[c] = p

\* kernel_threads is the number of the process's threads that are inside the kernel
\* and may not be deleted there (syscall, go_dormant, the exits), until the collector
\* has read it as zero.
KernelThreadsExact ==
    \A p \in table : ~BeingDeleted(p) =>
        kernel_threads[p] = Cardinality({t \in members[p] : pc[t] \in Inside \ {"exiting"}})

\* The assertions of gc_do_thread, gc_do_process and set_thread_state hold: the
\* collector finds the thread, which is finished, and a process that is finishing,
\* and does not delete a thread with a timer.  The process of a living thread stays in
\* the table, which the calls on the own process, insert_process and exec assert.
CollectorAssertions ==
    /\ \A t \in Threads : pc[t] \notin {"none", "deleted"} => Process[t] \in table
    /\ \A c \in Cpus :
        /\ pc[c] = "work" /\ Victim(c) # Nobody
              => Victim(c) \in members[target[c]] /\ pc[Victim(c)] = "finished"
        /\ pc[c] = "work" /\ Victim(c) = Nobody => pstate[target[c]] = "FINISHING"
        /\ pc[c] = "kill" => \A t \in members[target[c]] : pc[t] # "dozing"

\* Whether an object is in the ring of some collector.
Queued(p, tid) == \E c \in Cpus : \E i \in DOMAIN ring[c] : ring[c][i] = [pid |-> p, tid |-> tid]

\* Nothing dead is forgotten: a finished thread that still belongs to a process is
\* in the ring of a collector, itself or with its process (gc_queue before every exit,
\* gc_next only after the work).
DeadAreQueued ==
    \A p \in table : /\ pstate[p] = "FINISHING" => Queued(p, Nobody)
                     /\ \A t \in members[p] : pc[t] \in {"exiting", "finished"}
                                                => Queued(p, t) \/ Queued(p, Nobody)

\* The collector "needs to be a separate thread to prevent deadlock situations"
\* (gc.c): it never waits for the table while somebody who keeps the table
\* locked waits for the process that the collector has.
CollectorNotBlocked ==
    \A c \in Cpus : pc[c] = "remove" =>
        \A a \in Actors : ~(pc[a] = "lock" /\ target[a] = target[c])
=============================================================================
