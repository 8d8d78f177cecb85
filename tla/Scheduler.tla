----------------------------- MODULE Scheduler -----------------------------
(***************************************************************************)
(* The schedulers of all CPUs (kernel/src/scheduler.c), the state changes   *)
(* of threads (set_thread_state, exec_thread and go_dormant in threads.c)   *)
(* and the system calls that ask for them.                                  *)
(*                                                                          *)
(* Each CPU has a run queue, a queue of timed sleepers and a spinlock over  *)
(* both, which its scheduler holds except while it runs a thread.  A thread *)
(* cannot take itself off the queue; it asks its scheduler to do so and     *)
(* yields.  Threads of other CPUs take the spinlock, and for a removal also *)
(* wait until the CPU runs nothing ("complete").  What the spinlock guards  *)
(* happens in one step; spinning, waiting and being preempted are steps.    *)
(* A system call on a thread holds the lock of the thread's process.        *)
(*                                                                          *)
(* Time is abstract: a sleeper may expire whenever its scheduler looks, in  *)
(* queue order, and one that was restarted always does.  The collector and  *)
(* the interrupt handlers' fast queue are not part of this module.          *)
(***************************************************************************)
EXTENDS Integers, Sequences, SequencesExt

CONSTANTS Cpus, Threads,
          Home,        \* Home[t]: the CPU of cpu_affinity, or of the thread id
          Process,     \* Process[t]: the process of a thread
          Size,        \* INITIAL_SCHED_SIZE
          Word,        \* 2^32, the range of the unsigned position
          Free,        \* a lock has no holder
          Idle,        \* the idle thread of a CPU
          Nobody       \* no thread runs: the scheduler itself is at work

ASSUME HomeAssumption == Home \in [Threads -> Cpus] /\ IsFiniteSet(Threads)
ASSUME SymbolAssumption == {Free, Idle, Nobody} \cap Threads = {} /\ Idle # Nobody
ASSUME RangeAssumption == Size \in Nat \ {0} /\ Word \in Nat \ {0}

Processes == {Process[t] : t \in Threads}

VARIABLES
    sched_queue, position, pause_queue, requesting, \* struct scheduler_info
    lock,          \* lock_scheduler: a thread that holds it, or Free
    current,       \* current_thread; running is 0 exactly when it is Nobody
    idle, ipi,     \* the idle mark, and an interrupt sent to the CPU
    state,         \* thread->state
    placed,        \* threads with cpu >= 0
    duration,      \* threads with duration # 0
    intr,          \* threads whose context has interrupts enabled
    pc, call,      \* where a thread is, and the state change it works on
    plock,         \* the processes' locks
    panic          \* an assertion failed and the kernel has halted

queues == <<sched_queue, position, pause_queue, requesting>>
cpus == <<lock, current, idle, ipi>>
fields == <<state, placed, duration>>
vars == <<queues, cpus, fields, intr, pc, call, plock, panic>>

States == {"RUNNING", "DORMANT", "FINISHED"}
NoCall == [to |-> Nobody, new |-> "RUNNING", set |-> FALSE]
NoRequest == [tr |-> Nobody, state |-> "RUNNING"]

\* All threads are new: running and queued on their CPUs in some order.
Init ==
    /\ sched_queue \in [Cpus -> UNION {SetToSeqs({t \in Threads : Home[t] = c}) : c \in Cpus}]
    /\ \A c \in Cpus : ToSet(sched_queue[c]) = {t \in Threads : Home[t] = c}
    /\ position = [c \in Cpus |-> 0]
    /\ pause_queue = [c \in Cpus |-> <<>>]
    /\ requesting = [c \in Cpus |-> NoRequest]
    /\ lock = [c \in Cpus |-> Free]
    /\ current = [c \in Cpus |-> Nobody]
    /\ idle = [c \in Cpus |-> FALSE] /\ ipi = idle
    /\ state = [t \in Threads |-> "RUNNING"]
    /\ placed = Threads /\ duration = {} /\ intr = Threads
    /\ pc = [t \in Threads |-> "user"]
    /\ call = [t \in Threads |-> NoCall]
    /\ plock = [p \in Processes |-> Free]
    /\ panic = FALSE

-----------------------------------------------------------------------------

\* Thread t executes at a place in its program.
At(t, place) == current[Home[t]] = t /\ pc[t] = place

Goto(t, place) == pc' = [pc EXCEPT ![t] = place]

\* A failed assert stops all CPUs.
Halt == /\ panic' = TRUE
        /\ UNCHANGED <<queues, cpus, fields, intr, pc, call, plock>>

CanCheckout(p) == plock[p] = Free
Commit(p) == plock' = [plock EXCEPT ![p] = Free]

\* Interrupts of thread t are switched on or off.
EnableInterrupts(t) == intr' = intr \cup {t}
DisableInterrupts(t) == intr' = intr \ {t}

\* position after an entry went, unsigned arithmetic included; n entries are left.
Retreat(pos, n) == IF n = 0 THEN 0 ELSE ((pos - 1) % Word) % n

\* The queue of CPU c without thread t.
Without(c, t) == RemoveFirst(sched_queue[c], t)

\* Mutant: the idle CPU is not interrupted.
KickSilently(c) == idle' = [idle EXCEPT ![c] = FALSE] /\ UNCHANGED ipi

\* sched_lock: a locker marks an idle CPU as not idle and interrupts it.
Kick(c) == /\ idle' = [idle EXCEPT ![c] = FALSE]
           /\ ipi' = [ipi EXCEPT ![c] = @ \/ idle[c]]

\* set_thread_state by the thread itself.
Request(t, new) ==
    requesting' = [requesting EXCEPT ![Home[t]] = [tr |-> t, state |-> new]]

-----------------------------------------------------------------------------
(* System calls of a thread on itself. *)

\* go_dormant without a timeout, up to sched_yield.
go_dormant(t) ==
    /\ At(t, "user") /\ CanCheckout(Process[t])
    /\ duration' = duration \ {t}
    /\ Request(t, "DORMANT")
    /\ DisableInterrupts(t)
    /\ Goto(t, "yield")
    /\ UNCHANGED <<sched_queue, position, pause_queue, cpus, state, placed, call, plock, panic>>

\* go_dormant with a timeout, up to the lock of pause.
go_dormant_timed(t) ==
    /\ At(t, "user") /\ CanCheckout(Process[t])
    /\ plock' = [plock EXCEPT ![Process[t]] = t]
    /\ DisableInterrupts(t)
    /\ Goto(t, "pause")
    /\ UNCHANGED <<queues, cpus, fields, call, panic>>

\* The places where an entry that is not yet due may be put.
PausePlaces(q) == {i \in 1 .. Len(q) + 1 : \A j \in i .. Len(q) : ~q[j].due}

\* pause, then commit_process.
pause(t) ==
    LET c == Home[t]
        q == pause_queue[c]
    IN
    /\ At(t, "pause") /\ lock[c] = Free
    /\ IF Len(q) = Size
       THEN UNCHANGED <<pause_queue, requesting, duration>>
       ELSE /\ \E i \in PausePlaces(q) :
                  pause_queue' = [pause_queue EXCEPT ![c] = InsertAt(q, i, [tr |-> t, due |-> FALSE])]
            /\ Request(t, "DORMANT")
            /\ duration' = duration \cup {t}
    /\ Commit(Process[t])
    /\ Goto(t, "yield")
    /\ UNCHANGED <<sched_queue, position, cpus, state, placed, intr, call, panic>>

\* sched_yield of go_dormant, of exit and of a thread that set its own state.
AfterYield == [yield |-> "woken", exit |-> "exited", self |-> "self_woken"]
sched_yield(t) ==
    /\ pc[t] \in DOMAIN AfterYield /\ At(t, pc[t])
    /\ current' = [current EXCEPT ![Home[t]] = Nobody]
    /\ Goto(t, AfterYield[pc[t]])
    /\ UNCHANGED <<queues, lock, idle, ipi, fields, intr, call, plock, panic>>

\* The end of go_dormant.
Woken(t) ==
    /\ At(t, "woken")
    /\ duration' = duration \ {t}
    /\ EnableInterrupts(t)
    /\ Goto(t, "user")
    /\ UNCHANGED <<queues, cpus, state, placed, call, plock, panic>>

\* The end of a thread, up to sched_yield.
exit(t) ==
    /\ At(t, "user") /\ CanCheckout(Process[t])
    /\ Request(t, "FINISHED")
    /\ EnableInterrupts(t)
    /\ Goto(t, "exit")
    /\ UNCHANGED <<sched_queue, position, pause_queue, cpus, fields, call, plock, panic>>

\* "we are running" "when we shouldn't be"
Exited(t) == At(t, "exited") /\ Halt

\* SYS_THREAD | SYS_TWO on the thread itself, which keeps its process locked.
set_own_state(t, new) ==
    /\ At(t, "user") /\ CanCheckout(Process[t])
    /\ plock' = [plock EXCEPT ![Process[t]] = t]
    /\ IF new = state[t] THEN UNCHANGED requesting ELSE Request(t, new)
    /\ DisableInterrupts(t)
    /\ Goto(t, "self")
    /\ UNCHANGED <<sched_queue, position, pause_queue, cpus, fields, call, panic>>

SelfWoken(t) ==
    /\ At(t, "self_woken")
    /\ Commit(Process[t])
    /\ EnableInterrupts(t)
    /\ Goto(t, "user")
    /\ UNCHANGED <<queues, cpus, fields, call, panic>>

-----------------------------------------------------------------------------
(* System calls on another thread. *)

\* Mutant: interrupts stay enabled.
BeginInterruptible(t, u, new, set, place) ==
    /\ plock' = [plock EXCEPT ![Process[u]] = t]
    /\ call' = [call EXCEPT ![t] = [to |-> u, new |-> new, set |-> set]]
    /\ Goto(t, place)
    /\ UNCHANGED <<queues, cpus, duration, intr, panic>>

\* set_thread_state, up to a lock: how t proceeds to change the state of u.
Begin(t, u, new, set, place) ==
    /\ plock' = [plock EXCEPT ![Process[u]] = t]
    /\ call' = [call EXCEPT ![t] = [to |-> u, new |-> new, set |-> set]]
    /\ DisableInterrupts(t)
    /\ Goto(t, place)
    /\ UNCHANGED <<queues, cpus, duration, panic>>

\* Nothing to do but the system call itself.
Nothing(t) == /\ EnableInterrupts(t)
              /\ UNCHANGED <<queues, cpus, fields, pc, call, plock, panic>>

set_thread_state(t, u, new, set) ==
    \/ /\ state[u] = new
       /\ Nothing(t)
    \/ /\ state[u] = "DORMANT" /\ new # "DORMANT" /\ u \in duration
       /\ Begin(t, u, new, set, "restart")
       /\ UNCHANGED <<state, placed>>
    \/ /\ state[u] = "RUNNING" /\ new # "RUNNING"
       /\ IF u \in placed
          THEN Begin(t, u, new, set, "dequeue") /\ UNCHANGED <<state, placed>>
          ELSE Halt
    \/ /\ state[u] # "RUNNING" /\ new = "RUNNING"
       /\ ~(state[u] = "DORMANT" /\ u \in duration)
       /\ IF u \in placed
          THEN Halt
          ELSE /\ Begin(t, u, new, set, "queue")
               /\ state' = [state EXCEPT ![u] = new]
               /\ placed' = placed \cup {u}
    \/ /\ state[u] = "FINISHED" /\ new = "DORMANT"
       /\ state' = [state EXCEPT ![u] = new]
       /\ EnableInterrupts(t)
       /\ UNCHANGED <<queues, cpus, placed, duration, pc, call, plock, panic>>

\* send_message and send_pulse wake a dormant receiver.
send(t, u) ==
    /\ At(t, "user") /\ u # t /\ CanCheckout(Process[u])
    /\ IF state[u] = "DORMANT" THEN set_thread_state(t, u, "RUNNING", FALSE)
                               ELSE Nothing(t)

\* SYS_THREAD | SYS_TWO on another thread of the process.
set_state(t, u, new) ==
    /\ At(t, "user") /\ u # t /\ Process[u] = Process[t]
    /\ CanCheckout(Process[t])
    /\ set_thread_state(t, u, new, TRUE)

Target(t) == call[t].to
Local(t) == Home[Target(t)] = Home[t]

\* The end of the call: commit_process, interrupts and the way back to user mode.
\* sched_unlock restores interrupts only when the CPU is the thread's own.
Return(t) ==
    /\ Commit(Process[Target(t)])
    /\ IF call[t].set \/ Local(t) THEN EnableInterrupts(t) ELSE UNCHANGED intr
    /\ call' = [call EXCEPT ![t] = NoCall]
    /\ Goto(t, "user")

\* sched_lock(id, 1): takes the lock of another CPU and then waits.
sched_lock(t) ==
    LET c == Home[Target(t)]
    IN
    /\ pc[t] \in {"restart", "dequeue"} /\ At(t, pc[t])
    /\ ~Local(t) /\ lock[c] = Free
    /\ lock' = [lock EXCEPT ![c] = t]
    /\ Kick(c)
    /\ UNCHANGED <<queues, current, fields, intr, pc, call, plock, panic>>

\* The wait has ended, or the lock of the thread's own CPU is free.
Locked(t) == LET c == Home[Target(t)]
             IN  IF Local(t) THEN lock[c] = Free
                 ELSE lock[c] = t /\ current[c] = Nobody

sched_unlock(t) == lock' = [lock EXCEPT ![Home[Target(t)]] = Free]

\* sub_queue, then the way back; the caller ignores that the queue is full.
queue(t) ==
    LET c == Home[Target(t)]
    IN
    /\ At(t, "queue") /\ lock[c] = Free
    /\ IF Len(sched_queue[c]) = Size
       THEN UNCHANGED sched_queue
       ELSE sched_queue' = [sched_queue EXCEPT ![c] = Append(@, Target(t))]
    /\ Kick(c)
    /\ Return(t)
    /\ UNCHANGED <<position, pause_queue, requesting, lock, current, fields, panic>>

\* restart, then the way back.
restart(t) ==
    LET u == Target(t)
        c == Home[u]
        others == RemoveFirstMatch(pause_queue[c], LAMBDA e : e.tr = u)
    IN
    /\ At(t, "restart") /\ Locked(t)
    /\ IF others = pause_queue[c]
       THEN Halt
       ELSE /\ pause_queue' = [pause_queue EXCEPT ![c] = <<[tr |-> u, due |-> TRUE]>> \o others]
            /\ sched_unlock(t)
            /\ Return(t)
            /\ UNCHANGED <<sched_queue, position, requesting, current, idle, ipi, fields, panic>>

\* sub_dequeue.
sub_dequeue(t) ==
    LET u == Target(t)
        c == Home[u]
    IN
    /\ At(t, "dequeue") /\ Locked(t)
    /\ IF u \notin ToSet(sched_queue[c])
       THEN Halt
       ELSE /\ sched_queue' = [sched_queue EXCEPT ![c] = Without(c, u)]
            /\ position' = [position EXCEPT ![c] = Retreat(@, Len(Without(c, u)))]
            /\ sched_unlock(t)
            /\ Goto(t, "dequeued")
            /\ UNCHANGED <<pause_queue, requesting, current, idle, ipi, fields, intr, call, plock, panic>>

\* The rest of dequeue and of set_thread_state, after the unlock.
Dequeued(t) ==
    LET u == Target(t)
    IN
    /\ At(t, "dequeued")
    /\ placed' = placed \ {u}
    /\ state' = [state EXCEPT ![u] = call[t].new]
    /\ Return(t)
    /\ UNCHANGED <<queues, cpus, duration, panic>>

-----------------------------------------------------------------------------
(* The scheduler of a CPU. *)

\* The timeslice of a thread ends, or an interrupt reaches it.
Interrupt(c) ==
    /\ current[c] \in intr
    /\ current' = [current EXCEPT ![c] = Nobody]
    /\ ipi' = [ipi EXCEPT ![c] = FALSE]
    /\ UNCHANGED <<queues, lock, idle, fields, intr, pc, call, plock, panic>>

\* The idle thread has a timer set only when there are sleepers to wake.
IdleInterrupt(c) ==
    /\ current[c] = Idle /\ (ipi[c] \/ pause_queue[c] # <<>>)
    /\ current' = [current EXCEPT ![c] = Nobody]
    /\ ipi' = [ipi EXCEPT ![c] = FALSE]
    /\ UNCHANGED <<queues, lock, idle, fields, intr, pc, call, plock, panic>>

\* How many sleepers remove_timers may wake: all that are due, and those whose
\* time has come.
Expired(c) == {k \in 0 .. Len(pause_queue[c]) :
                  \A i \in 1 .. Len(pause_queue[c]) : pause_queue[c][i].due => i <= k}

\* remove_last: the run queue, the position and the thread taken off.
Leaving(c) == LET r == requesting[c].tr
              IN  IF r \in ToSet(sched_queue[c]) THEN {r} ELSE {}

\* Mutant: the thread changes its state and stays in the queue.
RemoveLastLeft(c) == [queue |-> sched_queue[c], position |-> position[c]]

RemoveLast(c) ==
    LET q == Without(c, requesting[c].tr)
    IN  [queue |-> q,
         position |-> IF Leaving(c) = {} THEN position[c] ELSE Retreat(position[c], Len(q))]

\* One round of scheduler() from the end of a thread's run to the start of the
\* next: exec_thread's return, remove_last, remove_timers, the choice, exec_thread.
\* The time reported to a woken sleeper may be 0.
scheduler(c) ==
    LET left == RemoveLast(c)
    IN
    /\ current[c] = Nobody /\ lock[c] = Free
    /\ \E k \in Expired(c) :
         LET woken == [i \in 1 .. k |-> pause_queue[c][i].tr]
             q == left.queue \o woken
         IN
         IF Len(q) > Size
         THEN Halt
         ELSE
         /\ requesting' = [requesting EXCEPT ![c] = NoRequest]
         /\ pause_queue' = [pause_queue EXCEPT ![c] = SubSeq(@, k + 1, Len(@))]
         /\ sched_queue' = [sched_queue EXCEPT ![c] = q]
         /\ state' = [t \in Threads |-> IF t \in ToSet(woken) THEN "RUNNING"
                                        ELSE IF t \in Leaving(c) THEN requesting[c].state
                                        ELSE state[t]]
         /\ placed' = (placed \ Leaving(c)) \cup ToSet(woken)
         /\ \E slept \in SUBSET ToSet(woken) : duration' = (duration \ ToSet(woken)) \cup slept
         /\ idle' = [idle EXCEPT ![c] = q = <<>>]
         /\ IF q = <<>>
            THEN /\ current' = [current EXCEPT ![c] = Idle]
                 /\ position' = [position EXCEPT ![c] = left.position]
            ELSE /\ current' = [current EXCEPT ![c] = q[left.position + 1]]
                 /\ position' = [position EXCEPT ![c] = (left.position + 1) % Len(q)]
         /\ UNCHANGED <<lock, ipi, intr, pc, call, plock, panic>>

-----------------------------------------------------------------------------

SelfCall(t) == \/ go_dormant(t) \/ go_dormant_timed(t) \/ pause(t) \/ sched_yield(t)
               \/ Woken(t) \/ exit(t) \/ Exited(t) \/ SelfWoken(t)
               \/ \E new \in {"RUNNING", "DORMANT"} : set_own_state(t, new)

OtherCall(t) == \E u \in Threads : \/ send(t, u)
                                   \/ \E new \in {"RUNNING", "DORMANT"} : set_state(t, u, new)

StateChange(t) == sched_lock(t) \/ queue(t) \/ restart(t) \/ sub_dequeue(t) \/ Dequeued(t)

CpuStep(c) == Interrupt(c) \/ IdleInterrupt(c) \/ scheduler(c)

Next == /\ ~panic
        /\ \/ \E t \in Threads : SelfCall(t) \/ OtherCall(t) \/ StateChange(t)
           \/ \E c \in Cpus : CpuStep(c)

Spec == Init /\ [][Next]_vars

-----------------------------------------------------------------------------

Places == {"user", "pause", "yield", "woken", "exit", "exited", "self", "self_woken",
           "restart", "dequeue", "dequeued", "queue"}

\* The types of the variables.
TypeOK ==
    /\ sched_queue \in [Cpus -> Seq(Threads)]
    /\ position \in [Cpus -> Nat]
    /\ pause_queue \in [Cpus -> Seq([tr : Threads, due : BOOLEAN])]
    /\ requesting \in [Cpus -> [tr : Threads \cup {Nobody}, state : States]]
    /\ lock \in [Cpus -> Threads \cup {Free}]
    /\ current \in [Cpus -> Threads \cup {Idle, Nobody}]
    /\ idle \in [Cpus -> BOOLEAN] /\ ipi \in [Cpus -> BOOLEAN]
    /\ state \in [Threads -> States]
    /\ placed \subseteq Threads /\ duration \subseteq Threads /\ intr \subseteq Threads
    /\ pc \in [Threads -> Places]
    /\ call \in [Threads -> [to : Threads \cup {Nobody}, new : States, set : BOOLEAN]]
    /\ plock \in [Processes -> Threads \cup {Free}]
    /\ panic \in BOOLEAN

\* The thread that holds the scheduler lock of another CPU is executing: it is
\* not preempted with the lock in hand, so spinning for the lock is short
\* (disable_interrupts in sched_lock).
HolderRuns == \A c \in Cpus : lock[c] # Free => current[Home[lock[c]]] = lock[c]

\* A CPU that halts in its idle thread with work to do, a thread in the run queue
\* or a restarted sleeper, has an interrupt on its way (the idle mark, sched_lock
\* and exec_thread).
NoSleepingCpu ==
    \A c \in Cpus : /\ current[c] = Idle
                    /\ \/ sched_queue[c] # <<>>
                       \/ pause_queue[c] # <<>> /\ pause_queue[c][1].due
                    => ipi[c]

\* Whether some thread is between the two halves of a state change of t.
InTransit(t) == \E s \in Threads : pc[s] \in {"queue", "dequeued"} /\ Target(s) = t

Occurrences(q, Test(_)) == Cardinality({i \in DOMAIN q : Test(q[i])})

\* State and queues agree when the threads of a process share a CPU.  A running
\* thread is in the run queue of its CPU exactly once, from the moment its waker
\* has the lock; any other thread is not; and a thread is in the queue of sleepers
\* at most once, marked by its duration as one to be restarted (set_thread_state,
\* pause, remove_last, remove_timers, sub_queue, sub_dequeue).  A CPU executes only
\* threads of its run queue, as nobody takes a thread off while it runs, which is
\* what the complete lock is for; and whatever goes, the position stays a place of
\* the queue (Retreat).
QueuesMatchState ==
    /\ \A t \in Threads :
        LET c == Home[t]
            runs == Occurrences(sched_queue[c], LAMBDA u : u = t)
            sleeps == Occurrences(pause_queue[c], LAMBDA e : e.tr = t)
        IN  /\ runs = IF state[t] = "RUNNING" /\ ~InTransit(t) THEN 1 ELSE 0
            /\ sleeps <= 1
            /\ sleeps = 1 => t \in duration
    /\ \A c \in Cpus :
        /\ current[c] \in Threads => current[c] \in ToSet(sched_queue[c])
        /\ position[c] < Len(sched_queue[c]) \/ position[c] = 0
=============================================================================
