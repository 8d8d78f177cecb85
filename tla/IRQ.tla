-------------------------------- MODULE IRQ --------------------------------
(***************************************************************************)
(* Interrupts that are handled in user mode: irq.c, the fast queue of      *)
(* scheduler.c and the loop of a handler thread in libsmk/irq.c.           *)
(*                                                                         *)
(* An interrupt puts the first handler of its line into the fast queue of  *)
(* the handler's CPU.  The scheduler runs the head of that queue until it  *)
(* calls irq_complete.  A handler that refuses the interrupt passes it     *)
(* on to the next one of the line.  Main threads request lines for handler *)
(* threads and release them.                                               *)
(*                                                                         *)
(* sched_lock_all waits until no other CPU runs a thread, and no scheduler  *)
(* starts one meanwhile; module Scheduler has the steps of a single lock.  *)
(***************************************************************************)
EXTENDS Integers, Sequences, FiniteSets

CONSTANTS
    CPU,          \* processors
    BootCpu,      \* the one the I/O APIC delivers all lines to
    Line,         \* interrupt lines in use (not the timer's line 0)
    Handler,      \* threads made by smk_request_irq
    Main,         \* the threads that request and release lines
    Home,         \* the CPU of each main thread
    Process,      \* tr->process
    Nobody, NoLine, NoCpu,
    MAX_FAST,     \* slots of a fast queue
    MaxRaised     \* bound: interrupts of each line

Thread == Handler \cup Main

ASSUME HomeAssumption == Home \in [Main -> CPU] /\ BootCpu \in CPU
ASSUME ThreadAssumption == Handler \cap Main = {}
ASSUME RingAssumption == MAX_FAST \in Nat \ {0}
ASSUME MarkerAssumption ==
    Nobody \notin Thread /\ NoLine \notin Line /\ NoCpu \notin CPU

VARIABLES
    hook,         \* handlers[]: raised, index, last and the stubs of a line
    unmasked,     \* lines the controller lets through
    latched,      \* external: lines raised by a device and not delivered yet
    inservice,    \* external: the line whose acknowledgement the boot CPU's APIC awaits
    irq_lock,     \* holder of irq_locks[]
    state, irq,   \* tr->state and tr->irq
    fast,         \* the fast queue of each CPU, from fast_start to fast_stop
    fast_queued, cpu, affinity,   \* tr->fast_queued, tr->cpu and tr->cpu_affinity
    current,      \* the thread each CPU runs
    flip,         \* flip of the scheduler's loop
    locker,       \* the thread inside sched_lock_all
    pc,           \* where each thread is
    pos,          \* the local variable of irq_complete
    panic         \* the reason why the kernel stopped

lineVars == <<hook, unmasked, irq_lock>>
threadVars == <<state, irq, pc, pos>>
queueVars == <<fast, fast_queued, cpu, affinity>>
cpuVars == <<current, flip, locker>>
vars == <<lineVars, threadVars, queueVars, cpuVars, latched, inservice, panic>>

Stub == [tr : Handler, ack : Nat, nop : Nat]

TypeOK ==
    /\ hook \in [Line -> [raised : Nat, index : Nat, last : Nat, stubs : Seq(Stub)]]
    /\ unmasked \subseteq Line
    /\ latched \subseteq Line
    /\ inservice \in Line \cup {NoLine}
    /\ irq_lock \in [Line -> Thread \cup {Nobody}]
    /\ state \in [Thread -> {"suspended", "irq", "running"}]
    /\ irq \in [Thread -> Line \cup {NoLine}]
    /\ fast \in [CPU -> Seq(Handler)]
    /\ fast_queued \in [Thread -> Nat]
    /\ cpu \in [Thread -> CPU \cup {NoCpu}]
    /\ affinity \in [Handler -> CPU \cup {NoCpu}]
    /\ current \in [CPU -> Thread \cup {Nobody}]
    /\ flip \in [CPU -> BOOLEAN]
    /\ locker \in Thread \cup {Nobody}
    /\ pc \in [Thread -> {"new", "user", "acked", "complete", "request", "release", "exit"}]
    /\ pos \in [Thread -> Nat]
    /\ panic \in {"no", "divide", "ring full", "not queued", "not the head", "interrupts off", "exit", "wild"}

Init ==
    /\ hook = [i \in Line |-> [raised |-> 0, index |-> 0, last |-> 0, stubs |-> <<>>]]
    /\ unmasked = {}
    /\ latched = {}
    /\ inservice = NoLine
    /\ irq_lock = [i \in Line |-> Nobody]
    /\ state = [t \in Thread |-> IF t \in Main THEN "running" ELSE "suspended"]
    /\ irq = [t \in Thread |-> NoLine]
    /\ fast = [c \in CPU |-> <<>>]
    /\ fast_queued = [t \in Thread |-> 0]
    /\ cpu = [t \in Thread |-> IF t \in Main THEN Home[t] ELSE NoCpu]
    /\ affinity = [t \in Handler |-> NoCpu]
    /\ current = [c \in CPU |-> Nobody]
    /\ flip = [c \in CPU |-> FALSE]
    /\ locker = Nobody
    /\ pc = [t \in Thread |-> IF t \in Main THEN "user" ELSE "new"]
    /\ pos = [t \in Thread |-> 0]
    /\ panic = "no"

---------------------------------------------------------------------------
(* A failed assertion, or an exception in the kernel, stops it.            *)
Halt(why) ==
    /\ panic' = why
    /\ UNCHANGED <<lineVars, threadVars, queueVars, cpuVars, latched, inservice>>

count(i) == Len(hook[i].stubs)

(* Position of the handler whose turn it is, counted from 0 as in the code *)
Turn(i) == (hook[i].index + hook[i].last) % count(i)

StubAt(i, p) == hook[i].stubs[p + 1]

\* Mutant: the newest entry goes to the front.
FastQueuedFront(f, t) == [f EXCEPT ![affinity[t]] = <<t>> \o @]

(* fast_queue: the ring of the handler's CPU with one more entry             *)
FastQueued(f, t) == [f EXCEPT ![affinity[t]] = Append(@, t)]

RingFull(f, t) == Len(f[affinity[t]]) + 1 = MAX_FAST

---------------------------------------------------------------------------
(* The scheduler's loop: the fast queue and the run queue take turns.      *)
RunQueue(c) == {t \in Main : Home[t] = c}

RunFast(c) ==
    /\ locker = Nobody /\ current[c] = Nobody /\ ~flip[c] /\ fast[c] # <<>>
    /\ current' = [current EXCEPT ![c] = Head(fast[c])]
    /\ flip' = [flip EXCEPT ![c] = RunQueue(c) # {}]
    /\ UNCHANGED <<locker, lineVars, threadVars, queueVars, inservice, latched, panic>>

\* Mutant: flip is not reset.
RunNextKeepingFlip(c) ==
    /\ locker = Nobody /\ current[c] = Nobody /\ (flip[c] \/ fast[c] = <<>>)
    /\ \E t \in RunQueue(c) : current' = [current EXCEPT ![c] = t]
    /\ UNCHANGED <<flip, locker, lineVars, threadVars, queueVars, inservice, latched, panic>>

RunNext(c) ==
    /\ locker = Nobody /\ current[c] = Nobody /\ (flip[c] \/ fast[c] = <<>>)
    /\ \E t \in RunQueue(c) : current' = [current EXCEPT ![c] = t]
    /\ flip' = [flip EXCEPT ![c] = FALSE]
    /\ UNCHANGED <<locker, lineVars, threadVars, queueVars, inservice, latched, panic>>

(* The end of a timeslice                                                  *)
Preempt(c) ==
    /\ current[c] \notin {Nobody, locker}
    /\ current' = [current EXCEPT ![c] = Nobody]
    /\ UNCHANGED <<lineVars, threadVars, queueVars, flip, locker, latched, inservice, panic>>

---------------------------------------------------------------------------
(* External: a device raises its line, and the APIC latches it.            *)
Latch(i) ==
    /\ i \in unmasked \ latched
    /\ hook[i].raised < MaxRaised[i]
    /\ latched' = latched \cup {i}
    /\ UNCHANGED <<lineVars, threadVars, queueVars, cpuVars, inservice, panic>>

(* irq_handler, in the context of whatever runs on the boot CPU.  External: *)
(* no further line is delivered before the last one is acknowledged.        *)
Raised(i) == [hook[i] EXCEPT !.raised = @ + 1, !.index = 0]

InterruptsOn == locker # Nobody => current[BootCpu] \notin {Nobody, locker}

Deliver(i) ==
    /\ i \in latched /\ inservice = NoLine /\ InterruptsOn
    /\ hook[i].raised < MaxRaised[i]

Spurious(i) ==
    /\ Deliver(i) /\ count(i) = 0
    /\ hook' = [hook EXCEPT ![i] = Raised(i)]
    /\ latched' = latched \ {i} /\ inservice' = i
    /\ UNCHANGED <<unmasked, irq_lock, threadVars, queueVars, cpuVars, panic>>

\* Mutant: the kernel acknowledges the interrupt itself (the ack_apic that is commented out).
HandlerAcknowledging(i) ==
    /\ Deliver(i) /\ count(i) > 0
    /\ LET t == StubAt(i, 0).tr IN
       /\ hook' = [hook EXCEPT ![i] = Raised(i)]
       /\ fast' = FastQueued(fast, t)
       /\ fast_queued' = [fast_queued EXCEPT ![t] = @ + 1]
       /\ cpu' = [cpu EXCEPT ![t] = affinity[t]]
       /\ latched' = latched \ {i}
       /\ UNCHANGED <<unmasked, irq_lock, threadVars, affinity, cpuVars, inservice, panic>>

irq_handler(i) ==
    /\ Deliver(i) /\ count(i) > 0
    /\ IF hook[i].last >= count(i)
       THEN Halt("wild")                      \* stubs[last] is not in the array
       ELSE LET t == StubAt(i, hook[i].last).tr IN
            IF RingFull(fast, t) THEN Halt("ring full")
            ELSE /\ hook' = [hook EXCEPT ![i] = Raised(i)]
                 /\ fast' = FastQueued(fast, t)
                 /\ fast_queued' = [fast_queued EXCEPT ![t] = @ + 1]
                 /\ cpu' = [cpu EXCEPT ![t] = affinity[t]]
                 /\ latched' = latched \ {i} /\ inservice' = i
                 /\ UNCHANGED <<unmasked, irq_lock, threadVars, affinity, cpuVars, panic>>

---------------------------------------------------------------------------
(* A handler thread: smk_irq_stub calls the driver's function, which        *)
(* acknowledges the interrupt once, and then irq_complete with its answer.  *)
Runs(t, c) == current[c] = t /\ t \in Handler

irq_ack(t, c) ==
    LET i == irq[t] IN
    /\ Runs(t, c) /\ pc[t] = "user"
    /\ i # NoLine /\ irq_lock[i] = Nobody
    /\ IF count(i) = 0 THEN Halt("divide")
       ELSE /\ inservice' = IF StubAt(i, Turn(i)).tr = t /\ c = BootCpu THEN NoLine ELSE inservice
            /\ pc' = [pc EXCEPT ![t] = "acked"]
            /\ UNCHANGED <<lineVars, state, irq, pos, queueVars, cpuVars, latched, panic>>

(* irq_complete up to the test whether it is the caller's turn              *)
CompleteTest(t, c) ==
    LET i == irq[t] IN
    /\ Runs(t, c) /\ pc[t] \in {"user", "acked"}
    /\ IF i = NoLine
       THEN /\ pc' = [pc EXCEPT ![t] = "exit"]
            /\ UNCHANGED <<lineVars, state, irq, pos, queueVars, cpuVars, inservice, latched, panic>>
       ELSE /\ irq_lock[i] = Nobody
            /\ IF count(i) = 0 THEN Halt("divide")
               ELSE /\ IF StubAt(i, Turn(i)).tr # t
                       THEN /\ pc' = [pc EXCEPT ![t] = "exit"]
                            /\ UNCHANGED <<irq_lock, pos>>
                       ELSE /\ irq_lock' = [irq_lock EXCEPT ![i] = t]
                            /\ pc' = [pc EXCEPT ![t] = "complete"]
                            /\ pos' = [pos EXCEPT ![t] = Turn(i)]
                    /\ UNCHANGED <<hook, unmasked, state, irq, queueVars, cpuVars, inservice, latched, panic>>

(* fast_dequeue of the caller: its assertions, and its effect on f and n    *)
DequeueError(t, c, f) ==
    IF cpu[t] # c THEN "not queued" ELSE IF f[c] = <<>> \/ Head(f[c]) # t THEN "not the head" ELSE "no"

Dequeued(t, c, f, n) ==
    /\ fast' = [f EXCEPT ![c] = Tail(@)]
    /\ fast_queued' = [n EXCEPT ![t] = @ - 1]
    /\ cpu' = [cpu EXCEPT ![t] = IF n[t] = 1 THEN NoCpu ELSE @]

(* irq_complete( 0 ): the interrupt was the caller's, which yields          *)
Accept(t, c) ==
    LET i == irq[t] IN
    /\ Runs(t, c) /\ pc[t] = "complete"
    /\ IF DequeueError(t, c, fast) # "no" THEN Halt(DequeueError(t, c, fast))
       ELSE /\ hook' = [hook EXCEPT ![i].stubs[pos[t] + 1].ack = @ + 1, ![i].last = pos[t]]
            /\ irq_lock' = [irq_lock EXCEPT ![i] = Nobody]
            /\ Dequeued(t, c, fast, fast_queued)
            /\ pc' = [pc EXCEPT ![t] = "user"]
            /\ current' = [current EXCEPT ![c] = Nobody]
            /\ pos' = [pos EXCEPT ![t] = 0]
            /\ UNCHANGED <<unmasked, state, irq, affinity, flip, locker, inservice, latched, panic>>

(* irq_complete with another status: the next handler of the line, if there *)
(* is one left, is queued; the caller goes on running.                      *)
Refuse(t, c) ==
    LET i == irq[t]
        more == hook[i].index + 1 < count(i)
        next == StubAt(i, (pos[t] + 1) % count(i)).tr
        f == IF more THEN FastQueued(fast, next) ELSE fast
        n == IF more THEN [fast_queued EXCEPT ![next] = @ + 1] ELSE fast_queued
        why == IF more /\ RingFull(fast, next) THEN "ring full"
               ELSE IF more /\ affinity[next] # c THEN "interrupts off" ELSE DequeueError(t, c, f)
    IN
    /\ Runs(t, c) /\ pc[t] = "complete"
    /\ IF why # "no" THEN Halt(why)
       ELSE /\ hook' = [hook EXCEPT ![i].stubs[pos[t] + 1].nop = @ + 1, ![i].index = @ + 1]
            /\ irq_lock' = [irq_lock EXCEPT ![i] = Nobody]
            /\ fast' = [f EXCEPT ![c] = Tail(@)]
            /\ fast_queued' = [n EXCEPT ![t] = @ - 1]
            /\ cpu' = [u \in Thread |-> IF more /\ u = next THEN c
                                        ELSE IF u = t /\ n[t] = 1 THEN NoCpu ELSE cpu[u]]
            /\ pc' = [pc EXCEPT ![t] = "user"]
            /\ pos' = [pos EXCEPT ![t] = 0]
            /\ UNCHANGED <<unmasked, state, irq, affinity, cpuVars, inservice, latched, panic>>

(* irq_complete failed: smk_irq_stub returns, and the exit of the thread     *)
(* finds a state that is not THREAD_RUNNING.                                 *)
Exit(t, c) ==
    /\ Runs(t, c) /\ pc[t] = "exit"
    /\ Halt("exit")

---------------------------------------------------------------------------
(* The calls of syscall_irq that change who handles a line.  The caller has  *)
(* its process checked out as a writer.                                      *)
CheckedOut(p) == \E u \in Thread : Process[u] = p /\ pc[u] \in {"request", "release"}

(* smk_request_irq makes a thread, which is suspended, for each request.     *)
Fresh(t, m) == pc[t] = "new" /\ Process[t] = Process[m] /\ state[t] = "suspended"

(* request_irq up to sched_lock_all                                          *)
RequestLock(m, c, i) ==
    /\ current[c] = m /\ m \in Main /\ pc[m] = "user"
    /\ ~CheckedOut(Process[m])
    /\ \E t \in Handler : Fresh(t, m)
    /\ irq_lock[i] = Nobody
    /\ irq_lock' = [irq_lock EXCEPT ![i] = m]
    /\ pc' = [pc EXCEPT ![m] = "request"]
    /\ UNCHANGED <<hook, unmasked, state, irq, pos, queueVars, cpuVars, inservice, latched, panic>>

sched_lock_all(t, c) ==
    /\ current[c] = t /\ pc[t] \in {"request", "release"} /\ locker = Nobody
    /\ locker' = t
    /\ UNCHANGED <<lineVars, threadVars, queueVars, current, flip, inservice, latched, panic>>

LockedAll(t, c) == locker = t /\ current[c] = t /\ \A d \in CPU \ {c} : current[d] = Nobody

Holds(t, i) == irq_lock[i] = t

NewStub(t) == [tr |-> t, ack |-> 0, nop |-> 0]

request_irq(m, c, i, t) ==
    /\ pc[m] = "request" /\ Holds(m, i) /\ LockedAll(m, c)
    /\ Fresh(t, m)
    /\ hook' = [hook EXCEPT ![i].stubs = Append(@, NewStub(t))]
    /\ unmasked' = IF count(i) = 0 THEN unmasked \cup {i} ELSE unmasked
    /\ irq' = [irq EXCEPT ![t] = i]
    /\ state' = [state EXCEPT ![t] = "irq"]
    /\ irq_lock' = [irq_lock EXCEPT ![i] = Nobody] /\ locker' = Nobody
    /\ affinity' \in {[affinity EXCEPT ![t] = d] : d \in CPU}     \* (tid - 1) % cpu_count
    /\ pc' = [pc EXCEPT ![m] = "user", ![t] = "user"]
    /\ UNCHANGED <<pos, fast, fast_queued, cpu, current, flip, inservice, latched, panic>>

(* release_irq: the last handler of a line goes if it is of the caller's      *)
(* process, otherwise the caller must be a handler of the line.               *)
Without(i, t) ==
    LET p == CHOOSE q \in 1..count(i) : hook[i].stubs[q].tr = t
    IN  [k \in 1..(count(i) - 1) |-> hook[i].stubs[IF k < p THEN k ELSE k + 1]]

MayRelease(t, i) ==
    IF count(i) = 1 THEN Process[StubAt(i, 0).tr] = Process[t]
                    ELSE \E p \in 1..count(i) : hook[i].stubs[p].tr = t

Remaining(t, i) == IF count(i) = 1 THEN <<>> ELSE Without(i, t)

ReleaseLock(t, c, i) ==
    /\ current[c] = t /\ pc[t] \in {"user", "acked"}
    /\ ~CheckedOut(Process[t])
    /\ irq_lock[i] = Nobody /\ MayRelease(t, i)
    /\ irq_lock' = [irq_lock EXCEPT ![i] = t]
    /\ pc' = [pc EXCEPT ![t] = "release"]
    /\ UNCHANGED <<hook, unmasked, state, irq, pos, queueVars, cpuVars, inservice, latched, panic>>

Retired(i, stubs) ==
    [hook[i] EXCEPT !.stubs = stubs,
                    !.index = IF @ >= Len(stubs) /\ @ > 0 THEN @ - 1 ELSE @,
                    !.last = IF @ >= Len(stubs) /\ @ > 0 THEN @ + 1 ELSE @]    \* last -= -1

\* Mutant: the line stays open.
ClosedNever(i, stubs) == unmasked

Closed(i, stubs) == IF stubs = <<>> THEN unmasked \ {i} ELSE unmasked

release_irq(t, c, i) ==
    /\ pc[t] = "release" /\ Holds(t, i) /\ LockedAll(t, c)
    /\ hook' = [hook EXCEPT ![i] = Retired(i, Remaining(t, i))]
    /\ unmasked' = Closed(i, Remaining(t, i))
    /\ state' = [state EXCEPT ![t] = "suspended"]
    /\ irq' = [irq EXCEPT ![t] = NoLine]
    /\ irq_lock' = [irq_lock EXCEPT ![i] = Nobody] /\ locker' = Nobody
    /\ pc' = [pc EXCEPT ![t] = IF t \in Main THEN "user" ELSE "acked"]
    /\ UNCHANGED <<pos, queueVars, current, flip, inservice, latched, panic>>

---------------------------------------------------------------------------
HandlerStep(t, c) ==
    \/ irq_ack(t, c)
    \/ CompleteTest(t, c)
    \/ Accept(t, c)
    \/ Refuse(t, c)
    \/ Exit(t, c)

CallStep(t, c, i) ==
    \/ RequestLock(t, c, i)
    \/ \E h \in Handler : request_irq(t, c, i, h)
    \/ ReleaseLock(t, c, i)
    \/ sched_lock_all(t, c)
    \/ release_irq(t, c, i)

Next ==
    /\ panic = "no"
    /\ \/ \E c \in CPU : RunFast(c) \/ RunNext(c) \/ Preempt(c)
       \/ \E i \in Line : Latch(i) \/ Spurious(i) \/ irq_handler(i)
       \/ \E t \in Handler, c \in CPU : HandlerStep(t, c)
       \/ \E t \in Thread, c \in CPU, i \in Line : CallStep(t, c, i)

Spec == Init /\ [][Next]_vars

(* The timer ends every timeslice and the schedulers go on.  A thread that    *)
(* is run again and again makes its next step: the functions of the drivers   *)
(* return, and a spinlock that is freed again and again is obtained.          *)
Fairness ==
    /\ \A c \in CPU : WF_vars(panic = "no" /\ (RunFast(c) \/ RunNext(c) \/ Preempt(c)))
    /\ \A t \in Handler : SF_vars(panic = "no" /\ \E c \in CPU :
            CompleteTest(t, c) \/ Accept(t, c) \/ Refuse(t, c))
    /\ SF_vars(panic = "no" /\ \E t \in Thread, c \in CPU :
            sched_lock_all(t, c) \/ \E i \in Line :
                release_irq(t, c, i) \/ \E h \in Handler : request_irq(t, c, i, h))

FairSpec == Spec /\ Fairness

---------------------------------------------------------------------------
(* No handler has refused an interrupt and no line has been released.        *)
Undisturbed ==
    /\ \A i \in Line : \A p \in 1..count(i) : hook[i].stubs[p].nop = 0
    /\ \A t \in Thread : state[t] = "suspended" => pc[t] = "new"

(* A line is open at the controller exactly while it has a handler: request_irq *)
(* and release_irq change both under the lock of all schedulers.               *)
MaskFollowsHandlers == \A i \in Line : i \in unmasked <=> count(i) > 0

(* Each fast queue holds only handlers of its CPU, and tr->fast_queued and      *)
(* tr->cpu say what is in it.                                                   *)
FastCountsExact ==
    /\ \A c \in CPU : \A k \in 1..Len(fast[c]) : affinity[fast[c][k]] = c
    /\ \A t \in Handler, c \in CPU : affinity[t] = c =>
            fast_queued[t] = Cardinality({k \in 1..Len(fast[c]) : fast[c][k] = t})
    /\ \A t \in Handler : cpu[t] = NoCpu <=> fast_queued[t] = 0

(* tr->fast_queued counts the entries of the thread in the fast queue of its    *)
(* own CPU, whatever interrupts, completions and releases come in between.      *)
(* While all handlers accept their interrupts and keep their lines, a fast      *)
(* queue of 32 slots is enough: no line is delivered before the last one is     *)
(* acknowledged, so a queue has at most the running handler and one more.       *)
(* (A handler that refused goes on running and may acknowledge what others are  *)
(* queued for.)                                                                 *)
FastQueueSound == FastCountsExact /\ (Undisturbed => \A c \in CPU : Len(fast[c]) <= 2)

(* While all handlers accept their interrupts and keep their lines, none of the *)
(* assertions of irq_complete, fast_queue and fast_dequeue fails, no handler is  *)
(* turned away, and stubs[last] exists.                                          *)
KernelKeepsRunning == Undisturbed => panic \in {"no", "interrupts off"}

(* Every interrupt that was queued for a handler is handled, unless a release or *)
(* a refusal came in between.                                                    *)
InterruptsServed ==
    \A t \in Handler : fast_queued[t] > 0 ~> (fast_queued[t] = 0 \/ ~Undisturbed \/ panic # "no")
=============================================================================
