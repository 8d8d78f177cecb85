# A verification development for the Spoon microkernel

Spoon is a small multiprocessor microkernel for x86 (`src/kernel`), with user-mode
libraries (`libsmk`, `libcomms`), a device file system and drivers (`src/devices`) and
applications (`src/spoon`, where `kernel`, `devices` and `config` are copies of the
top-level directories). Threads of user processes talk to each other and to drivers through
*ports*, *messages* and *pulses*; everything above the kernel rests on that
communication, on the schedulers that put its callers to sleep and wake them up, on the
locks and queues below both, and on the memory that processes share. This directory models that
core, and the device file system as the largest program on top of it, in TLA+, checks it with TLC and
proves its main properties with TLAPS.

## 1. The system

| Component | State | Operations | Hard behaviour | What makes it correct |
|---|---|---|---|---|
| Reader-writer lock (`rwlock.c`) | reader and writer counts, a write request, a spinlock | read access, write access, release | release takes no spinlock and runs between the steps of an acquisition | exclusion; a request is always taken back; waiting ends |
| Paged queue (`ds/aqueue.c`) | a chain of pages, two positions, a staging mark | new, save, get, next, reset, lock, unlock | page boundaries, recycling of slots, a failed allocation | a FIFO queue; memory is given back |
| Ports, messages, pulses (`ports.c`, `messages.c`, `pulse.c`) | the owner and mask of each port, two queues per port, a port array and two hints per thread, message bodies | create, release, flags, send, receive, drop, peek | ports released or recreated between a peek and the call that obeys its hint; sends racing a receiver that goes to sleep | the two records of ownership agree; bodies freed once; nobody sleeps on a waiting message |
| Scheduler (`scheduler.c`, `threads.c`) | per CPU a run queue, a queue of timed sleepers, one request, a spinlock, an idle mark | queue, dequeue, pause, restart, yield, state changes, the scheduler loop | CPUs act on each other's queues; expiry races wake-up; idling races queueing | state and queues agree; no CPU sleeps on work; locks are short |
| Process table and life cycle (`process.c`, `exec.c`, `gc.c`, `events.c`, the rest of `threads.c`) | the table and its lock, each process's lock, thread tree, count of threads in the kernel, the collector's rings | checkout, commit, insert, remove, exec, thread creation and deletion, collection | a process dies while its threads are inside the kernel; nested checkouts | nothing freed in use, everything dead is collected |
| System call entry (`syscalls.c`) | none of its own | dispatch, permission checks, checkout of the process concerned | early returns between checkout and commit | every checkout has its commit |
| Interrupt handlers (`irq.c`, fast queue of `scheduler.c`, `libsmk/irq.c`) | a chain of handlers per line with two positions in it, the handlers' counts, a ring of handlers to run per CPU | request, release, acknowledge, complete, the handler | interrupts during completions; a handler is released or refuses while an interrupt is in flight | a line is open exactly while it has a handler; rings and counts agree; queued interrupts are served |
| Physical memory (`physmem.c`) | a bitmap, a count, a search position | allocate, free, reserve | the search wraps round and skips | nothing handed out twice; no free run missed; the search ends |
| Shared memory, address spaces (`shmem.c`, `ualloc.c`, `paging.c`) | regions with their users and counts; records of allocations; page entries | create, grant, revoke, request, release, delete; allocate, map, free | deletion checks its users out one by one; memory runs out half way | no freed frame stays mapped; processes share only through regions |
| Device file system (`devices/devfs`, `libdevfs`, `libcomms`) | devices and their hooks, files and descriptors, a table of pending requests, ports of clients and drivers | register, deregister, open, close, forwarded calls, streams | answers that come late, drivers that end, notices that pass answers | open files have devices; descriptors are unique; answers are one's own; slots do not leak |
| Environment, hash table, events, heap (`env.c`, `ds/htable.c`, `events.c`, `liballoc.c`) | lists of named values; buckets; one hook per event | set, get, clone; insert, retrieve, remove | | not modelled |
| Time, output, CPU tables, bring-up | registers | | hardware | not modelled |
| Drivers, applications, VFS, libunix | their own | through the interfaces above | | not modelled |

How they interact: a system call checks a process out of the table (a read access of
the table's lock and a read or write access of the process's own lock), works on the ports,
queues or threads of the process, may change the state of a thread (which takes the spinlock of
that thread's CPU, or leaves a request for the CPU's own scheduler), commits the process and
returns. The interrupt path enters the scheduler loop, which holds the spinlock of its CPU
except while a thread runs.

## 2. Modules

| Module | Models | Extended or instantiated by |
|---|---|---|
| `SharedLock` | what a reader-writer lock promises | `RWLock` (refinement) |
| `RWLock` | `rwlock.c`, one action per load or store another CPU can see | `RWLockProofs`, `MCRWLock` |
| `FIFO` | what the queue promises | `AQueue` (refinement) |
| `AQueue` | `ds/aqueue.c`, one action per function (two for `aqueue_next`) | `AQueueProofs`, `MCAQueue` |
| `IPC` | `ports.c`, `messages.c`, `pulse.c`, the sleep decision of `threads.c` | `IPCProofs`, `MCIPC` |
| `Scheduler` | `scheduler.c`, `set_thread_state`, `exec_thread`, `go_dormant`, thread exit | `SchedulerProofs`, `MCScheduler` |
| `Lifecycle` | `process.c`, `exec.c`, `gc.c`, system call entry, sleeping and exits | `LifecycleProofs`, `MCLifecycle` |
| `Family` | what a family tree promises | `ThreadTree` (refinement) |
| `ThreadTree` | `ds/family.h`, `ds/list.h`, `new_thread`, `delete_thread` | `MCThreadTree` |
| `IRQ` | `irq.c`, the fast queue and its turns in `scheduler.c`, the stub loop of `libsmk/irq.c` | `IRQProofs`, `MCIRQ` |
| `PagePool` | what an allocator of pages promises | `Physmem` (refinement) |
| `Physmem` | `physmem.c`, one action per round of the search | `MemoryProofs`, `MCPhysmem` |
| `Memory` | `ualloc.c`, `shmem.c` and what `paging.c` does for them, over a set of frames as in `PagePool` | `MemoryProofs`, `MCMemory` |
| `DevFS` | the devfs daemon, `libdevfs`, the loop of `libcomms` | `DevFSProofs`, `MCDevFS` |

### RWLock

`struct rwlock` is three variables; a spinlock has a holder; `pc` says where in which
function each thread is. What runs under the spinlock is still split into steps, because
`rwlock_release` takes no spinlock. `num_readers += 1` in `rwlock_get_read_access` is a plain
increment, so it is a load (`ReadLoad`) and a store (`ReadStore`), while the decrement of
`rwlock_release` is a locked instruction and one step. `rwlock_release` does not know the
caller's mode: `ReleaseTest` asks `num_writers`, as the code does. `init_rwlock` is `Init`.

### AQueue

The chain of pages is a sequence of functions from slots to objects; `position` and
`last_position` count from the first page of the chain, as in the code. `New` covers
`aqueue_new` and the assignment its caller makes through the returned pointer. Calls made in one
lock section run undisturbed, so the callers are one sequence of operations; `KernelNext` is how
`messages.c`, `pulse.c` and `ports.c` call the queue (what is staged is saved). The module's
refinement maps the chain to the sequence of saved objects.

### IPC

One process: its port table (`tid`, `masked`), the two queues of each port, the port array and
hints of each thread and the allocated message bodies. All operations hold the process checked
out, so each is one action, sends of other processes included. The queues are sequences,
justified by `AQueue`. The scans of a thread's port array end at the first unused slot in the
code, and `Slots` does the same, so a gap in the array would hide ports. `go_dormant` commits the process before it
yields: the thread is in `requesting` until `Suspend` (the scheduler's `remove_last`) makes it
dormant. A send wakes only a thread that is already dormant.

### Scheduler

Per CPU: `sched_queue`, `position`, `pause_queue`, `requesting`, the spinlock and the thread
that runs. What the spinlock guards is one step; waiting for it is not, and neither is the wait
of the "complete" lock for a CPU that still runs a thread. `running` of the code is
`current[c] # Nobody`. `Retreat` keeps the unsigned arithmetic of `position`. A system call that
changes another thread's state is split where the code releases or waits for a lock
(`Begin`, `sched_lock`, `queue`/`restart`/`sub_dequeue`, `Dequeued`). Interrupts matter: the
context of each thread has them on or off (`intr`), and only a thread with interrupts enabled is
preempted. Time is abstract: any prefix of the sleepers may have expired when a scheduler looks,
and a restarted one always has. A failed assertion sets `panic`, and the kernel stops.

### Lifecycle

The table of processes and its lock, each process's lock, state, threads and
`kernel_threads`, the ring of each CPU's collector, and for every thread and collector the place
it has reached, the call it makes and the process it checks out. A lock is what `rwlock.c` does in
one undisturbed call (`RWLock` has the steps inside); a writer that has to wait first leaves its
request (`LockProcess`, `AskForTable`), which keeps readers out, as in the code. Waiting for a lock is
a place, and what lies between two waits is one action: `Find` and `LockProcess` are
`checkout_process`, each call is an action from the checkout to the commit, exec has six
(`Insert`, `Find`, `LockProcess`, `FindParent`/`LockParent`, `Clone`), the collector has one per section of
`gc_do_thread` and `gc_do_process`. Calls that differ only in what they do to ports, queues
or the environment are one action (`ReadCall`, `SendCall`). The test for a dying process and the
count on entry (`Enter`, `syscall`) are two steps, since a thread can be preempted between them.
Between the commit and the yield of a sleep or an exit interrupts are off: nobody else on
that CPU moves (`At`), and a killer on another CPU waits (`Kill`).

### ThreadTree

The pointers of `struct ds_family_tree` and `struct ds_list` as functions from threads to threads, and
`proc->threads`. The functions of the two headers map pointers to pointers; their loops are folds
that stop when the cursor is NULL. `new_thread` and `delete_thread` run with the process checked out as a
writer, so they are the steps. `Family` says what they mean: who made whom, and that the
children of a deleted thread go to its parent.

### IRQ

`handlers[]` is a record per line with the sequence of stubs; the positions `index` and `last` count from 0 as in the
code, and `Turn` is the remainder the code takes, so a line without handlers divides by zero there. Each fast queue is the
sequence from `fast_start` to `fast_stop`. `RunFast` and `RunNext` are the two halves of the scheduler's loop with
`flip`; `irq_complete` is a test (`CompleteTest`) that takes the lock of the line and an effect (`Accept`, `Refuse`), and
the handler can be preempted in between. `request_irq` and `release_irq` are split at `sched_lock_all`, which waits until no other
CPU runs a thread (`LockedAll`). `last -= -1` in `release_irq` is an increment and is one in the model. The interrupt
controller is external: it latches a raised line, delivers one line at a time to the boot CPU, and waits for its acknowledgement there.
A failed assertion, a division by zero and a read outside the array set `panic`.

### Physmem

The bitmap is a set of pages, `s_freePages` an integer of its own, because the macro `SET` lowers it only
once in two loops of `init_memory`. The search of `memory_multiple_alloc` is one action per outcome of a round of its outer loop
(`SkipTail` where the run would not fit, `SkipSet` at a collision, `Found`, `NotFound`): each moves the loop variable in its own way. Everything runs under
`kernel_lock`, so calls wait while a search is on. Which pages the boot loader reports as available is any subset.

### Memory

Page entries map slots of a process to physical pages: frames of the pool, device pages outside it, or page 0, which is what
`page_ensure` maps when there is no memory. A call that has its process checked out and holds the region's lock is one action; a failed
allocation is an alternative of the action at the point where the code makes it, with what was done before left as it is. `shmem_delete`
has three phases: it takes the region out of the table, checks its users out one by one with nothing else locked, and then gives each of
them a scratch page and frees the region's frame. Regions and allocations have one page; ranges would add only arithmetic.
`FreeFrames` is `memory_free` as seen from here; the names `SpaceSpec`, `SpaceInit` and `SpaceTypeOK` keep the module apart from `Physmem`, as
both are proved about in `MemoryProofs`. `excused` is a history variable: the processes for which the code breaks its promise, as section 5 says.

### DevFS

Each process has a port for its calls and, if it is a driver, one for its event loop; the daemon has one for requests
and pulses. A call is a request with a tag that nobody in the code sees: it says whose answer an answer is (`AnswerIsOwn`). The
slots of `state_table`, the counters `last_fd` and `request_id`, hooks of devices and streams of files are as in the code; a request id in a
notice is uninitialised in the code and `Garbage` here. A driver may end at any time (`Mortal`), with what it has not answered; a
call of an `Impatient` process may outlast its timer (`TimeOut`), or wake at the exact millisecond (`SleepOn`).

## 3. Runs

| Run | Instance | Shows |
|---|---|---|
| `rwlock` | three threads that read and write, counts up to 3, fairness | `Exclusion`, `NoOrphanRequest`, `ImplementsSharedLock`, `Progress` |
| `aqueue_kernel` | pages of two objects, at most five objects | `PagesFollowSize`, `GetSeesFirst`, `ImplementsFIFO` |
| `ipc_calls` | two threads, two ports, three bodies, one pulse per port, one CPU | `HintsOwned`, `BodiesAllocated`, `MessagesReachable`, `PortListsExact`, `DormantHasNothingWaiting`, `ReleaseKeepsOtherMessages` |
| `sched_calls` | two CPUs, two threads of a process on one, a thread of another on the other | `HolderRuns`, `NoSleepingCpu`, `QueuesMatchState` |
| `lifecycle` | two CPUs with rings of two, two processes with three threads, a third process by exec | `CheckedOutExists`, `CheckoutsMatch`, `KernelThreadsExact`, `CollectorAssertions`, `DeadAreQueued` |
| `lifecycle_deadlock` | the same | violates `CollectorNotBlocked` |
| `thread_tree` | five threads, made and deleted in any order | `HeadReachesAll`, `ImplementsFamily` |
| `irq` | two CPUs, two lines with two and one interrupts, two handlers on any CPUs, one main thread, fairness | `MaskFollowsHandlers`, `FastQueueSound`, `KernelKeepsRunning`, `InterruptsServed` |
| `physmem` | eight pages, any memory map, requests of up to four pages, fairness | `NoRunMissed`, `CountDriftConstant`, `SearchEnds`, `ImplementsPagePool` |
| `memory` | two processes with two slots each, three frames, one region, two requests | `UsersMapped`, `NoFreePageMapped`, `SharedOnlyByRegion`, `FreedOnce` |
| `devfs` | two clients, a driver that may end, two slots, five calls in all | `FilesHaveDevices`, `NextDescriptorFree`, `SlotsPending`, `AnswerIsOwn`, `StreamsWhileListened` |
| `devfs_timeout` | one client, one driver, fairness | violates `CallsReturn` |

**Bounds.** Three threads of `RWLock` suffice for a releasing thread, an acquiring one and one
that keeps the counts from being zero; `MaxCount` bounds the count when lost decrements make it
grow. Pages of two objects have a first and a last slot, and five objects span three pages,
so chains grow, shift and are recycled with objects on both sides of a boundary. Two threads and
two ports let a port change hands while the other thread keeps a hint, and a list
shift and fill up; three bodies on two ports show order and double use. Two CPUs and
three threads give a CPU that acts on another's queue while a thread and a colleague run there;
the queue size 3 is the number of threads, the limit a correct queue never exceeds. `Word`
stands for 2^32 and matters only for `position - 1` at 0: 65536 leaves the same remainder
behaviour only up to the queue's length, which is why `Retreat` spells out both remainders. In `lifecycle` one process has threads on both CPUs,
so that a collector meets a thread in the kernel on the other CPU; a thread of another
process sends to it and lists the table; rings of two fill up; exec nests two checkouts.
The calls of each thread are chosen so that together they make every kind
of call. Five threads make trees of depth three with siblings on every level, which is what
adoption, orphaning and the choice of a new head tell apart. In `irq` two lines are what a second
interrupt before the completion of the first needs, and two handlers fit both shapes: one line shared or one line each; a ring of four
slots is larger than what `FastQueueSound` allows, as the code's 32 is. Eight pages hold two runs of the longest request on
both sides of the reserved ones, so that collisions, the wrap-around and both skips happen in one search. In
`memory` three frames let one process run out while the region and the other process have theirs; a second region would only repeat the
table's entries (two deletions that wait for each other are described below). In `devfs` two slots are used up by one
abandoned and one waiting request; four calls of one client are open, stream, close and a call that meets a late answer.

**Deadlock.** `MCRWLock`, `MCAQueue` and `MCThreadTree` are checked for deadlock. All threads of `IPC` may be
dormant with no sender left; the schedulers may stop in an assertion or wait for each other
for ever, as may the collector and its clients in `Lifecycle` (both described below); the kernel of `IRQ` may stop in an
assertion; and the bounds on calls end the behaviours of `IRQ`, `Memory` and `DevFS`, an assertion those of `Physmem`. Those configurations do not check it.

**Fairness.** In `RWLock` a thread inside the lock's code proceeds (weak fairness), a holder
releases, and a thread that retries its locked test-and-set while the spinlock keeps being freed
gets it (strong fairness: the bus arbitrates). In `IRQ` the timer ends every timeslice and the schedulers go on (weak); a handler
that is run again and again makes its next step, and the all-CPU lock is obtained by somebody (strong: the functions of drivers return,
and preemption may take the CPU away any number of times). No device has to raise its line, and no main thread has to call.
In `Physmem` the search goes on (weak). In `DevFS` the daemon and the loops of the drivers take the next message, a process
takes the answer that has come, and a timer ends (all weak); clients need not call, and drivers need not answer before they end.

**Assumptions of `ipc_calls`.** It uses `OneCpuSpec`: with one CPU interrupts are off from the commit in
`go_dormant` to the switch, so nothing happens between. It also assumes that nobody
unmasks a port of a dormant thread: unmasking does not wake its owner, and the run would show
just that.

## 4. Proofs

| Theorem | Statement |
|---|---|
| `RWLockProofs!LockTypeOK`, `LockExclusion`, `RequestHasOwner` | `Spec => []TypeOK`, `[]Exclusion`, `[]NoOrphanRequest` |
| `RWLockProofs!LockRefinement` | `Spec => ImplementsSharedLock` |
| `AQueueProofs!QueueTypeOK`, `QueueMemory`, `FirstSeen` | `Spec => []TypeOK`, `[]PagesFollowSize`, `[]GetSeesFirst` |
| `AQueueProofs!QueueRefinement` | `Spec => ImplementsFIFO` |
| `IPCProofs!IPCTypeOK`, `PortTables`, `HintOwnership`, `BodyMemory`, `ReceiveFindsMessages` | `Spec => []` of `TypeOK`, `PortListsExact`, `HintsOwned`, `BodiesAllocated`, `MessagesReachable` |
| `IPCProofs!ReleaseKeepsMessages` | `Spec => ReleaseKeepsOtherMessages` |
| `IPCProofs!NoLostWakeup` | `OneCpuSpec => []DormantHasNothingWaiting` |
| `SchedulerProofs!LockHolders`, `SchedulerTypes`, `IdleCpusAreWoken` | `Spec => []` of `HolderRuns`, `TypeOK`, `NoSleepingCpu` |
| `SchedulerProofs!QueuesAgree` | `Spec => []QueuesMatchState`, if `OneHome` and `Room` |
| `LifecycleProofs!CheckoutSafety`, `CheckoutsCommitted`, `KernelThreadsCounted`, `AssertionsHold`, `DeadStayQueued`, `LifecycleTypes` | `Spec => []` of `CheckedOutExists`, `CheckoutsMatch`, `KernelThreadsExact`, `CollectorAssertions`, `DeadAreQueued` and (if there is a pid) `TypeOK` |
| `IRQProofs!LinesMasked`, `FastQueuesShort`, `IRQTypes` | `Spec => []` of `MaskFollowsHandlers`, `FastQueueSound`, `TypeOK` |
| `IRQProofs!HandlersKeepRunning` | `Spec => []KernelKeepsRunning`, if a ring has at least four slots (the code's have 32) |
| `IRQProofs!CompletesInside` | between its test and its effect `irq_complete` has the lock of its line and its position is inside the array |
| `MemoryProofs!Invariant`, `SearchComplete` | `Spec => []Inv`, `[]NoRunMissed` (of `Physmem`) |
| `MemoryProofs!PoolRefinement`, `CountDrift` | `Spec => ImplementsPagePool`, `CountDriftConstant` (of `Physmem`) |
| `MemoryProofs!Ownership`, `SpaceTypes`, `NoDoubleFree`, `RequestedIsMapped`, `FreePagesUnmapped`, `OnlyRegionsShare` | `SpaceSpec => []` of `SpaceInv`, `SpaceTypeOK`, `FreedOnce`, `UsersMapped`, `NoFreePageMapped`, `SharedOnlyByRegion` (of `Memory`) |
| `DevFSProofs!Invariance`, `OpenFilesHaveDevices`, `DescriptorsUnique`, `SlotsAccounted`, `AnswersAreOwn`, `StreamsListened` | `Spec => []` of `IInv`, `FilesHaveDevices`, `NextDescriptorFree`, `SlotsPending`, `AnswerIsOwn`, `StreamsWhileListened` |

They hold for all values of the constants that satisfy the named assumptions of the modules:
finite sets of readers and writers and a `Free` outside them; a page of at least one object, and
markers that are not objects; at least one port, and `NoTid` not a thread; finitely many
threads with a home CPU each, and markers that are not threads; a process and a CPU for every thread, and actors that are
either threads or CPUs; handlers that are not main threads; a bitmap of at least one page, with the boot modules outside
the first megabyte and the kernel; any number of page slots and of frames, with device memory and page 0 outside the pool;
at least one slot of the state table, drivers that are not clients, and markers that are no slot, no call and
no entry of the state table.

*RWLock.* Exclusion is not inductive: the reader count can be too high, since a plain increment
overwrites a concurrent decrement. `CountInv` says the one thing that stays true, that the count
(and the value loaded for an increment) is never below the number of readers in the lock.
`SpinInv` ties the spinlock to the places behind it, `WriterInv` the writer count to the
one thread that has write access, and `TestInv` says that what a test found still holds when it is acted
upon, although releases happen in between: they only make the counts smaller. The
refinement then maps the granting store and the releasing store to abstract steps and everything
else to stuttering.

*AQueue.* `ChainInv` relates `pages` to the length of the chain and both positions to its
ends, `LastPageInv` says that the next slot lies in the last page or starts a page that is not
there yet, `StagedInv` that the staged slot holds what the caller wrote. From these every
operation's effect on `Contents` follows, page by page. `SeenInv` follows what `aqueue_get` returned through the steps
that leave the oldest object where it is.

*IPC.* The three parts of `PortListsExact` need each other: a hint is owned because
`release_port` clears the hints of the owner it finds in the table, and it finds the right owner
because lists and table agree. `new_port` finds a free slot by counting: a list without duplicates
that misses one port has an unused slot. For one CPU, `Quiet` says of every port whose owner sleeps, or has asked to,
that it is masked or empty. It speaks of the table, where the test of `go_dormant` walks the thread's array:
`WaitingMeaning` shows, from `PortListsExact`, that the two see the same ports.

*Scheduler.* `HInv` states that each spinlock's remote holder is at the place between
`sched_lock` and `sched_unlock` for that CPU (`Holding`), that a thread at such a place has
interrupts disabled (`Quiet`), and that a thread not in a kernel call has none pending (`Shape`). So
a holder can only leave its CPU by a step that gives the lock back.

`SInv` carries the types, with `PositionsOK` (the position is a place of the run queue, which `Retreat` and the search for the next
thread preserve across removals) and `Asleep`: a halted CPU has an interrupt coming, or it is marked idle and has nothing to
run or wake. Whoever queues or restarts a thread sees that mark under the spinlock, so `NoSleepingCpu` holds.

`QueuesMatchState` needs two hypotheses, and both are limits of the code. `OneHome` (the threads of a process share a CPU) since
`dequeue` writes `state` after it has given the lock back, and a thread of the process on a second CPU may change it in between (section 5). `Room` (a CPU has no more threads than its run queue has
slots) since `queue` ignores that `sub_queue` fails on a full queue. Under them `QInv` is inductive. `Proper` keeps the queues of a CPU
its own and without repetitions, so that removing the first match removes the thread; `RunMatch` and `SleepMatch` are the property for threads that are not `InTransit`; `LocksHeld`, `Removing` and `Moving`
say what holds of the thread that another one works on between the two halves of a state change, when its process is locked; `Requests` says that a request
comes from the thread the CPU executes or has just left; `QuietRuns` and `CurrentRuns` that what executes is in the queue.
The proof rests on lemmas about sequences: what `RemoveFirstMatch`, `Without` and the split of the sleepers at the expired ones leave, and how often a thread then occurs.

*Lifecycle.* That no process is taken from under a checkout rests on the table's lock alone. `Inv`
says that every actor is counted among the table's readers at least once for each checkout it is
inside of (`Counted`), and that the process it wants or has is in the table (`Present`). "At least", because
`gc_do_thread` may return without its commit, and because a thread may be deleted with its
lock held. The table changes only in `Insert` and `Remove`, with no reader left, hence with
nobody inside a checkout. Lemmas sort the steps by what they do to the table's lock (nothing, read, commit, write and give back), and each action cites one of them.

The other four invariants depend on each other and are proved from one inductive invariant, `LifeInv`. The collector finds the
thread at the head of its ring, and so never takes the path without a commit, because a thread enters the ring of its own CPU
once and has gone through the scheduler when the collector comes to it (`ExitInv`), and because whoever deletes it otherwise
writes its process, which the lock allows one actor only (`LockInv`, `OneWriter`). The checkouts are then exact
(`CheckoutInv`). `kernel_threads` counts the threads in the kernel (`KernelInv`) since each step moves at most one thread across its
boundary (`KernelMoves`), and is only ignored once the collector has read zero; no thread can then come to sleep with a timer, as it would need
the process checked out (`KillQuiet`). `RoleInv` says who may be where, `Born` that the threads of a process do not run before it is started, without
which `StartCall` would move threads that are inside calls, and `TableInv` that the process of a living thread is in the table and that a
process in deletion is finishing. `DeadAreQueued` follows: an object leaves a ring only when its thread is deleted or its process is not in the table.

*IRQ.* `IInv` has four parts. `Sound` is `FastCountsExact` with the types of what it speaks of, and the fact that
a thread without a CPU is in no queue; `Affine` says that only registration gives a thread its CPU; `Lines` adds to
`MaskFollowsHandlers` that every registered handler has a CPU, without which `fast_queue` would have no ring to write to;
`Places` says that a thread between the two halves of `irq_complete` has the lock of its line, so that no release shortens the
array below the position it has computed. Two lemmas count the entries of a thread in a queue after one more and one less, by
a bijection between the positions.

`FastQueueSound` and `KernelKeepsRunning` speak of executions in which no handler has refused and no line was released yet, and so does their
invariant `Calm`; `DisturbedStays` shows that this, once lost, does not come back. In the calm no turn is passed on (`Unturned`), so only
the first handlers of lines are queued (`FirstQueued`), the handler a CPU executes is the head of its queue (`HeadRuns`), and it is its turn
(`NoneTurnedAway`). An entry is `Owed` until its handler leaves user mode for it; there is at most one owed entry in all queues (`OneOwed`), and
none while the APIC waits for no acknowledgement (`NoneOwed`), since the handler that acknowledges is the one that was owed. Hence at most two
entries, and with four slots there is room for the first refusal too. The bound does not hold beyond the calm: see section 5.

*Physmem.* `NoRunPassed` is the invariant of the loop: no free run begins at a page, beyond the first `pages - 2`, that
the search has been past, measured cyclically from where it started. The collision step passes every page up to the one
that was set, and a run that begins there would contain it; `SkipTail` passes pages at which a run would not fit.
When the loop is through, all pages are past, which is `NoRunMissed`. `Owners` (nothing handed out is page 0 or a module's) is what the frees
need to stay inside the pool. `CountDriftConstant` is an action property: the difference between `s_freePages` and the free bits never changes.

*Memory.* None of the four invariants is inductive: that a `memory_free` finds its page in use depends on nobody else having a
claim to it, and `shmem_revoke` and `shmem_delete` change what is mapped in processes other than the caller. `SpaceInv` says that there is
a way to give each frame and each page slot an owner (`Owned`): a record of `proc->alloc`, a stack, a region, a scratch page that waits in
`info->tmp2` or one that is mapped. The claims say what must be owned by whom. A record owns the frame it will free, and the slot it is mapped
at (`AllocOwned`); a stack what `page_ensure` mapped there, which is not the frame in the record (`StackOwned`); a region its frame and the slots
of its users (`RegionOwned`, `UsersOwned`); free frames belong to nobody (`FreeUnowned`). In a process that is not excused a mapped frame
has the owner of its slot (`PagesOwned`), and a slot of a region is that of a user in its list (`SlotsListed`). `FreedOnce` then follows because what is freed
is owned, `NoFreePageMapped` because what is free is not, and `SharedOnlyByRegion` because only a region owns slots in two processes (`OwnedInPlace`).
The owners are no variable of the model: each step's proof says how they change, most of them as one slot and the frames of one owner (`Moves`),
and `KeptAlloc`, `KeptStack`, `KeptRegion`, ... carry over the claims of all others. `UserRecords` relates a user's count to its mapping and to the marks of a deletion: when
`shmem_delete` has nobody left to check out, every user inside the region has its scratch page or is excused (`AllServed`), and so
the frame that is freed next is mapped nowhere. That a process is in a list once (`ListedOnce`) is needed for that,
since `shmem_delete` serves entries and not processes.

*DevFS.* `IInv` is `TypeOK /\ FiniteFiles /\ FreshId /\ HookedFiles /\ NextDescriptorFree /\ SlotsPending`.
`HookedFiles` says that a device has a hook for each of its open files, so a device with `hook_count` 0, the only one `deregister_device`
frees, has none. `last_fd` moves to the least free descriptor above it; that there is one rests on `FiniteFiles` and on the
order of the natural numbers being well-founded (`NatLessThanWellFounded`, `WFMin`), not on an induction of our own.
`FreshId` says that the number of the next device is new. `SlotsPending` names for each used slot where its request is: in the
event queue of its driver, where it stays if the driver ends, or answered by a message or a pulse on the way to the daemon.

`AnswerIsOwn` needs an invariant of its own, `AnswerInv`, which speaks of the time before a driver has acknowledged a notice
(`stray`). A used slot has exactly one carrier (`OneCarrier`): the read event, the driver's response or its pulse; and what it
carries is the call the slot is held for, with its driver (`Carried`). So the daemon's test in `remove_state`, which compares the
driver only, passes each answer on to its caller, and frees the slot when nothing refers to it any more: a late answer cannot
meet the next user of the slot. The call of a process that has given none up is in one place (`OnePlace`): its request is on the
way to the daemon, or one slot is held for it, or its answer has arrived; and a process without a call has nothing
on the way (`IdleInNoPlace`), so the next call meets no old answer. A timeout breaks exactly this, and `late` takes the process out.
The lemmas about queues (`MessagesShift`, `EventTaken`, `PulseAdded`, ...) say what each step does to the carriers; the actions then
fall into five groups: an answer at once, a request put into a slot, an answer passed on, a carrier exchanged for another, a call
that begins or ends.

`StreamsWhileListened` compares the daemon's list of listeners with what the driver does, and `Agrees` says how: the last notice of the device
in the driver's event queue, or its `streaming` flag if there is none, tells whether anybody listens. This is only inductive together with what
happens before the driver has listed the device: `Knows` therefore includes devices that an unread answer of `register` names
(`Granted`). A device is known to its own driver only (`KnownAreOwn`), which is the one the daemon tells; an identifier given out is new to every
list and every queue (`KnownAreOld`, `NotesAreOld`, with `FreshId`); and an answer that is read puts a device on the list that was not there
(`GrantedAreNew`), with the flag off, which is what its absence meant. `NoteSays` is the arithmetic of `stream`: a notice goes out exactly when the
first listener comes or the last one goes. A notice that the driver refuses because the answer is still unread (`missed`) is the one way to lose the agreement.

*Only model-checked:* the liveness properties `Progress`, `InterruptsServed`, `SearchEnds` and (violated) `CallsReturn`; the violated `CollectorNotBlocked` of the life cycle;
and `ThreadTree`, whose loops are folds over a sequence of threads that would need induction.

## 5. What was found

Two runs show a behaviour of the code that contradicts its own words; `PROJECT.json` quotes
them under `findings`.

* `lifecycle_deadlock`: the collector gives the table back but not the process, and then
  wants the table for writing; a sender in between has the table and waits for the process
  (`gc.c:242`). The `#warning` there fears a use after free; `CheckedOutExists` shows
  that it is a deadlock instead.
* `devfs_timeout`: a call that wakes at the exact millisecond of its timeout has 0 left, sleeps again with 0, which means
  without a timer, and never returns if the driver is gone (`libdevfs/comms.c:162`).

Four more can be seen by a small change of a configuration:

* A read release between the load and the store of `num_readers += 1` is lost; the lock is then held by nobody and for
  ever (`rwlock.c:58`). `Progress` excepts it by its last disjunct.
* A message that arrives between the commit of `go_dormant` and the switch wakes nobody (`threads.c:523`): with
  `SPECIFICATION Spec` instead of `OneCpuSpec` in `MCIPC.cfg`, `DormantHasNothingWaiting` is violated. A thread that sleeps with a
  timeout does get its message, late.
* A complete lock and a thread that spins for the same lock with interrupts disabled wait for each other
  (`scheduler.c:458`): the model has both waits (`sched_lock`, `Locked`), and with a process on both CPUs they meet.
* `dequeue` writes `cpu` and `state` after it has given the lock back; on two CPUs a thread woken
  in between ends up dormant and queued. `MCHome` keeps each process on one CPU for that reason:
  there `QueuesMatchState` holds, with the threads of one process on two CPUs it does not.

Seen while modelling the kernel's core, without a run of their own:

* After the last object of a page was taken, the next `aqueue_get` reads the old page
  (`aqueue.c:153`), so `peek_message` and `preview_pulse` may show an object that is gone; `GetSeesFirst` states
  what is left of the promise.
* `receive_pulse` on any port gives up at the first empty port (`pulse.c:148`), while `recv_message`
  goes on (`MessagesReachable`) and `pulses_waiting` counts the pulses behind it.
* The test of `set_thread_state` and the lock in `restart` are apart; a sleep that runs out
  between them makes `restart` fail its assertion (`scheduler.c:226`).
* A thread may pass the test for a dying process and count itself in only after the collector
  has read zero (`syscalls.c:1035-1058`): it is then deleted inside the kernel, with the locks it
  has by then.
* The second checkout of exec (`exec.c:149`) waits for a writer of the table that waits for the first.
* Starting a process whose main thread is not made yet hands NULL to `set_thread_state` (`syscalls.c:172`).
* A process whose last thread ends with `SYS_THREAD | SYS_FIVE` stays in the table: nobody queues the process.
* When the first thread of a process is gone, a scan with `NEXT_LINEAR` from `proc->threads` (`gc.c:213`) may
  miss threads; `HeadReachesAll` states the scan for as long as it lives, and `gc_do_process` in `Lifecycle` wakes any subset.
* `delete_thread` does not take the thread's handler out of `event_hooks`; `next_pid` and
  `next_tid` test for negative ids only on a retry.
* `release_port` drops pulses steered by the hint for messages, so pulses of another port may go
  (`ports.c:171`), and the messages of a masked port stay queued, their bodies allocated, until the queue is
  reset without freeing them (`ports.c:174`).
* `aqueue_unlock` forgets a staged slot, but a page added for it stays counted (`aqueue.c:72`); no caller does this.
* `sched_unlock` restores interrupts only for the caller's own CPU, so a call that changed the
  state of a thread elsewhere may return with interrupts off until its next yield.
* A thread that sets its own state to dormant sleeps with its process locked (`syscalls.c:301`),
  and nobody else can then reach the process to wake it.
* The callers of `sub_queue` ignore that the run queue is full.

In interrupts (`irq.c` unless named):

* `hook->last -= -1` (324) adds one: after a release `stubs[last]` may lie outside the array when the next interrupt comes.
* A line released with an interrupt in flight leaves `% count` with a count of 0 to the handler's next call, and the thread
  that called `release_irq`, not the handler that went, is set to `THREAD_SUSPENDED` (336). A handler that
  releases its own line stays the head of the fast ring.
* A handler that refuses goes on running; its second `irq_complete` is not its turn, its stub returns, and the exit of the thread fails an
  assertion. A new interrupt resets `index` (500) while the chain of the last one is being walked, with the same end.
  If it acknowledges once more before that, it acknowledges the interrupt another handler is queued for: a fast queue then gets a third entry
  (with three interrupts per line TLC shows it), which is why the bound of `FastQueueSound` ends with the first refusal.
* If the next handler of the chain is on another CPU, interrupts are not on again after `fast_queue`, and an assertion fails.
* An acknowledgement on another CPU than the boot CPU goes to that CPU's APIC, and the boot CPU's stays in service. A spurious
  interrupt is never acknowledged.
* The path of `release_irq` for a handler that is not found frees `hook` twice (308, 309) and leaks the stubs.

In memory:

* `SET` is a macro of two statements under a `for` without braces (`physmem.c:272`, `275`): `s_freePages` starts too
  high by what the first megabyte and the kernel take. `CountDriftConstant` shows that the error does not grow.
* A run that begins at page 0 is returned as `NULL` (its pages stay set), and `SkipTail` may pass over runs that begin in the first `pages - 2` pages.
* `delete_page_directory` frees page 0 for entries that `page_ensure` mapped without memory; the second
  time the assertion of `memory_free` fails (`physmem.c:175`).
* `user_alloc_hard` returns 0 on success and on failure; it records one frame and maps another, which is what keeps `FreedOnce` true.
* `shmem_clean` is never called. A revoke that fails leaves interrupts off. Without memory for a scratch page, `shmem_delete` leaves the freed
  page mapped (the model's `excused`). A release too many makes the count -1. Two deletions whose users overlap in opposite order wait for each other.
  `shmem.c:752` reads `next` of an element it has freed. `page_find_free` may hand out the guard page of a stack.

In the device file system:

* The status of a forward that failed is the caller's port number. Answers of calls that were given up are taken by the next call of the
  process, since nothing compares ids (`libdevfs/comms.c:146`).
* A device registered without the `OPEN` flag keeps its hook when the open is refused later, and is in use for ever. Close keeps
  the file's stream entries, `release_stream` ignores the descriptor, and files of a client that exits stay open.
* Notices to drivers carry an uninitialised request id; the acknowledgement of a notice may free the slot of another request. A notice of a stream that
  comes before `addDevice` is lost.
* The daemon spins when all slots are used, and the thread that should expire old ones does nothing. A failed `realloc` in `hook_device`
  leaves a count with no array. `comms_deregister` leaves one of two adjacent equal entries.

Not covered by a property: `send_pulse` writes through NULL when the queue has no memory (`pulse.c:39`); the counts of
`event_hooks` (`events.c:68`).

## 6. What is left

The plan was ordered by how much of the system rests on a part. Done: locks, queues, communication, scheduling, process life cycle, thread
tree, interrupts, physical and shared memory, the device file system. Left, in this order:

1. `Memory` for ranges of several pages; two regions with deletions in opposite order.
2. `DevFS` with pushes through `dispatch_push`; the VFS on top of it.
3. `ds/htable.c` and `env.c` against reference definitions; ids after a wrap-around (`next_pid`, `next_tid`).

## 7. Not modelled

The CPU's descriptor tables, page-table formats, interrupt controllers and bring-up are hardware; the
heap allocators work on raw addresses and appear as a choice between a free block and
failure; time, statistics and output keep no state another component depends on. Hash table and environment are sequential
data structures for which the modules use the functions they stand for; events are pulses, which `IPC` has. Drivers,
the GUI, the VFS and the bundled C library use the kernel through the interfaces above.

Most lines of the repository are outside the models for that reason: `src/spoon/kernel`, `src/spoon/devices` and `src/spoon/config` are copies of
the directories modelled here; trio, the C library and old file systems are bundled; the PCI list and fonts are
tables; drivers and applications are many small programs over registers and pixels. Of the files that are modelled the map covers
more than half of the lines, of `src/kernel` as well.
`PROJECT.json` lists every component with its status.
