------------------------------- MODULE AQueue -------------------------------
(***************************************************************************)
(* The paged queue of kernel/src/ds/aqueue.c that carries every message and *)
(* pulse of the kernel.  Objects live in fixed-size pages chained behind    *)
(* aq->page; position and last_position count objects from the first page   *)
(* of the chain.  aqueue_new hands out the next slot (staging), aqueue_save *)
(* makes it part of the queue, aqueue_unlock forgets a slot that was never  *)
(* saved, aqueue_next removes the oldest object and frees the pages it has  *)
(* left behind.  All calls of one lock/unlock section run undisturbed, so   *)
(* the callers are one sequence of operations.                              *)
(***************************************************************************)
EXTENDS Integers, Sequences

CONSTANTS Objects,      \* what callers put into a slot
          ObjCount,     \* obj_count: objects per page
          Nothing,      \* NULL
          Garbage,      \* what a slot holds before anything is written to it
          MaxSize       \* bound: no new slot is asked for beyond this size

ASSUME CountAssumption == ObjCount \in Nat \ {0} /\ MaxSize \in Nat
ASSUME ObjectAssumption == Garbage \notin Objects /\ Nothing \notin Objects

VARIABLES page,           \* the chain of pages from aq->page to aq->last_page
          pages,          \* the page counter
          position,       \* the oldest object
          last_position,  \* the first free slot
          staging,        \* 1 between aqueue_new and aqueue_save
          staged,         \* what the caller wrote to the staged slot
          lock,           \* the spinlock is held
          taken,          \* result of the last aqueue_next
          seen            \* result of the last aqueue_get, while it is current

vars == <<page, pages, position, last_position, staging, staged, lock, taken, seen>>

Slots == 0 .. ObjCount - 1
Pages == [Slots -> Objects \cup {Garbage}]
FreshPage == [s \in Slots |-> Garbage]

\* aqueue_size
Size == last_position - position

\* Dereferencing a slot of a page; a missing page gives garbage.
Read(chain, n, slot) == IF n \in 1 .. Len(chain) THEN chain[n][slot] ELSE Garbage

Init == /\ page = <<>> /\ pages = 0
        /\ position = 0 /\ last_position = 0 /\ staging = 0
        /\ staged = Nothing /\ lock = FALSE
        /\ taken = Nothing /\ seen = Nothing

-----------------------------------------------------------------------------
Lock == /\ ~lock
        /\ lock' = TRUE
        /\ UNCHANGED <<page, pages, position, last_position, staging, staged, taken, seen>>

\* aqueue_unlock also drops whatever was staged.
Unlock == /\ lock
          /\ staging' = 0 /\ staged' = Nothing
          /\ lock' = FALSE
          /\ UNCHANGED <<page, pages, position, last_position, taken, seen>>

\* Mutant: the page is taken to exist already (< instead of <=).
NeedsPageOffByOne == /\ last_position % ObjCount = 0
                     /\ pages < last_position \div ObjCount

\* A new page is needed when the slot starts a page that is not there yet.
NeedsPage == /\ last_position % ObjCount = 0
             /\ pages <= last_position \div ObjCount

\* aqueue_new, and the caller's assignment of o to the slot it returns.
New(o) ==
    LET chain == IF NeedsPage THEN Append(page, FreshPage) ELSE page
        slot  == last_position % ObjCount
    IN  /\ lock
        /\ Size < MaxSize
        /\ page' = IF chain = <<>> THEN chain
                   ELSE [chain EXCEPT ![Len(chain)][slot] = o]
        /\ pages' = IF NeedsPage THEN pages + 1 ELSE pages
        /\ staging' = 1 /\ staged' = o
        /\ UNCHANGED <<position, last_position, lock, taken, seen>>

\* aqueue_new finds no memory for a page and returns NULL.
NewFails == lock /\ NeedsPage /\ UNCHANGED vars

\* aqueue_save does nothing when nothing is staged.
Save == /\ lock
        /\ last_position' = IF staging = 1 THEN last_position + 1 ELSE last_position
        /\ staging' = 0 /\ staged' = Nothing
        /\ UNCHANGED <<page, pages, position, lock, taken, seen>>

\* aqueue_get reads the first page of the chain.
Get == /\ lock
       /\ seen' = IF position = last_position THEN Nothing
                  ELSE Read(page, 1, position % ObjCount)
       /\ UNCHANGED <<page, pages, position, last_position, staging, staged, lock, taken>>

\* aqueue_next on an empty queue starts over at the first slot.
NextEmpty == /\ lock
             /\ position = last_position
             /\ position' = 0 /\ last_position' = 0
             /\ taken' = Nothing /\ seen' = Nothing
             /\ UNCHANGED <<page, pages, staging, staged, lock>>

\* The pages before the one that holds the oldest object.
PassedPages == position \div ObjCount

\* Mutant: passed pages are skipped but never freed.
NextWithoutFree ==
    /\ lock
    /\ position # last_position
    /\ position' = position + 1
    /\ taken' = Read(page, PassedPages + 1, position % ObjCount)
    /\ seen' = Nothing
    /\ UNCHANGED <<page, pages, last_position, staging, staged, lock>>

\* aqueue_next otherwise: free the passed pages, return the object, step on.
NextObject ==
    /\ lock
    /\ position # last_position
    /\ page' = SubSeq(page, PassedPages + 1, Len(page))
    /\ pages' = pages - PassedPages
    /\ last_position' = last_position - PassedPages * ObjCount
    /\ position' = position - PassedPages * ObjCount + 1
    /\ taken' = Read(page', 1, position % ObjCount)
    /\ seen' = Nothing
    /\ UNCHANGED <<staging, staged, lock>>

\* aqueue_reset frees every page and initialises the queue again, the lock
\* included; release_port calls it with nobody else in the queue.
Reset == /\ ~lock
         /\ page' = <<>> /\ pages' = 0
         /\ position' = 0 /\ last_position' = 0
         /\ staging' = 0 /\ staged' = Nothing
         /\ seen' = Nothing
         /\ UNCHANGED <<lock, taken>>

-----------------------------------------------------------------------------
\* The callers in the kernel (messages.c, pulse.c, ports.c): a staged object is
\* always saved before anything else happens to the queue.
KernelNext == \/ Lock \/ Save \/ Reset
              \/ staging = 0 /\ (\/ \E o \in Objects : New(o)
                                 \/ NewFails \/ Get \/ NextEmpty \/ NextObject
                                 \/ Unlock)

Spec == Init /\ [][KernelNext]_vars

-----------------------------------------------------------------------------
\* The counters of struct aqueue never go below zero, and staging is set exactly
\* while a slot is handed out and not yet saved (aqueue_new, aqueue_save).
TypeOK == /\ page \in Seq(Pages)
          /\ pages \in Nat /\ position \in Nat /\ last_position \in Nat
          /\ staging \in {0, 1}
          /\ staged \in Objects \cup {Nothing} /\ (staging = 1 <=> staged # Nothing)
          /\ lock \in BOOLEAN

\* The k-th slot of the chain, and the queue's objects in order.
Object(k) == Read(page, k \div ObjCount + 1, k % ObjCount)
Contents == [i \in 1 .. Size |-> Object(position + i - 1)]

(***************************************************************************)
(* The pages, the counters and the recycling of slots implement a FIFO      *)
(* queue: whatever the sequence of sends, receives, drops and failed        *)
(* allocations, aqueue_next returns the oldest saved object, once.          *)
(***************************************************************************)
Abstract == INSTANCE FIFO WITH queue <- Contents
ImplementsFIFO == Abstract!FifoSpec

(***************************************************************************)
(* Reading frees the memory: a queue never keeps more than two pages beyond *)
(* those its objects fill, so a drained port does not hold on to the pages  *)
(* of an old burst.                                                         *)
(***************************************************************************)
PagesFollowSize == pages * ObjCount <= Size + 2 * ObjCount

(***************************************************************************)
(* aqueue_get "gets the first object in the queue that's available for      *)
(* reading": what it returns is what aqueue_next would return, whatever is  *)
(* sent in between.  The code keeps this as long as the page it reads has   *)
(* not been passed: aqueue_next frees passed pages only on its next call,   *)
(* and until then aqueue_get looks at the old one.                          *)
(***************************************************************************)
GetSeesFirst == seen # Nothing /\ PassedPages = 0 => Size > 0 /\ seen = Contents[1]
=============================================================================
