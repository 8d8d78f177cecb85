------------------------------- MODULE Memory -------------------------------
(***************************************************************************)
(* The memory of processes: ualloc.c, shmem.c and the mappings that        *)
(* paging.c makes for them, on top of a pool of page frames (PagePool).    *)
(*                                                                         *)
(* A call that changes an address space holds its process for writing and, *)
(* for a region, the region's lock from the beginning to the end: it is one*)
(* action.  shmem_delete is not: it takes the region out of the table,     *)
(* then checks out its users one after the other with no lock on the       *)
(* region, and maps their scratch pages when it has them all.              *)
(* Regions and allocations have one page.                                  *)
(***************************************************************************)
EXTENDS Integers, Sequences, FiniteSets, SequencesExt

CONSTANTS
    Process,
    Id,           \* names of shared regions
    Frame,        \* pages of the pool
    Device,       \* physical pages outside of the pool
    Zero,         \* physical page 0
    None,
    Promiscuous,  \* values of the flag SHMEM_PROMISCUOUS
    Slots,        \* number of pages between sK_BASE and sK_CEILING
    MaxUsage,     \* bound: requests of one process for one region
    MaxAlloc      \* bound: records in proc->alloc

ASSUME SlotAssumption == Slots \in Nat /\ MaxUsage \in Nat /\ MaxAlloc \in Nat
ASSUME FlagAssumption == Promiscuous \subseteq BOOLEAN

Slot == 1 .. Slots
Physical == Frame \cup {Device, Zero}

ASSUME FrameAssumption == Device \notin Frame /\ Zero \notin Frame /\ None \notin Physical

VARIABLES
    used,         \* frames that are not free
    alive,        \* processes in the table
    map,          \* the page entries of each process
    alloc,        \* proc->alloc
    stack,        \* the slot of the thread's user stack, 0 without thread
    region,       \* shmem_table, and the regions shmem_delete works on
    lock,         \* the deletion that has the process checked out
    freedTwice,   \* a frame was freed that was not in use
    excused       \* history: processes that released more than they requested,
                  \* or were left without a scratch page

memoryVars == <<used, alive, map, alloc, stack, region, lock, freedTwice, excused>>
spaceVars == <<map, alloc, stack>>

Alloc == [virt : 0 .. Slots, phys : Physical, release : BOOLEAN]
Info == [pid : Process, virt : 0 .. Slots, usage : Int, tmp : BOOLEAN, tmp2 : Frame \cup {None}]
NoRegion == [state |-> "absent"]
Region == [state : {"listed", "deleting"}, pid : Process, phys : Physical, internal : BOOLEAN,
           promiscuous : BOOLEAN, list : Seq(Info)]

SpaceTypeOK ==
    /\ used \subseteq Frame
    /\ alive \subseteq Process
    /\ map \in [Process -> [Slot -> Physical \cup {None}]]
    /\ alloc \in [Process -> SUBSET Alloc]
    /\ stack \in [Process -> 0 .. Slots]
    /\ region \in [Id -> Region \cup {NoRegion}]
    /\ lock \in [Process -> Id \cup {None}]
    /\ freedTwice \in BOOLEAN
    /\ excused \subseteq Process

SpaceInit ==
    /\ used = {}
    /\ alive = Process
    /\ map = [p \in Process |-> [s \in Slot |-> None]]
    /\ alloc = [p \in Process |-> {}]
    /\ stack = [p \in Process |-> 0]
    /\ region = [id \in Id |-> NoRegion]
    /\ lock = [p \in Process |-> None]
    /\ freedTwice = FALSE
    /\ excused = {}

---------------------------------------------------------------------------
(* The pool and the page entries                                           *)

(* memory_free; the assertion there finds a page that is free already.     *)
FreeFrames(fs) ==
    /\ used' = used \ fs
    /\ freedTwice' = (freedTwice \/ ~(fs \cap Frame \subseteq used))

(* page_find_free: the first n slots in a row without a page, 0 if none    *)
page_find_free(p, n) ==
    LET fits == {s \in Slot : s + n - 1 \in Slot /\ \A k \in s .. s + n - 1 : map[p][k] = None}
    IN  IF fits = {} THEN 0 ELSE CHOOSE s \in fits : \A r \in fits : s <= r

page_direct_map(p, f, s) == [map EXCEPT ![p][s] = f]

page_release(p, s) == IF s = 0 THEN map ELSE [map EXCEPT ![p][s] = None]

(* checkout_process( p, WRITER ) *)
CanCheckout(p) == p \in alive /\ lock[p] = None

---------------------------------------------------------------------------
(* ualloc.c                                                                *)

(* user_alloc.  A failure gives back what it has and changes nothing.      *)
user_alloc(p) ==
    /\ CanCheckout(p)
    /\ Cardinality(alloc[p]) < MaxAlloc
    /\ \E f \in Frame \ used :
          LET s == page_find_free(p, 1)
          IN  /\ s # 0
              /\ used' = used \cup {f}
              /\ map' = page_direct_map(p, f, s)
              /\ alloc' = [alloc EXCEPT ![p] = @ \cup {[virt |-> s, phys |-> f, release |-> TRUE]}]
    /\ UNCHANGED <<alive, stack, region, lock, freedTwice, excused>>

(* user_map: memory of a device *)
user_map(p) ==
    /\ CanCheckout(p)
    /\ Cardinality(alloc[p]) < MaxAlloc
    /\ LET s == page_find_free(p, 1)
       IN  /\ s # 0
           /\ map' = page_direct_map(p, Device, s)
           /\ alloc' = [alloc EXCEPT ![p] = @ \cup {[virt |-> s, phys |-> Device, release |-> FALSE]}]
    /\ UNCHANGED <<used, alive, stack, region, lock, freedTwice, excused>>

(* release_mem *)
Released(m) == IF m.release THEN {m.phys} ELSE {}

(* user_free.  The record of a stack has the address 0.                    *)
user_free(p, address) ==
    /\ CanCheckout(p)
    /\ \E m \in alloc[p] :
          /\ m.virt = address
          /\ alloc' = [alloc EXCEPT ![p] = @ \ {m}]
          /\ FreeFrames(Released(m))
          /\ map' = page_release(p, m.virt)
    /\ UNCHANGED <<alive, stack, region, lock, excused>>

\* Mutant: the frame of the record is mapped.
EnsuredSame(f) == {f}

(* page_ensure after the allocation of f: a frame of its own, or page 0    *)
Ensured(f) == IF Frame = used \cup {f} THEN {Zero} ELSE Frame \ (used \cup {f})

(* new_thread: a guard slot and the stack.  user_alloc_hard allocates a    *)
(* frame for its record, which stays unused, and page_ensure another one   *)
(* for the page; nobody looks at the second allocation's failure, which    *)
(* puts physical page 0 there.                                             *)
new_thread(p) ==
    /\ CanCheckout(p)
    /\ Cardinality(alloc[p]) < MaxAlloc
    /\ stack[p] = 0
    /\ page_find_free(p, 2) # 0
    /\ LET s == page_find_free(p, 2) + 1
       IN  \E f \in Frame \ used :
             \E g \in Ensured(f) :
               /\ used' = used \cup ({f, g} \cap Frame)
               /\ map' = page_direct_map(p, g, s)
               /\ stack' = [stack EXCEPT ![p] = s]
               /\ alloc' = [alloc EXCEPT ![p] = @ \cup {[virt |-> 0, phys |-> f, release |-> TRUE]}]
    /\ UNCHANGED <<alive, region, lock, freedTwice, excused>>

(* delete_thread: page_map_out frees what is mapped at the stack.  A page  *)
(* 0 that it frees is not one of the pool.                                 *)
delete_thread(p) ==
    /\ CanCheckout(p)
    /\ stack[p] # 0
    /\ FreeFrames({map[p][stack[p]]} \cap Frame)
    /\ map' = page_release(p, stack[p])
    /\ stack' = [stack EXCEPT ![p] = 0]
    /\ UNCHANGED <<alive, alloc, region, lock, excused>>

(* delete_process: user_release_all; the pages that are still mapped are   *)
(* not freed, and no region is released.  All its threads are gone.        *)
delete_process(p) ==
    /\ CanCheckout(p)
    /\ stack[p] = 0
    /\ \A id \in Id : region[id].state = "deleting" => region[id].pid # p
    /\ FreeFrames(UNION {Released(m) : m \in alloc[p]})
    /\ alloc' = [alloc EXCEPT ![p] = {}]
    /\ map' = [map EXCEPT ![p] = [s \in Slot |-> None]]
    /\ alive' = alive \ {p}
    /\ UNCHANGED <<stack, region, lock, excused>>

---------------------------------------------------------------------------
(* shmem.c                                                                 *)

Listed(id) == region[id].state = "listed"

Added(id, f, p, promiscuous, internal) ==
    region' = [region EXCEPT ![id] =
        [state |-> "listed", pid |-> p, phys |-> f, internal |-> internal,
         promiscuous |-> promiscuous, list |-> <<>>]]

shmem_create(p, id, promiscuous) ==
    /\ p \in alive
    /\ region[id] = NoRegion
    /\ \E f \in Frame \ used :
          /\ used' = used \cup {f}
          /\ Added(id, f, p, promiscuous, TRUE)
    /\ UNCHANGED <<alive, spaceVars, lock, freedTwice, excused>>

(* A region over memory of a device, which deletion does not free *)
shmem_create_direct(p, id, promiscuous) ==
    /\ p \in alive
    /\ region[id] = NoRegion
    /\ Added(id, Device, p, promiscuous, FALSE)
    /\ UNCHANGED <<used, alive, spaceVars, lock, freedTwice, excused>>

(* The position of the process in the region's list, 0 if it is not there *)
Position(id, p) ==
    LET at == {n \in DOMAIN region[id].list : region[id].list[n].pid = p}
    IN  IF at = {} THEN 0 ELSE CHOOSE n \in at : TRUE

NewInfo(p) == [pid |-> p, virt |-> 0, usage |-> 0, tmp |-> FALSE, tmp2 |-> None]

(* New users go to the front.  The process need not exist.                 *)
shmem_grant(owner, id, p) ==
    /\ owner \in alive
    /\ Listed(id)
    /\ region[id].pid = owner
    /\ Position(id, p) = 0
    /\ region' = [region EXCEPT ![id].list = <<NewInfo(p)>> \o @]
    /\ UNCHANGED <<used, alive, spaceVars, lock, freedTwice, excused>>

\* Mutant: the user keeps the pages of the region.
ScratchMappedNot(p, f, s) == map

(* A user that is still in the region gets a page of its own there.        *)
ScratchMapped(p, f, s) == page_direct_map(p, f, s)

(* shmem_revoke.  Without memory for the scratch page it fails.            *)
shmem_revoke(owner, id, p) ==
    /\ owner \in alive
    /\ CanCheckout(p)
    /\ Listed(id)
    /\ region[id].pid = owner
    /\ Position(id, p) # 0
    /\ LET info == region[id].list[Position(id, p)]
       IN  IF info.usage > 0
           THEN \E f \in Frame \ used :
                   /\ used' = used \cup {f}
                   /\ map' = ScratchMapped(p, f, info.virt)
           ELSE UNCHANGED <<used, map>>
    /\ region' = [region EXCEPT ![id].list = RemoveAt(@, Position(id, p))]
    /\ UNCHANGED <<alive, alloc, stack, lock, freedTwice, excused>>

(* The region's list when shmem_request looks for the caller *)
WithCaller(id, p) ==
    IF Position(id, p) = 0 /\ region[id].promiscuous
    THEN <<NewInfo(p)>> \o region[id].list
    ELSE region[id].list

(* shmem_request.  A caller that is known, or may be, gets the region      *)
(* mapped once; without a free slot the new entry of the list stays.       *)
shmem_request(p, id) ==
    /\ CanCheckout(p)
    /\ Listed(id)
    /\ LET list == WithCaller(id, p)
           s == page_find_free(p, 1)
       IN  \E n \in DOMAIN list :
              /\ list[n].pid = p
              /\ list[n].usage < MaxUsage
              /\ \/ /\ list[n].virt # 0
                    /\ region' = [region EXCEPT ![id].list = [list EXCEPT ![n].usage = @ + 1]]
                    /\ UNCHANGED map
                 \/ /\ list[n].virt = 0
                    /\ s # 0
                    /\ region' = [region EXCEPT ![id].list =
                                     [list EXCEPT ![n].usage = @ + 1, ![n].virt = s]]
                    /\ map' = page_direct_map(p, region[id].phys, s)
                 \/ /\ list[n].virt = 0
                    /\ s = 0
                    /\ region' = [region EXCEPT ![id].list = list]
                    /\ UNCHANGED map
    /\ UNCHANGED <<used, alive, alloc, stack, lock, freedTwice, excused>>

\* Mutant: the page goes with the first release.
LastReleaseFirst(usage) == usage >= 0

(* The release after which the page is unmapped *)
LastRelease(usage) == usage = 0

(* shmem_release counts down without a look at the count.                  *)
shmem_release(p, id) ==
    /\ CanCheckout(p)
    /\ Listed(id)
    /\ Position(id, p) # 0
    /\ LET n == Position(id, p)
           info == region[id].list[n]
           usage == info.usage - 1
       IN  /\ usage >= -1
           /\ excused' = IF usage < 0 THEN excused \cup {p} ELSE excused
           /\ IF LastRelease(usage)
              THEN /\ map' = page_release(p, info.virt)
                   /\ region' = [region EXCEPT ![id].list[n].usage = usage, ![id].list[n].virt = 0]
              ELSE /\ region' = [region EXCEPT ![id].list[n].usage = usage]
                   /\ UNCHANGED map
    /\ UNCHANGED <<used, alive, alloc, stack, lock, freedTwice>>

(* shmem_delete, first part: the region leaves the table.                  *)
shmem_delete(owner, id) ==
    /\ owner \in alive
    /\ Listed(id)
    /\ region[id].pid = owner
    /\ region' = [region EXCEPT ![id].state = "deleting"]
    /\ UNCHANGED <<used, alive, spaceVars, lock, freedTwice, excused>>

\* Mutant: the first user only is checked out.
ToVisitFirst(id) ==
    {n \in DOMAIN region[id].list : n = 1 /\ region[id].list[n].usage > 0 /\ ~region[id].list[n].tmp
                                    /\ region[id].list[n].pid \in alive}

(* The users to check out: processes that are gone are passed over.        *)
ToVisit(id) ==
    {n \in DOMAIN region[id].list : region[id].list[n].usage > 0 /\ ~region[id].list[n].tmp
                                    /\ region[id].list[n].pid \in alive}

(* Second part: the next user in the list, and its scratch page.           *)
DeleteCheckout(id) ==
    /\ region[id].state = "deleting"
    /\ ToVisit(id) # {}
    /\ LET n == CHOOSE m \in ToVisit(id) : \A k \in ToVisit(id) : m <= k
           p == region[id].list[n].pid
       IN  /\ lock[p] = None
           /\ lock' = [lock EXCEPT ![p] = id]
           /\ \/ \E f \in Frame \ used :
                    /\ used' = used \cup {f}
                    /\ region' = [region EXCEPT ![id].list[n].tmp = TRUE, ![id].list[n].tmp2 = f]
                    /\ UNCHANGED excused
              \/ /\ used = Frame
                 /\ region' = [region EXCEPT ![id].list[n].tmp = TRUE]
                 /\ excused' = excused \cup {p}
                 /\ UNCHANGED used
    /\ UNCHANGED <<alive, spaceVars, freedTwice>>

(* Third part: all scratch pages are mapped at once, the users committed,  *)
(* the region and its frame freed.                                         *)
DeleteFinish(id) ==
    /\ region[id].state = "deleting"
    /\ ToVisit(id) = {}
    /\ LET list == region[id].list
           Scratch(p, s) == {n \in DOMAIN list : list[n].pid = p /\ list[n].tmp2 # None /\ list[n].virt = s}
       IN  map' = [p \in Process |-> [s \in Slot |->
                      IF Scratch(p, s) = {} THEN map[p][s] ELSE list[CHOOSE n \in Scratch(p, s) : TRUE].tmp2]]
    /\ lock' = [p \in Process |-> IF lock[p] = id THEN None ELSE lock[p]]
    /\ FreeFrames(IF region[id].internal THEN {region[id].phys} ELSE {})
    /\ region' = [region EXCEPT ![id] = NoRegion]
    /\ UNCHANGED <<alive, alloc, stack, excused>>

---------------------------------------------------------------------------
SpaceNext ==
    \/ \E p \in Process :
          \/ user_alloc(p)
          \/ user_map(p)
          \/ \E a \in 0 .. Slots : user_free(p, a)
          \/ new_thread(p)
          \/ delete_thread(p)
          \/ delete_process(p)
    \/ \E p \in Process, id \in Id :
          \/ \E promiscuous \in Promiscuous :
                shmem_create(p, id, promiscuous) \/ shmem_create_direct(p, id, promiscuous)
          \/ \E q \in Process : shmem_grant(p, id, q) \/ shmem_revoke(p, id, q)
          \/ shmem_request(p, id)
          \/ shmem_release(p, id)
          \/ shmem_delete(p, id)
    \/ \E id \in Id : DeleteCheckout(id) \/ DeleteFinish(id)

SpaceSpec == SpaceInit /\ [][SpaceNext]_memoryVars

---------------------------------------------------------------------------
Infos(id) == IF region[id] = NoRegion THEN {} ELSE ToSet(region[id].list)

(* A process that has requested a region more often than released it finds  *)
(* the region where it was told, whatever others did meanwhile: request and *)
(* release count the users of one mapping.                                  *)
UsersMapped ==
    \A id \in Id : \A info \in Infos(id) :
        info.usage > 0 /\ info.pid \in alive =>
            info.virt # 0 /\ map[info.pid][info.virt] = region[id].phys

(* No page that is free again is still mapped in a process: revoke and      *)
(* delete leave no user behind in the region's pages.  The exceptions are   *)
(* known: a process that released more than it requested, and one for which *)
(* shmem_delete found no memory for a scratch page.                         *)
NoFreePageMapped ==
    \A p \in alive \ excused : \A s \in Slot :
        map[p][s] \in Frame => map[p][s] \in used

(* A page of the pool is mapped in two processes only while a region with   *)
(* both of them in its list exists.                                         *)
SharedOnlyByRegion ==
    \A p, q \in alive \ excused : p # q =>
        \A s, r \in Slot :
            (map[p][s] = map[q][r] /\ map[p][s] \in Frame) =>
                \E id \in Id : /\ region[id] # NoRegion
                               /\ region[id].phys = map[p][s]
                               /\ {p, q} \subseteq {info.pid : info \in Infos(id)}

(* The assertion of memory_free holds for every caller.                     *)
FreedOnce == ~freedTwice

=============================================================================
