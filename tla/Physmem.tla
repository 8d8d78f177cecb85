------------------------------ MODULE Physmem ------------------------------
(***************************************************************************)
(* Physical pages: the bitmap of physmem.c and its next-fit search.        *)
(*                                                                         *)
(* memory_alloc and memory_free work under kernel_lock.  The search is one *)
(* action per round of its outer loop; pages # 0 means that some CPU is in *)
(* it, and every other call waits.                                         *)
(***************************************************************************)
EXTENDS Integers, FiniteSets

CONSTANTS
    MAXMAP,       \* pages the bitmap is searched for
    LOW,          \* pages of the first megabyte
    KernelPages,  \* pages of the kernel image
    ModulePages,  \* pages of the boot modules
    MaxPages      \* bound: pages of one request

Page == 0 .. MAXMAP - 1
Low == 0 .. LOW - 1

(* The pages of the run that begins at b *)
Run(b, n) == b .. b + n - 1

ASSUME SizeAssumption ==
    /\ MAXMAP \in Nat \ {0}
    /\ LOW \in 1 .. MAXMAP
    /\ MaxPages \in 1 .. MAXMAP
ASSUME ImageAssumption ==
    /\ KernelPages \subseteq Page
    /\ ModulePages \subseteq Page
    /\ ModulePages \cap (Low \cup KernelPages) = {}

VARIABLES
    bitmap,       \* pages whose bit is set
    freePages,    \* s_freePages
    lastPage,     \* s_lastPage
    pages, i,     \* the request being served and the loop's variable
    modules,      \* pages reserved for the modules until they are started
    handed,       \* history: pages some caller got and has not freed
    halted        \* an assertion failed

requestVars == <<pages, i>>
vars == <<bitmap, freePages, lastPage, requestVars, modules, handed, halted>>

TypeOK ==
    /\ bitmap \subseteq Page
    /\ freePages \in Int
    /\ lastPage \in 0 .. MAXMAP
    /\ pages \in 0 .. MaxPages
    /\ i \in Nat
    /\ modules \subseteq bitmap
    /\ handed \subseteq bitmap
    /\ halted \in BOOLEAN

---------------------------------------------------------------------------
(* parse_multibootMap clears the bits of the available pages.  SET is two  *)
(* statements: as the body of a for loop without braces it sets all bits   *)
(* and lowers s_freePages once.  internal_reserve has the braces.          *)
init_memory(available) ==
    /\ bitmap = (Page \ available) \cup Low \cup KernelPages \cup ModulePages
    /\ freePages = Cardinality(available) - 2 - Cardinality(ModulePages)

Init ==
    /\ \E available \in SUBSET Page : init_memory(available)
    /\ lastPage = 0
    /\ pages = 0
    /\ i = 0
    /\ modules = ModulePages
    /\ handed = {}
    /\ halted = FALSE

Idle == pages = 0 /\ ~halted

---------------------------------------------------------------------------
(* memory_alloc                                                            *)

memory_alloc(n) ==
    /\ Idle
    /\ freePages > n
    /\ pages' = n
    /\ i' = 0
    /\ UNCHANGED <<bitmap, freePages, lastPage, modules, handed, halted>>

(* s_freePages <= pages: NULL without a search *)
Refuse(n) ==
    /\ Idle
    /\ freePages <= n
    /\ UNCHANGED vars

pos == (i + lastPage) % MAXMAP

(* A run does not wrap around: the rest of the bitmap is skipped.          *)
AtEnd == pos + pages > MAXMAP

\* Mutant: one page too many is skipped.
SkipTailTooFar ==
    /\ pages # 0
    /\ i < MAXMAP
    /\ AtEnd
    /\ i' = i + pages
    /\ UNCHANGED <<bitmap, freePages, lastPage, pages, modules, handed, halted>>

\* Mutant: the loop's i++ is not counted.
SkipTailShort ==
    /\ pages # 0
    /\ i < MAXMAP
    /\ AtEnd
    /\ i' = i + pages - 2
    /\ UNCHANGED <<bitmap, freePages, lastPage, pages, modules, handed, halted>>

(* i += pages - 2, and the loop's i++ *)
SkipTail ==
    /\ pages # 0
    /\ i < MAXMAP
    /\ AtEnd
    /\ i' = i + pages - 1
    /\ UNCHANGED <<bitmap, freePages, lastPage, pages, modules, handed, halted>>

(* A set bit in the run: the search goes on behind the first one.          *)
SkipSet ==
    /\ pages # 0
    /\ i < MAXMAP
    /\ ~AtEnd
    /\ \E j \in 0 .. pages - 1 :
          /\ pos + j \in bitmap
          /\ \A k \in 0 .. j - 1 : pos + k \notin bitmap
          /\ i' = i + j + 1
    /\ UNCHANGED <<bitmap, freePages, lastPage, pages, modules, handed, halted>>

\* Mutant: only the first page of the run is looked at.
FoundFirst ==
    /\ pages # 0
    /\ i < MAXMAP
    /\ ~AtEnd
    /\ pos \notin bitmap
    /\ bitmap' = bitmap \cup Run(pos, pages)
    /\ freePages' = freePages - pages
    /\ lastPage' = pos + pages
    /\ handed' = IF pos = 0 THEN handed ELSE handed \cup Run(pos, pages)
    /\ pages' = 0
    /\ i' = 0
    /\ UNCHANGED <<modules, halted>>

(* The run is free: set its bits and return its address, which is NULL for *)
(* the run that begins at page 0.                                          *)
Found ==
    /\ pages # 0
    /\ i < MAXMAP
    /\ ~AtEnd
    /\ Run(pos, pages) \cap bitmap = {}
    /\ bitmap' = bitmap \cup Run(pos, pages)
    /\ freePages' = freePages - pages
    /\ lastPage' = pos + pages
    /\ handed' = IF pos = 0 THEN handed ELSE handed \cup Run(pos, pages)
    /\ pages' = 0
    /\ i' = 0
    /\ UNCHANGED <<modules, halted>>

(* The loop ends without a run: NULL *)
NotFound ==
    /\ pages # 0
    /\ i >= MAXMAP
    /\ pages' = 0
    /\ i' = 0
    /\ UNCHANGED <<bitmap, freePages, lastPage, modules, handed, halted>>

---------------------------------------------------------------------------
\* Mutant: the count of free pages is raised once for the whole run.
memory_free_once(b, n) ==
    /\ Idle
    /\ Run(b, n) \subseteq handed
    /\ bitmap' = bitmap \ Run(b, n)
    /\ freePages' = freePages + 1
    /\ handed' = handed \ Run(b, n)
    /\ UNCHANGED <<lastPage, requestVars, modules, halted>>

(* A caller gives back pages it got, all of them (user_free, delete_thread)  *)
(* or one at a time (page_map_out).                                        *)
memory_free(b, n) ==
    /\ Idle
    /\ Run(b, n) \subseteq handed
    /\ bitmap' = bitmap \ Run(b, n)
    /\ freePages' = freePages + n
    /\ handed' = handed \ Run(b, n)
    /\ UNCHANGED <<lastPage, requestVars, modules, halted>>

(* delete_page_directory takes i * PAGE_SIZE for the address of the i-th    *)
(* table: all of them lie in the first 4 MB, whose directory entry is the   *)
(* identity mapping at physical address 0.  The loop over tables takes 0    *)
(* for a table and frees page 0.  The assertion of memory_free comes after  *)
(* UNSET.                                                                   *)
delete_page_directory ==
    /\ Idle
    /\ bitmap' = bitmap \ {0}
    /\ freePages' = freePages + 1
    /\ halted' = (0 \notin bitmap)
    /\ UNCHANGED <<lastPage, requestVars, modules, handed>>

(* init_modules: the modules have been copied, their pages are available.   *)
internal_reserve ==
    /\ Idle
    /\ modules # {}
    /\ bitmap' = bitmap \ modules
    /\ freePages' = freePages + Cardinality(modules)
    /\ modules' = {}
    /\ UNCHANGED <<lastPage, requestVars, handed, halted>>

Search == SkipTail \/ SkipSet \/ Found \/ NotFound

Next ==
    \/ \E n \in 1 .. MaxPages : memory_alloc(n) \/ Refuse(n)
    \/ Search
    \/ \E b \in Page, n \in 1 .. MaxPages : memory_free(b, n)
    \/ delete_page_directory
    \/ internal_reserve

Spec == Init /\ [][Next]_vars

(* The caller's CPU keeps executing: interrupts are disabled in a system    *)
(* call, nothing takes the CPU away from the search.                        *)
FairSpec == Spec /\ WF_vars(Search)

---------------------------------------------------------------------------
FreeRun(b) == Run(b, pages) \subseteq Page \ bitmap

(* memory_multiple_alloc says that nothing was found only if there is no    *)
(* free run of that length, runs in the first pages - 2 pages excepted (the *)
(* skip at the end may jump over these; they belong to the reserved first   *)
(* megabyte as long as nobody asks for more than 258 pages).                *)
NoRunMissed ==
    (pages # 0 /\ i >= MAXMAP) =>
        \A b \in Page : b + 2 >= pages => ~FreeRun(b)

(* The error of s_freePages is made in init_memory and never grows: every   *)
(* later call moves the count and the bits together, until a page is freed  *)
(* that was not set.                                                        *)
CountDriftConstant ==
    [][~halted' => freePages' - Cardinality(Page \ bitmap') =
                       freePages - Cardinality(Page \ bitmap)]_vars

(* Every search ends: kernel_lock is held until it does.                    *)
SearchEnds == (pages # 0) ~> (pages = 0)

(* memory_alloc hands out only pages nobody has.                            *)
Pool == INSTANCE PagePool WITH used <- bitmap
ImplementsPagePool == Pool!Spec

=============================================================================
