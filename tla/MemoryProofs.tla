---------------------------- MODULE MemoryProofs ----------------------------
(***************************************************************************)
(* Proofs about the pages of the machine: the address spaces over the pool *)
(* (ualloc.c, shmem.c), for any processes, regions, frames and slots, and  *)
(* the pool itself (physmem.c), for every number of pages, every memory    *)
(* map and every size of request.                                          *)
(*                                                                         *)
(* The argument about address spaces is one of ownership.  Every frame in  *)
(* use has an owner, every slot of a process an owner, and a frame that is *)
(* mapped in a slot has the owner of the slot.  The program keeps no such  *)
(* table: the invariant says that there is one.                            *)
(***************************************************************************)
EXTENDS Physmem, Memory, FiniteSetTheorems, SequenceTheorems, WellFoundedInduction, TLAPS

---------------------------------------------------------------------------
(* Owners                                                                  *)

Nobody == <<"nobody", 0, 0>>
AllocOwner(p, m) == <<"alloc", p, m>>          \* a record of proc->alloc
StackOwner(p, s) == <<"stack", p, s>>          \* the page of a user stack
RegionOwner(id) == <<"region", id, 0>>         \* a shared region
ScratchOwner(id, p) == <<"scratch", id, p>>    \* a page that waits in info->tmp2
PageOwner(p, s) == <<"page", p, s>>            \* a scratch page that is mapped

LEMMA OwnersDiffer ==
    /\ \A p, m : AllocOwner(p, m) # Nobody
    /\ \A p, s : StackOwner(p, s) # Nobody
    /\ \A id : RegionOwner(id) # Nobody
    /\ \A id, p : ScratchOwner(id, p) # Nobody
    /\ \A p, s : PageOwner(p, s) # Nobody
    /\ \A p, m, q, n : AllocOwner(p, m) = AllocOwner(q, n) => p = q /\ m = n
    /\ \A p, s, q, r : StackOwner(p, s) = StackOwner(q, r) => p = q /\ s = r
    /\ \A id, j : RegionOwner(id) = RegionOwner(j) => id = j
    /\ \A id, p, j, q : ScratchOwner(id, p) = ScratchOwner(j, q) => id = j /\ p = q
    /\ \A p, s, q, r : PageOwner(p, s) = PageOwner(q, r) => p = q /\ s = r
    /\ \A p, m, q, s : AllocOwner(p, m) # StackOwner(q, s)
    /\ \A p, m, id : AllocOwner(p, m) # RegionOwner(id)
    /\ \A p, m, id, q : AllocOwner(p, m) # ScratchOwner(id, q)
    /\ \A p, m, q, s : AllocOwner(p, m) # PageOwner(q, s)
    /\ \A p, s, id : StackOwner(p, s) # RegionOwner(id)
    /\ \A p, s, id, q : StackOwner(p, s) # ScratchOwner(id, q)
    /\ \A p, s, q, r : StackOwner(p, s) # PageOwner(q, r)
    /\ \A id, j, p : RegionOwner(id) # ScratchOwner(j, p)
    /\ \A id, p, s : RegionOwner(id) # PageOwner(p, s)
    /\ \A id, q, p, s : ScratchOwner(id, q) # PageOwner(p, s)
  BY DEF Nobody, AllocOwner, StackOwner, RegionOwner, ScratchOwner, PageOwner

(* The claims, for owners o of the frames and t of the slots.              *)

FreeUnowned(o) == \A f \in Frame : f \notin used => o[f] = Nobody

(* A record of proc->alloc owns its frame and the slot it is mapped at.    *)
AllocClaim(o, t, p, m) ==
    /\ m.release => m.phys \in Frame /\ o[m.phys] = AllocOwner(p, m)
    /\ m.virt # 0 => map[p][m.virt] = m.phys /\ t[p][m.virt] = AllocOwner(p, m)

AllocOwned(o, t) == \A p \in alive : \A m \in alloc[p] : AllocClaim(o, t, p, m)

(* A thread owns the slot of its stack, and what page_ensure put there.    *)
StackOwned(o, t) ==
    \A p \in alive : stack[p] # 0 =>
        /\ map[p][stack[p]] # None
        /\ t[p][stack[p]] = StackOwner(p, stack[p])
        /\ map[p][stack[p]] \in Frame => o[map[p][stack[p]]] = StackOwner(p, stack[p])

(* A region owns its frame until its deletion is complete.                 *)
RegionOwned(o) ==
    \A id \in Id : region[id] # NoRegion =>
        /\ region[id].internal <=> region[id].phys \in Frame
        /\ region[id].phys \in Frame => o[region[id].phys] = RegionOwner(id)

(* The slot at which a user has the region belongs to the region.          *)
UsersOwned(t) ==
    \A id \in Id : \A x \in Infos(id) :
        x.pid \in alive /\ x.virt # 0 =>
            map[x.pid][x.virt] = region[id].phys /\ t[x.pid][x.virt] = RegionOwner(id)

(* A page in info->tmp2 belongs to that user of the region.                *)
ScratchClaim(o, id, x) ==
    x.tmp2 # None => x.tmp2 \in Frame /\ o[x.tmp2] = ScratchOwner(id, x.pid)

ScratchOwned(o) == \A id \in Id : \A x \in Infos(id) : ScratchClaim(o, id, x)

EmptyUnowned(t) == \A p \in alive : \A s \in Slot : map[p][s] = None => t[p][s] = Nobody

(* Slots are owned where they are: only regions own slots of several       *)
(* processes.                                                              *)
InPlace(p, s, w) ==
    \/ w = Nobody
    \/ \E m : m.virt = s /\ w = AllocOwner(p, m)
    \/ w = StackOwner(p, s)
    \/ \E id \in Id : w = RegionOwner(id)
    \/ w = PageOwner(p, s)

OwnedInPlace(t) == \A p \in alive : \A s \in Slot : InPlace(p, s, t[p][s])

(* A frame that is mapped has the owner of the slot ...                    *)
PagesOwned(o, t) ==
    \A p \in alive \ excused : \A s \in Slot :
        map[p][s] \in Frame => t[p][s] # Nobody /\ o[map[p][s]] = t[p][s]

(* ... and a slot of a region is one of a user in its list.                *)
SlotsListed(t) ==
    \A p \in alive \ excused : \A s \in Slot : \A id \in Id :
        t[p][s] = RegionOwner(id) => \E x \in Infos(id) : x.pid = p /\ x.virt = s

Claims(o, t) ==
    /\ FreeUnowned(o) /\ AllocOwned(o, t) /\ StackOwned(o, t) /\ RegionOwned(o)
    /\ UsersOwned(t) /\ ScratchOwned(o) /\ EmptyUnowned(t) /\ OwnedInPlace(t)
    /\ PagesOwned(o, t) /\ SlotsListed(t)

Owned == \E o, t : Claims(o, t)

(* A process is in the list of a region once.                              *)
Uniq(l) == \A a, b \in 1 .. Len(l) : l[a].pid = l[b].pid => a = b

ListedOnce == \A id \in Id : region[id] # NoRegion => Uniq(region[id].list)

(* What the counts of a user say about its mapping, and the marks of a     *)
(* deletion about its count                                                *)
CountsMatch(x) ==
    /\ x.usage > 0 => x.virt # 0
    /\ x.virt # 0 /\ x.usage <= 0 => x.pid \in excused
    /\ x.usage < 0 => x.pid \in excused
    /\ x.tmp2 # None => x.usage > 0 /\ x.tmp
    /\ x.tmp => x.tmp2 # None \/ x.pid \in excused

UserRecords ==
    \A id \in Id : \A x \in Infos(id) :
        CountsMatch(x) /\ (x.tmp => region[id].state = "deleting")

SpaceInv ==
    /\ SpaceTypeOK /\ ListedOnce /\ UserRecords /\ FreedOnce
    /\ Owned

---------------------------------------------------------------------------
(* The list of a region                                                    *)

LEMMA Members ==
    ASSUME NEW l \in Seq(Info)
    PROVE  /\ ToSet(l) = {l[n] : n \in 1 .. Len(l)}
           /\ \A x : x \in ToSet(l) <=> \E n \in 1 .. Len(l) : l[n] = x
           /\ \A x \in ToSet(l) : x \in Info
           /\ Len(l) \in Nat /\ DOMAIN l = 1 .. Len(l)
  <1>1. Len(l) \in Nat /\ DOMAIN l = 1 .. Len(l) /\ \A n \in 1 .. Len(l) : l[n] \in Info
    OBVIOUS
  <1>2. ToSet(l) = {l[n] : n \in 1 .. Len(l)} BY <1>1 DEF ToSet
  <1> QED BY <1>1, <1>2

LEMMA Prepended ==
    ASSUME NEW l \in Seq(Info), NEW x \in Info, Uniq(l), \A y \in ToSet(l) : y.pid # x.pid
    PROVE  /\ <<x>> \o l \in Seq(Info)
           /\ Uniq(<<x>> \o l)
           /\ ToSet(<<x>> \o l) = ToSet(l) \cup {x}
  <1> DEFINE e == <<x>> \o l
  <1>1. Len(l) \in Nat /\ \A n \in 1 .. Len(l) : l[n] \in Info /\ l[n].pid # x.pid
    BY Members
  <1>2. e \in Seq(Info) /\ Len(e) = Len(l) + 1 /\ e[1] = x
    <2>1. <<x>> \in Seq(Info) /\ Len(<<x>>) = 1 /\ <<x>>[1] = x OBVIOUS
    <2>2. e \in Seq(Info) /\ Len(e) = Len(<<x>>) + Len(l)
      BY <2>1, ConcatProperties
    <2>3. e[1] = <<x>>[1] BY <2>1, <1>1
    <2> QED BY <2>1, <2>2, <2>3, <1>1
  <1>3. \A n \in 1 .. Len(l) : e[n + 1] = l[n]
    <2> TAKE n \in 1 .. Len(l)
    <2>1. n + 1 \in 2 .. Len(l) + 1 /\ (n + 1) - 1 = n BY <1>1
    <2> QED BY <1>1, <2>1
  <1> HIDE DEF e
  <1>4. \A n \in 1 .. Len(e) : n = 1 \/ \E k \in 1 .. Len(l) : n = k + 1 /\ e[n] = l[k]
    <2> TAKE n \in 1 .. Len(e)
    <2>1. n # 1 => n - 1 \in 1 .. Len(l) /\ n = (n - 1) + 1 BY <1>1, <1>2
    <2> QED BY <1>3, <2>1
  <1>5. Uniq(e)
    <2> SUFFICES ASSUME NEW c \in 1 .. Len(e), NEW d \in 1 .. Len(e), e[c].pid = e[d].pid
                 PROVE  c = d
      BY DEF Uniq
    <2>1. CASE c = 1 /\ d # 1 BY <2>1, <1>1, <1>2, <1>4
    <2>2. CASE c # 1 /\ d = 1 BY <2>2, <1>1, <1>2, <1>4
    <2>3. CASE c # 1 /\ d # 1
      <3>1. PICK cc \in 1 .. Len(l) : c = cc + 1 /\ e[c] = l[cc] BY <1>4, <2>3
      <3>2. PICK dd \in 1 .. Len(l) : d = dd + 1 /\ e[d] = l[dd] BY <1>4, <2>3
      <3>3. cc = dd BY <3>1, <3>2 DEF Uniq
      <3> QED BY <3>1, <3>2, <3>3
    <2> QED BY <2>1, <2>2, <2>3
  <1>6. ToSet(e) = ToSet(l) \cup {x}
    <2>1. ASSUME NEW y \in ToSet(e) PROVE y \in ToSet(l) \cup {x}
      <3>1. PICK n \in 1 .. Len(e) : e[n] = y BY <1>2, <2>1, Members
      <3> QED BY <3>1, <1>2, <1>4, Members
    <2>2. ASSUME NEW y \in ToSet(l) PROVE y \in ToSet(e)
      <3>1. PICK n \in 1 .. Len(l) : l[n] = y BY <2>2, Members
      <3>2. n + 1 \in 1 .. Len(e) BY <1>1, <1>2
      <3> QED BY <3>1, <3>2, <1>3, <1>2, Members
    <2>3. x \in ToSet(e)
      <3>1. 1 \in 1 .. Len(e) BY <1>1, <1>2
      <3> QED BY <3>1, <1>2, Members
    <2> QED BY <2>1, <2>2, <2>3
  <1> QED BY <1>2, <1>5, <1>6 DEF e

LEMMA Updated ==
    ASSUME NEW l \in Seq(Info), NEW e \in Seq(Info), Uniq(l), Len(e) = Len(l),
           NEW n \in 1 .. Len(l), e[n].pid = l[n].pid,
           \A k \in 1 .. Len(l) : k # n => e[k] = l[k]
    PROVE  /\ Uniq(e)
           /\ ToSet(e) = {y \in ToSet(l) : y.pid # l[n].pid} \cup {e[n]}
  <1>1. Uniq(e) BY DEF Uniq
  <1>2. ASSUME NEW y \in ToSet(e), y # e[n] PROVE y \in ToSet(l) /\ y.pid # l[n].pid
    <2>1. PICK k \in 1 .. Len(e) : e[k] = y BY <1>2, Members
    <2>2. k # n /\ e[k] = l[k] BY <1>2, <2>1
    <2>3. l[k].pid # l[n].pid BY <2>2, <2>1 DEF Uniq
    <2> QED BY <2>1, <2>2, <2>3, Members
  <1>3. ASSUME NEW y \in ToSet(l), y.pid # l[n].pid PROVE y \in ToSet(e)
    <2>1. PICK k \in 1 .. Len(l) : l[k] = y BY <1>3, Members
    <2> QED BY <2>1, <1>3, Members
  <1>4. e[n] \in ToSet(e) BY Members
  <1> QED BY <1>1, <1>2, <1>3, <1>4

LEMMA Removed ==
    ASSUME NEW l \in Seq(Info), Uniq(l), NEW n \in 1 .. Len(l)
    PROVE  /\ RemoveAt(l, n) \in Seq(Info)
           /\ Uniq(RemoveAt(l, n))
           /\ ToSet(RemoveAt(l, n)) = {y \in ToSet(l) : y.pid # l[n].pid}
  <1> DEFINE a == SubSeq(l, 1, n - 1)
             b == SubSeq(l, n + 1, Len(l))
             e == RemoveAt(l, n)
  <1>1. Len(l) \in Nat /\ n \in Nat /\ n >= 1 /\ n <= Len(l)
    OBVIOUS
  <1>2. a \in Seq(Info) /\ Len(a) = n - 1 /\ \A k \in 1 .. n - 1 : a[k] = l[k]
    BY <1>1
  <1>3. b \in Seq(Info) /\ Len(b) = Len(l) - n /\ \A k \in 1 .. Len(l) - n : b[k] = l[n + k]
    BY <1>1
  <1>4. e = a \o b BY DEF RemoveAt
  <1> HIDE DEF a, b, e
  <1>5. e \in Seq(Info) /\ Len(e) = Len(l) - 1
    <2>1. a \o b \in Seq(Info) /\ Len(a \o b) = Len(a) + Len(b)
      BY <1>2, <1>3, ConcatProperties, Zenon
    <2> QED BY <1>1, <1>2, <1>3, <1>4, <2>1
  <1>6. ASSUME NEW k \in 1 .. Len(l) - 1 PROVE e[k] = IF k < n THEN l[k] ELSE l[k + 1]
    <2>1. CASE k < n
      BY <1>1, <1>2, <1>3, <1>4, <2>1
    <2>2. CASE k >= n
      <3>1. (a \o b)[k] = b[k - (n - 1)]
        BY <1>1, <1>2, <1>3, <2>2
      <3>2. k - (n - 1) \in 1 .. Len(l) - n /\ n + (k - (n - 1)) = k + 1
        BY <1>1, <2>2
      <3> QED BY <1>1, <1>3, <1>4, <2>2, <3>1, <3>2
    <2> QED BY <2>1, <2>2, <1>1
  <1>7. Uniq(e)
    <2> SUFFICES ASSUME NEW c \in 1 .. Len(e), NEW d \in 1 .. Len(e), e[c].pid = e[d].pid
                 PROVE  c = d
      BY DEF Uniq
    <2>1. c \in 1 .. Len(l) - 1 /\ d \in 1 .. Len(l) - 1 BY <1>5
    <2>2. PICK cc \in 1 .. Len(l) : e[c] = l[cc] /\ cc = IF c < n THEN c ELSE c + 1
      <3>1. (IF c < n THEN c ELSE c + 1) \in 1 .. Len(l) BY <1>1, <2>1
      <3> QED BY <3>1, <2>1, <1>6
    <2>3. PICK dd \in 1 .. Len(l) : e[d] = l[dd] /\ dd = IF d < n THEN d ELSE d + 1
      <3>1. (IF d < n THEN d ELSE d + 1) \in 1 .. Len(l) BY <1>1, <2>1
      <3> QED BY <3>1, <2>1, <1>6
    <2>4. cc = dd BY <2>2, <2>3 DEF Uniq
    <2> QED BY <2>1, <2>2, <2>3, <2>4, <1>1
  <1>8. ASSUME NEW y \in ToSet(e) PROVE y \in ToSet(l) /\ y.pid # l[n].pid
    <2>1. PICK k \in 1 .. Len(e) : e[k] = y BY <1>5, <1>8, Members
    <2>2. PICK kk \in 1 .. Len(l) : e[k] = l[kk] /\ kk # n
      <3>1. k \in 1 .. Len(l) - 1 BY <1>5
      <3>2. (IF k < n THEN k ELSE k + 1) \in 1 .. Len(l) /\ (IF k < n THEN k ELSE k + 1) # n
        BY <1>1, <3>1
      <3> QED BY <3>1, <3>2, <1>6
    <2>3. l[kk].pid # l[n].pid BY <2>2 DEF Uniq
    <2> QED BY <2>1, <2>2, <2>3, Members
  <1>9. ASSUME NEW y \in ToSet(l), y.pid # l[n].pid PROVE y \in ToSet(e)
    <2>1. PICK k \in 1 .. Len(l) : l[k] = y BY <1>9, Members
    <2>2. k # n BY <2>1, <1>9
    <2>3. PICK c \in 1 .. Len(l) - 1 : e[c] = l[k]
      <3>1. CASE k < n
        <4>1. k \in 1 .. Len(l) - 1 BY <1>1, <3>1
        <4> QED BY <4>1, <3>1, <1>6
      <3>2. CASE k > n
        <4>1. k - 1 \in 1 .. Len(l) - 1 /\ ~(k - 1 < n) /\ (k - 1) + 1 = k BY <1>1, <3>2
        <4>2. e[k - 1] = l[(k - 1) + 1] BY <4>1, <1>6
        <4> QED BY <4>1, <4>2
      <3> QED BY <3>1, <3>2, <2>2, <1>1
    <2>4. c \in 1 .. Len(e) BY <1>5
    <2> QED BY <2>1, <2>3, <2>4, <1>5, Members
  <1>10. ToSet(e) = {y \in ToSet(l) : y.pid # l[n].pid} BY <1>8, <1>9
  <1> QED BY <1>5, <1>7, <1>10 DEF e

(* The list e is l with the entry n replaced by x.                         *)
Replaces(e, l, n, x) ==
    /\ e \in Seq(Info) /\ e = [l EXCEPT ![n] = x] /\ Len(e) = Len(l) /\ e[n] = x
    /\ \A k \in 1 .. Len(l) : k # n => e[k] = l[k]

LEMMA Replaced ==
    ASSUME NEW l \in Seq(Info), NEW n \in 1 .. Len(l), NEW x \in Info
    PROVE  \E e : Replaces(e, l, n, x)
  <1>0. PICK e : e = [l EXCEPT ![n] = x] OBVIOUS
  <1>1. e \in Seq(Info) /\ Len(e) = Len(l) /\ \A k \in 1 .. Len(l) : e[k] = IF k = n THEN x ELSE l[k]
    BY <1>0, ExceptSeq
  <1>2. e[n] = x /\ \A k \in 1 .. Len(l) : k # n => e[k] = l[k] BY <1>1
  <1>3. Replaces(e, l, n, x) BY <1>0, <1>1, <1>2 DEF Replaces
  <1> QED BY <1>3

---------------------------------------------------------------------------
(* What the operators of the model return                                  *)

Before == {r \in Nat \X Nat : r[1] < r[2]}

LEMMA FirstOf ==
    ASSUME NEW S \in SUBSET Nat, S # {}
    PROVE  \E x \in S : \A y \in S : x <= y
  <1>1. Before = OpToRel(<, Nat) BY DEF Before, OpToRel
  <1>2. IsWellFoundedOn(Before, Nat) BY <1>1, NatLessThanWellFounded
  <1>3. PICK x \in S : \A y \in S : ~(<<y, x>> \in Before) BY <1>2, WFMin
  <1>4. \A y \in S : <<y, x>> \in Nat \X Nat /\ <<y, x>>[1] = y /\ <<y, x>>[2] = x
    OBVIOUS
  <1>5. \A y \in S : ~(y < x) BY <1>3, <1>4 DEF Before
  <1> QED BY <1>5

(* page_find_free returns the beginning of a run of empty slots.           *)
LEMMA FreeSlot ==
    ASSUME NEW p \in Process, NEW n \in {1, 2}, page_find_free(p, n) # 0
    PROVE  /\ page_find_free(p, n) \in Nat
           /\ page_find_free(p, n) + n - 1 \in Slot
           /\ map[p][page_find_free(p, n) + n - 1] = None
  <1> DEFINE fits == {s \in Slot : s + n - 1 \in Slot /\ \A k \in s .. s + n - 1 : map[p][k] = None}
             c == CHOOSE s \in fits : \A r \in fits : s <= r
  <1>1. fits # {} /\ page_find_free(p, n) = c BY DEF page_find_free
  <1>2. fits \in SUBSET Nat BY SlotAssumption DEF Slot
  <1>3. \E s \in fits : \A r \in fits : s <= r
    <2> HIDE DEF fits
    <2> QED BY <1>1, <1>2, FirstOf
  <1>4. c \in fits
    <2> HIDE DEF fits
    <2> QED BY <1>3
  <1>5. c \in Nat /\ c + n - 1 \in Slot /\ \A k \in c .. c + n - 1 : map[p][k] = None
    <2> HIDE DEF c
    <2> QED BY <1>4, <1>2
  <1>6. c + n - 1 \in c .. c + n - 1 BY <1>5
  <1> QED BY <1>1, <1>5, <1>6

LEMMA RegionTypes ==
    ASSUME SpaceTypeOK, NEW id \in Id
    PROVE  /\ region[id] # NoRegion =>
                 /\ region[id] \in Region
                 /\ region[id].list \in Seq(Info)
                 /\ region[id].phys \in Physical
                 /\ Infos(id) = ToSet(region[id].list)
           /\ region[id] = NoRegion => Infos(id) = {} /\ region[id].state = "absent"
           /\ \A x \in Infos(id) : x \in Info
  <1>1. region[id] \in Region \cup {NoRegion} BY DEF SpaceTypeOK
  <1>2. CASE region[id] # NoRegion
    <2>1. region[id] \in Region BY <1>1, <1>2
    <2>2. region[id].list \in Seq(Info) /\ region[id].phys \in Physical BY <2>1 DEF Region
    <2>3. Infos(id) = ToSet(region[id].list) BY <1>2 DEF Infos
    <2>4. \A x \in ToSet(region[id].list) : x \in Info BY <2>2, Members
    <2> QED BY <1>2, <2>1, <2>2, <2>3, <2>4
  <1>3. CASE region[id] = NoRegion
    <2>1. region[id].state = "absent" BY <1>3 DEF NoRegion
    <2> QED BY <1>3, <2>1 DEF Infos
  <1> QED BY <1>2, <1>3

(* A region that is in the table, or being deleted, is one.                *)
LEMMA RegionExists ==
    ASSUME SpaceTypeOK, NEW id \in Id, region[id].state = "listed" \/ region[id].state = "deleting"
    PROVE  region[id] # NoRegion
  BY DEF NoRegion

(* The list of a region is changed.                                        *)
LEMMA ListSet ==
    ASSUME SpaceTypeOK, NEW id \in Id, region[id] # NoRegion, NEW l \in Seq(Info),
           region' = [region EXCEPT ![id].list = l]
    PROVE  /\ region' \in [Id -> Region \cup {NoRegion}]
           /\ region'[id] # NoRegion
           /\ region'[id].list = l
           /\ region'[id].phys = region[id].phys
           /\ region'[id].internal = region[id].internal
           /\ region'[id].state = region[id].state
           /\ Infos(id)' = ToSet(l)
           /\ \A j \in Id : j # id => region'[j] = region[j] /\ Infos(j)' = Infos(j)
  <1>1. region[id] \in Region BY RegionTypes
  <1>2. region \in [Id -> Region \cup {NoRegion}] BY DEF SpaceTypeOK
  <1> DEFINE g == [region[id] EXCEPT !.list = l]
  <1>3. region' = [region EXCEPT ![id] = g] OBVIOUS
  <1>4. /\ g \in Region /\ g.list = l /\ g.phys = region[id].phys
        /\ g.internal = region[id].internal /\ g.state = region[id].state
    BY <1>1 DEF Region
  <1>5. g # NoRegion BY <1>4 DEF Region, NoRegion
  <1> HIDE DEF g
  <1>6. region'[id] = g /\ \A j \in Id : j # id => region'[j] = region[j] BY <1>2, <1>3
  <1>7. region' \in [Id -> Region \cup {NoRegion}] BY <1>2, <1>3, <1>4
  <1>8. Infos(id)' = ToSet(l) BY <1>4, <1>5, <1>6 DEF Infos
  <1>9. \A j \in Id : j # id => Infos(j)' = Infos(j) BY <1>6 DEF Infos
  <1> QED BY <1>4, <1>5, <1>6, <1>7, <1>8, <1>9

(* The position of a process in a list                                     *)
LEMMA PositionFacts ==
    ASSUME SpaceTypeOK, NEW id \in Id, region[id] # NoRegion, NEW p
    PROVE  /\ Position(id, p) = 0 => \A x \in Infos(id) : x.pid # p
           /\ Position(id, p) # 0 =>
                 /\ Position(id, p) \in 1 .. Len(region[id].list)
                 /\ region[id].list[Position(id, p)].pid = p
                 /\ region[id].list[Position(id, p)] \in Infos(id)
  <1> DEFINE l == region[id].list
             at == {n \in DOMAIN l : l[n].pid = p}
  <1>1. l \in Seq(Info) /\ Infos(id) = ToSet(l) /\ Len(l) \in Nat /\ DOMAIN l = 1 .. Len(l)
    BY RegionTypes, Members
  <1>2. Position(id, p) = IF at = {} THEN 0 ELSE CHOOSE n \in at : TRUE BY DEF Position
  <1>3. CASE at = {}
    <2>1. \A n \in 1 .. Len(l) : l[n].pid # p BY <1>1, <1>3
    <2>2. \A x \in Infos(id) : x.pid # p
      <3> HIDE DEF l
      <3> QED BY <1>1, <2>1, Members
    <2> QED BY <1>2, <1>3, <2>2
  <1>4. CASE at # {}
    <2>1. Position(id, p) \in at
      <3> HIDE DEF at
      <3> QED BY <1>2, <1>4
    <2>2. Position(id, p) \in 1 .. Len(l) /\ l[Position(id, p)].pid = p BY <1>1, <2>1
    <2>3. Position(id, p) # 0 BY <2>2, <1>1
    <2>4. l[Position(id, p)] \in Infos(id)
      <3> HIDE DEF l
      <3> QED BY <1>1, <2>2, Members
    <2> QED BY <2>2, <2>3, <2>4
  <1> QED BY <1>3, <1>4

---------------------------------------------------------------------------
(* What a step leaves alone                                                *)

(* The regions are left alone: so is what is said about their lists.       *)
LEMMA RegionsSame ==
    ASSUME SpaceInv, UNCHANGED region, UNCHANGED excused
    PROVE  ListedOnce' /\ UserRecords' /\ \A id \in Id : Infos(id)' = Infos(id)
  <1>1. \A id \in Id : Infos(id)' = Infos(id) BY DEF Infos
  <1>2. ListedOnce' BY DEF SpaceInv, ListedOnce
  <1>3. UserRecords' BY <1>1 DEF SpaceInv, UserRecords, CountsMatch
  <1> QED BY <1>1, <1>2, <1>3

(* Owners that differ at given places                                      *)
NewFrame(o, f, w) == [g \in Frame |-> IF g = f THEN w ELSE o[g]]
NewSlot(t, p, s, w) == [q \in Process |-> [r \in Slot |-> IF q = p /\ r = s THEN w ELSE t[q][r]]]

(* An owner whose frames and slots a step leaves alone                      *)
Kept(o, oo, t, tt, w) ==
    /\ \A g \in Frame : o[g] = w => oo[g] = w
    /\ \A q \in alive' : \A r \in Slot : t[q][r] = w => tt[q][r] = w /\ map'[q][r] = map[q][r]

LEMMA KeptAlloc ==
    ASSUME SpaceTypeOK, NEW o, NEW t, NEW oo, NEW tt, Claims(o, t),
           NEW q \in alive, q \in alive', NEW k \in alloc[q], Kept(o, oo, t, tt, AllocOwner(q, k))
    PROVE  AllocClaim(oo, tt, q, k)'
  <1>1. k.virt # 0 => k.virt \in Slot
    <2>1. q \in Process BY DEF SpaceTypeOK
    <2>2. k \in Alloc BY <2>1 DEF SpaceTypeOK
    <2> QED BY <2>2, SlotAssumption DEF Alloc, Slot
  <1>2. /\ k.release => k.phys \in Frame /\ o[k.phys] = AllocOwner(q, k)
        /\ k.virt # 0 => map[q][k.virt] = k.phys /\ t[q][k.virt] = AllocOwner(q, k)
    BY DEF Claims, AllocOwned, AllocClaim
  <1> QED BY <1>1, <1>2 DEF Kept, AllocClaim

LEMMA KeptStack ==
    ASSUME SpaceTypeOK, NEW o, NEW t, NEW oo, NEW tt, Claims(o, t),
           NEW q \in alive, q \in alive', stack[q] # 0, Kept(o, oo, t, tt, StackOwner(q, stack[q]))
    PROVE  /\ map'[q][stack[q]] # None
           /\ tt[q][stack[q]] = StackOwner(q, stack[q])
           /\ map'[q][stack[q]] \in Frame => oo[map'[q][stack[q]]] = StackOwner(q, stack[q])
  <1>1. stack[q] \in Slot
    <2>1. q \in Process BY DEF SpaceTypeOK
    <2> QED BY <2>1, SlotAssumption DEF SpaceTypeOK, Slot
  <1>2. /\ map[q][stack[q]] # None
        /\ t[q][stack[q]] = StackOwner(q, stack[q])
        /\ map[q][stack[q]] \in Frame => o[map[q][stack[q]]] = StackOwner(q, stack[q])
    BY DEF Claims, StackOwned
  <1> QED BY <1>1, <1>2 DEF Kept

LEMMA KeptRegion ==
    ASSUME NEW o, NEW t, NEW oo, NEW tt, Claims(o, t),
           NEW id \in Id, region[id] # NoRegion, Kept(o, oo, t, tt, RegionOwner(id))
    PROVE  /\ region[id].internal <=> region[id].phys \in Frame
           /\ region[id].phys \in Frame => oo[region[id].phys] = RegionOwner(id)
  BY DEF Claims, RegionOwned, Kept

LEMMA KeptUser ==
    ASSUME SpaceTypeOK, NEW o, NEW t, NEW oo, NEW tt, Claims(o, t),
           NEW id \in Id, NEW x \in Infos(id), x.pid \in alive, x.pid \in alive', x.virt # 0,
           Kept(o, oo, t, tt, RegionOwner(id))
    PROVE  map'[x.pid][x.virt] = region[id].phys /\ tt[x.pid][x.virt] = RegionOwner(id)
  <1>1. x.virt \in Slot
    <2>1. x \in Info BY RegionTypes
    <2> QED BY <2>1, SlotAssumption DEF Info, Slot
  <1>2. map[x.pid][x.virt] = region[id].phys /\ t[x.pid][x.virt] = RegionOwner(id)
    BY DEF Claims, UsersOwned
  <1> QED BY <1>1, <1>2 DEF Kept

LEMMA KeptScratch ==
    ASSUME NEW o, NEW t, NEW oo, NEW tt, Claims(o, t),
           NEW id \in Id, NEW x \in Infos(id), Kept(o, oo, t, tt, ScratchOwner(id, x.pid))
    PROVE  ScratchClaim(oo, id, x)
  BY DEF Claims, ScratchOwned, ScratchClaim, Kept

LEMMA AllocsKept ==
    ASSUME SpaceTypeOK, NEW o, NEW t, NEW oo, NEW tt, Claims(o, t), alive' \subseteq alive,
           \A q \in alive' : \A k \in alloc'[q] :
               AllocClaim(oo, tt, q, k)' \/ (k \in alloc[q] /\ Kept(o, oo, t, tt, AllocOwner(q, k)))
    PROVE  AllocOwned(oo, tt)'
  <1> SUFFICES ASSUME NEW q \in alive', NEW k \in alloc'[q],
                      k \in alloc[q] /\ Kept(o, oo, t, tt, AllocOwner(q, k))
               PROVE  AllocClaim(oo, tt, q, k)'
    BY DEF AllocOwned
  <1> QED BY KeptAlloc

(* Stacks that stay where they are *)
LEMMA StacksKept ==
    ASSUME SpaceTypeOK, NEW o, NEW t, NEW oo, NEW tt, Claims(o, t), alive' \subseteq alive,
           UNCHANGED stack,
           \A q, s : Kept(o, oo, t, tt, StackOwner(q, s))
    PROVE  StackOwned(oo, tt)'
  <1> SUFFICES ASSUME NEW q \in alive', stack[q] # 0
               PROVE  /\ map'[q][stack[q]] # None
                      /\ tt[q][stack[q]] = StackOwner(q, stack[q])
                      /\ map'[q][stack[q]] \in Frame => oo[map'[q][stack[q]]] = StackOwner(q, stack[q])
    BY DEF StackOwned
  <1>1. Kept(o, oo, t, tt, StackOwner(q, stack[q])) OBVIOUS
  <1> QED BY <1>1, KeptStack

(* Regions whose users and pages stay where they are *)
LEMMA RegionsKept ==
    ASSUME SpaceInv, NEW o, NEW t, NEW oo, NEW tt, Claims(o, t),
           UNCHANGED region, UNCHANGED excused, alive' \subseteq alive,
           \A id \in Id : Kept(o, oo, t, tt, RegionOwner(id)),
           \A id \in Id : \A q : Kept(o, oo, t, tt, ScratchOwner(id, q))
    PROVE  RegionOwned(oo)' /\ UsersOwned(tt)' /\ ScratchOwned(oo)'
  <1>0. SpaceTypeOK BY DEF SpaceInv
  <1>1. \A id \in Id : Infos(id)' = Infos(id) BY RegionsSame
  <1>2. RegionOwned(oo)' BY KeptRegion DEF RegionOwned
  <1>3. UsersOwned(tt)'
    <2> SUFFICES ASSUME NEW id \in Id, NEW x \in Infos(id), x.pid \in alive', x.virt # 0
                 PROVE  map'[x.pid][x.virt] = region[id].phys /\ tt[x.pid][x.virt] = RegionOwner(id)
      BY <1>1 DEF UsersOwned
    <2> QED BY <1>0, KeptUser
  <1>4. ScratchOwned(oo)'
    <2> SUFFICES ASSUME NEW id \in Id, NEW x \in Infos(id) PROVE ScratchClaim(oo, id, x)
      BY <1>1 DEF ScratchOwned, ScratchClaim
    <2>1. Kept(o, oo, t, tt, ScratchOwner(id, x.pid)) OBVIOUS
    <2> QED BY <2>1, KeptScratch
  <1> QED BY <1>2, <1>3, <1>4

(* A step that changes one slot s of the process p, 0 for none.  The slot  *)
(* had the owner wt, or nobody; frames change their owner that had wf, or  *)
(* nobody; and nobody but p, there, has pages of wf mapped.                *)
Moves(o, oo, t, tt, p, s, wf, wt) ==
    /\ \A q \in Process : \A r \in Slot :
          ~(q = p /\ r = s) => map'[q][r] = map[q][r] /\ tt[q][r] = t[q][r]
    /\ \A g \in Frame : o[g] # Nobody /\ o[g] # wf => oo[g] = o[g]
    /\ s \in Slot => t[p][s] = Nobody \/ t[p][s] = wt
    /\ s \in Slot => /\ map'[p][s] = None => tt[p][s] = Nobody
                     /\ InPlace(p, s, tt[p][s])
                     /\ map'[p][s] \in Frame => tt[p][s] # Nobody /\ oo[map'[p][s]] = tt[p][s]
    /\ \A q \in alive \ excused : \A r \in Slot :
          t[q][r] = wf => wf = Nobody \/ (q = p /\ r = s)

LEMMA MoveKeeps ==
    ASSUME SpaceTypeOK, NEW o, NEW t, NEW oo, NEW tt, NEW p \in Process, NEW s, NEW wf, NEW wt,
           Claims(o, t), Moves(o, oo, t, tt, p, s, wf, wt), UNCHANGED alive
    PROVE  \A w : w # Nobody /\ w # wf /\ w # wt => Kept(o, oo, t, tt, w)
  <1>1. alive \subseteq Process BY DEF SpaceTypeOK
  <1> QED BY <1>1 DEF Moves, Kept

LEMMA MoveClaims ==
    ASSUME SpaceTypeOK, NEW o, NEW t, NEW oo, NEW tt, NEW p \in Process, NEW s, NEW wf, NEW wt,
           Claims(o, t), Moves(o, oo, t, tt, p, s, wf, wt), UNCHANGED alive, excused \subseteq excused'
    PROVE  EmptyUnowned(tt)' /\ OwnedInPlace(tt)' /\ PagesOwned(oo, tt)'
  <1>1. alive \subseteq Process BY DEF SpaceTypeOK
  <1>2. EmptyUnowned(tt)' BY <1>1 DEF Moves, Claims, EmptyUnowned
  <1>3. OwnedInPlace(tt)'
    <2> SUFFICES ASSUME NEW q \in alive, NEW r \in Slot PROVE InPlace(q, r, tt[q][r])
      BY DEF OwnedInPlace, InPlace
    <2>1. CASE q = p /\ r = s BY <2>1 DEF Moves
    <2>2. CASE ~(q = p /\ r = s)
      <3>1. tt[q][r] = t[q][r] BY <2>2, <1>1 DEF Moves
      <3> QED BY <3>1 DEF Claims, OwnedInPlace
    <2> QED BY <2>1, <2>2
  <1>4. PagesOwned(oo, tt)'
    <2> SUFFICES ASSUME NEW q \in alive \ excused, NEW r \in Slot, map'[q][r] \in Frame
                 PROVE  tt[q][r] # Nobody /\ oo[map'[q][r]] = tt[q][r]
      BY DEF PagesOwned
    <2>1. CASE q = p /\ r = s BY <2>1 DEF Moves
    <2>2. CASE ~(q = p /\ r = s)
      <3>1. map'[q][r] = map[q][r] /\ tt[q][r] = t[q][r] BY <2>2, <1>1 DEF Moves
      <3>2. t[q][r] # Nobody /\ o[map[q][r]] = t[q][r] BY <3>1 DEF Claims, PagesOwned
      <3>3. t[q][r] # wf BY <2>2, <3>2 DEF Moves
      <3> QED BY <3>1, <3>2, <3>3 DEF Moves
    <2> QED BY <2>1, <2>2
  <1> QED BY <1>2, <1>3, <1>4

(* The users of the regions are the same, and no slot becomes one of a     *)
(* region.                                                                 *)
LEMMA SlotsStayListed ==
    ASSUME SpaceInv, NEW o, NEW t, NEW tt, Claims(o, t), alive' \subseteq alive,
           UNCHANGED region, UNCHANGED excused,
           \A q \in alive' : \A r \in Slot : \A id \in Id :
               tt[q][r] = RegionOwner(id) => t[q][r] = RegionOwner(id)
    PROVE  SlotsListed(tt)'
  <1>1. \A id \in Id : Infos(id)' = Infos(id) BY RegionsSame
  <1> QED BY <1>1 DEF Claims, SlotsListed

---------------------------------------------------------------------------
(* ualloc.c and the threads' stacks                                        *)

(* The slot page_find_free has found *)
LEMMA OneFreeSlot ==
    ASSUME NEW p \in Process, page_find_free(p, 1) # 0
    PROVE  page_find_free(p, 1) \in Slot /\ map[p][page_find_free(p, 1)] = None
  <1>1. page_find_free(p, 1) \in Nat BY FreeSlot
  <1>2. page_find_free(p, 1) + 1 - 1 = page_find_free(p, 1) BY <1>1
  <1> QED BY <1>2, FreeSlot

LEMMA UserAllocStep ==
    ASSUME SpaceInv, NEW p \in Process, user_alloc(p)
    PROVE  SpaceInv'
  <1>1. PICK f \in Frame : f \notin used /\
           LET s == page_find_free(p, 1)
           IN  /\ s # 0
               /\ used' = used \cup {f}
               /\ map' = page_direct_map(p, f, s)
               /\ alloc' = [alloc EXCEPT ![p] = @ \cup {[virt |-> s, phys |-> f, release |-> TRUE]}]
    BY DEF user_alloc
  <1>2. PICK s \in Slot : s = page_find_free(p, 1) /\ map[p][s] = None
    BY <1>1, OneFreeSlot
  <1> DEFINE m == [virt |-> s, phys |-> f, release |-> TRUE]
  <1>3. /\ used' = used \cup {f} /\ map' = [map EXCEPT ![p][s] = f]
        /\ alloc' = [alloc EXCEPT ![p] = @ \cup {m}]
        /\ p \in alive /\ UNCHANGED <<alive, stack, region, lock, freedTwice, excused>>
    BY <1>1, <1>2 DEF user_alloc, CanCheckout, page_direct_map
  <1>4. m \in Alloc /\ m.virt = s /\ m.phys = f /\ m.release = TRUE /\ s # 0
    BY SlotAssumption DEF Alloc, Slot, Physical
  <1> HIDE DEF m
  <1>5. SpaceTypeOK BY DEF SpaceInv
  <1>6. /\ map' \in [Process -> [Slot -> Physical \cup {None}]]
        /\ map'[p][s] = f
        /\ \A q \in Process : \A r \in Slot : ~(q = p /\ r = s) => map'[q][r] = map[q][r]
    <2>1. f \in Physical \cup {None} BY DEF Physical
    <2>2. map \in [Process -> [Slot -> Physical \cup {None}]] BY <1>5 DEF SpaceTypeOK
    <2>3. map' = [map EXCEPT ![p][s] = f] BY <1>3
    <2> QED BY <2>1, <2>2, <2>3
  <1>7. /\ alloc' \in [Process -> SUBSET Alloc]
        /\ alloc'[p] = alloc[p] \cup {m}
        /\ \A q \in Process : q # p => alloc'[q] = alloc[q]
    BY <1>3, <1>4, <1>5 DEF SpaceTypeOK
  <1>8. SpaceTypeOK' BY <1>3, <1>5, <1>6, <1>7 DEF SpaceTypeOK
  <1>9. PICK o, t : Claims(o, t) BY DEF SpaceInv, Owned
  <1>10. PICK oo : oo[f] = AllocOwner(p, m) /\ \A g \in Frame : g # f => oo[g] = o[g]
    <2>1. PICK oo : oo = NewFrame(o, f, AllocOwner(p, m)) OBVIOUS
    <2> QED BY <2>1 DEF NewFrame
  <1>11. PICK tt : /\ tt[p][s] = AllocOwner(p, m)
                   /\ \A q \in Process : \A r \in Slot : ~(q = p /\ r = s) => tt[q][r] = t[q][r]
    <2>1. PICK tt : tt = NewSlot(t, p, s, AllocOwner(p, m)) OBVIOUS
    <2> QED BY <2>1 DEF NewSlot
  <1>12. o[f] = Nobody /\ t[p][s] = Nobody
    BY <1>1, <1>2, <1>3, <1>9 DEF Claims, FreeUnowned, EmptyUnowned
  <1>13. Moves(o, oo, t, tt, p, s, Nobody, Nobody)
    <2>1. f # None BY FrameAssumption DEF Physical
    <2>2. InPlace(p, s, tt[p][s]) BY <1>4, <1>11 DEF InPlace
    <2> QED BY <1>6, <1>10, <1>11, <1>12, <2>1, <2>2, OwnersDiffer DEF Moves
  <1>14. \A w : w # Nobody => Kept(o, oo, t, tt, w) BY <1>3, <1>5, <1>9, <1>13, MoveKeeps
  <1>15. FreeUnowned(oo)' BY <1>3, <1>9, <1>10 DEF Claims, FreeUnowned
  <1>16. AllocOwned(oo, tt)'
    <2>1. AllocClaim(oo, tt, p, m)' BY <1>4, <1>6, <1>10, <1>11 DEF AllocClaim
    <2>2. \A q \in alive' : \A k \in alloc'[q] :
             AllocClaim(oo, tt, q, k)' \/ (k \in alloc[q] /\ Kept(o, oo, t, tt, AllocOwner(q, k)))
      <3> TAKE q \in alive'
      <3> TAKE k \in alloc'[q]
      <3>1. Kept(o, oo, t, tt, AllocOwner(q, k)) BY <1>14, OwnersDiffer
      <3>2. (q = p /\ k = m) \/ k \in alloc[q] BY <1>3, <1>5, <1>7 DEF SpaceTypeOK
      <3> QED BY <2>1, <3>1, <3>2
    <2> QED BY <2>2, <1>3, <1>5, <1>9, AllocsKept
  <1>17. StackOwned(oo, tt)' BY <1>3, <1>5, <1>9, <1>14, OwnersDiffer, StacksKept
  <1>18. RegionOwned(oo)' /\ UsersOwned(tt)' /\ ScratchOwned(oo)'
    BY <1>3, <1>9, <1>14, OwnersDiffer, RegionsKept
  <1>19. EmptyUnowned(tt)' /\ OwnedInPlace(tt)' /\ PagesOwned(oo, tt)'
    BY <1>3, <1>5, <1>9, <1>13, MoveClaims
  <1>20. SlotsListed(tt)'
    <2>1. \A q \in alive' : \A r \in Slot : \A id \in Id :
             tt[q][r] = RegionOwner(id) => t[q][r] = RegionOwner(id)
      BY <1>3, <1>5, <1>11, OwnersDiffer DEF SpaceTypeOK
    <2> QED BY <2>1, <1>3, <1>9, SlotsStayListed
  <1>21. Claims(oo, tt)' BY <1>15, <1>16, <1>17, <1>18, <1>19, <1>20 DEF Claims
  <1>22. Owned' BY <1>21 DEF Owned
  <1>23. FreedOnce' BY <1>3 DEF SpaceInv, FreedOnce
  <1>24. ListedOnce' /\ UserRecords' BY <1>3, RegionsSame
  <1> QED BY <1>8, <1>22, <1>23, <1>24 DEF SpaceInv

LEMMA UserMapStep ==
    ASSUME SpaceInv, NEW p \in Process, user_map(p)
    PROVE  SpaceInv'
  <1>1. PICK s \in Slot : s = page_find_free(p, 1) /\ map[p][s] = None
    BY OneFreeSlot DEF user_map
  <1> DEFINE m == [virt |-> s, phys |-> Device, release |-> FALSE]
  <1>2. /\ map' = [map EXCEPT ![p][s] = Device]
        /\ alloc' = [alloc EXCEPT ![p] = @ \cup {m}]
        /\ p \in alive /\ UNCHANGED <<used, alive, stack, region, lock, freedTwice, excused>>
    BY <1>1 DEF user_map, CanCheckout, page_direct_map
  <1>3. m \in Alloc /\ m.virt = s /\ m.phys = Device /\ m.release = FALSE /\ s # 0
    BY SlotAssumption DEF Alloc, Slot, Physical
  <1> HIDE DEF m
  <1>4. SpaceTypeOK BY DEF SpaceInv
  <1>5. /\ map' \in [Process -> [Slot -> Physical \cup {None}]]
        /\ map'[p][s] = Device
        /\ \A q \in Process : \A r \in Slot : ~(q = p /\ r = s) => map'[q][r] = map[q][r]
    <2>1. Device \in Physical \cup {None} BY DEF Physical
    <2>2. map \in [Process -> [Slot -> Physical \cup {None}]] BY <1>4 DEF SpaceTypeOK
    <2> QED BY <2>1, <2>2, <1>2
  <1>6. /\ alloc' \in [Process -> SUBSET Alloc]
        /\ alloc'[p] = alloc[p] \cup {m}
        /\ \A q \in Process : q # p => alloc'[q] = alloc[q]
    BY <1>2, <1>3, <1>4 DEF SpaceTypeOK
  <1>7. SpaceTypeOK' BY <1>2, <1>4, <1>5, <1>6 DEF SpaceTypeOK
  <1>8. PICK o, t : Claims(o, t) BY DEF SpaceInv, Owned
  <1>9. PICK tt : /\ tt[p][s] = AllocOwner(p, m)
                  /\ \A q \in Process : \A r \in Slot : ~(q = p /\ r = s) => tt[q][r] = t[q][r]
    <2>1. PICK tt : tt = NewSlot(t, p, s, AllocOwner(p, m)) OBVIOUS
    <2> QED BY <2>1 DEF NewSlot
  <1>10. t[p][s] = Nobody BY <1>1, <1>2, <1>8 DEF Claims, EmptyUnowned
  <1>11. Moves(o, o, t, tt, p, s, Nobody, Nobody)
    <2>1. Device # None /\ Device \notin Frame BY FrameAssumption DEF Physical
    <2>2. InPlace(p, s, tt[p][s]) BY <1>3, <1>9 DEF InPlace
    <2> QED BY <1>5, <1>9, <1>10, <2>1, <2>2 DEF Moves
  <1>12. \A w : w # Nobody => Kept(o, o, t, tt, w) BY <1>2, <1>4, <1>8, <1>11, MoveKeeps
  <1>13. FreeUnowned(o)' BY <1>2, <1>8 DEF Claims, FreeUnowned
  <1>14. AllocOwned(o, tt)'
    <2>1. AllocClaim(o, tt, p, m)' BY <1>3, <1>5, <1>9 DEF AllocClaim
    <2>2. \A q \in alive' : \A k \in alloc'[q] :
             AllocClaim(o, tt, q, k)' \/ (k \in alloc[q] /\ Kept(o, o, t, tt, AllocOwner(q, k)))
      <3> TAKE q \in alive'
      <3> TAKE k \in alloc'[q]
      <3>1. Kept(o, o, t, tt, AllocOwner(q, k)) BY <1>12, OwnersDiffer
      <3>2. (q = p /\ k = m) \/ k \in alloc[q] BY <1>2, <1>4, <1>6 DEF SpaceTypeOK
      <3> QED BY <2>1, <3>1, <3>2
    <2> QED BY <2>2, <1>2, <1>4, <1>8, AllocsKept
  <1>15. StackOwned(o, tt)' BY <1>2, <1>4, <1>8, <1>12, OwnersDiffer, StacksKept
  <1>16. RegionOwned(o)' /\ UsersOwned(tt)' /\ ScratchOwned(o)'
    BY <1>2, <1>8, <1>12, OwnersDiffer, RegionsKept
  <1>17. EmptyUnowned(tt)' /\ OwnedInPlace(tt)' /\ PagesOwned(o, tt)'
    BY <1>2, <1>4, <1>8, <1>11, MoveClaims
  <1>18. SlotsListed(tt)'
    <2>1. \A q \in alive' : \A r \in Slot : \A id \in Id :
             tt[q][r] = RegionOwner(id) => t[q][r] = RegionOwner(id)
      BY <1>2, <1>4, <1>9, OwnersDiffer DEF SpaceTypeOK
    <2> QED BY <2>1, <1>2, <1>8, SlotsStayListed
  <1>19. Claims(o, tt)' BY <1>13, <1>14, <1>15, <1>16, <1>17, <1>18 DEF Claims
  <1>20. Owned' BY <1>19 DEF Owned
  <1>21. FreedOnce' BY <1>2 DEF SpaceInv, FreedOnce
  <1>22. ListedOnce' /\ UserRecords' BY <1>2, RegionsSame
  <1> QED BY <1>7, <1>20, <1>21, <1>22 DEF SpaceInv

(* The slot of a record or a stack, or none, is emptied.                   *)
LEMMA SlotReleased ==
    ASSUME SpaceTypeOK, NEW p \in Process, NEW s \in 0 .. Slots, map' = page_release(p, s)
    PROVE  /\ map' \in [Process -> [Slot -> Physical \cup {None}]]
           /\ s \in Slot => map'[p][s] = None
           /\ \A q \in Process : \A r \in Slot : ~(q = p /\ r = s) => map'[q][r] = map[q][r]
  <1>1. map \in [Process -> [Slot -> Physical \cup {None}]] BY DEF SpaceTypeOK
  <1>2. CASE s = 0
    <2>1. s \notin Slot /\ map' = map BY <1>2, SlotAssumption DEF Slot, page_release
    <2> QED BY <1>1, <2>1
  <1>3. CASE s # 0
    <2>1. s \in Slot /\ map' = [map EXCEPT ![p][s] = None]
      BY <1>3, SlotAssumption DEF Slot, page_release
    <2> QED BY <1>1, <2>1
  <1> QED BY <1>2, <1>3

(* A record owns nothing in another place.                                 *)
LEMMA OwnerInPlace ==
    ASSUME NEW o, NEW t, Claims(o, t), NEW q \in alive, NEW r \in Slot
    PROVE  /\ \A p, m : t[q][r] = AllocOwner(p, m) => q = p /\ r = m.virt
           /\ \A p, s : t[q][r] = StackOwner(p, s) => q = p /\ r = s
           /\ \A id, p : t[q][r] # ScratchOwner(id, p)
           /\ \A p, s : t[q][r] = PageOwner(p, s) => q = p /\ r = s
  <1>1. InPlace(q, r, t[q][r]) BY DEF Claims, OwnedInPlace
  <1> QED BY <1>1, OwnersDiffer DEF InPlace

LEMMA UserFreeStep ==
    ASSUME SpaceInv, NEW p \in Process, NEW a \in 0 .. Slots, user_free(p, a)
    PROVE  SpaceInv'
  <1>1. PICK m \in alloc[p] : /\ alloc' = [alloc EXCEPT ![p] = @ \ {m}]
                              /\ FreeFrames(Released(m))
                              /\ map' = page_release(p, m.virt)
    BY DEF user_free
  <1>2. p \in alive /\ UNCHANGED <<alive, stack, region, lock, excused>>
    BY DEF user_free, CanCheckout
  <1>3. SpaceTypeOK BY DEF SpaceInv
  <1>4. m \in Alloc /\ m.virt \in 0 .. Slots /\ m.release \in BOOLEAN BY <1>3 DEF SpaceTypeOK, Alloc
  <1>5. /\ map' \in [Process -> [Slot -> Physical \cup {None}]]
        /\ m.virt \in Slot => map'[p][m.virt] = None
        /\ \A q \in Process : \A r \in Slot : ~(q = p /\ r = m.virt) => map'[q][r] = map[q][r]
    BY <1>1, <1>3, <1>4, SlotReleased
  <1>6. /\ alloc' \in [Process -> SUBSET Alloc]
        /\ alloc'[p] = alloc[p] \ {m}
        /\ \A q \in Process : q # p => alloc'[q] = alloc[q]
    BY <1>1, <1>3 DEF SpaceTypeOK
  <1>7. PICK o, t : Claims(o, t) BY DEF SpaceInv, Owned
  <1>8. AllocClaim(o, t, p, m) BY <1>2, <1>7 DEF Claims, AllocOwned
  <1>9. m.release => m.phys \in Frame /\ o[m.phys] = AllocOwner(p, m) /\ m.phys \in used
    BY <1>7, <1>8, OwnersDiffer DEF AllocClaim, Claims, FreeUnowned
  <1>10. /\ used' = IF m.release THEN used \ {m.phys} ELSE used
         /\ ~freedTwice'
    BY <1>1, <1>9 DEF FreeFrames, Released, SpaceInv, FreedOnce
  <1>11. SpaceTypeOK'
    <2>1. freedTwice' \in BOOLEAN /\ used' \subseteq Frame
      BY <1>1, <1>3 DEF FreeFrames, SpaceTypeOK
    <2> QED BY <2>1, <1>2, <1>3, <1>5, <1>6 DEF SpaceTypeOK
  <1>12. PICK oo : \A g \in Frame : oo[g] = IF m.release /\ g = m.phys THEN Nobody ELSE o[g]
    <2>1. PICK oo : oo = [g \in Frame |-> IF m.release /\ g = m.phys THEN Nobody ELSE o[g]] OBVIOUS
    <2> QED BY <2>1
  <1>13. PICK tt : /\ m.virt \in Slot => tt[p][m.virt] = Nobody
                   /\ \A q \in Process : \A r \in Slot : ~(q = p /\ r = m.virt) => tt[q][r] = t[q][r]
    <2>1. PICK tt : tt = NewSlot(t, p, m.virt, Nobody) OBVIOUS
    <2> QED BY <2>1 DEF NewSlot
  <1>14. Moves(o, oo, t, tt, p, m.virt, AllocOwner(p, m), AllocOwner(p, m))
    <2>1. \A g \in Frame : o[g] # Nobody /\ o[g] # AllocOwner(p, m) => oo[g] = o[g]
      BY <1>9, <1>12
    <2>2. m.virt \in Slot => t[p][m.virt] = AllocOwner(p, m)
      BY <1>8, SlotAssumption DEF AllocClaim, Slot
    <2>3. InPlace(p, m.virt, Nobody) BY DEF InPlace
    <2>4. \A q \in alive \ excused : \A r \in Slot :
             t[q][r] = AllocOwner(p, m) => q = p /\ r = m.virt
      BY <1>7, OwnerInPlace
    <2>5. None \notin Frame BY FrameAssumption DEF Physical
    <2> QED BY <2>1, <2>2, <2>3, <2>4, <2>5, <1>5, <1>13 DEF Moves
  <1>15. \A w : w # Nobody /\ w # AllocOwner(p, m) => Kept(o, oo, t, tt, w)
    BY <1>2, <1>3, <1>7, <1>14, MoveKeeps
  <1>16. FreeUnowned(oo)' BY <1>7, <1>10, <1>12 DEF Claims, FreeUnowned
  <1>17. AllocOwned(oo, tt)'
    <2>1. \A q \in alive' : \A k \in alloc'[q] :
             AllocClaim(oo, tt, q, k)' \/ (k \in alloc[q] /\ Kept(o, oo, t, tt, AllocOwner(q, k)))
      <3> TAKE q \in alive'
      <3> TAKE k \in alloc'[q]
      <3>1. k \in alloc[q] /\ ~(q = p /\ k = m) BY <1>2, <1>3, <1>6 DEF SpaceTypeOK
      <3>2. Kept(o, oo, t, tt, AllocOwner(q, k)) BY <3>1, <1>15, OwnersDiffer
      <3> QED BY <3>1, <3>2
    <2> QED BY <2>1, <1>2, <1>3, <1>7, AllocsKept
  <1>18. StackOwned(oo, tt)' BY <1>2, <1>3, <1>7, <1>15, OwnersDiffer, StacksKept
  <1>19. RegionOwned(oo)' /\ UsersOwned(tt)' /\ ScratchOwned(oo)'
    BY <1>2, <1>7, <1>15, OwnersDiffer, RegionsKept
  <1>20. EmptyUnowned(tt)' /\ OwnedInPlace(tt)' /\ PagesOwned(oo, tt)'
    BY <1>2, <1>3, <1>7, <1>14, MoveClaims
  <1>21. SlotsListed(tt)'
    <2>1. \A q \in alive' : \A r \in Slot : \A id \in Id :
             tt[q][r] = RegionOwner(id) => t[q][r] = RegionOwner(id)
      BY <1>2, <1>3, <1>13, OwnersDiffer DEF SpaceTypeOK
    <2> QED BY <2>1, <1>2, <1>7, SlotsStayListed
  <1>22. Claims(oo, tt)' BY <1>16, <1>17, <1>18, <1>19, <1>20, <1>21 DEF Claims
  <1>23. Owned' BY <1>22 DEF Owned
  <1>24. FreedOnce' BY <1>10 DEF FreedOnce
  <1>25. ListedOnce' /\ UserRecords' BY <1>2, RegionsSame
  <1> QED BY <1>11, <1>23, <1>24, <1>25 DEF SpaceInv

LEMMA NewThreadStep ==
    ASSUME SpaceInv, NEW p \in Process, new_thread(p)
    PROVE  SpaceInv'
  <1>1. PICK s \in Slot : s = page_find_free(p, 2) + 1 /\ map[p][s] = None
    <2>1. page_find_free(p, 2) # 0 BY DEF new_thread
    <2>2. /\ page_find_free(p, 2) \in Nat
          /\ page_find_free(p, 2) + 2 - 1 \in Slot
          /\ map[p][page_find_free(p, 2) + 2 - 1] = None
      BY <2>1, FreeSlot
    <2>3. page_find_free(p, 2) + 2 - 1 = page_find_free(p, 2) + 1 BY <2>2
    <2> QED BY <2>2, <2>3
  <1>2. PICK f \in Frame : f \notin used /\
           \E g \in Ensured(f) :
               /\ used' = used \cup ({f, g} \cap Frame)
               /\ map' = page_direct_map(p, g, s)
               /\ stack' = [stack EXCEPT ![p] = s]
               /\ alloc' = [alloc EXCEPT ![p] = @ \cup {[virt |-> 0, phys |-> f, release |-> TRUE]}]
    BY <1>1 DEF new_thread
  <1> DEFINE m == [virt |-> 0, phys |-> f, release |-> TRUE]
  <1>3. PICK g \in Ensured(f) :
               /\ used' = used \cup ({f, g} \cap Frame)
               /\ map' = [map EXCEPT ![p][s] = g]
               /\ stack' = [stack EXCEPT ![p] = s]
               /\ alloc' = [alloc EXCEPT ![p] = @ \cup {m}]
    BY <1>2 DEF page_direct_map
  <1>4. p \in alive /\ stack[p] = 0 /\ UNCHANGED <<alive, region, lock, freedTwice, excused>>
    BY DEF new_thread, CanCheckout
  <1>5. m \in Alloc /\ m.virt = 0 /\ m.phys = f /\ m.release = TRUE /\ s # 0
    BY SlotAssumption DEF Alloc, Slot, Physical
  <1> HIDE DEF m
  <1>6. SpaceTypeOK BY DEF SpaceInv
  <1>7. g \in Physical \cup {None} /\ g # None /\ (g \in Frame => g \notin used /\ g # f)
    BY FrameAssumption DEF Ensured, Physical
  <1>8. /\ map' \in [Process -> [Slot -> Physical \cup {None}]]
        /\ map'[p][s] = g
        /\ \A q \in Process : \A r \in Slot : ~(q = p /\ r = s) => map'[q][r] = map[q][r]
    <2>1. map \in [Process -> [Slot -> Physical \cup {None}]] BY <1>6 DEF SpaceTypeOK
    <2>2. map' = [map EXCEPT ![p][s] = g] BY <1>3
    <2>3. g \in Physical \cup {None} BY <1>7
    <2> QED BY <2>1, <2>2, <2>3
  <1>9. /\ alloc' \in [Process -> SUBSET Alloc]
        /\ alloc'[p] = alloc[p] \cup {m}
        /\ \A q \in Process : q # p => alloc'[q] = alloc[q]
    BY <1>3, <1>5, <1>6 DEF SpaceTypeOK
  <1>10. /\ stack' \in [Process -> 0 .. Slots]
         /\ stack'[p] = s
         /\ \A q \in Process : q # p => stack'[q] = stack[q]
    <2>1. s \in 0 .. Slots BY SlotAssumption DEF Slot
    <2> QED BY <2>1, <1>3, <1>6 DEF SpaceTypeOK
  <1>11. SpaceTypeOK' BY <1>3, <1>4, <1>6, <1>8, <1>9, <1>10 DEF SpaceTypeOK
  <1>12. PICK o, t : Claims(o, t) BY DEF SpaceInv, Owned
  <1>13. PICK oo : /\ oo[f] = AllocOwner(p, m)
                   /\ g \in Frame => oo[g] = StackOwner(p, s)
                   /\ \A h \in Frame : h # f /\ h # g => oo[h] = o[h]
    <2>1. PICK oo : oo = NewFrame(NewFrame(o, g, StackOwner(p, s)), f, AllocOwner(p, m)) OBVIOUS
    <2> QED BY <2>1, <1>7 DEF NewFrame
  <1>14. PICK tt : /\ tt[p][s] = StackOwner(p, s)
                   /\ \A q \in Process : \A r \in Slot : ~(q = p /\ r = s) => tt[q][r] = t[q][r]
    <2>1. PICK tt : tt = NewSlot(t, p, s, StackOwner(p, s)) OBVIOUS
    <2> QED BY <2>1 DEF NewSlot
  <1>15. o[f] = Nobody /\ (g \in Frame => o[g] = Nobody) /\ t[p][s] = Nobody
    BY <1>1, <1>2, <1>4, <1>7, <1>12 DEF Claims, FreeUnowned, EmptyUnowned
  <1>16. Moves(o, oo, t, tt, p, s, Nobody, Nobody)
    <2>1. InPlace(p, s, tt[p][s]) BY <1>14 DEF InPlace
    <2> QED BY <1>7, <1>8, <1>13, <1>14, <1>15, <2>1, OwnersDiffer DEF Moves
  <1>17. \A w : w # Nobody => Kept(o, oo, t, tt, w) BY <1>4, <1>6, <1>12, <1>16, MoveKeeps
  <1>18. FreeUnowned(oo)' BY <1>3, <1>12, <1>13 DEF Claims, FreeUnowned
  <1>19. AllocOwned(oo, tt)'
    <2>1. AllocClaim(oo, tt, p, m)' BY <1>5, <1>13 DEF AllocClaim
    <2>2. \A q \in alive' : \A k \in alloc'[q] :
             AllocClaim(oo, tt, q, k)' \/ (k \in alloc[q] /\ Kept(o, oo, t, tt, AllocOwner(q, k)))
      <3> TAKE q \in alive'
      <3> TAKE k \in alloc'[q]
      <3>1. Kept(o, oo, t, tt, AllocOwner(q, k)) BY <1>17, OwnersDiffer
      <3>2. (q = p /\ k = m) \/ k \in alloc[q] BY <1>4, <1>6, <1>9 DEF SpaceTypeOK
      <3> QED BY <2>1, <3>1, <3>2
    <2> QED BY <2>2, <1>4, <1>6, <1>12, AllocsKept
  <1>20. StackOwned(oo, tt)'
    <2> SUFFICES ASSUME NEW q \in alive, stack'[q] # 0
                 PROVE  /\ map'[q][stack'[q]] # None
                        /\ tt[q][stack'[q]] = StackOwner(q, stack'[q])
                        /\ map'[q][stack'[q]] \in Frame => oo[map'[q][stack'[q]]] = StackOwner(q, stack'[q])
      BY <1>4 DEF StackOwned
    <2>1. CASE q = p BY <2>1, <1>7, <1>8, <1>10, <1>13, <1>14
    <2>2. CASE q # p
      <3>1. stack'[q] = stack[q] BY <2>2, <1>6, <1>10 DEF SpaceTypeOK
      <3>2. Kept(o, oo, t, tt, StackOwner(q, stack[q])) BY <1>17, OwnersDiffer
      <3>3. stack[q] # 0 /\ q \in alive' BY <3>1, <1>4
      <3>4. /\ map'[q][stack[q]] # None
            /\ tt[q][stack[q]] = StackOwner(q, stack[q])
            /\ map'[q][stack[q]] \in Frame => oo[map'[q][stack[q]]] = StackOwner(q, stack[q])
        BY <3>2, <3>3, <1>6, <1>12, KeptStack
      <3> QED BY <3>1, <3>4
    <2> QED BY <2>1, <2>2
  <1>21. RegionOwned(oo)' /\ UsersOwned(tt)' /\ ScratchOwned(oo)'
    BY <1>4, <1>12, <1>17, OwnersDiffer, RegionsKept
  <1>22. EmptyUnowned(tt)' /\ OwnedInPlace(tt)' /\ PagesOwned(oo, tt)'
    BY <1>4, <1>6, <1>12, <1>16, MoveClaims
  <1>23. SlotsListed(tt)'
    <2>1. \A q \in alive' : \A r \in Slot : \A id \in Id :
             tt[q][r] = RegionOwner(id) => t[q][r] = RegionOwner(id)
      BY <1>4, <1>6, <1>14, OwnersDiffer DEF SpaceTypeOK
    <2> QED BY <2>1, <1>4, <1>12, SlotsStayListed
  <1>24. Claims(oo, tt)' BY <1>18, <1>19, <1>20, <1>21, <1>22, <1>23 DEF Claims
  <1>25. Owned' BY <1>24 DEF Owned
  <1>26. FreedOnce' BY <1>4 DEF SpaceInv, FreedOnce
  <1>27. ListedOnce' /\ UserRecords' BY <1>4, RegionsSame
  <1> QED BY <1>11, <1>25, <1>26, <1>27 DEF SpaceInv

LEMMA DeleteThreadStep ==
    ASSUME SpaceInv, NEW p \in Process, delete_thread(p)
    PROVE  SpaceInv'
  <1>1. SpaceTypeOK BY DEF SpaceInv
  <1>2. PICK s \in Slot : s = stack[p] /\ s # 0
    BY <1>1, SlotAssumption DEF delete_thread, SpaceTypeOK, Slot
  <1>3. PICK g : g = map[p][s] OBVIOUS
  <1>4. /\ FreeFrames({g} \cap Frame)
        /\ map' = page_release(p, s)
        /\ stack' = [stack EXCEPT ![p] = 0]
        /\ p \in alive /\ UNCHANGED <<alive, alloc, region, lock, excused>>
    BY <1>2, <1>3 DEF delete_thread, CanCheckout
  <1>5. /\ map' \in [Process -> [Slot -> Physical \cup {None}]]
        /\ map'[p][s] = None
        /\ \A q \in Process : \A r \in Slot : ~(q = p /\ r = s) => map'[q][r] = map[q][r]
    <2>1. s \in 0 .. Slots BY SlotAssumption DEF Slot
    <2> QED BY <1>1, <1>4, <2>1, SlotReleased
  <1>6. /\ stack' \in [Process -> 0 .. Slots]
        /\ stack'[p] = 0
        /\ \A q \in Process : q # p => stack'[q] = stack[q]
    <2>1. 0 \in 0 .. Slots BY SlotAssumption
    <2> QED BY <2>1, <1>1, <1>4 DEF SpaceTypeOK
  <1>7. PICK o, t : Claims(o, t) BY DEF SpaceInv, Owned
  <1>8. t[p][s] = StackOwner(p, s) /\ (g \in Frame => o[g] = StackOwner(p, s) /\ g \in used)
    BY <1>2, <1>3, <1>4, <1>7, OwnersDiffer DEF Claims, StackOwned, FreeUnowned
  <1>9. used' = used \ {g} /\ ~freedTwice'
    <2>1. {g} \cap Frame \subseteq used BY <1>8
    <2>2. used' = used \ {g} BY <1>1, <1>4 DEF FreeFrames, SpaceTypeOK
    <2> QED BY <2>1, <2>2, <1>4 DEF FreeFrames, SpaceInv, FreedOnce
  <1>10. SpaceTypeOK'
    <2>1. freedTwice' \in BOOLEAN /\ used' \subseteq Frame BY <1>1, <1>4 DEF FreeFrames, SpaceTypeOK
    <2> QED BY <2>1, <1>1, <1>4, <1>5, <1>6 DEF SpaceTypeOK
  <1>11. PICK oo : /\ g \in Frame => oo[g] = Nobody
                   /\ \A h \in Frame : h # g => oo[h] = o[h]
    <2>1. PICK oo : oo = NewFrame(o, g, Nobody) OBVIOUS
    <2> QED BY <2>1 DEF NewFrame
  <1>12. PICK tt : /\ tt[p][s] = Nobody
                   /\ \A q \in Process : \A r \in Slot : ~(q = p /\ r = s) => tt[q][r] = t[q][r]
    <2>1. PICK tt : tt = NewSlot(t, p, s, Nobody) OBVIOUS
    <2> QED BY <2>1 DEF NewSlot
  <1>13. Moves(o, oo, t, tt, p, s, StackOwner(p, s), StackOwner(p, s))
    <2>1. InPlace(p, s, tt[p][s]) BY <1>12 DEF InPlace
    <2>2. \A q \in alive \ excused : \A r \in Slot :
             t[q][r] = StackOwner(p, s) => q = p /\ r = s
      BY <1>7, OwnerInPlace
    <2>3. None \notin Frame BY FrameAssumption DEF Physical
    <2>4. \A h \in Frame : o[h] # StackOwner(p, s) => oo[h] = o[h] BY <1>8, <1>11
    <2> QED BY <2>1, <2>2, <2>3, <2>4, <1>5, <1>8, <1>12 DEF Moves
  <1>14. \A w : w # Nobody /\ w # StackOwner(p, s) => Kept(o, oo, t, tt, w)
    BY <1>1, <1>4, <1>7, <1>13, MoveKeeps
  <1>15. FreeUnowned(oo)' BY <1>7, <1>9, <1>11 DEF Claims, FreeUnowned
  <1>16. AllocOwned(oo, tt)'
    <2>1. \A q \in alive' : \A k \in alloc'[q] :
             AllocClaim(oo, tt, q, k)' \/ (k \in alloc[q] /\ Kept(o, oo, t, tt, AllocOwner(q, k)))
      <3> TAKE q \in alive'
      <3> TAKE k \in alloc'[q]
      <3>1. Kept(o, oo, t, tt, AllocOwner(q, k)) BY <1>14, OwnersDiffer
      <3> QED BY <3>1, <1>4
    <2> QED BY <2>1, <1>1, <1>4, <1>7, AllocsKept
  <1>17. StackOwned(oo, tt)'
    <2> SUFFICES ASSUME NEW q \in alive, stack'[q] # 0
                 PROVE  /\ map'[q][stack'[q]] # None
                        /\ tt[q][stack'[q]] = StackOwner(q, stack'[q])
                        /\ map'[q][stack'[q]] \in Frame => oo[map'[q][stack'[q]]] = StackOwner(q, stack'[q])
      BY <1>4 DEF StackOwned
    <2>1. q # p /\ stack'[q] = stack[q] BY <1>1, <1>6 DEF SpaceTypeOK
    <2>2. Kept(o, oo, t, tt, StackOwner(q, stack[q])) BY <2>1, <1>14, OwnersDiffer
    <2>3. stack[q] # 0 /\ q \in alive' BY <2>1, <1>4
    <2>4. /\ map'[q][stack[q]] # None
          /\ tt[q][stack[q]] = StackOwner(q, stack[q])
          /\ map'[q][stack[q]] \in Frame => oo[map'[q][stack[q]]] = StackOwner(q, stack[q])
      BY <2>2, <2>3, <1>1, <1>7, KeptStack
    <2> QED BY <2>1, <2>4
  <1>18. RegionOwned(oo)' /\ UsersOwned(tt)' /\ ScratchOwned(oo)'
    BY <1>4, <1>7, <1>14, OwnersDiffer, RegionsKept
  <1>19. EmptyUnowned(tt)' /\ OwnedInPlace(tt)' /\ PagesOwned(oo, tt)'
    BY <1>1, <1>4, <1>7, <1>13, MoveClaims
  <1>20. SlotsListed(tt)'
    <2>1. \A q \in alive' : \A r \in Slot : \A id \in Id :
             tt[q][r] = RegionOwner(id) => t[q][r] = RegionOwner(id)
      BY <1>1, <1>4, <1>12, OwnersDiffer DEF SpaceTypeOK
    <2> QED BY <2>1, <1>4, <1>7, SlotsStayListed
  <1>21. Claims(oo, tt)' BY <1>15, <1>16, <1>17, <1>18, <1>19, <1>20 DEF Claims
  <1>22. Owned' BY <1>21 DEF Owned
  <1>23. FreedOnce' BY <1>9 DEF FreedOnce
  <1>24. ListedOnce' /\ UserRecords' BY <1>4, RegionsSame
  <1> QED BY <1>10, <1>22, <1>23, <1>24 DEF SpaceInv

LEMMA DeleteProcessStep ==
    ASSUME SpaceInv, NEW p \in Process, delete_process(p)
    PROVE  SpaceInv'
  <1> DEFINE fs == UNION {Released(m) : m \in alloc[p]}
  <1>1. SpaceTypeOK BY DEF SpaceInv
  <1>2. /\ FreeFrames(fs)
        /\ alloc' = [alloc EXCEPT ![p] = {}]
        /\ map' = [map EXCEPT ![p] = [s \in Slot |-> None]]
        /\ alive' = alive \ {p} /\ p \in alive
        /\ UNCHANGED <<stack, region, lock, excused>>
    BY DEF delete_process, CanCheckout
  <1>3. /\ map' \in [Process -> [Slot -> Physical \cup {None}]]
        /\ \A q \in Process : q # p => map'[q] = map[q]
    BY <1>1, <1>2 DEF SpaceTypeOK
  <1>4. /\ alloc' \in [Process -> SUBSET Alloc]
        /\ \A q \in Process : q # p => alloc'[q] = alloc[q]
    BY <1>1, <1>2 DEF SpaceTypeOK
  <1>5. PICK o, t : Claims(o, t) BY DEF SpaceInv, Owned
  <1>6. \A g : g \in fs <=> \E m \in alloc[p] : m.release /\ g = m.phys BY DEF Released
  <1>7. \A g \in fs : g \in Frame /\ g \in used /\ \E m : o[g] = AllocOwner(p, m)
    <2> TAKE g \in fs
    <2>1. PICK m \in alloc[p] : m.release /\ g = m.phys BY <1>6
    <2>2. g \in Frame /\ o[g] = AllocOwner(p, m)
      BY <2>1, <1>2, <1>5 DEF Claims, AllocOwned, AllocClaim
    <2> QED BY <2>2, <1>5, OwnersDiffer DEF Claims, FreeUnowned
  <1> HIDE DEF fs
  <1>8. used' = used \ fs /\ ~freedTwice'
    BY <1>2, <1>7 DEF FreeFrames, SpaceInv, FreedOnce
  <1>9. SpaceTypeOK'
    <2>1. freedTwice' \in BOOLEAN /\ used' \subseteq Frame BY <1>1, <1>2 DEF FreeFrames, SpaceTypeOK
    <2> QED BY <2>1, <1>1, <1>2, <1>3, <1>4 DEF SpaceTypeOK
  <1>10. PICK oo : \A g \in Frame : oo[g] = IF g \in fs THEN Nobody ELSE o[g]
    <2>1. PICK S : S = fs OBVIOUS
    <2>2. PICK oo : oo = [g \in Frame |-> IF g \in S THEN Nobody ELSE o[g]] OBVIOUS
    <2> QED BY <2>1, <2>2
  <1>11. alive' \subseteq alive /\ alive \subseteq Process /\ p \notin alive' BY <1>1, <1>2 DEF SpaceTypeOK
  <1>12. \A w : (\A m : w # AllocOwner(p, m)) => Kept(o, oo, t, t, w)
    <2> SUFFICES ASSUME NEW w, \A m : w # AllocOwner(p, m) PROVE Kept(o, oo, t, t, w) OBVIOUS
    <2>1. \A g \in Frame : o[g] = w => oo[g] = w BY <1>7, <1>10
    <2>2. \A q \in alive' : \A r \in Slot : map'[q][r] = map[q][r] BY <1>3, <1>11
    <2> QED BY <2>1, <2>2 DEF Kept
  <1>13. FreeUnowned(oo)' BY <1>5, <1>8, <1>10 DEF Claims, FreeUnowned
  <1>14. AllocOwned(oo, t)'
    <2>1. \A q \in alive' : \A k \in alloc'[q] :
             AllocClaim(oo, t, q, k)' \/ (k \in alloc[q] /\ Kept(o, oo, t, t, AllocOwner(q, k)))
      <3> TAKE q \in alive'
      <3> TAKE k \in alloc'[q]
      <3>1. q # p /\ k \in alloc[q] BY <1>4, <1>11
      <3>2. Kept(o, oo, t, t, AllocOwner(q, k)) BY <3>1, <1>12, OwnersDiffer
      <3> QED BY <3>1, <3>2
    <2> QED BY <2>1, <1>1, <1>5, <1>11, AllocsKept
  <1>15. StackOwned(oo, t)'
    <2>1. \A q, s : Kept(o, oo, t, t, StackOwner(q, s)) BY <1>12, OwnersDiffer
    <2> QED BY <2>1, <1>1, <1>2, <1>5, <1>11, StacksKept
  <1>16. RegionOwned(oo)' /\ UsersOwned(t)' /\ ScratchOwned(oo)'
    <2>1. \A id \in Id : Kept(o, oo, t, t, RegionOwner(id)) BY <1>12, OwnersDiffer
    <2>2. \A id \in Id : \A q : Kept(o, oo, t, t, ScratchOwner(id, q)) BY <1>12, OwnersDiffer
    <2> QED BY <2>1, <2>2, <1>2, <1>5, <1>11, RegionsKept
  <1>17. EmptyUnowned(t)' BY <1>3, <1>5, <1>11 DEF Claims, EmptyUnowned
  <1>18. OwnedInPlace(t)' BY <1>5, <1>11 DEF Claims, OwnedInPlace, InPlace
  <1>19. PagesOwned(oo, t)'
    <2> SUFFICES ASSUME NEW q \in alive' \ excused, NEW r \in Slot, map'[q][r] \in Frame
                 PROVE  t[q][r] # Nobody /\ oo[map'[q][r]] = t[q][r]
      BY <1>2 DEF PagesOwned
    <2>1. map'[q][r] = map[q][r] /\ q \in alive /\ q # p BY <1>3, <1>11
    <2>2. t[q][r] # Nobody /\ o[map[q][r]] = t[q][r] BY <2>1, <1>5 DEF Claims, PagesOwned
    <2>3. map[q][r] \notin fs BY <2>1, <2>2, <1>5, <1>7, OwnerInPlace
    <2> QED BY <2>1, <2>2, <2>3, <1>10
  <1>20. SlotsListed(t)' BY <1>2, <1>5, <1>11, SlotsStayListed
  <1>21. Claims(oo, t)' BY <1>13, <1>14, <1>15, <1>16, <1>17, <1>18, <1>19, <1>20 DEF Claims
  <1>22. Owned' BY <1>21 DEF Owned
  <1>23. FreedOnce' BY <1>8 DEF FreedOnce
  <1>24. ListedOnce' /\ UserRecords' BY <1>2, RegionsSame
  <1> QED BY <1>9, <1>22, <1>23, <1>24 DEF SpaceInv

---------------------------------------------------------------------------
(* shmem.c                                                                 *)

(* A step on the region id that concerns the process p: the other users    *)
(* and the other regions stay, and Y is what is left of p in the list.     *)
ListStep(id, p, Y) ==
    /\ region' \in [Id -> Region \cup {NoRegion}]
    /\ \A j \in Id : j # id => region'[j] = region[j] /\ Infos(j)' = Infos(j)
    /\ region[id] # NoRegion /\ region'[id] # NoRegion
    /\ region'[id].phys = region[id].phys
    /\ region'[id].internal = region[id].internal
    /\ region'[id].state = region[id].state
    /\ Uniq(region'[id].list)
    /\ Infos(id)' = {x \in Infos(id) : x.pid # p} \cup Y

(* The claims of that user, and the slot s of p the step changes, if any   *)
NewUser(oo, tt, id, p, s, Y) ==
    /\ \A y \in Y : y.pid = p /\ CountsMatch(y)' /\ (y.tmp => region[id].state = "deleting")
    /\ \A y \in Y : p \in alive /\ y.virt # 0 =>
          map'[p][y.virt] = region[id].phys /\ tt[p][y.virt] = RegionOwner(id)
    /\ \A y \in Y : y.tmp2 # None => y.tmp2 \in Frame /\ oo[y.tmp2] = ScratchOwner(id, p)
    /\ \A j \in Id : s \in Slot /\ tt[p][s] = RegionOwner(j) => j = id
    /\ p \in alive /\ p \notin excused' =>
          \A r \in Slot : tt[p][r] = RegionOwner(id) => \E y \in Y : y.virt = r

LEMMA ShareStep ==
    ASSUME SpaceInv, NEW o, NEW t, NEW oo, NEW tt, Claims(o, t),
           NEW id \in Id, NEW p \in Process, NEW s, NEW Y,
           Moves(o, oo, t, tt, p, s, Nobody, RegionOwner(id)),
           ListStep(id, p, Y), NewUser(oo, tt, id, p, s, Y),
           UNCHANGED <<alive, alloc, stack>>, excused \subseteq excused',
           FreeUnowned(oo)'
    PROVE  ListedOnce' /\ UserRecords' /\ Owned'
  <1>0. SpaceTypeOK /\ alive \subseteq Process BY DEF SpaceInv, SpaceTypeOK
  <1>1. \A w : w # Nobody /\ w # RegionOwner(id) => Kept(o, oo, t, tt, w)
    BY <1>0, MoveKeeps
  <1>2. ListedOnce' BY DEF SpaceInv, ListedOnce, ListStep
  <1>3. UserRecords'
    <2> SUFFICES ASSUME NEW j \in Id, NEW x \in Infos(j)'
                 PROVE  CountsMatch(x)' /\ (x.tmp => region'[j].state = "deleting")
      BY DEF UserRecords
    <2>1. CASE x \in Infos(j)
      <3>1. CountsMatch(x) /\ (x.tmp => region[j].state = "deleting")
        BY <2>1 DEF SpaceInv, UserRecords
      <3>2. region'[j].state = region[j].state BY DEF ListStep
      <3> QED BY <3>1, <3>2 DEF CountsMatch
    <2>2. CASE j = id /\ x \in Y BY <2>2 DEF NewUser, ListStep
    <2> QED BY <2>1, <2>2 DEF ListStep
  <1>4. AllocOwned(oo, tt)'
    <2>1. \A q \in alive' : \A k \in alloc'[q] :
             AllocClaim(oo, tt, q, k)' \/ (k \in alloc[q] /\ Kept(o, oo, t, tt, AllocOwner(q, k)))
      <3> TAKE q \in alive'
      <3> TAKE k \in alloc'[q]
      <3>1. Kept(o, oo, t, tt, AllocOwner(q, k)) BY <1>1, OwnersDiffer
      <3> QED BY <3>1
    <2> QED BY <2>1, <1>0, AllocsKept
  <1>5. StackOwned(oo, tt)'
    <2>1. \A q, r : Kept(o, oo, t, tt, StackOwner(q, r)) BY <1>1, OwnersDiffer
    <2> QED BY <2>1, <1>0, StacksKept
  <1>6. RegionOwned(oo)'
    <2> SUFFICES ASSUME NEW j \in Id, region'[j] # NoRegion
                 PROVE  /\ region'[j].internal <=> region'[j].phys \in Frame
                        /\ region'[j].phys \in Frame => oo[region'[j].phys] = RegionOwner(j)
      BY DEF RegionOwned
    <2>1. /\ region[j] # NoRegion
          /\ region'[j].internal = region[j].internal /\ region'[j].phys = region[j].phys
      BY DEF ListStep
    <2>2. /\ region[j].internal <=> region[j].phys \in Frame
          /\ region[j].phys \in Frame => o[region[j].phys] = RegionOwner(j)
      BY <2>1 DEF Claims, RegionOwned
    <2>3. region[j].phys \in Frame => oo[region[j].phys] = RegionOwner(j)
      BY <2>2, OwnersDiffer DEF Moves
    <2> QED BY <2>1, <2>2, <2>3
  <1>7. UsersOwned(tt)'
    <2> SUFFICES ASSUME NEW j \in Id, NEW x \in Infos(j)', x.pid \in alive, x.virt # 0
                 PROVE  map'[x.pid][x.virt] = region'[j].phys /\ tt[x.pid][x.virt] = RegionOwner(j)
      BY DEF UsersOwned
    <2>0. region'[j].phys = region[j].phys BY DEF ListStep
    <2>1. CASE j # id
      <3>1. x \in Infos(j) BY <2>1 DEF ListStep
      <3>2. Kept(o, oo, t, tt, RegionOwner(j)) BY <2>1, <1>1, OwnersDiffer
      <3>3. map'[x.pid][x.virt] = region[j].phys /\ tt[x.pid][x.virt] = RegionOwner(j)
        BY <3>1, <3>2, <1>0, KeptUser
      <3> QED BY <3>3, <2>0
    <2>2. CASE j = id /\ x \in Infos(id) /\ x.pid # p
      <3>1. x \in Info BY <2>2, <1>0, RegionTypes
      <3>2. x.virt \in Slot BY <3>1, SlotAssumption DEF Info, Slot
      <3>3. map[x.pid][x.virt] = region[id].phys /\ t[x.pid][x.virt] = RegionOwner(id)
        BY <2>2 DEF Claims, UsersOwned
      <3>4. map'[x.pid][x.virt] = map[x.pid][x.virt] /\ tt[x.pid][x.virt] = t[x.pid][x.virt]
        BY <2>2, <3>2, <1>0 DEF Moves
      <3> QED BY <3>3, <3>4, <2>0, <2>2
    <2>3. CASE j = id /\ x \in Y BY <2>3, <2>0 DEF NewUser
    <2> QED BY <2>1, <2>2, <2>3 DEF ListStep
  <1>8. ScratchOwned(oo)'
    <2> SUFFICES ASSUME NEW j \in Id, NEW x \in Infos(j)' PROVE ScratchClaim(oo, j, x)
      BY DEF ScratchOwned, ScratchClaim
    <2>1. CASE x \in Infos(j)
      <3>1. Kept(o, oo, t, tt, ScratchOwner(j, x.pid)) BY <1>1, OwnersDiffer
      <3> QED BY <2>1, <3>1, KeptScratch
    <2>2. CASE j = id /\ x \in Y BY <2>2 DEF NewUser, ScratchClaim
    <2> QED BY <2>1, <2>2 DEF ListStep
  <1>9. EmptyUnowned(tt)' /\ OwnedInPlace(tt)' /\ PagesOwned(oo, tt)'
    BY <1>0, MoveClaims
  <1>10. SlotsListed(tt)'
    <2> SUFFICES ASSUME NEW q \in alive, q \notin excused', NEW r \in Slot, NEW j \in Id,
                        tt[q][r] = RegionOwner(j)
                 PROVE  \E x \in Infos(j)' : x.pid = q /\ x.virt = r
      BY DEF SlotsListed
    <2>1. CASE q = p /\ j = id
      <3>1. PICK y \in Y : y.virt = r BY <2>1 DEF NewUser
      <3> QED BY <2>1, <3>1 DEF NewUser, ListStep
    <2>2. CASE ~(q = p /\ j = id)
      <3>1. ~(q = p /\ r = s) BY <2>2 DEF NewUser
      <3>2. t[q][r] = RegionOwner(j) BY <3>1, <1>0 DEF Moves
      <3>3. PICK x \in Infos(j) : x.pid = q /\ x.virt = r
        BY <3>2 DEF Claims, SlotsListed
      <3> QED BY <3>3, <2>2 DEF ListStep
    <2> QED BY <2>1, <2>2
  <1>11. Claims(oo, tt)' BY <1>4, <1>5, <1>6, <1>7, <1>8, <1>9, <1>10 DEF Claims
  <1> QED BY <1>2, <1>3, <1>11 DEF Owned

(* Steps of the list that change no mapping and no owner                   *)
LEMMA QuietMoves ==
    ASSUME NEW o, NEW t, Claims(o, t), NEW p, NEW wt, UNCHANGED map
    PROVE  Moves(o, o, t, t, p, 0, Nobody, wt)
  <1>1. 0 \notin Slot BY SlotAssumption DEF Slot
  <1> QED BY <1>1 DEF Moves

(* A region is added over a new frame, or over memory of a device.         *)
LEMMA AddedStep ==
    ASSUME SpaceInv, NEW p \in Process, NEW id \in Id, NEW f \in Physical, NEW promiscuous \in BOOLEAN,
           NEW internal \in BOOLEAN, internal <=> f \in Frame, f \notin used, region[id] = NoRegion,
           Added(id, f, p, promiscuous, internal), used' = used \cup ({f} \cap Frame),
           UNCHANGED <<alive, spaceVars, lock, freedTwice, excused>>
    PROVE  SpaceInv'
  <1> DEFINE g == [state |-> "listed", pid |-> p, phys |-> f, internal |-> internal,
                   promiscuous |-> promiscuous, list |-> <<>>]
  <1>0. SpaceTypeOK BY DEF SpaceInv
  <1>1. region' = [region EXCEPT ![id] = g] BY DEF Added
  <1>2. /\ g \in Region /\ g.phys = f /\ g.internal = internal /\ g.list = <<>>
        /\ g.state = "listed"
    BY DEF Region
  <1>3. g # NoRegion BY <1>2 DEF NoRegion
  <1> HIDE DEF g
  <1>4. /\ region' \in [Id -> Region \cup {NoRegion}]
        /\ region'[id] = g
        /\ \A j \in Id : j # id => region'[j] = region[j]
    BY <1>0, <1>1, <1>2 DEF SpaceTypeOK
  <1>5. UNCHANGED <<map, alloc, stack, alive, lock, freedTwice, excused>> BY DEF spaceVars
  <1>6. SpaceTypeOK' BY <1>0, <1>4, <1>5 DEF SpaceTypeOK
  <1>7. Infos(id)' = {} /\ \A j \in Id : j # id => Infos(j)' = Infos(j)
    <2>1. ToSet(<<>>) = {} BY DEF ToSet
    <2> QED BY <1>2, <1>3, <1>4, <2>1 DEF Infos
  <1>8. Infos(id) = {} BY <1>0, RegionTypes
  <1>9. ListedOnce' /\ UserRecords'
    <2>1. ListedOnce'
      <3>1. Len(<<>>) = 0 /\ 1 .. 0 = {} OBVIOUS
      <3>2. Uniq(<<>>) BY <3>1 DEF Uniq
      <3> QED BY <3>2, <1>2, <1>4 DEF ListedOnce, SpaceInv
    <2>2. UserRecords'
      BY <1>4, <1>5, <1>7 DEF UserRecords, CountsMatch, SpaceInv
    <2> QED BY <2>1, <2>2
  <1>10. PICK o, t : Claims(o, t) BY DEF SpaceInv, Owned
  <1>11. PICK oo : /\ f \in Frame => oo[f] = RegionOwner(id)
                   /\ \A h \in Frame : h # f => oo[h] = o[h]
    <2>1. PICK oo : oo = NewFrame(o, f, RegionOwner(id)) OBVIOUS
    <2> QED BY <2>1 DEF NewFrame
  <1>12. f \in Frame => o[f] = Nobody BY <1>10 DEF Claims, FreeUnowned
  <1>13. Moves(o, oo, t, t, p, 0, Nobody, Nobody)
    <2>1. 0 \notin Slot BY SlotAssumption DEF Slot
    <2> QED BY <2>1, <1>5, <1>11, <1>12 DEF Moves
  <1>14. \A w : w # Nobody => Kept(o, oo, t, t, w) BY <1>0, <1>5, <1>10, <1>13, MoveKeeps
  <1>15. FreeUnowned(oo)' BY <1>10, <1>11 DEF Claims, FreeUnowned
  <1>16. AllocOwned(oo, t)'
    <2>1. \A q \in alive' : \A k \in alloc'[q] :
             AllocClaim(oo, t, q, k)' \/ (k \in alloc[q] /\ Kept(o, oo, t, t, AllocOwner(q, k)))
      <3> TAKE q \in alive'
      <3> TAKE k \in alloc'[q]
      <3>1. Kept(o, oo, t, t, AllocOwner(q, k)) BY <1>14, OwnersDiffer
      <3> QED BY <3>1, <1>5
    <2> QED BY <2>1, <1>0, <1>5, <1>10, AllocsKept
  <1>17. StackOwned(oo, t)' BY <1>0, <1>5, <1>10, <1>14, OwnersDiffer, StacksKept
  <1>18. RegionOwned(oo)'
    <2> SUFFICES ASSUME NEW j \in Id, region'[j] # NoRegion
                 PROVE  /\ region'[j].internal <=> region'[j].phys \in Frame
                        /\ region'[j].phys \in Frame => oo[region'[j].phys] = RegionOwner(j)
      BY DEF RegionOwned
    <2>1. CASE j = id BY <2>1, <1>2, <1>4, <1>11
    <2>2. CASE j # id
      <3>1. Kept(o, oo, t, t, RegionOwner(j)) BY <1>14, OwnersDiffer
      <3>2. region'[j] = region[j] BY <2>2, <1>4
      <3> QED BY <3>1, <3>2, <1>10, KeptRegion
    <2> QED BY <2>1, <2>2
  <1>19. UsersOwned(t)' BY <1>4, <1>5, <1>7, <1>10 DEF Claims, UsersOwned
  <1>20. ScratchOwned(oo)'
    <2> SUFFICES ASSUME NEW j \in Id, NEW x \in Infos(j)' PROVE ScratchClaim(oo, j, x)
      BY DEF ScratchOwned, ScratchClaim
    <2>1. x \in Infos(j) BY <1>7
    <2>2. Kept(o, oo, t, t, ScratchOwner(j, x.pid)) BY <1>14, OwnersDiffer
    <2> QED BY <2>1, <2>2, <1>10, KeptScratch
  <1>21. EmptyUnowned(t)' /\ OwnedInPlace(t)' /\ PagesOwned(oo, t)'
    BY <1>0, <1>5, <1>10, <1>13, MoveClaims
  <1>22. SlotsListed(t)' BY <1>5, <1>7, <1>8, <1>10 DEF Claims, SlotsListed
  <1>23. Claims(oo, t)'
    BY <1>15, <1>16, <1>17, <1>18, <1>19, <1>20, <1>21, <1>22 DEF Claims
  <1>24. Owned' BY <1>23 DEF Owned
  <1>25. FreedOnce' BY <1>5 DEF SpaceInv, FreedOnce
  <1> QED BY <1>6, <1>9, <1>24, <1>25 DEF SpaceInv

LEMMA CreateStep ==
    ASSUME SpaceInv, NEW p \in Process, NEW id \in Id, NEW promiscuous \in Promiscuous,
           shmem_create(p, id, promiscuous) \/ shmem_create_direct(p, id, promiscuous)
    PROVE  SpaceInv'
  <1>0. promiscuous \in BOOLEAN /\ SpaceTypeOK BY FlagAssumption DEF SpaceInv
  <1>1. CASE shmem_create(p, id, promiscuous)
    <2>1. PICK f \in Frame : f \notin used /\ used' = used \cup {f} /\ Added(id, f, p, promiscuous, TRUE)
      BY <1>1 DEF shmem_create
    <2>2. f \in Physical /\ used' = used \cup ({f} \cap Frame) BY <2>1 DEF Physical
    <2>3. region[id] = NoRegion /\ UNCHANGED <<alive, spaceVars, lock, freedTwice, excused>>
      BY <1>1 DEF shmem_create
    <2>4. PICK internal \in BOOLEAN : internal = TRUE OBVIOUS
    <2>5. Added(id, f, p, promiscuous, internal) /\ (internal <=> f \in Frame) BY <2>1, <2>4
    <2> QED BY <2>1, <2>2, <2>3, <2>5, <1>0, AddedStep
  <1>2. CASE shmem_create_direct(p, id, promiscuous)
    <2>1. Added(id, Device, p, promiscuous, FALSE) /\ used' = used /\ region[id] = NoRegion
          /\ UNCHANGED <<alive, spaceVars, lock, freedTwice, excused>>
      BY <1>2 DEF shmem_create_direct
    <2>2. Device \in Physical /\ Device \notin Frame BY FrameAssumption DEF Physical
    <2>3. Device \notin used BY <2>2, <1>0 DEF SpaceTypeOK
    <2>4. used' = used \cup ({Device} \cap Frame) BY <2>1, <2>2
    <2>5. PICK internal \in BOOLEAN : internal = FALSE OBVIOUS
    <2>6. Added(id, Device, p, promiscuous, internal) /\ (internal <=> Device \in Frame)
      BY <2>1, <2>2, <2>5
    <2> QED BY <2>1, <2>2, <2>3, <2>4, <2>6, <1>0, AddedStep
  <1> QED BY <1>1, <1>2

(* The region leaves the table: its users and its frame stay.              *)
LEMMA DeleteStep ==
    ASSUME SpaceInv, NEW p \in Process, NEW id \in Id, shmem_delete(p, id)
    PROVE  SpaceInv'
  <1> DEFINE g == [region[id] EXCEPT !.state = "deleting"]
  <1>0. SpaceTypeOK BY DEF SpaceInv
  <1>1. region[id] # NoRegion BY <1>0, RegionExists DEF shmem_delete, Listed
  <1>2. region[id] \in Region BY <1>0, <1>1, RegionTypes
  <1>3. region' = [region EXCEPT ![id] = g] BY DEF shmem_delete
  <1>4. /\ g \in Region /\ g.phys = region[id].phys /\ g.internal = region[id].internal
        /\ g.list = region[id].list /\ g.state = "deleting"
    BY <1>2 DEF Region
  <1>5. g # NoRegion BY <1>4 DEF NoRegion
  <1> HIDE DEF g
  <1>6. /\ region' \in [Id -> Region \cup {NoRegion}]
        /\ region'[id] = g
        /\ \A j \in Id : j # id => region'[j] = region[j]
    BY <1>0, <1>3, <1>4 DEF SpaceTypeOK
  <1>7. UNCHANGED <<used, map, alloc, stack, alive, lock, freedTwice, excused>>
    BY DEF shmem_delete, spaceVars
  <1>8. SpaceTypeOK' BY <1>0, <1>6, <1>7 DEF SpaceTypeOK
  <1>9. \A j \in Id : /\ Infos(j)' = Infos(j)
                      /\ region'[j] # NoRegion => region[j] # NoRegion
                      /\ region'[j].phys = region[j].phys
                      /\ region'[j].internal = region[j].internal
                      /\ region'[j].list = region[j].list
                      /\ region[j].state = "deleting" => region'[j].state = "deleting"
    <2> TAKE j \in Id
    <2>1. CASE j # id BY <2>1, <1>6 DEF Infos
    <2>2. CASE j = id BY <2>2, <1>1, <1>4, <1>5, <1>6 DEF Infos
    <2> QED BY <2>1, <2>2
  <1>10. ListedOnce' BY <1>9 DEF ListedOnce, SpaceInv
  <1>11. UserRecords' BY <1>7, <1>9 DEF UserRecords, CountsMatch, SpaceInv
  <1>12. PICK o, t : Claims(o, t) BY DEF SpaceInv, Owned
  <1>13. FreeUnowned(o)' BY <1>7, <1>12 DEF Claims, FreeUnowned
  <1>14. AllocOwned(o, t)' BY <1>7, <1>12 DEF Claims, AllocOwned, AllocClaim
  <1>15. StackOwned(o, t)' BY <1>7, <1>12 DEF Claims, StackOwned
  <1>16. RegionOwned(o)' BY <1>9, <1>12 DEF Claims, RegionOwned
  <1>17. UsersOwned(t)' BY <1>7, <1>9, <1>12 DEF Claims, UsersOwned
  <1>18. ScratchOwned(o)' BY <1>9, <1>12 DEF Claims, ScratchOwned
  <1>19. EmptyUnowned(t)' BY <1>7, <1>12 DEF Claims, EmptyUnowned
  <1>20. OwnedInPlace(t)' BY <1>7, <1>12 DEF Claims, OwnedInPlace, InPlace
  <1>21. PagesOwned(o, t)' BY <1>7, <1>12 DEF Claims, PagesOwned
  <1>22. SlotsListed(t)' BY <1>7, <1>9, <1>12 DEF Claims, SlotsListed
  <1>23. Claims(o, t)'
    BY <1>13, <1>14, <1>15, <1>16, <1>17, <1>18, <1>19, <1>20, <1>21, <1>22 DEF Claims
  <1>24. Owned' BY <1>23 DEF Owned
  <1>25. FreedOnce' BY <1>7 DEF SpaceInv, FreedOnce
  <1> QED BY <1>8, <1>10, <1>11, <1>24, <1>25 DEF SpaceInv

(* A user has one entry in the list, and in a region no slot but that one. *)
LEMMA OneUser ==
    ASSUME SpaceInv, NEW id \in Id, NEW x \in Infos(id), NEW y \in Infos(id), x.pid = y.pid
    PROVE  x = y
  <1>1. region[id] # NoRegion BY RegionTypes DEF SpaceInv
  <1>2. region[id].list \in Seq(Info) /\ Infos(id) = ToSet(region[id].list)
    BY <1>1, RegionTypes DEF SpaceInv
  <1>3. Uniq(region[id].list) BY <1>1 DEF SpaceInv, ListedOnce
  <1>4. PICK c \in 1 .. Len(region[id].list) : region[id].list[c] = x BY <1>2, Members
  <1>5. PICK d \in 1 .. Len(region[id].list) : region[id].list[d] = y BY <1>2, Members
  <1> QED BY <1>3, <1>4, <1>5 DEF Uniq

LEMMA OneSlot ==
    ASSUME SpaceInv, NEW o, NEW t, Claims(o, t), NEW id \in Id, NEW x \in Infos(id), x.pid \in alive \ excused
    PROVE  \A r \in Slot : t[x.pid][r] = RegionOwner(id) => r = x.virt
  <1> SUFFICES ASSUME NEW r \in Slot, t[x.pid][r] = RegionOwner(id) PROVE r = x.virt
    OBVIOUS
  <1>1. PICK y \in Infos(id) : y.pid = x.pid /\ y.virt = r BY DEF Claims, SlotsListed
  <1> QED BY <1>1, OneUser

(* Steps that change the list of one region                                *)
LEMMA ListChanged ==
    ASSUME SpaceInv, NEW id \in Id, region[id] # NoRegion, NEW p, NEW Y, NEW e \in Seq(Info), Uniq(e),
           region' = [region EXCEPT ![id].list = e],
           ToSet(e) = {x \in Infos(id) : x.pid # p} \cup Y
    PROVE  ListStep(id, p, Y)
  <1>1. SpaceTypeOK BY DEF SpaceInv
  <1>2. /\ region' \in [Id -> Region \cup {NoRegion}]
        /\ region'[id] # NoRegion
        /\ region'[id].list = e
        /\ region'[id].phys = region[id].phys
        /\ region'[id].internal = region[id].internal
        /\ region'[id].state = region[id].state
        /\ Infos(id)' = ToSet(e)
        /\ \A j \in Id : j # id => region'[j] = region[j] /\ Infos(j)' = Infos(j)
    BY <1>1, ListSet
  <1> QED BY <1>2 DEF ListStep

LEMMA GrantStep ==
    ASSUME SpaceInv, NEW owner \in Process, NEW id \in Id, NEW p \in Process, shmem_grant(owner, id, p)
    PROVE  SpaceInv'
  <1> DEFINE l == region[id].list
             x == NewInfo(p)
             Y == {x}
  <1>0. SpaceTypeOK BY DEF SpaceInv
  <1>1. region[id] # NoRegion BY <1>0, RegionExists DEF shmem_grant, Listed
  <1>2. l \in Seq(Info) /\ Infos(id) = ToSet(l) BY <1>0, <1>1, RegionTypes
  <1>3. Uniq(l) BY <1>1 DEF SpaceInv, ListedOnce
  <1>4. \A y \in Infos(id) : y.pid # p BY <1>0, <1>1, PositionFacts DEF shmem_grant
  <1>5. /\ x \in Info /\ x.pid = p /\ x.virt = 0 /\ x.usage = 0 /\ x.tmp = FALSE /\ x.tmp2 = None
    BY SlotAssumption DEF NewInfo, Info
  <1>6. region' = [region EXCEPT ![id].list = <<x>> \o l] BY DEF shmem_grant
  <1>7. UNCHANGED <<used, alive, map, alloc, stack, lock, freedTwice, excused>>
    BY DEF shmem_grant, spaceVars
  <1> HIDE DEF l, x
  <1>8. <<x>> \o l \in Seq(Info) /\ Uniq(<<x>> \o l) /\ ToSet(<<x>> \o l) = ToSet(l) \cup {x}
    BY <1>2, <1>3, <1>4, <1>5, Prepended
  <1>9. ListStep(id, p, Y)
    <2>1. ToSet(<<x>> \o l) = {y \in Infos(id) : y.pid # p} \cup Y BY <1>2, <1>4, <1>8
    <2> HIDE DEF Y
    <2> QED BY <1>1, <1>6, <1>8, <2>1, ListChanged
  <1>10. PICK o, t : Claims(o, t) BY DEF SpaceInv, Owned
  <1>11. Moves(o, o, t, t, p, 0, Nobody, RegionOwner(id)) BY <1>7, <1>10, QuietMoves
  <1>12. NewUser(o, t, id, p, 0, Y)
    <2>1. CountsMatch(x)' BY <1>5 DEF CountsMatch
    <2>2. 0 \notin Slot BY SlotAssumption DEF Slot
    <2>3. p \in alive /\ p \notin excused' => \A r \in Slot : t[p][r] # RegionOwner(id)
      BY <1>4, <1>7, <1>10 DEF Claims, SlotsListed
    <2> QED BY <1>5, <2>1, <2>2, <2>3 DEF NewUser
  <1>13. FreeUnowned(o)' BY <1>7, <1>10 DEF Claims, FreeUnowned
  <1>14. ListedOnce' /\ UserRecords' /\ Owned'
    <2> HIDE DEF Y
    <2> QED BY <1>7, <1>9, <1>10, <1>11, <1>12, <1>13, ShareStep
  <1>15. SpaceTypeOK' BY <1>0, <1>7, <1>9 DEF SpaceTypeOK, ListStep
  <1>16. FreedOnce' BY <1>7 DEF SpaceInv, FreedOnce
  <1> QED BY <1>14, <1>15, <1>16 DEF SpaceInv

(* What is left of a user that is removed from the list: a scratch page    *)
(* where it had the region.                                                *)
LEMMA RevokeStep ==
    ASSUME SpaceInv, NEW owner \in Process, NEW id \in Id, NEW p \in Process, shmem_revoke(owner, id, p)
    PROVE  SpaceInv'
  <1> DEFINE l == region[id].list
             n == Position(id, p)
             x == l[n]
  <1>0. SpaceTypeOK BY DEF SpaceInv
  <1>1. region[id] # NoRegion BY <1>0, RegionExists DEF shmem_revoke, Listed
  <1>2. l \in Seq(Info) /\ Infos(id) = ToSet(l) BY <1>0, <1>1, RegionTypes
  <1>3. Uniq(l) BY <1>1 DEF SpaceInv, ListedOnce
  <1>4. n \in 1 .. Len(l) /\ x.pid = p /\ x \in Infos(id)
    BY <1>0, <1>1, PositionFacts DEF shmem_revoke
  <1>5. CountsMatch(x) BY <1>4 DEF SpaceInv, UserRecords
  <1>6. x \in Info BY <1>0, <1>4, RegionTypes
  <1>7. region' = [region EXCEPT ![id].list = RemoveAt(l, n)] BY DEF shmem_revoke
  <1>8. UNCHANGED <<alive, alloc, stack, lock, freedTwice, excused>> /\ p \in alive
    BY DEF shmem_revoke, CanCheckout
  <1>9. IF x.usage > 0
        THEN \E f \in Frame \ used : used' = used \cup {f} /\ map' = [map EXCEPT ![p][x.virt] = f]
        ELSE UNCHANGED <<used, map>>
    BY DEF shmem_revoke, ScratchMapped, page_direct_map
  <1> HIDE DEF l, n, x
  <1>10. /\ RemoveAt(l, n) \in Seq(Info) /\ Uniq(RemoveAt(l, n))
         /\ ToSet(RemoveAt(l, n)) = {y \in ToSet(l) : y.pid # l[n].pid}
    BY <1>2, <1>3, <1>4, Removed
  <1>11. ListStep(id, p, {})
    <2>1. ToSet(RemoveAt(l, n)) = {y \in Infos(id) : y.pid # p} \cup {} BY <1>2, <1>4, <1>10 DEF x
    <2> QED BY <1>1, <1>7, <1>10, <2>1, ListChanged
  <1>12. PICK o, t : Claims(o, t) BY DEF SpaceInv, Owned
  <1>13. x.virt # 0 => x.virt \in Slot /\ t[p][x.virt] = RegionOwner(id)
    <2>1. x.virt # 0 => x.virt \in Slot BY <1>6, SlotAssumption DEF Info, Slot
    <2> QED BY <2>1, <1>4, <1>8, <1>12 DEF Claims, UsersOwned
  <1>14. p \notin excused => \A r \in Slot : t[p][r] = RegionOwner(id) => r = x.virt
    BY <1>4, <1>8, <1>12, OneSlot
  <1>15. ASSUME x.usage > 0
         PROVE  ListedOnce' /\ UserRecords' /\ Owned' /\ SpaceTypeOK'
    <2>1. PICK f \in Frame : f \notin used /\ used' = used \cup {f} /\ map' = [map EXCEPT ![p][x.virt] = f]
      BY <1>9, <1>15
    <2>2. x.virt \in Slot /\ t[p][x.virt] = RegionOwner(id) BY <1>5, <1>13, <1>15 DEF CountsMatch
    <2>3. /\ map' \in [Process -> [Slot -> Physical \cup {None}]]
          /\ map'[p][x.virt] = f
          /\ \A q \in Process : \A r \in Slot : ~(q = p /\ r = x.virt) => map'[q][r] = map[q][r]
      <3>1. f \in Physical \cup {None} BY DEF Physical
      <3>2. PICK s \in Slot : s = x.virt BY <2>2
      <3>3. map' = [map EXCEPT ![p][s] = f] BY <2>1, <3>2
      <3>4. /\ map' \in [Process -> [Slot -> Physical \cup {None}]]
            /\ map'[p][s] = f
            /\ \A q \in Process : \A r \in Slot : ~(q = p /\ r = s) => map'[q][r] = map[q][r]
        <4>1. map \in [Process -> [Slot -> Physical \cup {None}]] BY <1>0 DEF SpaceTypeOK
        <4> QED BY <3>1, <3>3, <4>1
      <3> QED BY <3>2, <3>4
    <2>4. PICK oo : /\ oo[f] = PageOwner(p, x.virt)
                    /\ \A h \in Frame : h # f => oo[h] = o[h]
      <3>1. PICK oo : oo = NewFrame(o, f, PageOwner(p, x.virt)) OBVIOUS
      <3> QED BY <3>1 DEF NewFrame
    <2>5. PICK tt : /\ tt[p][x.virt] = PageOwner(p, x.virt)
                    /\ \A q \in Process : \A r \in Slot : ~(q = p /\ r = x.virt) => tt[q][r] = t[q][r]
      <3>1. PICK tt : tt = NewSlot(t, p, x.virt, PageOwner(p, x.virt)) OBVIOUS
      <3> QED BY <3>1, <2>2 DEF NewSlot
    <2>6. o[f] = Nobody BY <1>12, <2>1 DEF Claims, FreeUnowned
    <2>7. Moves(o, oo, t, tt, p, x.virt, Nobody, RegionOwner(id))
      <3>1. InPlace(p, x.virt, PageOwner(p, x.virt)) BY DEF InPlace
      <3>2. f # None BY FrameAssumption DEF Physical
      <3> QED BY <2>2, <2>3, <2>4, <2>5, <2>6, <3>1, <3>2, OwnersDiffer DEF Moves
    <2>8. NewUser(oo, tt, id, p, x.virt, {})
      <3>1. \A j \in Id : tt[p][x.virt] # RegionOwner(j) BY <2>5, OwnersDiffer
      <3>2. p \notin excused => \A r \in Slot : tt[p][r] # RegionOwner(id)
        BY <1>14, <2>5, <3>1
      <3> QED BY <3>1, <3>2, <1>8 DEF NewUser
    <2>9. FreeUnowned(oo)' BY <1>12, <2>1, <2>4 DEF Claims, FreeUnowned
    <2>10. ListedOnce' /\ UserRecords' /\ Owned'
      BY <1>8, <1>11, <1>12, <2>7, <2>8, <2>9, ShareStep
    <2>11. SpaceTypeOK' BY <1>0, <1>8, <1>11, <2>1, <2>3 DEF SpaceTypeOK, ListStep
    <2> QED BY <2>10, <2>11
  <1>16. ASSUME ~(x.usage > 0)
         PROVE  ListedOnce' /\ UserRecords' /\ Owned' /\ SpaceTypeOK'
    <2>1. UNCHANGED <<used, map>> BY <1>9, <1>16
    <2>2. x.virt # 0 => p \in excused BY <1>4, <1>5, <1>6, <1>16 DEF CountsMatch, Info
    <2>3. Moves(o, o, t, t, p, 0, Nobody, RegionOwner(id)) BY <1>12, <2>1, QuietMoves
    <2>4. NewUser(o, t, id, p, 0, {})
      <3>1. 0 \notin Slot BY SlotAssumption DEF Slot
      <3>2. p \notin excused => \A r \in Slot : t[p][r] # RegionOwner(id) BY <1>14, <2>2, <3>1
      <3> QED BY <3>1, <3>2, <1>8 DEF NewUser
    <2>5. FreeUnowned(o)' BY <1>12, <2>1 DEF Claims, FreeUnowned
    <2>6. ListedOnce' /\ UserRecords' /\ Owned'
      BY <1>8, <1>11, <1>12, <2>3, <2>4, <2>5, ShareStep
    <2>7. SpaceTypeOK' BY <1>0, <1>8, <1>11, <2>1 DEF SpaceTypeOK, ListStep
    <2> QED BY <2>6, <2>7
  <1>17. FreedOnce' BY <1>8 DEF SpaceInv, FreedOnce
  <1> QED BY <1>15, <1>16, <1>17 DEF SpaceInv

(* The entry n of p in a list L of the region: the one it has, or a new    *)
(* one in front of the others.                                             *)
Entry(t, id, p, L, n) ==
    /\ L \in Seq(Info) /\ Uniq(L) /\ n \in 1 .. Len(L) /\ L[n].pid = p
    /\ {x \in ToSet(L) : x.pid # p} = {x \in Infos(id) : x.pid # p}
    /\ CountsMatch(L[n]) /\ (L[n].tmp => region[id].state = "deleting")
    /\ L[n].virt # 0 => L[n].virt \in Slot
    /\ p \in alive /\ L[n].virt # 0 =>
          map[p][L[n].virt] = region[id].phys /\ t[p][L[n].virt] = RegionOwner(id)
    /\ p \in alive \ excused => \A r \in Slot : t[p][r] = RegionOwner(id) => r = L[n].virt

LEMMA OldEntry ==
    ASSUME SpaceInv, NEW o, NEW t, Claims(o, t), NEW id \in Id, region[id] # NoRegion, NEW p,
           NEW n \in 1 .. Len(region[id].list), region[id].list[n].pid = p
    PROVE  Entry(t, id, p, region[id].list, n)
  <1> DEFINE l == region[id].list
             x == l[n]
  <1>0. SpaceTypeOK BY DEF SpaceInv
  <1>1. l \in Seq(Info) /\ Infos(id) = ToSet(l) BY <1>0, RegionTypes
  <1>2. Uniq(l) BY DEF SpaceInv, ListedOnce
  <1>3. x \in Infos(id)
    <2> HIDE DEF l
    <2> QED BY <1>1, Members DEF l
  <1>4. x.virt # 0 => x.virt \in Slot
    <2>1. x \in Info BY <1>0, <1>3, RegionTypes
    <2> HIDE DEF x
    <2> QED BY <2>1, SlotAssumption DEF Info, Slot
  <1>5. CountsMatch(x) /\ (x.tmp => region[id].state = "deleting")
    BY <1>3 DEF SpaceInv, UserRecords
  <1>6. p \in alive /\ x.virt # 0 =>
          map[p][x.virt] = region[id].phys /\ t[p][x.virt] = RegionOwner(id)
    BY <1>3 DEF Claims, UsersOwned
  <1>7. p \in alive \ excused => \A r \in Slot : t[p][r] = RegionOwner(id) => r = x.virt
    BY <1>3, OneSlot
  <1> QED BY <1>1, <1>2, <1>4, <1>5, <1>6, <1>7 DEF Entry

LEMMA NewEntry ==
    ASSUME SpaceInv, NEW o, NEW t, Claims(o, t), NEW id \in Id, region[id] # NoRegion, NEW p \in Process,
           Position(id, p) = 0
    PROVE  Entry(t, id, p, <<NewInfo(p)>> \o region[id].list, 1)
  <1> DEFINE l == region[id].list
             x == NewInfo(p)
             e == <<x>> \o l
  <1>0. SpaceTypeOK BY DEF SpaceInv
  <1>1. l \in Seq(Info) /\ Infos(id) = ToSet(l) BY <1>0, RegionTypes
  <1>2. Uniq(l) BY DEF SpaceInv, ListedOnce
  <1>3. \A y \in Infos(id) : y.pid # p BY <1>0, PositionFacts
  <1>4. /\ x \in Info /\ x.pid = p /\ x.virt = 0 /\ x.usage = 0 /\ x.tmp = FALSE /\ x.tmp2 = None
    BY SlotAssumption DEF NewInfo, Info
  <1>5. e[1] = x /\ 1 \in 1 .. Len(e)
    <2> HIDE DEF l, x
    <2>1. <<x>> \in Seq(Info) /\ Len(<<x>>) = 1 /\ <<x>>[1] = x /\ Len(l) \in Nat BY <1>1, <1>4
    <2>2. Len(e) = Len(<<x>>) + Len(l) /\ e[1] = <<x>>[1] BY <2>1, <1>1, ConcatProperties
    <2> QED BY <2>1, <2>2
  <1> HIDE DEF l, x
  <1>6. e \in Seq(Info) /\ Uniq(e) /\ ToSet(e) = ToSet(l) \cup {x}
    BY <1>1, <1>2, <1>3, <1>4, Prepended
  <1>7. CountsMatch(x) BY <1>4 DEF CountsMatch
  <1>8. p \in alive \ excused => \A r \in Slot : t[p][r] # RegionOwner(id)
    BY <1>3 DEF Claims, SlotsListed
  <1>9. {y \in ToSet(e) : y.pid # p} = {y \in Infos(id) : y.pid # p} BY <1>1, <1>4, <1>6
  <1> HIDE DEF e
  <1>10. Entry(t, id, p, e, 1) BY <1>4, <1>5, <1>6, <1>7, <1>8, <1>9 DEF Entry
  <1> QED BY <1>10 DEF e, l, x

(* The entry is changed.                                                   *)
LEMMA EntryChanged ==
    ASSUME SpaceInv, NEW t, NEW id \in Id, region[id] # NoRegion, NEW p, NEW L, NEW n, Entry(t, id, p, L, n),
           NEW y, y.pid = p, NEW e, Replaces(e, L, n, y),
           region' = [region EXCEPT ![id].list = e]
    PROVE  ListStep(id, p, {y})
  <1>1. L \in Seq(Info) /\ Uniq(L) /\ n \in 1 .. Len(L) /\ L[n].pid = p
        /\ {x \in ToSet(L) : x.pid # p} = {x \in Infos(id) : x.pid # p}
    BY DEF Entry
  <1>2. e \in Seq(Info) /\ Len(e) = Len(L) /\ e[n] = y /\ \A k \in 1 .. Len(L) : k # n => e[k] = L[k]
    BY DEF Replaces
  <1>3. Uniq(e) /\ ToSet(e) = {x \in ToSet(L) : x.pid # L[n].pid} \cup {e[n]}
    BY <1>1, <1>2, Updated
  <1>4. ToSet(e) = {x \in Infos(id) : x.pid # p} \cup {y} BY <1>1, <1>2, <1>3
  <1> QED BY <1>2, <1>3, <1>4, ListChanged

(* The entry becomes y, and no slot is changed.                            *)
LEMMA EntryKept ==
    ASSUME NEW t, NEW oo, NEW id \in Id, NEW p, NEW L, NEW n, Entry(t, id, p, L, n),
           NEW y, y.pid = p, y.virt = L[n].virt, UNCHANGED map, excused \subseteq excused',
           CountsMatch(y)', y.tmp => region[id].state = "deleting",
           y.tmp2 # None => y.tmp2 \in Frame /\ oo[y.tmp2] = ScratchOwner(id, p)
    PROVE  NewUser(oo, t, id, p, 0, {y})
  <1>1. 0 \notin Slot BY SlotAssumption DEF Slot
  <1>2. p \in alive /\ y.virt # 0 =>
            map'[p][y.virt] = region[id].phys /\ t[p][y.virt] = RegionOwner(id)
    BY DEF Entry
  <1>3. p \in alive /\ p \notin excused' => \A r \in Slot : t[p][r] = RegionOwner(id) => y.virt = r
    BY DEF Entry
  <1> QED BY <1>1, <1>2, <1>3 DEF NewUser

(* Steps that change the count of an entry, or nothing but the list        *)
LEMMA CountStep ==
    ASSUME SpaceInv, NEW o, NEW t, Claims(o, t), NEW id \in Id, region[id] # NoRegion, NEW p \in Process,
           NEW L, NEW n, Entry(t, id, p, L, n),
           NEW y, y.pid = p, y.virt = L[n].virt, ~y.tmp, y.tmp2 = None, CountsMatch(y)',
           NEW e, Replaces(e, L, n, y), region' = [region EXCEPT ![id].list = e],
           UNCHANGED <<used, map, alive, alloc, stack>>, excused \subseteq excused'
    PROVE  ListedOnce' /\ UserRecords' /\ Owned' /\ region' \in [Id -> Region \cup {NoRegion}]
  <1>1. ListStep(id, p, {y}) BY EntryChanged
  <1>2. NewUser(o, t, id, p, 0, {y}) BY EntryKept
  <1>3. Moves(o, o, t, t, p, 0, Nobody, RegionOwner(id)) BY QuietMoves
  <1>4. FreeUnowned(o)' BY DEF Claims, FreeUnowned
  <1>5. ListedOnce' /\ UserRecords' /\ Owned' BY <1>1, <1>2, <1>3, <1>4, ShareStep
  <1> QED BY <1>1, <1>5 DEF ListStep

LEMMA RequestStep ==
    ASSUME SpaceInv, NEW p \in Process, NEW id \in Id, shmem_request(p, id)
    PROVE  SpaceInv'
  <1> DEFINE s == page_find_free(p, 1)
  <1>l. PICK L : L = WithCaller(id, p) OBVIOUS
  <1>0. SpaceTypeOK BY DEF SpaceInv
  <1>1. region[id] # NoRegion /\ region[id].state = "listed" BY <1>0, RegionExists DEF shmem_request, Listed
  <1>2. PICK n \in DOMAIN L :
           /\ L[n].pid = p
           /\ \/ /\ L[n].virt # 0
                 /\ region' = [region EXCEPT ![id].list = [L EXCEPT ![n].usage = @ + 1]]
                 /\ UNCHANGED map
              \/ /\ L[n].virt = 0
                 /\ s # 0
                 /\ region' = [region EXCEPT ![id].list = [L EXCEPT ![n].usage = @ + 1, ![n].virt = s]]
                 /\ map' = [map EXCEPT ![p][s] = region[id].phys]
              \/ /\ L[n].virt = 0
                 /\ region' = [region EXCEPT ![id].list = L]
                 /\ UNCHANGED map
    BY <1>l DEF shmem_request, page_direct_map
  <1>3. UNCHANGED <<used, alive, alloc, stack, lock, freedTwice, excused>> /\ p \in alive
    BY DEF shmem_request, CanCheckout
  <1>4. PICK o, t : Claims(o, t) BY DEF SpaceInv, Owned
  <1>5. Entry(t, id, p, L, n)
    <2>1. CASE Position(id, p) = 0 /\ region[id].promiscuous
      <3>1. L = <<NewInfo(p)>> \o region[id].list BY <1>l, <2>1 DEF WithCaller
      <3>2. Entry(t, id, p, L, 1) BY <1>1, <1>4, <2>1, <3>1, NewEntry
      <3>3. L \in Seq(Info) /\ Uniq(L) /\ 1 \in 1 .. Len(L) /\ L[1].pid = p BY <3>2 DEF Entry
      <3>4. n \in 1 .. Len(L) /\ L[n].pid = p BY <1>2, <3>3
      <3>5. n = 1 BY <3>3, <3>4 DEF Uniq
      <3> QED BY <3>2, <3>5
    <2>2. CASE ~(Position(id, p) = 0 /\ region[id].promiscuous)
      <3>1. L = region[id].list BY <1>l, <2>2 DEF WithCaller
      <3>2. region[id].list \in Seq(Info) BY <1>0, <1>1, RegionTypes
      <3>3. n \in 1 .. Len(region[id].list) /\ region[id].list[n].pid = p BY <1>2, <3>1, <3>2
      <3>4. Entry(t, id, p, region[id].list, n) BY <1>1, <1>4, <3>3, OldEntry
      <3> QED BY <3>1, <3>4
    <2> QED BY <2>1, <2>2
  <1>6. s # 0 => s \in Slot /\ map[p][s] = None BY OneFreeSlot
  <1> HIDE DEF s
  <1>7. /\ L \in Seq(Info) /\ n \in 1 .. Len(L) /\ L[n] \in Info /\ L[n].usage \in Int /\ ~L[n].tmp
        /\ CountsMatch(L[n])
    <2>1. L \in Seq(Info) /\ n \in 1 .. Len(L) /\ CountsMatch(L[n]) BY <1>5 DEF Entry
    <2>2. L[n] \in Info BY <2>1
    <2>3. ~L[n].tmp BY <1>1, <1>5 DEF Entry
    <2> QED BY <2>1, <2>2, <2>3 DEF Info
  <1>8. ASSUME L[n].virt # 0, region' = [region EXCEPT ![id].list = [L EXCEPT ![n].usage = @ + 1]],
               UNCHANGED map
        PROVE  ListedOnce' /\ UserRecords' /\ Owned' /\ SpaceTypeOK'
    <2>1. PICK y \in Info : y = [L[n] EXCEPT !.usage = L[n].usage + 1]
      <3>1. L[n].usage + 1 \in Int BY <1>7
      <3>2. [L[n] EXCEPT !.usage = L[n].usage + 1] \in Info BY <1>7, <3>1 DEF Info
      <3> QED BY <3>2
    <2>2. y.pid = p /\ y.virt = L[n].virt /\ ~y.tmp /\ y.tmp2 = None /\ y.usage = L[n].usage + 1
      <3>1. L[n].tmp2 = None BY <1>7 DEF CountsMatch
      <3> QED BY <1>2, <1>7, <2>1, <3>1 DEF Info
    <2>3. CountsMatch(y)'
      <3>1. (L[n].usage <= 0 => p \in excused) BY <1>2, <1>7, <1>8 DEF CountsMatch
      <3> QED BY <1>3, <1>7, <1>8, <2>2, <3>1 DEF CountsMatch
    <2>4. PICK e : Replaces(e, L, n, y) BY <1>7, Replaced
    <2>5. region' = [region EXCEPT ![id].list = e] BY <1>8, <2>1, <2>4 DEF Replaces
    <2>6. ListedOnce' /\ UserRecords' /\ Owned' /\ region' \in [Id -> Region \cup {NoRegion}]
      <3>1. UNCHANGED <<used, map, alive, alloc, stack>> /\ excused \subseteq excused' BY <1>3, <1>8
      <3> QED BY <1>1, <1>4, <1>5, <2>2, <2>3, <2>4, <2>5, <3>1, CountStep
    <2>7. SpaceTypeOK' BY <1>0, <1>3, <1>8, <2>6 DEF SpaceTypeOK
    <2> QED BY <2>6, <2>7
  <1>9. ASSUME L[n].virt = 0, region' = [region EXCEPT ![id].list = L], UNCHANGED map
        PROVE  ListedOnce' /\ UserRecords' /\ Owned' /\ SpaceTypeOK'
    <2>1. PICK y \in Info : y = L[n] BY <1>7
    <2>2. y.pid = p /\ y.virt = L[n].virt /\ ~y.tmp /\ y.tmp2 = None
      BY <1>2, <1>7, <2>1 DEF CountsMatch
    <2>3. CountsMatch(y)' BY <1>3, <1>7, <2>1 DEF CountsMatch
    <2>4. Replaces(L, L, n, y) BY <1>7, <2>1 DEF Replaces
    <2>5. ListedOnce' /\ UserRecords' /\ Owned' /\ region' \in [Id -> Region \cup {NoRegion}]
      <3>1. UNCHANGED <<used, map, alive, alloc, stack>> /\ excused \subseteq excused' BY <1>3, <1>9
      <3> QED BY <1>1, <1>4, <1>5, <1>9, <2>2, <2>3, <2>4, <3>1, CountStep
    <2>6. SpaceTypeOK' BY <1>0, <1>3, <1>9, <2>5 DEF SpaceTypeOK
    <2> QED BY <2>5, <2>6
  <1>10. ASSUME L[n].virt = 0, s # 0,
                region' = [region EXCEPT ![id].list = [L EXCEPT ![n].usage = @ + 1, ![n].virt = s]],
                map' = [map EXCEPT ![p][s] = region[id].phys]
         PROVE  ListedOnce' /\ UserRecords' /\ Owned' /\ SpaceTypeOK'
    <2>1. PICK v \in Slot : v = s BY <1>6, <1>10
    <2>2. PICK f \in Physical : f = region[id].phys BY <1>0, <1>1, RegionTypes
    <2>3. v # 0 /\ v \in 0 .. Slots /\ map[p][v] = None BY <1>6, <1>10, <2>1, SlotAssumption DEF Slot
    <2>4. /\ map' \in [Process -> [Slot -> Physical \cup {None}]]
          /\ map'[p][v] = f
          /\ \A q \in Process : \A r \in Slot : ~(q = p /\ r = v) => map'[q][r] = map[q][r]
      <3>1. map \in [Process -> [Slot -> Physical \cup {None}]] BY <1>0 DEF SpaceTypeOK
      <3>2. map' = [map EXCEPT ![p][v] = f] BY <1>10, <2>1, <2>2
      <3> QED BY <3>1, <3>2
    <2>5. PICK y \in Info : y = [L[n] EXCEPT !.usage = L[n].usage + 1, !.virt = v]
      <3>1. L[n].usage + 1 \in Int BY <1>7
      <3>2. [L[n] EXCEPT !.usage = L[n].usage + 1, !.virt = v] \in Info BY <1>7, <2>3, <3>1 DEF Info
      <3> QED BY <3>2
    <2>6. PICK e : Replaces(e, L, n, y) BY <1>7, Replaced
    <2>7. region' = [region EXCEPT ![id].list = e]
      <3> DEFINE a == [L[n] EXCEPT !.usage = @ + 1]
                 b == [L EXCEPT ![n] = a]
      <3>1. [L EXCEPT ![n].usage = @ + 1, ![n].virt = s] = [b EXCEPT ![n] = [b[n] EXCEPT !.virt = s]]
        OBVIOUS
      <3>2. b[n] = a BY <1>7
      <3>3. [a EXCEPT !.virt = s] = y BY <2>1, <2>5
      <3> HIDE DEF a
      <3>4. [b EXCEPT ![n] = y] = e BY <1>7, <2>6 DEF Replaces
      <3>5. [L EXCEPT ![n].usage = @ + 1, ![n].virt = s] = e BY <3>1, <3>2, <3>3, <3>4
      <3> QED BY <1>10, <3>5
    <2>9. /\ y.pid = p /\ y.virt = v /\ y.usage = L[n].usage + 1
          /\ ~y.tmp /\ y.tmp2 = None
      <3>1. L[n].tmp2 = None BY <1>7 DEF CountsMatch
      <3> QED BY <1>2, <1>7, <2>5, <3>1 DEF Info
    <2>10. ListStep(id, p, {y}) BY <1>1, <1>5, <2>6, <2>7, <2>9, EntryChanged
    <2>11. CountsMatch(y)'
      <3>1. L[n].usage < 0 => p \in excused BY <1>2, <1>7 DEF CountsMatch
      <3> QED BY <1>3, <1>7, <2>3, <2>9, <3>1 DEF CountsMatch
    <2>12. PICK tt : /\ tt[p][v] = RegionOwner(id)
                     /\ \A q \in Process : \A r \in Slot : ~(q = p /\ r = v) => tt[q][r] = t[q][r]
      <3>1. PICK tt : tt = NewSlot(t, p, v, RegionOwner(id)) OBVIOUS
      <3> QED BY <3>1 DEF NewSlot
    <2>13. t[p][v] = Nobody BY <1>3, <1>4, <2>3 DEF Claims, EmptyUnowned
    <2>14. f \in Frame => o[f] = RegionOwner(id) BY <1>1, <1>4, <2>2 DEF Claims, RegionOwned
    <2>15. Moves(o, o, t, tt, p, v, Nobody, RegionOwner(id))
      <3>1. InPlace(p, v, RegionOwner(id)) BY DEF InPlace
      <3>2. f # None BY FrameAssumption
      <3> QED BY <2>4, <2>12, <2>13, <2>14, <3>1, <3>2, OwnersDiffer DEF Moves
    <2>16. NewUser(o, tt, id, p, v, {y})
      <3>1. \A j \in Id : tt[p][v] = RegionOwner(j) => j = id BY <2>12, OwnersDiffer
      <3>2. p \notin excused => \A r \in Slot : tt[p][r] = RegionOwner(id) => r = v
        <4>0. 0 \notin Slot BY SlotAssumption DEF Slot
        <4>1. p \notin excused => \A r \in Slot : t[p][r] = RegionOwner(id) => r = 0
          BY <1>3, <1>5, <1>10 DEF Entry
        <4> QED BY <2>12, <4>0, <4>1
      <3> QED BY <1>3, <2>2, <2>4, <2>9, <2>11, <2>12, <3>1, <3>2 DEF NewUser
    <2>17. FreeUnowned(o)' BY <1>3, <1>4 DEF Claims, FreeUnowned
    <2>18. ListedOnce' /\ UserRecords' /\ Owned'
      BY <1>3, <1>4, <2>10, <2>15, <2>16, <2>17, ShareStep
    <2>19. SpaceTypeOK' BY <1>0, <1>3, <2>4, <2>10 DEF SpaceTypeOK, ListStep
    <2> QED BY <2>18, <2>19
  <1>11. FreedOnce' BY <1>3 DEF SpaceInv, FreedOnce
  <1>12. ListedOnce' /\ UserRecords' /\ Owned' /\ SpaceTypeOK' BY <1>2, <1>8, <1>9, <1>10
  <1> QED BY <1>11, <1>12 DEF SpaceInv

(* Two fields of an entry are set, one after the other.                    *)
WithList(r, id, e) == [r EXCEPT ![id].list = e]
EntrySet(r, id, n, y) == [r EXCEPT ![id].list = [@ EXCEPT ![n] = y]]

LEMMA FieldsSet ==
    ASSUME SpaceTypeOK, NEW id \in Id, region[id] # NoRegion, NEW n \in 1 .. Len(region[id].list),
           NEW a, NEW y, NEW e, NEW g, Replaces(e, region[id].list, n, y),
           NEW c, c = EntrySet(region, id, n, a), g = EntrySet(c, id, n, y)
    PROVE  g = WithList(region, id, e) /\ c[id].list[n] = a
  <1> DEFINE l == region[id].list
             b == [l EXCEPT ![n] = a]
  <1>1. region[id] \in Region /\ l \in Seq(Info) BY RegionTypes
  <1>2. region \in [Id -> Region \cup {NoRegion}] BY DEF SpaceTypeOK
  <1>3. c = [region EXCEPT ![id] = [region[id] EXCEPT !.list = b]] BY DEF EntrySet
  <1>4. b[n] = a /\ [b EXCEPT ![n] = y] = e
    <2> HIDE DEF l
    <2>1. b[n] = a BY <1>1 DEF l
    <2>2. [b EXCEPT ![n] = y] = [l EXCEPT ![n] = y] BY <1>1 DEF l
    <2>3. e = [l EXCEPT ![n] = y] BY DEF Replaces, l
    <2> QED BY <2>1, <2>2, <2>3
  <1> HIDE DEF b, l
  <1>5. c[id] = [region[id] EXCEPT !.list = b] BY <1>2, <1>3
  <1>6. c[id].list = b BY <1>1, <1>5 DEF Region
  <1>7. g = [c EXCEPT ![id] = [c[id] EXCEPT !.list = [c[id].list EXCEPT ![n] = y]]]
    BY DEF EntrySet
  <1>8. [c[id] EXCEPT !.list = e] = [region[id] EXCEPT !.list = e] BY <1>1, <1>5 DEF Region
  <1>9. g = [c EXCEPT ![id] = [region[id] EXCEPT !.list = e]] BY <1>4, <1>6, <1>7, <1>8
  <1>10. g = [region EXCEPT ![id] = [region[id] EXCEPT !.list = e]] BY <1>2, <1>3, <1>9
  <1> QED BY <1>4, <1>6, <1>10 DEF WithList

LEMMA ReleaseStep ==
    ASSUME SpaceInv, NEW p \in Process, NEW id \in Id, shmem_release(p, id)
    PROVE  SpaceInv'
  <1>0. SpaceTypeOK BY DEF SpaceInv
  <1>1. region[id] # NoRegion /\ region[id].state = "listed" BY <1>0, RegionExists DEF shmem_release, Listed
  <1>2. PICK L : L = region[id].list OBVIOUS
  <1>3. PICK n : n = Position(id, p) OBVIOUS
  <1>4. n \in 1 .. Len(L) /\ L[n].pid = p BY <1>0, <1>1, <1>2, <1>3, PositionFacts DEF shmem_release
  <1>5. PICK u : u = L[n].usage - 1 OBVIOUS
  <1>6. /\ excused' = IF u < 0 THEN excused \cup {p} ELSE excused
        /\ IF u = 0
           THEN /\ map' = page_release(p, L[n].virt)
                /\ region' = [region EXCEPT ![id].list[n].usage = u, ![id].list[n].virt = 0]
           ELSE /\ region' = [region EXCEPT ![id].list[n].usage = u]
                /\ UNCHANGED map
    BY <1>2, <1>3, <1>5 DEF shmem_release, LastRelease
  <1>7. UNCHANGED <<used, alive, alloc, stack, lock, freedTwice>> /\ p \in alive
    BY DEF shmem_release, CanCheckout
  <1>8. PICK o, t : Claims(o, t) BY DEF SpaceInv, Owned
  <1>9. Entry(t, id, p, L, n) BY <1>1, <1>2, <1>4, <1>8, OldEntry
  <1>10. /\ L \in Seq(Info) /\ L[n] \in Info /\ L[n].usage \in Int /\ ~L[n].tmp /\ L[n].tmp2 = None
         /\ CountsMatch(L[n])
    <2>1. L \in Seq(Info) /\ CountsMatch(L[n]) BY <1>9 DEF Entry
    <2>2. L[n] \in Info BY <1>4, <2>1
    <2>3. ~L[n].tmp BY <1>1, <1>9 DEF Entry
    <2>4. L[n].tmp2 = None BY <2>1, <2>3 DEF CountsMatch
    <2> QED BY <2>1, <2>2, <2>3, <2>4 DEF Info
  <1>11. u \in Int BY <1>5, <1>10
  <1>12. excused \subseteq excused' /\ excused' \subseteq Process
    <2>1. excused \subseteq Process BY <1>0 DEF SpaceTypeOK
    <2> QED BY <1>6, <2>1
  <1>13. PICK a \in Info : a = [L[n] EXCEPT !.usage = u] BY <1>10, <1>11 DEF Info
  <1>14. /\ a.pid = p /\ a.virt = L[n].virt /\ ~a.tmp /\ a.tmp2 = None /\ a.usage = u
    BY <1>4, <1>10, <1>13 DEF Info
  <1>15. ASSUME u # 0
         PROVE  ListedOnce' /\ UserRecords' /\ Owned' /\ SpaceTypeOK'
    <2>1. region' = [region EXCEPT ![id].list[n].usage = u] /\ UNCHANGED map BY <1>6, <1>15
    <2>2. CountsMatch(a)'
      <3>1. u < 0 => p \in excused' BY <1>6
      <3>2. u > 0 => L[n].virt # 0 BY <1>5, <1>10 DEF CountsMatch
      <3> QED BY <1>11, <1>14, <1>15, <3>1, <3>2 DEF CountsMatch
    <2>3. PICK e : Replaces(e, L, n, a) BY <1>4, <1>10, Replaced
    <2>4. region' = [region EXCEPT ![id].list = e] BY <1>2, <1>13, <2>1, <2>3 DEF Replaces
    <2>5. ListedOnce' /\ UserRecords' /\ Owned' /\ region' \in [Id -> Region \cup {NoRegion}]
      <3>1. UNCHANGED <<used, map, alive, alloc, stack>> /\ excused \subseteq excused' BY <1>7, <1>12, <2>1
      <3> QED BY <1>1, <1>8, <1>9, <1>14, <2>2, <2>3, <2>4, <3>1, CountStep
    <2>6. SpaceTypeOK' BY <1>0, <1>7, <1>12, <2>1, <2>5 DEF SpaceTypeOK
    <2> QED BY <2>5, <2>6
  <1>16. ASSUME u = 0
         PROVE  ListedOnce' /\ UserRecords' /\ Owned' /\ SpaceTypeOK'
    <2>1. /\ map' = page_release(p, L[n].virt) /\ UNCHANGED excused
          /\ region' = [region EXCEPT ![id].list[n].usage = u, ![id].list[n].virt = 0]
      BY <1>6, <1>16
    <2>2. PICK v \in Slot : v = L[n].virt /\ t[p][v] = RegionOwner(id) /\ v # 0
      <3>1. L[n].virt # 0 BY <1>5, <1>10, <1>16 DEF CountsMatch
      <3> QED BY <3>1, <1>7, <1>9 DEF Entry
    <2>3. /\ map' \in [Process -> [Slot -> Physical \cup {None}]]
          /\ map'[p][v] = None
          /\ \A q \in Process : \A r \in Slot : ~(q = p /\ r = v) => map'[q][r] = map[q][r]
      <3>1. map \in [Process -> [Slot -> Physical \cup {None}]] BY <1>0 DEF SpaceTypeOK
      <3>2. map' = [map EXCEPT ![p][v] = None] BY <2>1, <2>2 DEF page_release
      <3> QED BY <3>1, <3>2
    <2>4. PICK y \in Info : y = [a EXCEPT !.virt = 0]
      <3>1. 0 \in 0 .. Slots BY SlotAssumption
      <3> QED BY <3>1 DEF Info
    <2>5. y.pid = p /\ y.virt = 0 /\ ~y.tmp /\ y.tmp2 = None /\ y.usage = u BY <1>14, <2>4 DEF Info
    <2>6. PICK e : Replaces(e, L, n, y) BY <1>4, <1>10, Replaced
    <2>7. region' = [region EXCEPT ![id].list = e]
      <3>1. PICK c : c = EntrySet(region, id, n, a) OBVIOUS
      <3>2. PICK g : g = EntrySet(c, id, n, y) OBVIOUS
      <3>3. g = WithList(region, id, e) /\ c[id].list[n] = a
        <4>1. Replaces(e, region[id].list, n, y) /\ n \in 1 .. Len(region[id].list) BY <1>2, <1>4, <2>6
        <4> QED BY <1>0, <1>1, <3>1, <3>2, <4>1, FieldsSet
      <3>4. c = [region EXCEPT ![id].list[n].usage = u] BY <1>2, <1>13, <3>1 DEF EntrySet
      <3>5. region' = [c EXCEPT ![id].list[n].virt = 0] BY <2>1, <3>4
      <3>6. region' = [c EXCEPT ![id].list = [@ EXCEPT ![n] = [c[id].list[n] EXCEPT !.virt = 0]]]
        BY <3>5
      <3> QED BY <2>4, <3>2, <3>3, <3>6 DEF EntrySet, WithList
    <2>8. ListStep(id, p, {y}) BY <1>1, <1>9, <2>5, <2>6, <2>7, EntryChanged
    <2>9. CountsMatch(y)' BY <1>16, <2>5 DEF CountsMatch
    <2>10. PICK tt : /\ tt[p][v] = Nobody
                     /\ \A q \in Process : \A r \in Slot : ~(q = p /\ r = v) => tt[q][r] = t[q][r]
      <3>1. PICK tt : tt = NewSlot(t, p, v, Nobody) OBVIOUS
      <3> QED BY <3>1 DEF NewSlot
    <2>11. Moves(o, o, t, tt, p, v, Nobody, RegionOwner(id))
      <3>1. InPlace(p, v, Nobody) BY DEF InPlace
      <3>2. None \notin Frame BY FrameAssumption DEF Physical
      <3> QED BY <2>2, <2>3, <2>10, <3>1, <3>2 DEF Moves
    <2>12. NewUser(o, tt, id, p, v, {y})
      <3>1. \A j \in Id : tt[p][v] # RegionOwner(j) BY <2>10, OwnersDiffer
      <3>2. p \notin excused => \A r \in Slot : tt[p][r] # RegionOwner(id)
        <4>1. p \notin excused => \A r \in Slot : t[p][r] = RegionOwner(id) => r = v
          BY <1>7, <1>9, <2>2 DEF Entry
        <4> QED BY <2>10, <3>1, <4>1
      <3> QED BY <1>7, <2>1, <2>5, <2>9, <3>1, <3>2 DEF NewUser
    <2>13. FreeUnowned(o)' BY <1>7, <1>8 DEF Claims, FreeUnowned
    <2>14. ListedOnce' /\ UserRecords' /\ Owned'
      BY <1>7, <1>8, <1>12, <2>8, <2>11, <2>12, <2>13, ShareStep
    <2>15. SpaceTypeOK' BY <1>0, <1>7, <1>12, <2>3, <2>8 DEF SpaceTypeOK, ListStep
    <2> QED BY <2>14, <2>15
  <1>17. FreedOnce' BY <1>7 DEF SpaceInv, FreedOnce
  <1> QED BY <1>15, <1>16, <1>17 DEF SpaceInv

(* A user of a region that is being deleted is checked out, with a scratch *)
(* page or without one.                                                    *)
LEMMA CheckoutStep ==
    ASSUME SpaceInv, NEW id \in Id, DeleteCheckout(id)
    PROVE  SpaceInv'
  <1>0. SpaceTypeOK BY DEF SpaceInv
  <1>1. region[id] # NoRegion /\ region[id].state = "deleting"
    BY <1>0, RegionExists DEF DeleteCheckout
  <1>2. PICK L : L = region[id].list OBVIOUS
  <1>3. L \in Seq(Info) /\ DOMAIN L = 1 .. Len(L) /\ Len(L) \in Nat BY <1>0, <1>1, <1>2, RegionTypes
  <1>4. ToVisit(id) \in SUBSET Nat /\ ToVisit(id) # {}
    <2>1. ToVisit(id) \subseteq DOMAIN L BY <1>2 DEF ToVisit
    <2>2. 1 .. Len(L) \subseteq Nat BY <1>3
    <2>3. ToVisit(id) # {} BY DEF DeleteCheckout
    <2> QED BY <1>3, <2>1, <2>2, <2>3
  <1>5. \E m \in ToVisit(id) : \A k \in ToVisit(id) : m <= k BY <1>4, FirstOf
  <1>6. PICK n : n = CHOOSE m \in ToVisit(id) : \A k \in ToVisit(id) : m <= k OBVIOUS
  <1>7. n \in ToVisit(id) BY <1>5, <1>6
  <1>8. n \in 1 .. Len(L) /\ L[n].usage > 0 /\ ~L[n].tmp /\ L[n].pid \in alive
    BY <1>2, <1>3, <1>7 DEF ToVisit
  <1>9. PICK p \in Process : p = L[n].pid BY <1>0, <1>8 DEF SpaceTypeOK
  <1>10. /\ lock' = [lock EXCEPT ![p] = id]
         /\ \/ \E f \in Frame \ used :
                  /\ used' = used \cup {f}
                  /\ region' = [region EXCEPT ![id].list[n].tmp = TRUE, ![id].list[n].tmp2 = f]
                  /\ UNCHANGED excused
            \/ /\ used = Frame
               /\ region' = [region EXCEPT ![id].list[n].tmp = TRUE]
               /\ excused' = excused \cup {p}
               /\ UNCHANGED used
    BY <1>2, <1>6, <1>9 DEF DeleteCheckout
  <1>11. UNCHANGED <<alive, map, alloc, stack, freedTwice>> BY DEF DeleteCheckout, spaceVars
  <1>12. lock' \in [Process -> Id \cup {None}] BY <1>0, <1>10 DEF SpaceTypeOK
  <1>13. PICK o, t : Claims(o, t) BY DEF SpaceInv, Owned
  <1>14. Entry(t, id, p, L, n) BY <1>1, <1>2, <1>8, <1>9, <1>13, OldEntry
  <1>15. CountsMatch(L[n]) /\ L[n] \in Info BY <1>3, <1>8, <1>14 DEF Entry
  <1>16. L[n].tmp2 = None BY <1>8, <1>15 DEF CountsMatch
  <1>17. PICK a \in Info : a = [L[n] EXCEPT !.tmp = TRUE] BY <1>15 DEF Info
  <1>18. /\ a.pid = p /\ a.virt = L[n].virt /\ a.tmp /\ a.tmp2 = None /\ a.usage = L[n].usage
    BY <1>9, <1>15, <1>16, <1>17 DEF Info
  <1>19. L[n].virt # 0 /\ L[n].usage \in Int BY <1>8, <1>15 DEF CountsMatch, Info
  <1>20. ASSUME NEW f \in Frame, f \notin used, used' = used \cup {f}, UNCHANGED excused,
                region' = [region EXCEPT ![id].list[n].tmp = TRUE, ![id].list[n].tmp2 = f]
         PROVE  ListedOnce' /\ UserRecords' /\ Owned' /\ SpaceTypeOK'
    <2>1. PICK y \in Info : y = [a EXCEPT !.tmp2 = f] BY DEF Info
    <2>2. y.pid = p /\ y.virt = L[n].virt /\ y.tmp /\ y.tmp2 = f /\ y.usage = L[n].usage
      BY <1>18, <2>1 DEF Info
    <2>3. PICK e : Replaces(e, L, n, y) BY <1>3, <1>8, Replaced
    <2>4. region' = [region EXCEPT ![id].list = e]
      <3>1. PICK c : c = EntrySet(region, id, n, a) OBVIOUS
      <3>2. PICK g : g = EntrySet(c, id, n, y) OBVIOUS
      <3>3. g = WithList(region, id, e) /\ c[id].list[n] = a
        <4>1. Replaces(e, region[id].list, n, y) /\ n \in 1 .. Len(region[id].list) BY <1>2, <1>8, <2>3
        <4> QED BY <1>0, <1>1, <3>1, <3>2, <4>1, FieldsSet
      <3>4. c = [region EXCEPT ![id].list[n].tmp = TRUE] BY <1>2, <1>17, <3>1 DEF EntrySet
      <3>5. region' = [c EXCEPT ![id].list[n].tmp2 = f] BY <1>20, <3>4
      <3>6. region' = [c EXCEPT ![id].list = [@ EXCEPT ![n] = [c[id].list[n] EXCEPT !.tmp2 = f]]]
        BY <3>5
      <3> QED BY <2>1, <3>2, <3>3, <3>6 DEF EntrySet, WithList
    <2>5. ListStep(id, p, {y}) BY <1>1, <1>14, <2>2, <2>3, <2>4, EntryChanged
    <2>6. CountsMatch(y)' BY <1>8, <1>19, <2>2, FrameAssumption DEF CountsMatch, Physical
    <2>7. PICK oo : oo[f] = ScratchOwner(id, p) /\ \A h \in Frame : h # f => oo[h] = o[h]
      <3>1. PICK oo : oo = NewFrame(o, f, ScratchOwner(id, p)) OBVIOUS
      <3> QED BY <3>1 DEF NewFrame
    <2>8. o[f] = Nobody BY <1>13, <1>20 DEF Claims, FreeUnowned
    <2>9. Moves(o, oo, t, t, p, 0, Nobody, RegionOwner(id))
      <3>1. 0 \notin Slot BY SlotAssumption DEF Slot
      <3> QED BY <1>11, <2>7, <2>8, <3>1 DEF Moves
    <2>10. NewUser(oo, t, id, p, 0, {y})
      <3>1. y.tmp2 # None => y.tmp2 \in Frame /\ oo[y.tmp2] = ScratchOwner(id, p) BY <2>2, <2>7
      <3>2. excused \subseteq excused' /\ UNCHANGED map BY <1>11, <1>20
      <3> QED BY <1>1, <1>14, <2>2, <2>6, <3>1, <3>2, EntryKept
    <2>11. FreeUnowned(oo)' BY <1>13, <1>20, <2>7 DEF Claims, FreeUnowned
    <2>12. ListedOnce' /\ UserRecords' /\ Owned'
      <3>1. excused \subseteq excused' /\ UNCHANGED <<alive, alloc, stack>> BY <1>11, <1>20
      <3> QED BY <1>13, <2>5, <2>9, <2>10, <2>11, <3>1, ShareStep
    <2>13. SpaceTypeOK' BY <1>0, <1>11, <1>12, <1>20, <2>5 DEF SpaceTypeOK, ListStep
    <2> QED BY <2>12, <2>13
  <1>21. ASSUME region' = [region EXCEPT ![id].list[n].tmp = TRUE], excused' = excused \cup {p}, UNCHANGED used
         PROVE  ListedOnce' /\ UserRecords' /\ Owned' /\ SpaceTypeOK'
    <2>1. PICK e : Replaces(e, L, n, a) BY <1>3, <1>8, Replaced
    <2>2. region' = [region EXCEPT ![id].list = e] BY <1>2, <1>17, <1>21, <2>1 DEF Replaces
    <2>3. ListStep(id, p, {a}) BY <1>1, <1>14, <1>18, <2>1, <2>2, EntryChanged
    <2>4. CountsMatch(a)' BY <1>8, <1>18, <1>19, <1>21 DEF CountsMatch
    <2>5. Moves(o, o, t, t, p, 0, Nobody, RegionOwner(id)) BY <1>11, <1>13, QuietMoves
    <2>6. excused \subseteq excused' /\ UNCHANGED map /\ UNCHANGED <<alive, alloc, stack>> BY <1>11, <1>21
    <2>7. NewUser(o, t, id, p, 0, {a}) BY <1>1, <1>14, <1>18, <2>4, <2>6, EntryKept
    <2>8. FreeUnowned(o)' BY <1>13, <1>21 DEF Claims, FreeUnowned
    <2>9. ListedOnce' /\ UserRecords' /\ Owned' BY <1>13, <2>3, <2>5, <2>6, <2>7, <2>8, ShareStep
    <2>10. SpaceTypeOK' BY <1>0, <1>11, <1>12, <1>21, <2>3 DEF SpaceTypeOK, ListStep
    <2> QED BY <2>9, <2>10
  <1>22. ListedOnce' /\ UserRecords' /\ Owned' /\ SpaceTypeOK' BY <1>10, <1>20, <1>21
  <1>23. FreedOnce' BY <1>11 DEF SpaceInv, FreedOnce
  <1> QED BY <1>22, <1>23 DEF SpaceInv

(* The users of a region that get a scratch page when its deletion ends    *)
Gets(x, q, r) == x.pid = q /\ x.tmp2 # None /\ x.virt = r

Scratch(list, p, s) ==
    {n \in DOMAIN list : list[n].pid = p /\ list[n].tmp2 # None /\ list[n].virt = s}

FinalMap(list) ==
    [p \in Process |-> [s \in Slot |->
        IF Scratch(list, p, s) = {} THEN map[p][s] ELSE list[CHOOSE n \in Scratch(list, p, s) : TRUE].tmp2]]

LEMMA FinishMaps ==
    ASSUME NEW id \in Id, DeleteFinish(id)
    PROVE  map' = FinalMap(region[id].list)
  BY Zenon DEF DeleteFinish, FinalMap, Scratch

(* What is mapped then                                                     *)
LEMMA ScratchPages ==
    ASSUME SpaceInv, NEW id \in Id, DeleteFinish(id)
    PROVE  \A q \in Process : \A r \in Slot :
              /\ \A x \in Infos(id) : Gets(x, q, r) => map'[q][r] = x.tmp2
              /\ (\A x \in Infos(id) : ~Gets(x, q, r)) => map'[q][r] = map[q][r]
  <1> TAKE q \in Process
  <1> TAKE r \in Slot
  <1>0. SpaceTypeOK BY DEF SpaceInv
  <1>1. region[id] # NoRegion BY <1>0, RegionExists DEF DeleteFinish
  <1>2. PICK L : L = region[id].list OBVIOUS
  <1>3. L \in Seq(Info) /\ DOMAIN L = 1 .. Len(L) /\ Infos(id) = ToSet(L) BY <1>0, <1>1, <1>2, RegionTypes
  <1>4. PICK S : S = Scratch(L, q, r) OBVIOUS
  <1>5. map'[q][r] = IF S = {} THEN map[q][r] ELSE L[CHOOSE n \in S : TRUE].tmp2
    <2>1. map' = FinalMap(L) BY <1>2, FinishMaps
    <2>2. FinalMap(L)[q][r] = IF Scratch(L, q, r) = {} THEN map[q][r]
                              ELSE L[CHOOSE n \in Scratch(L, q, r) : TRUE].tmp2
      BY DEF FinalMap
    <2> QED BY <1>4, <2>1, <2>2
  <1>6. \A n \in S : L[n] \in Infos(id) /\ Gets(L[n], q, r)
    BY <1>3, <1>4, Members DEF Gets, Scratch
  <1>7. \A x \in Infos(id) : Gets(x, q, r) => \E n \in S : L[n] = x
    BY <1>3, <1>4, Members DEF Gets, Scratch
  <1>8. ASSUME NEW x \in Infos(id), Gets(x, q, r) PROVE map'[q][r] = x.tmp2
    <2>1. S # {} BY <1>7, <1>8
    <2>2. PICK n \in S : n = CHOOSE k \in S : TRUE BY <2>1
    <2>3. L[n] = x BY <1>6, <1>8, OneUser DEF Gets
    <2> QED BY <1>5, <2>1, <2>2, <2>3
  <1>9. ASSUME \A x \in Infos(id) : ~Gets(x, q, r) PROVE map'[q][r] = map[q][r]
    <2>1. S = {} BY <1>6, <1>9
    <2> QED BY <1>5, <2>1
  <1> QED BY <1>8, <1>9

(* The owners when the deletion has ended: nobody has the region's frame,  *)
(* and scratch pages belong to the slots they are mapped at.               *)
FramesAfter(o, oo, id) ==
    \A g \in Frame :
        /\ g = region[id].phys => oo[g] = Nobody
        /\ g # region[id].phys => \A x \in Infos(id) : x.tmp2 = g => oo[g] = PageOwner(x.pid, x.virt)
        /\ g # region[id].phys /\ (\A x \in Infos(id) : x.tmp2 # g) => oo[g] = o[g]

SlotsAfter(t, tt, id) ==
    \A q \in Process : \A r \in Slot :
        /\ \A x \in Infos(id) : Gets(x, q, r) => tt[q][r] = PageOwner(q, r)
        /\ (\A x \in Infos(id) : ~Gets(x, q, r)) => tt[q][r] = t[q][r]

LEMMA OwnersAfter ==
    ASSUME SpaceInv, NEW o, NEW t, Claims(o, t), NEW id \in Id
    PROVE  (\E oo : FramesAfter(o, oo, id)) /\ (\E tt : SlotsAfter(t, tt, id))
  <1>1. \E oo : FramesAfter(o, oo, id)
    <2>1. PICK X : X = Infos(id) OBVIOUS
    <2>2. PICK c : c = region[id].phys OBVIOUS
    <2>3. PICK oo : oo = [g \in Frame |->
             IF g = c THEN Nobody
             ELSE IF \E x \in X : x.tmp2 = g
                  THEN PageOwner((CHOOSE x \in X : x.tmp2 = g).pid, (CHOOSE x \in X : x.tmp2 = g).virt)
                  ELSE o[g]]
      OBVIOUS
    <2>4. ASSUME NEW g \in Frame, g # c, NEW x \in X, x.tmp2 = g
          PROVE  oo[g] = PageOwner(x.pid, x.virt)
      <3>1. PICK y : y = CHOOSE z \in X : z.tmp2 = g OBVIOUS
      <3>2. y \in X /\ y.tmp2 = g BY <2>4, <3>1
      <3>3. None \notin Frame BY FrameAssumption DEF Physical
      <3>4. o[g] = ScratchOwner(id, x.pid) /\ o[g] = ScratchOwner(id, y.pid)
        BY <2>1, <2>4, <3>2, <3>3 DEF Claims, ScratchOwned, ScratchClaim
      <3>5. x.pid = y.pid
        <4>1. PICK c1, c2 : c1 = x.pid /\ c2 = y.pid OBVIOUS
        <4>2. ScratchOwner(id, c1) = ScratchOwner(id, c2) BY <3>4, <4>1
        <4>3. c1 = c2 BY <4>2, OwnersDiffer
        <4> QED BY <4>1, <4>3
      <3>6. x = y BY <2>1, <3>2, <3>5, OneUser
      <3> QED BY <2>3, <2>4, <3>1, <3>6
    <2>5. \A g \in Frame : g = c => oo[g] = Nobody BY <2>3
    <2>6. \A g \in Frame : g # c /\ (\A x \in X : x.tmp2 # g) => oo[g] = o[g] BY <2>3
    <2>7. FramesAfter(o, oo, id) BY <2>1, <2>2, <2>4, <2>5, <2>6 DEF FramesAfter
    <2> QED BY <2>7
  <1>2. \E tt : SlotsAfter(t, tt, id)
    <2>1. PICK W : W = {y \in Process \X Slot : \E x \in Infos(id) : Gets(x, y[1], y[2])} OBVIOUS
    <2>2. \A q \in Process : \A r \in Slot : <<q, r>> \in W <=> \E x \in Infos(id) : Gets(x, q, r)
      BY <2>1
    <2>3. PICK tt : tt = [q \in Process |-> [r \in Slot |->
                             IF <<q, r>> \in W THEN PageOwner(q, r) ELSE t[q][r]]]
      OBVIOUS
    <2>4. \A q \in Process : \A r \in Slot : tt[q][r] = IF <<q, r>> \in W THEN PageOwner(q, r) ELSE t[q][r]
      BY <2>3
    <2>5. SlotsAfter(t, tt, id) BY <2>2, <2>4 DEF SlotsAfter
    <2> QED BY <2>5
  <1> QED BY <1>1, <1>2

(* All users of the region are served, but the ones without a scratch page *)
(* and the ones that released too often.                                   *)
LEMMA AllServed ==
    ASSUME SpaceInv, NEW o, NEW t, Claims(o, t), NEW id \in Id, DeleteFinish(id),
           NEW q \in alive \ excused, NEW r \in Slot, t[q][r] = RegionOwner(id)
    PROVE  \E x \in Infos(id) : Gets(x, q, r)
  <1>0. SpaceTypeOK BY DEF SpaceInv
  <1>1. PICK x \in Infos(id) : x.pid = q /\ x.virt = r BY DEF Claims, SlotsListed
  <1>2. region[id] # NoRegion BY <1>0, RegionExists DEF DeleteFinish
  <1>3. PICK L : L = region[id].list OBVIOUS
  <1>4. L \in Seq(Info) /\ DOMAIN L = 1 .. Len(L) /\ Infos(id) = ToSet(L) BY <1>0, <1>2, <1>3, RegionTypes
  <1>5. PICK n \in DOMAIN L : L[n] = x BY <1>4, Members
  <1>6. CountsMatch(x) /\ x.usage \in Int
    <2>1. x \in Info BY <1>0, RegionTypes
    <2> QED BY <2>1 DEF SpaceInv, UserRecords, Info
  <1>7. r # 0 BY SlotAssumption DEF Slot
  <1>8. x.usage > 0 BY <1>1, <1>6, <1>7 DEF CountsMatch
  <1>9. x.tmp
    <2>1. n \notin ToVisit(id) BY DEF DeleteFinish
    <2> QED BY <1>1, <1>3, <1>5, <1>8, <2>1 DEF ToVisit
  <1>10. x.tmp2 # None BY <1>1, <1>6, <1>9 DEF CountsMatch
  <1> QED BY <1>1, <1>10 DEF Gets

LEMMA FinishStep ==
    ASSUME SpaceInv, NEW id \in Id, DeleteFinish(id)
    PROVE  SpaceInv'
  <1>0. SpaceTypeOK /\ alive \subseteq Process BY DEF SpaceInv, SpaceTypeOK
  <1>1. region[id] # NoRegion BY <1>0, RegionExists DEF DeleteFinish
  <1>2. UNCHANGED <<alive, alloc, stack, excused>> BY DEF DeleteFinish
  <1>3. /\ region' \in [Id -> Region \cup {NoRegion}] /\ region'[id] = NoRegion /\ Infos(id)' = {}
        /\ \A j \in Id : j # id => region'[j] = region[j] /\ Infos(j)' = Infos(j)
    <2>1. region' = [region EXCEPT ![id] = NoRegion] BY DEF DeleteFinish
    <2>2. region \in [Id -> Region \cup {NoRegion}] BY <1>0 DEF SpaceTypeOK
    <2>3. region' \in [Id -> Region \cup {NoRegion}] /\ region'[id] = NoRegion
          /\ \A j \in Id : j # id => region'[j] = region[j]
      BY <2>1, <2>2
    <2> QED BY <2>3 DEF Infos
  <1>4. ListedOnce' BY <1>3 DEF SpaceInv, ListedOnce
  <1>5. UserRecords' BY <1>2, <1>3 DEF SpaceInv, UserRecords, CountsMatch
  <1>6. PICK o, t : Claims(o, t) BY DEF SpaceInv, Owned
  <1>7. /\ region[id].internal <=> region[id].phys \in Frame
        /\ region[id].phys \in Frame => o[region[id].phys] = RegionOwner(id)
    BY <1>1, <1>6 DEF Claims, RegionOwned
  <1>8. /\ used' = used \ ({region[id].phys} \cap Frame)
        /\ FreedOnce'
    <2>1. FreeFrames(IF region[id].internal THEN {region[id].phys} ELSE {}) BY DEF DeleteFinish
    <2>2. region[id].phys \in Frame => region[id].phys \in used
      BY <1>6, <1>7, OwnersDiffer DEF Claims, FreeUnowned
    <2>3. used \subseteq Frame /\ ~freedTwice BY <1>0 DEF SpaceTypeOK, SpaceInv, FreedOnce
    <2>4. CASE region[id].internal BY <2>1, <2>2, <2>3, <2>4, <1>7 DEF FreeFrames, FreedOnce
    <2>5. CASE ~region[id].internal BY <2>1, <2>2, <2>3, <2>5, <1>7 DEF FreeFrames, FreedOnce
    <2> QED BY <2>4, <2>5
  <1>9. PICK oo : FramesAfter(o, oo, id) BY <1>6, OwnersAfter
  <1>10. PICK tt : SlotsAfter(t, tt, id) BY <1>6, OwnersAfter
  <1>11. \A q \in Process : \A r \in Slot :
            /\ \A x \in Infos(id) : Gets(x, q, r) => map'[q][r] = x.tmp2
            /\ (\A x \in Infos(id) : ~Gets(x, q, r)) => map'[q][r] = map[q][r]
    BY ScratchPages
  <1>12. \A x \in Infos(id) : x.tmp2 # None => x.tmp2 \in Frame /\ o[x.tmp2] = ScratchOwner(id, x.pid)
    BY <1>6 DEF Claims, ScratchOwned, ScratchClaim
  <1>13. \A q \in alive : \A r \in Slot : \A x \in Infos(id) : Gets(x, q, r) => t[q][r] = RegionOwner(id)
    <2>1. 0 \notin Slot BY SlotAssumption DEF Slot
    <2> QED BY <1>6, <2>1 DEF Claims, UsersOwned, Gets
  (* Owners the deletion does not concern *)
  <1>14. \A w : w # Nobody /\ w # RegionOwner(id) /\ (\A q : w # ScratchOwner(id, q)) => Kept(o, oo, t, tt, w)
    <2> SUFFICES ASSUME NEW w, w # Nobody, w # RegionOwner(id), \A q : w # ScratchOwner(id, q)
                 PROVE  Kept(o, oo, t, tt, w)
      OBVIOUS
    <2>1. ASSUME NEW g \in Frame, o[g] = w PROVE oo[g] = w
      <3>1. g # region[id].phys BY <1>7, <2>1
      <3>2. \A x \in Infos(id) : x.tmp2 # g
        <4>1. None \notin Frame BY FrameAssumption DEF Physical
        <4> QED BY <1>12, <2>1, <4>1
      <3> QED BY <1>9, <2>1, <3>1, <3>2 DEF FramesAfter
    <2>2. ASSUME NEW q \in alive', NEW r \in Slot, t[q][r] = w
          PROVE  tt[q][r] = w /\ map'[q][r] = map[q][r]
      <3>1. q \in alive /\ q \in Process BY <1>0, <1>2
      <3>2. \A x \in Infos(id) : ~Gets(x, q, r) BY <1>13, <2>2, <3>1
      <3> QED BY <1>10, <1>11, <2>2, <3>1, <3>2 DEF SlotsAfter
    <2> QED BY <2>1, <2>2 DEF Kept
  <1>15. FreeUnowned(oo)'
    <2> SUFFICES ASSUME NEW g \in Frame, g \notin used' PROVE oo[g] = Nobody
      BY DEF FreeUnowned
    <2>1. CASE g = region[id].phys BY <1>9, <2>1 DEF FramesAfter
    <2>2. CASE g # region[id].phys
      <3>1. o[g] = Nobody BY <1>6, <1>8, <2>2 DEF Claims, FreeUnowned
      <3>2. \A x \in Infos(id) : x.tmp2 # g
        <4>1. None \notin Frame BY FrameAssumption DEF Physical
        <4> QED BY <1>12, <3>1, <4>1, OwnersDiffer
      <3> QED BY <1>9, <2>2, <3>1, <3>2 DEF FramesAfter
    <2> QED BY <2>1, <2>2
  <1>16. AllocOwned(oo, tt)'
    <2>1. \A q \in alive' : \A k \in alloc'[q] :
             AllocClaim(oo, tt, q, k)' \/ (k \in alloc[q] /\ Kept(o, oo, t, tt, AllocOwner(q, k)))
      <3> TAKE q \in alive'
      <3> TAKE k \in alloc'[q]
      <3>1. Kept(o, oo, t, tt, AllocOwner(q, k)) BY <1>14, OwnersDiffer
      <3> QED BY <1>2, <3>1
    <2> QED BY <2>1, <1>0, <1>2, <1>6, AllocsKept
  <1>17. StackOwned(oo, tt)'
    <2>1. \A q, r : Kept(o, oo, t, tt, StackOwner(q, r)) BY <1>14, OwnersDiffer
    <2> QED BY <2>1, <1>0, <1>2, <1>6, StacksKept
  <1>18. RegionOwned(oo)'
    <2> SUFFICES ASSUME NEW j \in Id, region'[j] # NoRegion
                 PROVE  /\ region'[j].internal <=> region'[j].phys \in Frame
                        /\ region'[j].phys \in Frame => oo[region'[j].phys] = RegionOwner(j)
      BY DEF RegionOwned
    <2>1. j # id /\ region'[j] = region[j] BY <1>3
    <2>2. Kept(o, oo, t, tt, RegionOwner(j)) BY <2>1, <1>14, OwnersDiffer
    <2> QED BY <2>1, <2>2, <1>6, KeptRegion
  <1>19. UsersOwned(tt)'
    <2> SUFFICES ASSUME NEW j \in Id, NEW x \in Infos(j)', x.pid \in alive, x.virt # 0
                 PROVE  map'[x.pid][x.virt] = region'[j].phys /\ tt[x.pid][x.virt] = RegionOwner(j)
      BY <1>2 DEF UsersOwned
    <2>1. j # id /\ region'[j] = region[j] /\ x \in Infos(j) BY <1>3
    <2>2. Kept(o, oo, t, tt, RegionOwner(j)) BY <2>1, <1>14, OwnersDiffer
    <2>3. x.pid \in alive' BY <1>2
    <2>4. map'[x.pid][x.virt] = region[j].phys /\ tt[x.pid][x.virt] = RegionOwner(j)
      BY <2>1, <2>2, <2>3, <1>0, <1>6, KeptUser
    <2> QED BY <2>1, <2>4
  <1>20. ScratchOwned(oo)'
    <2> SUFFICES ASSUME NEW j \in Id, NEW x \in Infos(j)' PROVE ScratchClaim(oo, j, x)
      BY DEF ScratchOwned, ScratchClaim
    <2>1. j # id /\ x \in Infos(j) BY <1>3
    <2>2. Kept(o, oo, t, tt, ScratchOwner(j, x.pid)) BY <2>1, <1>14, OwnersDiffer
    <2> QED BY <2>1, <2>2, <1>6, KeptScratch
  <1>21. EmptyUnowned(tt)'
    <2> SUFFICES ASSUME NEW q \in alive, NEW r \in Slot, map'[q][r] = None PROVE tt[q][r] = Nobody
      BY <1>2 DEF EmptyUnowned
    <2>0. q \in Process BY <1>0
    <2>1. \A x \in Infos(id) : ~Gets(x, q, r) BY <1>11, <2>0 DEF Gets
    <2>2. map[q][r] = None /\ tt[q][r] = t[q][r] BY <1>10, <1>11, <2>0, <2>1 DEF SlotsAfter
    <2> QED BY <2>2, <1>6 DEF Claims, EmptyUnowned
  <1>22. OwnedInPlace(tt)'
    <2> SUFFICES ASSUME NEW q \in alive, NEW r \in Slot PROVE InPlace(q, r, tt[q][r])
      BY <1>2 DEF OwnedInPlace, InPlace
    <2>0. q \in Process BY <1>0
    <2>1. CASE \A x \in Infos(id) : ~Gets(x, q, r)
      <3>1. tt[q][r] = t[q][r] BY <1>10, <2>0, <2>1 DEF SlotsAfter
      <3> QED BY <3>1, <1>6 DEF Claims, OwnedInPlace
    <2>2. CASE \E x \in Infos(id) : Gets(x, q, r)
      <3>1. tt[q][r] = PageOwner(q, r) BY <1>10, <2>0, <2>2 DEF SlotsAfter
      <3> QED BY <3>1 DEF InPlace
    <2> QED BY <2>1, <2>2
  <1>23. PagesOwned(oo, tt)'
    <2> SUFFICES ASSUME NEW q \in alive \ excused, NEW r \in Slot, map'[q][r] \in Frame
                 PROVE  tt[q][r] # Nobody /\ oo[map'[q][r]] = tt[q][r]
      BY <1>2 DEF PagesOwned
    <2>0. q \in Process BY <1>0
    <2>1. CASE \A x \in Infos(id) : ~Gets(x, q, r)
      <3>1. map'[q][r] = map[q][r] /\ tt[q][r] = t[q][r] BY <1>10, <1>11, <2>0, <2>1 DEF SlotsAfter
      <3>2. t[q][r] # Nobody /\ o[map[q][r]] = t[q][r] BY <3>1, <1>6 DEF Claims, PagesOwned
      <3>3. t[q][r] # RegionOwner(id) BY <1>6, <2>1, AllServed
      <3>4. \A h : t[q][r] # ScratchOwner(id, h)
        <4>1. InPlace(q, r, t[q][r]) BY <1>6 DEF Claims, OwnedInPlace
        <4> QED BY <4>1, OwnersDiffer DEF InPlace
      <3>5. Kept(o, oo, t, tt, t[q][r])
        <4>1. PICK w : w = t[q][r] OBVIOUS
        <4>2. Kept(o, oo, t, tt, w) BY <1>14, <3>2, <3>3, <3>4, <4>1
        <4> QED BY <4>1, <4>2
      <3>6. oo[map[q][r]] = t[q][r] BY <3>1, <3>2, <3>5 DEF Kept
      <3> QED BY <3>1, <3>2, <3>6
    <2>2. CASE \E x \in Infos(id) : Gets(x, q, r)
      <3>1. PICK x \in Infos(id) : Gets(x, q, r) BY <2>2
      <3>2. map'[q][r] = x.tmp2 /\ tt[q][r] = PageOwner(q, r)
        BY <1>10, <1>11, <2>0, <3>1 DEF SlotsAfter
      <3>3. x.tmp2 \in Frame /\ o[x.tmp2] = ScratchOwner(id, x.pid) /\ x.pid = q /\ x.virt = r
        BY <1>12, <3>1 DEF Gets
      <3>4. x.tmp2 # region[id].phys BY <1>7, <3>3, OwnersDiffer
      <3>5. oo[x.tmp2] = PageOwner(x.pid, x.virt) BY <1>9, <3>3, <3>4 DEF FramesAfter
      <3> QED BY <3>2, <3>3, <3>5, OwnersDiffer
    <2> QED BY <2>1, <2>2
  <1>24. SlotsListed(tt)'
    <2> SUFFICES ASSUME NEW q \in alive \ excused, NEW r \in Slot, NEW j \in Id, tt[q][r] = RegionOwner(j)
                 PROVE  \E x \in Infos(j)' : x.pid = q /\ x.virt = r
      BY <1>2 DEF SlotsListed
    <2>0. q \in Process BY <1>0
    <2>1. \A x \in Infos(id) : ~Gets(x, q, r) BY <1>10, <2>0, OwnersDiffer DEF SlotsAfter
    <2>2. t[q][r] = RegionOwner(j) BY <1>10, <2>0, <2>1 DEF SlotsAfter
    <2>3. j # id BY <1>6, <2>1, <2>2, AllServed
    <2>4. PICK x \in Infos(j) : x.pid = q /\ x.virt = r BY <1>6, <2>2 DEF Claims, SlotsListed
    <2> QED BY <1>3, <2>3, <2>4
  <1>25. Owned'
    <2>1. Claims(oo, tt)'
      BY <1>15, <1>16, <1>17, <1>18, <1>19, <1>20, <1>21, <1>22, <1>23, <1>24 DEF Claims
    <2> QED BY <2>1 DEF Owned
  <1>26. SpaceTypeOK'
    <2>1. map' \in [Process -> [Slot -> Physical \cup {None}]]
      <3>1. PICK F : map' = [q \in Process |-> [r \in Slot |-> F[q][r]]]
        <4>1. PICK F : F = map' OBVIOUS
        <4>2. map' = [q \in Process |-> [r \in Slot |-> map'[q][r]]] BY FinishMaps DEF FinalMap
        <4> QED BY <4>1, <4>2
      <3>2. \A q \in Process : \A r \in Slot : map'[q][r] \in Physical \cup {None}
        <4> TAKE q \in Process
        <4> TAKE r \in Slot
        <4>1. map[q][r] \in Physical \cup {None} BY <1>0 DEF SpaceTypeOK
        <4>2. \A x \in Infos(id) : x.tmp2 \in Physical \cup {None}
          <5>1. \A x \in Infos(id) : x \in Info BY <1>0, RegionTypes
          <5> QED BY <5>1 DEF Info, Physical
        <4> QED BY <1>11, <4>1, <4>2
      <3>3. \A q \in Process : \A r \in Slot : F[q][r] \in Physical \cup {None} BY <3>1, <3>2
      <3> QED BY <3>1, <3>3
    <2>2. lock' \in [Process -> Id \cup {None}]
      <3>1. lock \in [Process -> Id \cup {None}] BY <1>0 DEF SpaceTypeOK
      <3> QED BY <3>1 DEF DeleteFinish
    <2>3. freedTwice' \in BOOLEAN BY DEF DeleteFinish, FreeFrames
    <2>4. used' \subseteq Frame BY <1>0, <1>8 DEF SpaceTypeOK
    <2> QED BY <1>0, <1>2, <1>3, <2>1, <2>2, <2>3, <2>4 DEF SpaceTypeOK
  <1> QED BY <1>4, <1>5, <1>8, <1>25, <1>26 DEF SpaceInv

---------------------------------------------------------------------------
(* The theorems about address spaces                                       *)

LEMMA SpaceInitInv ==
    ASSUME SpaceInit
    PROVE  SpaceInv
  <1>1. SpaceTypeOK
    <2>1. 0 \in 0 .. Slots BY SlotAssumption
    <2> QED BY <2>1 DEF SpaceInit, SpaceTypeOK
  <1>2. \A id \in Id : region[id] = NoRegion /\ Infos(id) = {} BY DEF SpaceInit, Infos
  <1>3. ListedOnce /\ UserRecords BY <1>2 DEF ListedOnce, UserRecords
  <1>4. FreedOnce BY DEF SpaceInit, FreedOnce
  <1>5. PICK o : o = [g \in Frame |-> Nobody] OBVIOUS
  <1>6. PICK t : t = [p \in Process |-> [s \in Slot |-> Nobody]] OBVIOUS
  <1>7. alive = Process /\ \A p \in Process : alloc[p] = {} /\ stack[p] = 0 BY DEF SpaceInit
  <1>8. \A p \in Process : \A s \in Slot : map[p][s] = None /\ t[p][s] = Nobody BY <1>6 DEF SpaceInit
  <1>9. None \notin Frame BY FrameAssumption DEF Physical
  <1>10. FreeUnowned(o) BY <1>5 DEF FreeUnowned
  <1>11. AllocOwned(o, t) /\ StackOwned(o, t) BY <1>7 DEF AllocOwned, StackOwned
  <1>12. RegionOwned(o) /\ UsersOwned(t) /\ ScratchOwned(o)
    BY <1>2 DEF RegionOwned, UsersOwned, ScratchOwned
  <1>13. EmptyUnowned(t) /\ OwnedInPlace(t) BY <1>7, <1>8 DEF EmptyUnowned, OwnedInPlace, InPlace
  <1>14. PagesOwned(o, t) BY <1>7, <1>8, <1>9 DEF PagesOwned
  <1>15. SlotsListed(t) BY <1>7, <1>8, OwnersDiffer DEF SlotsListed
  <1>16. Owned BY <1>10, <1>11, <1>12, <1>13, <1>14, <1>15 DEF Owned, Claims
  <1> QED BY <1>1, <1>3, <1>4, <1>16 DEF SpaceInv

LEMMA SpaceStutter ==
    ASSUME SpaceInv, UNCHANGED memoryVars
    PROVE  SpaceInv'
  <1>1. UNCHANGED <<used, alive, map, alloc, stack, region, lock, freedTwice, excused>> BY DEF memoryVars
  <1>2. SpaceTypeOK' BY <1>1 DEF SpaceInv, SpaceTypeOK
  <1>3. ListedOnce' /\ UserRecords' /\ \A id \in Id : Infos(id)' = Infos(id) BY <1>1, RegionsSame
  <1>4. FreedOnce' BY <1>1 DEF SpaceInv, FreedOnce
  <1>5. PICK o, t : Claims(o, t) BY DEF SpaceInv, Owned
  <1>6. FreeUnowned(o)' BY <1>1, <1>5 DEF Claims, FreeUnowned
  <1>7. AllocOwned(o, t)' BY <1>1, <1>5 DEF Claims, AllocOwned, AllocClaim
  <1>8. StackOwned(o, t)' BY <1>1, <1>5 DEF Claims, StackOwned
  <1>9. RegionOwned(o)' BY <1>1, <1>5 DEF Claims, RegionOwned
  <1>10. UsersOwned(t)' BY <1>1, <1>3, <1>5 DEF Claims, UsersOwned
  <1>11. ScratchOwned(o)' BY <1>3, <1>5 DEF Claims, ScratchOwned
  <1>12. EmptyUnowned(t)' BY <1>1, <1>5 DEF Claims, EmptyUnowned
  <1>13. OwnedInPlace(t)' BY <1>1, <1>5 DEF Claims, OwnedInPlace, InPlace
  <1>14. PagesOwned(o, t)' BY <1>1, <1>5 DEF Claims, PagesOwned
  <1>15. SlotsListed(t)' BY <1>1, <1>3, <1>5 DEF Claims, SlotsListed
  <1>16. Claims(o, t)'
    BY <1>6, <1>7, <1>8, <1>9, <1>10, <1>11, <1>12, <1>13, <1>14, <1>15 DEF Claims
  <1>17. Owned' BY <1>16 DEF Owned
  <1> QED BY <1>2, <1>3, <1>4, <1>17 DEF SpaceInv

LEMMA SpaceNextInv ==
    ASSUME SpaceInv, [SpaceNext]_memoryVars
    PROVE  SpaceInv'
  <1>1. ASSUME NEW p \in Process, user_alloc(p) PROVE SpaceInv' BY <1>1, UserAllocStep
  <1>2. ASSUME NEW p \in Process, user_map(p) PROVE SpaceInv' BY <1>2, UserMapStep
  <1>3. ASSUME NEW p \in Process, NEW a \in 0 .. Slots, user_free(p, a) PROVE SpaceInv'
    BY <1>3, UserFreeStep
  <1>4. ASSUME NEW p \in Process, new_thread(p) PROVE SpaceInv' BY <1>4, NewThreadStep
  <1>5. ASSUME NEW p \in Process, delete_thread(p) PROVE SpaceInv' BY <1>5, DeleteThreadStep
  <1>6. ASSUME NEW p \in Process, delete_process(p) PROVE SpaceInv' BY <1>6, DeleteProcessStep
  <1>7. ASSUME NEW p \in Process, NEW id \in Id, NEW promiscuous \in Promiscuous,
               shmem_create(p, id, promiscuous) \/ shmem_create_direct(p, id, promiscuous)
        PROVE  SpaceInv'
    BY <1>7, CreateStep
  <1>8. ASSUME NEW p \in Process, NEW id \in Id, NEW q \in Process, shmem_grant(p, id, q) PROVE SpaceInv'
    BY <1>8, GrantStep
  <1>9. ASSUME NEW p \in Process, NEW id \in Id, NEW q \in Process, shmem_revoke(p, id, q) PROVE SpaceInv'
    BY <1>9, RevokeStep
  <1>10. ASSUME NEW p \in Process, NEW id \in Id, shmem_request(p, id) PROVE SpaceInv' BY <1>10, RequestStep
  <1>11. ASSUME NEW p \in Process, NEW id \in Id, shmem_release(p, id) PROVE SpaceInv' BY <1>11, ReleaseStep
  <1>12. ASSUME NEW p \in Process, NEW id \in Id, shmem_delete(p, id) PROVE SpaceInv' BY <1>12, DeleteStep
  <1>13. ASSUME NEW id \in Id, DeleteCheckout(id) PROVE SpaceInv' BY <1>13, CheckoutStep
  <1>14. ASSUME NEW id \in Id, DeleteFinish(id) PROVE SpaceInv' BY <1>14, FinishStep
  <1>15. CASE UNCHANGED memoryVars BY <1>15, SpaceStutter
  <1>16. CASE SpaceNext
    BY <1>1, <1>2, <1>3, <1>4, <1>5, <1>6, <1>7, <1>8, <1>9, <1>10, <1>11, <1>12, <1>13, <1>14, <1>16
       DEF SpaceNext
  <1> QED BY <1>15, <1>16

(* Every frame in use has one owner, and so has every page that a process  *)
(* has mapped, whatever ualloc.c, shmem.c and the threads' stacks do, in   *)
(* any order and between the parts of a shmem_delete.                      *)
THEOREM Ownership == SpaceSpec => []SpaceInv
  <1>1. SpaceInit => SpaceInv BY SpaceInitInv
  <1>2. SpaceInv /\ [SpaceNext]_memoryVars => SpaceInv' BY SpaceNextInv
  <1> QED BY <1>1, <1>2, PTL DEF SpaceSpec

(* The page entries, the records of allocations and the lists of regions   *)
(* keep their types.                                                       *)
THEOREM SpaceTypes == SpaceSpec => []SpaceTypeOK
  <1>1. SpaceInv => SpaceTypeOK BY DEF SpaceInv
  <1> QED BY <1>1, Ownership, PTL

(* No page is freed twice: the assertion of memory_free holds for          *)
(* user_free, delete_process, delete_thread and shmem_delete.              *)
THEOREM NoDoubleFree == SpaceSpec => []FreedOnce
  <1>1. SpaceInv => FreedOnce BY DEF SpaceInv
  <1> QED BY <1>1, Ownership, PTL

LEMMA InvUsersMapped ==
    ASSUME SpaceInv
    PROVE  UsersMapped
  <1>1. PICK o, t : Claims(o, t) BY DEF SpaceInv, Owned
  <1> SUFFICES ASSUME NEW id \in Id, NEW x \in Infos(id), x.usage > 0, x.pid \in alive
               PROVE  x.virt # 0 /\ map[x.pid][x.virt] = region[id].phys
    BY DEF UsersMapped
  <1>2. x.virt # 0 BY DEF SpaceInv, UserRecords, CountsMatch
  <1> QED BY <1>1, <1>2 DEF Claims, UsersOwned

(* Between shmem_request and shmem_release a process finds the region      *)
(* mapped where it was told.                                               *)
THEOREM RequestedIsMapped == SpaceSpec => []UsersMapped
  <1>1. SpaceInv => UsersMapped BY InvUsersMapped
  <1> QED BY <1>1, Ownership, PTL

LEMMA InvNoFreePage ==
    ASSUME SpaceInv
    PROVE  NoFreePageMapped
  <1>1. PICK o, t : Claims(o, t) BY DEF SpaceInv, Owned
  <1> QED BY <1>1 DEF Claims, PagesOwned, FreeUnowned, NoFreePageMapped

(* shmem_revoke, shmem_delete, user_free and delete_thread leave no free   *)
(* page mapped, but in the processes that are known to escape them.        *)
THEOREM FreePagesUnmapped == SpaceSpec => []NoFreePageMapped
  <1>1. SpaceInv => NoFreePageMapped BY InvNoFreePage
  <1> QED BY <1>1, Ownership, PTL

LEMMA InvSharing ==
    ASSUME SpaceInv
    PROVE  SharedOnlyByRegion
  <1>1. PICK o, t : Claims(o, t) BY DEF SpaceInv, Owned
  <1> SUFFICES ASSUME NEW p \in alive \ excused, NEW q \in alive \ excused, p # q,
                      NEW s \in Slot, NEW r \in Slot, map[p][s] = map[q][r], map[p][s] \in Frame
               PROVE  \E id \in Id : /\ region[id] # NoRegion
                                     /\ region[id].phys = map[p][s]
                                     /\ {p, q} \subseteq {x.pid : x \in Infos(id)}
    BY DEF SharedOnlyByRegion
  <1>2. t[p][s] = t[q][r] /\ t[p][s] # Nobody BY <1>1 DEF Claims, PagesOwned
  <1>3. InPlace(p, s, t[p][s]) /\ InPlace(q, r, t[q][r]) BY <1>1 DEF Claims, OwnedInPlace
  <1>4. PICK id \in Id : t[p][s] = RegionOwner(id) BY <1>2, <1>3, OwnersDiffer DEF InPlace
  <1>5. PICK x \in Infos(id) : x.pid = p /\ x.virt = s BY <1>1, <1>4 DEF Claims, SlotsListed
  <1>6. PICK y \in Infos(id) : y.pid = q /\ y.virt = r
    <2>1. t[q][r] = RegionOwner(id) BY <1>2, <1>4
    <2> QED BY <1>1, <2>1 DEF Claims, SlotsListed
  <1>7. region[id] # NoRegion BY DEF Infos
  <1>8. s # 0 BY SlotAssumption DEF Slot
  <1>9. region[id].phys = map[p][s] BY <1>1, <1>5, <1>8 DEF Claims, UsersOwned
  <1> QED BY <1>5, <1>6, <1>7, <1>9

(* Two processes see the same page of the pool only as users of a region   *)
(* that exists and has both in its list.                                   *)
THEOREM OnlyRegionsShare == SpaceSpec => []SharedOnlyByRegion
  <1>1. SpaceInv => SharedOnlyByRegion BY InvSharing
  <1> QED BY <1>1, Ownership, PTL

---------------------------------------------------------------------------
(* physmem.c: the pool                                                     *)

USE SizeAssumption DEF Page, Low, Run

(* The wrap-around of the position, without the modulus *)
LEMMA Wrap ==
    \A n \in Nat \ {0} : \A a \in 0 .. 2 * n - 1 :
        a % n = IF a < n THEN a ELSE a - n
OBVIOUS

LEMMA PosRange ==
    ASSUME TypeOK, i < MAXMAP
    PROVE  /\ pos \in Page
           /\ pos = IF i + lastPage < MAXMAP THEN i + lastPage ELSE i + lastPage - MAXMAP
  <1>1. i + lastPage \in 0 .. 2 * MAXMAP - 1
    BY DEF TypeOK
  <1>2. pos = IF i + lastPage < MAXMAP THEN i + lastPage ELSE i + lastPage - MAXMAP
    <2>1. PICK a \in 0 .. 2 * MAXMAP - 1 : a = i + lastPage BY <1>1
    <2>2. CASE a < MAXMAP
      <3>1. a % MAXMAP = a BY <2>2, Wrap
      <3>2. pos = a BY <2>1, <3>1 DEF pos
      <3> QED BY <2>1, <2>2, <3>2 DEF TypeOK
    <2>3. CASE ~(a < MAXMAP)
      <3>1. a % MAXMAP = a - MAXMAP BY <2>3, Wrap
      <3>2. pos = a - MAXMAP BY <2>1, <3>1 DEF pos
      <3> QED BY <2>1, <2>3, <3>2 DEF TypeOK
    <2> QED BY <2>2, <2>3
  <1> QED BY <1>2 DEF TypeOK

(* A run of the search lies inside the bitmap.                             *)
LEMMA RunInside ==
    ASSUME TypeOK, i < MAXMAP, ~AtEnd
    PROVE  Run(pos, pages) \subseteq Page
  <1>1. pos \in Page BY PosRange
  <1> QED BY <1>1 DEF AtEnd, TypeOK

LEMMA PagesFinite == \A s \in SUBSET Page : IsFiniteSet(s) /\ Cardinality(s) \in Nat
  <1>1. IsFiniteSet(Page) BY FS_Interval
  <1> QED BY <1>1, FS_Subset, FS_CardinalityType

---------------------------------------------------------------------------
(* The pages somebody has are neither page 0 nor those of the modules.     *)
Owners == handed \cap modules = {} /\ 0 \notin handed \cup modules

(* How far behind the beginning of the search page b lies, cyclically *)
Off(b) == IF b >= lastPage THEN b - lastPage ELSE b + MAXMAP - lastPage

(* The invariant of the loop: no run begins where the search has been.      *)
NoRunPassed ==
    pages # 0 =>
        \A b \in Page : b + 2 >= pages /\ Off(b) < i => ~FreeRun(b)

Inv == TypeOK /\ Owners /\ NoRunPassed

LEMMA InitInv == Init => Inv
  <1> SUFFICES ASSUME Init PROVE Inv OBVIOUS
  <1>1. PICK available \in SUBSET Page : init_memory(available) BY DEF Init
  <1>2. Cardinality(available) \in Nat BY PagesFinite
  <1>3. Cardinality(ModulePages) \in Nat BY PagesFinite, ImageAssumption
  <1>4. freePages \in Int BY <1>1, <1>2, <1>3 DEF init_memory
  <1>5. bitmap \subseteq Page /\ ModulePages \subseteq bitmap
    BY <1>1, ImageAssumption DEF init_memory
  <1>6. TypeOK
    <2>1. halted \in BOOLEAN BY DEF Init
    <2> QED BY <2>1, <1>4, <1>5 DEF Init, TypeOK
  <1>7. Owners BY ImageAssumption DEF Init, Owners
  <1> QED BY <1>6, <1>7 DEF Inv, NoRunPassed, Init

LEMMA NextTypeOK == TypeOK /\ Owners /\ [Next]_vars => TypeOK' /\ Owners'
  <1> SUFFICES ASSUME TypeOK, Owners, [Next]_vars PROVE TypeOK' /\ Owners' OBVIOUS
  <1>1. ASSUME NEW n \in 1 .. MaxPages, memory_alloc(n) PROVE TypeOK' /\ Owners'
    BY <1>1 DEF TypeOK, Owners, memory_alloc
  <1>2. CASE SkipTail
    BY <1>2 DEF TypeOK, Owners, SkipTail
  <1>3. CASE SkipSet
    BY <1>3 DEF TypeOK, Owners, SkipSet
  <1>4. CASE Found
    <2>1. Run(pos, pages) \subseteq Page /\ pos \in Page
      BY <1>4, RunInside, PosRange DEF Found
    <2>2. lastPage' \in 0 .. MAXMAP BY <1>4, <2>1 DEF Found, AtEnd, TypeOK
    <2>3. handed' \subseteq bitmap' /\ bitmap' \subseteq Page BY <1>4, <2>1 DEF Found, TypeOK
    <2>4. Owners'
      <3>1. Run(pos, pages) \cap modules = {} BY <1>4 DEF Found, TypeOK
      <3>2. pos # 0 => 0 \notin Run(pos, pages) BY <2>1 DEF TypeOK
      <3> QED BY <1>4, <3>1, <3>2 DEF Found, Owners
    <2> QED BY <1>4, <2>2, <2>3, <2>4 DEF TypeOK, Found
  <1>5. CASE NotFound
    BY <1>5 DEF TypeOK, Owners, NotFound
  <1>6. ASSUME NEW b \in Page, NEW n \in 1 .. MaxPages, memory_free(b, n)
        PROVE  TypeOK' /\ Owners'
    <2>1. halted' \in BOOLEAN BY <1>6 DEF TypeOK, memory_free
    <2>2. freePages' \in Int BY <1>6 DEF TypeOK, memory_free
    <2>3. bitmap' \subseteq Page /\ modules' \subseteq bitmap' /\ handed' \subseteq bitmap'
      BY <1>6 DEF TypeOK, Owners, memory_free
    <2> QED BY <2>1, <2>2, <2>3, <1>6 DEF TypeOK, Owners, memory_free, requestVars
  <1>7. CASE delete_page_directory
    <2>1. halted' \in BOOLEAN BY <1>7 DEF delete_page_directory
    <2> QED BY <2>1, <1>7 DEF TypeOK, Owners, delete_page_directory, requestVars
  <1>8. CASE internal_reserve
    <2>1. Cardinality(modules) \in Nat BY PagesFinite DEF TypeOK
    <2>2. bitmap' \subseteq Page /\ modules' \subseteq bitmap' /\ handed' \subseteq bitmap'
      BY <1>8 DEF TypeOK, Owners, internal_reserve
    <2> QED BY <1>8, <2>1, <2>2 DEF TypeOK, Owners, internal_reserve, requestVars
  <1>9. CASE UNCHANGED vars
    BY <1>9 DEF TypeOK, Owners, vars, requestVars
  <1> QED
    BY <1>1, <1>2, <1>3, <1>4, <1>5, <1>6, <1>7, <1>8, <1>9 DEF Next, Search, Refuse

---------------------------------------------------------------------------
(* Where the search has been, as a distance from its beginning *)
LEMMA OffBehind ==
    ASSUME TypeOK, i < MAXMAP, NEW b \in Page, NEW k \in Nat, Off(b) = i + k
    PROVE  b = pos + k \/ b = pos + k - MAXMAP
  BY PosRange DEF Off, TypeOK

(* Each round of the search passes only positions where no run begins.     *)
LEMMA NextSearch == Inv /\ [Next]_vars => NoRunPassed'
  <1> SUFFICES ASSUME Inv, [Next]_vars PROVE NoRunPassed' OBVIOUS
  <1>0. TypeOK /\ NoRunPassed BY DEF Inv
  <1>1. ASSUME NEW n \in 1 .. MaxPages, memory_alloc(n) PROVE NoRunPassed'
    BY <1>0, <1>1 DEF memory_alloc, NoRunPassed, Off, TypeOK
  <1>2. CASE SkipTail
    <2> SUFFICES ASSUME NEW b \in Page, b + 2 >= pages, Off(b) < i + pages - 1
                 PROVE  ~FreeRun(b)
      BY <1>2 DEF SkipTail, NoRunPassed, Off, FreeRun
    <2>1. CASE Off(b) < i
      BY <1>0, <1>2, <2>1 DEF NoRunPassed, SkipTail
    <2>2. CASE Off(b) >= i
      <3>1. PICK k \in Nat : Off(b) = i + k /\ k < pages - 1
        <4>1. Off(b) \in Int BY <1>0 DEF Off, TypeOK
        <4>2. Off(b) - i \in Nat /\ Off(b) = i + (Off(b) - i) /\ Off(b) - i < pages - 1
          BY <1>0, <2>2, <4>1 DEF TypeOK
        <4> QED BY <4>2
      <3>2. pos \in Page BY <1>0, <1>2, PosRange DEF SkipTail
      <3>3. b = pos + k \/ b = pos + k - MAXMAP
        BY <1>0, <1>2, <3>1, OffBehind DEF SkipTail
      <3>4. CASE b = pos + k
        <4>1. b + pages - 1 \in Run(b, pages) /\ b + pages - 1 \notin Page
          BY <1>0, <1>2, <3>1, <3>2, <3>4 DEF SkipTail, AtEnd, TypeOK
        <4> QED BY <4>1 DEF FreeRun
      <3>5. CASE b = pos + k - MAXMAP
        BY <1>0, <3>1, <3>2, <3>5 DEF TypeOK
      <3> QED BY <3>3, <3>4, <3>5
    <2>3. Off(b) \in Int BY <1>0 DEF Off, TypeOK
    <2> QED BY <1>0, <2>1, <2>2, <2>3 DEF TypeOK
  <1>3. CASE SkipSet
    <2>1. PICK j \in 0 .. pages - 1 : pos + j \in bitmap /\ i' = i + j + 1
      BY <1>3 DEF SkipSet
    <2> SUFFICES ASSUME NEW b \in Page, b + 2 >= pages, Off(b) < i + j + 1
                 PROVE  ~FreeRun(b)
      BY <1>3, <2>1 DEF SkipSet, NoRunPassed, Off, FreeRun
    <2>2. CASE Off(b) < i
      BY <1>0, <1>3, <2>2 DEF NoRunPassed, SkipSet
    <2>3. CASE Off(b) >= i
      <3>1. PICK k \in Nat : Off(b) = i + k /\ k <= j
        <4>1. Off(b) \in Int BY <1>0 DEF Off, TypeOK
        <4>2. Off(b) - i \in Nat /\ Off(b) = i + (Off(b) - i) /\ Off(b) - i <= j
          BY <1>0, <2>3, <4>1 DEF TypeOK
        <4> QED BY <4>2
      <3>2. pos \in Page BY <1>0, <1>3, PosRange DEF SkipSet
      <3>3. b = pos + k \/ b = pos + k - MAXMAP
        BY <1>0, <1>3, <3>1, OffBehind DEF SkipSet
      <3>4. CASE b = pos + k
        <4>1. pos + j \in Run(b, pages)
          BY <1>0, <3>1, <3>2, <3>4 DEF TypeOK
        <4> QED BY <2>1, <4>1 DEF FreeRun
      <3>5. CASE b = pos + k - MAXMAP
        BY <1>0, <1>3, <3>1, <3>2, <3>5 DEF TypeOK, SkipSet, AtEnd
      <3> QED BY <3>3, <3>4, <3>5
    <2>4. Off(b) \in Int BY <1>0 DEF Off, TypeOK
    <2> QED BY <1>0, <2>2, <2>3, <2>4 DEF TypeOK
  <1>4. CASE Found BY <1>4 DEF Found, NoRunPassed
  <1>5. CASE NotFound BY <1>5 DEF NotFound, NoRunPassed
  <1>6. ASSUME NEW b \in Page, NEW n \in 1 .. MaxPages, memory_free(b, n) PROVE NoRunPassed'
    BY <1>6 DEF memory_free, Idle, requestVars, NoRunPassed
  <1>7. CASE delete_page_directory
    BY <1>7 DEF delete_page_directory, Idle, requestVars, NoRunPassed
  <1>8. CASE internal_reserve
    BY <1>8 DEF internal_reserve, Idle, requestVars, NoRunPassed
  <1>9. CASE UNCHANGED vars
    BY <1>0, <1>9 DEF vars, requestVars, NoRunPassed, Off, FreeRun
  <1> QED
    BY <1>1, <1>2, <1>3, <1>4, <1>5, <1>6, <1>7, <1>8, <1>9 DEF Next, Search, Refuse

THEOREM Invariant == Spec => []Inv
  <1>1. Inv /\ [Next]_vars => Inv' BY NextTypeOK, NextSearch DEF Inv
  <1> QED BY <1>1, InitInv, PTL DEF Spec

(* The search of memory_multiple_alloc gives up only when there is no free  *)
(* run of the length asked for (from page pages - 2 on).                    *)
THEOREM SearchComplete == Spec => []NoRunMissed
  <1>1. Inv => NoRunMissed
    <2> SUFFICES ASSUME Inv, pages # 0, i >= MAXMAP, NEW b \in Page, b + 2 >= pages
                 PROVE  ~FreeRun(b)
      BY DEF NoRunMissed
    <2>1. Off(b) < i BY DEF Off, Inv, TypeOK
    <2> QED BY <2>1 DEF Inv, NoRunPassed
  <1> QED BY <1>1, Invariant, PTL

---------------------------------------------------------------------------
(* The bitmap with its search implements the abstract pool: no page is      *)
(* handed out that somebody has.                                            *)
THEOREM PoolRefinement == Spec => ImplementsPagePool
  <1>1. Init => Pool!Init
    BY InitInv DEF Init, Inv, TypeOK, Pool!Init, Pool!Page
  <1>2. Inv /\ [Next]_vars => [Pool!Next]_<<bitmap, handed>>
    <2> SUFFICES ASSUME Inv, [Next]_vars PROVE [Pool!Next]_<<bitmap, handed>> OBVIOUS
    <2>0. TypeOK /\ Owners BY DEF Inv
    <2>1. ASSUME NEW n \in 1 .. MaxPages, memory_alloc(n) PROVE UNCHANGED <<bitmap, handed>>
      BY <2>1 DEF memory_alloc
    <2>2. CASE SkipTail \/ SkipSet \/ NotFound
      BY <2>2 DEF SkipTail, SkipSet, NotFound
    <2>3. CASE Found
      <3>1. pos \in Page /\ Run(pos, pages) \subseteq Page \ bitmap
        BY <2>0, <2>3, PosRange, RunInside DEF Found
      <3>2. pages \in 1 .. MAXMAP BY <2>0, <2>3 DEF Found, TypeOK
      <3> QED BY <2>3, <3>1, <3>2 DEF Found, Pool!Next, Pool!Acquire, Pool!Run, Pool!Page
    <2>4. ASSUME NEW b \in Page, NEW n \in 1 .. MaxPages, memory_free(b, n) PROVE Pool!Next
      <3>1. Run(b, n) \in SUBSET bitmap BY <2>0, <2>4 DEF memory_free, TypeOK
      <3> QED BY <2>4, <3>1 DEF memory_free, Pool!Next, Pool!Release
    <2>5. CASE delete_page_directory
      <3>1. CASE 0 \in bitmap
        <4>1. {0} \in SUBSET bitmap BY <3>1
        <4>2. handed' = handed \ {0} BY <2>0, <2>5 DEF delete_page_directory, Owners
        <4>3. bitmap' = bitmap \ {0} BY <2>5 DEF delete_page_directory
        <4> QED BY <4>1, <4>2, <4>3 DEF Pool!Next, Pool!Release
      <3>2. CASE 0 \notin bitmap
        BY <2>5, <3>2 DEF delete_page_directory
      <3> QED BY <3>1, <3>2
    <2>6. CASE internal_reserve
      <3>1. modules \in SUBSET bitmap BY <2>0 DEF TypeOK
      <3>2. handed' = handed \ modules BY <2>0, <2>6 DEF internal_reserve, Owners
      <3>3. bitmap' = bitmap \ modules BY <2>6 DEF internal_reserve
      <3> QED BY <3>1, <3>2, <3>3 DEF Pool!Next, Pool!Release
    <2>7. CASE UNCHANGED vars
      BY <2>7 DEF vars
    <2> QED
      BY <2>1, <2>2, <2>3, <2>4, <2>5, <2>6, <2>7 DEF Next, Search, Refuse
  <1> QED BY <1>1, <1>2, Invariant, PTL DEF Spec, ImplementsPagePool, Pool!Spec

---------------------------------------------------------------------------
(* The free pages lose a run, or gain pages that were set.                 *)
LEMMA FreeLoses ==
    ASSUME NEW s \in SUBSET Page, NEW r \in SUBSET (Page \ s)
    PROVE  Cardinality(Page \ (s \cup r)) = Cardinality(Page \ s) - Cardinality(r)
  <1>1. IsFiniteSet(Page \ s) BY PagesFinite
  <1>2. Page \ (s \cup r) = (Page \ s) \ r /\ (Page \ s) \cap r = r OBVIOUS
  <1> QED BY <1>1, <1>2, FS_Difference

LEMMA FreeGains ==
    ASSUME NEW s \in SUBSET Page, NEW r \in SUBSET s
    PROVE  Cardinality(Page \ (s \ r)) = Cardinality(Page \ s) + Cardinality(r)
  <1>1. Page \ (s \ r) = (Page \ s) \cup r /\ (Page \ s) \cap r = {} OBVIOUS
  <1>2. IsFiniteSet(Page \ s) /\ IsFiniteSet(r) BY PagesFinite
  <1>3. Cardinality((Page \ s) \cup r) =
            Cardinality(Page \ s) + Cardinality(r) - Cardinality((Page \ s) \cap r)
    BY <1>2, FS_Union
  <1>4. Cardinality((Page \ s) \cap r) = 0 BY <1>1, FS_EmptySet
  <1>5. Cardinality(Page \ s) \in Nat /\ Cardinality(r) \in Nat BY PagesFinite
  <1>6. Cardinality((Page \ s) \cup r) = Cardinality(Page \ s) + Cardinality(r)
    BY <1>3, <1>4, <1>5
  <1>7. Page \ (s \ r) = (Page \ s) \cup r BY <1>1
  <1> HIDE DEF Page
  <1> QED BY ONLY <1>6, <1>7

(* The bits and s_freePages move together in every call, for every size.    *)
THEOREM CountDrift == Spec => CountDriftConstant
  <1>1. ASSUME Inv, [Next]_vars, ~halted'
        PROVE  freePages' - Cardinality(Page \ bitmap') = freePages - Cardinality(Page \ bitmap)
    <2>0. TypeOK /\ Owners BY <1>1 DEF Inv
    <2>a. Cardinality(Page \ bitmap) \in Nat BY PagesFinite
    <2>b. ASSUME UNCHANGED <<bitmap, freePages>>
          PROVE  freePages' - Cardinality(Page \ bitmap') = freePages - Cardinality(Page \ bitmap)
      BY <2>b
    <2>1. ASSUME NEW n \in 1 .. MaxPages, memory_alloc(n) PROVE UNCHANGED <<bitmap, freePages>>
      BY <2>1 DEF memory_alloc
    <2>2. CASE SkipTail \/ SkipSet \/ NotFound
      BY <2>2, <2>b DEF SkipTail, SkipSet, NotFound
    <2>3. CASE Found
      <3>1. pos \in Page /\ Run(pos, pages) \in SUBSET (Page \ bitmap)
        BY <2>0, <2>3, PosRange, RunInside DEF Found
      <3>2. Cardinality(Run(pos, pages)) = pages
        <4>1. pos \in Int /\ pos + pages - 1 \in Int /\ pages \in Nat /\ pages > 0
          BY <2>0, <2>3, <3>1 DEF TypeOK, Found
        <4>2. Cardinality(pos .. pos + pages - 1) =
                IF pos > pos + pages - 1 THEN 0 ELSE (pos + pages - 1) - pos + 1
          BY <4>1, FS_Interval
        <4> QED BY <4>1, <4>2
      <3>3. Cardinality(Page \ bitmap') = Cardinality(Page \ bitmap) - pages
        BY <2>0, <2>3, <3>1, <3>2, FreeLoses DEF Found, TypeOK
      <3>4. freePages' = freePages - pages BY <2>3 DEF Found
      <3> QED BY <2>0, <2>a, <3>3, <3>4 DEF TypeOK
    <2>4. ASSUME NEW b \in Page, NEW n \in 1 .. MaxPages, memory_free(b, n)
          PROVE  freePages' - Cardinality(Page \ bitmap') = freePages - Cardinality(Page \ bitmap)
      <3>1. Run(b, n) \in SUBSET bitmap BY <2>0, <2>4 DEF memory_free, TypeOK
      <3>2. Cardinality(Run(b, n)) = n
        <4>1. b \in Int /\ b + n - 1 \in Int /\ n > 0 /\ n \in Nat OBVIOUS
        <4>2. Cardinality(b .. b + n - 1) = IF b > b + n - 1 THEN 0 ELSE (b + n - 1) - b + 1
          BY <4>1, FS_Interval
        <4> QED BY <4>1, <4>2
      <3>3. Cardinality(Page \ bitmap') = Cardinality(Page \ bitmap) + n
        BY <2>0, <2>4, <3>1, <3>2, FreeGains DEF memory_free, TypeOK
      <3>4. freePages' = freePages + n BY <2>4 DEF memory_free
      <3> QED BY <2>0, <2>a, <3>3, <3>4 DEF TypeOK
    <2>5. CASE delete_page_directory
      <3>1. 0 \in bitmap BY <1>1, <2>5 DEF delete_page_directory
      <3>2. {0} \in SUBSET bitmap BY <3>1
      <3>3. Cardinality({0}) = 1 BY FS_Singleton
      <3>4. Cardinality(Page \ bitmap') = Cardinality(Page \ bitmap) + 1
        BY <2>0, <2>5, <3>2, <3>3, FreeGains DEF delete_page_directory, TypeOK
      <3>5. freePages' = freePages + 1 BY <2>5 DEF delete_page_directory
      <3> QED BY <2>0, <2>a, <3>4, <3>5 DEF TypeOK
    <2>6. CASE internal_reserve
      <3>1. modules \in SUBSET bitmap BY <2>0 DEF TypeOK
      <3>2. Cardinality(modules) \in Nat BY <2>0, PagesFinite DEF TypeOK
      <3>3. Cardinality(Page \ bitmap') = Cardinality(Page \ bitmap) + Cardinality(modules)
        BY <2>0, <2>6, <3>1, FreeGains DEF internal_reserve, TypeOK
      <3>4. freePages' = freePages + Cardinality(modules) BY <2>6 DEF internal_reserve
      <3> QED BY <2>0, <2>a, <3>2, <3>3, <3>4 DEF TypeOK
    <2>7. CASE UNCHANGED vars
      BY <2>7, <2>b DEF vars
    <2> QED
      BY <1>1, <2>b, <2>1, <2>2, <2>3, <2>4, <2>5, <2>6, <2>7 DEF Next, Search, Refuse, vars
  <1>2. Inv /\ [Next]_vars =>
          [~halted' => freePages' - Cardinality(Page \ bitmap') = freePages - Cardinality(Page \ bitmap)]_vars
    BY <1>1
  <1> QED BY <1>2, Invariant, PTL DEF Spec, CountDriftConstant

=============================================================================
