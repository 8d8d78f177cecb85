----------------------------- MODULE IRQProofs -----------------------------
(***************************************************************************)
(* Proofs about interrupts handled in user mode, for any CPUs, lines,      *)
(* handlers and main threads, and any length of a fast queue.              *)
(***************************************************************************)
EXTENDS IRQ, FiniteSetTheorems, TLAPS

USE HomeAssumption, MarkerAssumption

(* The entries of t in a fast queue s *)
Entries(s, t) == {k \in 1..Len(s) : s[k] = t}

LEMMA EntriesFinite ==
    ASSUME NEW s \in Seq(Handler), NEW t
    PROVE  IsFiniteSet(Entries(s, t)) /\ Cardinality(Entries(s, t)) \in Nat
  <1>1. IsFiniteSet(1..Len(s)) BY FS_Interval
  <1>2. IsFiniteSet(Entries(s, t)) BY <1>1, FS_Subset DEF Entries
  <1> QED BY <1>2, FS_CardinalityType

LEMMA EntriesAppend ==
    ASSUME NEW s \in Seq(Handler), NEW e \in Handler, NEW t
    PROVE  Cardinality(Entries(Append(s, e), t)) =
             IF e = t THEN Cardinality(Entries(s, t)) + 1 ELSE Cardinality(Entries(s, t))
  <1> DEFINE n == Len(s) + 1
  <1>1. Entries(Append(s, e), t) = IF e = t THEN Entries(s, t) \cup {n} ELSE Entries(s, t)
    BY DEF Entries
  <1>2. n \notin Entries(s, t) BY DEF Entries
  <1>3. Cardinality(Entries(s, t) \cup {n}) = Cardinality(Entries(s, t)) + 1
    BY <1>2, EntriesFinite, FS_AddElement
  <1> QED BY <1>1, <1>3

LEMMA EntriesTail ==
    ASSUME NEW s \in Seq(Handler), s # <<>>, NEW t
    PROVE  /\ Cardinality(Entries(Tail(s), t)) =
                IF Head(s) = t THEN Cardinality(Entries(s, t)) - 1 ELSE Cardinality(Entries(s, t))
           /\ Head(s) = t => Cardinality(Entries(s, t)) >= 1
  <1> DEFINE S == Entries(Tail(s), t)
             T == Entries(s, t) \ {1}
             f == [k \in S |-> k + 1]
  <1>1. S \subseteq Nat /\ T \subseteq Nat
    BY DEF Entries
  <1>2. f \in Bijection(S, T)
    <2>1. \A k \in S : f[k] \in T BY DEF Entries
    <2>2. \A k \in T : k - 1 \in S /\ f[k - 1] = k BY DEF Entries
    <2>3. \A j, k \in S : f[j] = f[k] => j = k BY <1>1
    <2>4. f \in Injection(S, T) BY <2>1, <2>3 DEF Injection, IsInjective
    <2>5. f \in Surjection(S, T) BY <2>1, <2>2 DEF Surjection
    <2> QED BY <2>4, <2>5 DEF Bijection
  <1>3. IsFiniteSet(S) /\ Cardinality(S) = Cardinality(T)
    <2>1. IsFiniteSet(S)
      <3>1. Tail(s) \in Seq(Handler) OBVIOUS
      <3> QED BY <3>1, EntriesFinite
    <2>2. ExistsBijection(S, T) BY <1>2 DEF ExistsBijection
    <2> QED BY <2>1, <2>2, FS_Bijection
  <1>4. Cardinality(T) = IF 1 \in Entries(s, t) THEN Cardinality(Entries(s, t)) - 1
                         ELSE Cardinality(Entries(s, t))
    BY EntriesFinite, FS_RemoveElement
  <1>5. 1 \in Entries(s, t) <=> Head(s) = t BY DEF Entries
  <1>6. Cardinality(S) \in Nat BY <1>3, FS_CardinalityType
  <1>7. Cardinality(Entries(s, t)) \in Nat BY EntriesFinite
  <1> HIDE DEF S, T
  <1> QED BY <1>3, <1>4, <1>5, <1>6, <1>7 DEF S

---------------------------------------------------------------------------
(* The inductive invariant.  Sound says of fast queues f, counts n and      *)
(* places p what FastCountsExact says, with their types.                    *)
Sound(f, n, p) ==
    /\ f \in [CPU -> Seq(Handler)]
    /\ n \in [Thread -> Nat]
    /\ p \in [Thread -> CPU \cup {NoCpu}]
    /\ \A c \in CPU : \A k \in 1..Len(f[c]) : affinity[f[c][k]] = c
    /\ \A t \in Handler, c \in CPU : affinity[t] = c => n[t] = Cardinality(Entries(f[c], t))
    /\ \A t \in Handler : p[t] = NoCpu <=> n[t] = 0
    /\ \A t \in Handler : affinity[t] = NoCpu => n[t] = 0

(* A thread that was never registered has no CPU of its own.                *)
Affine ==
    /\ affinity \in [Handler -> CPU \cup {NoCpu}]
    /\ \A t \in Handler : pc[t] = "new" => affinity[t] = NoCpu

Hook == [raised : Nat, index : Nat, last : Nat, stubs : Seq(Stub)]

(* The handlers of a line have a CPU, and the line is open for them.        *)
Lines ==
    /\ hook \in [Line -> Hook]
    /\ unmasked \subseteq Line
    /\ MaskFollowsHandlers
    /\ \A i \in Line : \A p \in 1..Len(hook[i].stubs) : affinity[hook[i].stubs[p].tr] \in CPU

(* Between its test and its effect irq_complete has the lock of its line,   *)
(* and the position it computed stays inside the array.                     *)
Places ==
    /\ pc \in [Thread -> {"new", "user", "acked", "complete", "request", "release", "exit"}]
    /\ irq \in [Thread -> Line \cup {NoLine}]
    /\ irq_lock \in [Line -> Thread \cup {Nobody}]
    /\ pos \in [Thread -> Nat]
    /\ \A t \in Thread : pc[t] = "complete" =>
          /\ irq[t] \in Line
          /\ irq_lock[irq[t]] = t
          /\ pos[t] < Len(hook[irq[t]].stubs)

IInv == Sound(fast, fast_queued, cpu) /\ Affine /\ Lines /\ Places

core == <<hook, unmasked, irq_lock, pc, irq, pos, queueVars>>

LEMMA InitIInv == Init => IInv
  <1> SUFFICES ASSUME Init PROVE IInv OBVIOUS
  <1> USE DEF Init, Thread
  <1>1. \A t : Entries(<<>>, t) = {} BY DEF Entries
  <1>2. Cardinality({}) = 0 BY FS_EmptySet
  <1>3. Sound(fast, fast_queued, cpu)
    <2>1. \A c \in CPU : fast[c] = <<>> /\ Len(fast[c]) = 0 OBVIOUS
    <2>2. \A t \in Handler : fast_queued[t] = 0 /\ affinity[t] = NoCpu OBVIOUS
    <2>3. \A t \in Handler : cpu[t] = NoCpu BY ThreadAssumption
    <2>4. cpu \in [Thread -> CPU \cup {NoCpu}] OBVIOUS
    <2> QED BY <2>1, <2>2, <2>3, <2>4, <1>1, <1>2 DEF Sound
  <1>4. Affine BY DEF Affine
  <1>5. Lines BY DEF Lines, Hook, MaskFollowsHandlers, count
  <1>6. Places BY DEF Places
  <1> QED BY <1>3, <1>4, <1>5, <1>6 DEF IInv

LEMMA Stutter ==
    ASSUME IInv, UNCHANGED core
    PROVE  IInv'
  <1>1. Sound(fast, fast_queued, cpu)' BY DEF IInv, Sound, core, queueVars
  <1> QED BY <1>1 DEF IInv, core, queueVars, Affine, Lines, Places, MaskFollowsHandlers, count

---------------------------------------------------------------------------
(* Fast queues: one more entry, one entry less.                             *)
LEMMA QueueSound ==
    ASSUME Affine, NEW f, NEW n, NEW p, Sound(f, n, p),
           NEW t \in Handler, affinity[t] \in CPU
    PROVE  Sound(FastQueued(f, t), [n EXCEPT ![t] = @ + 1], [p EXCEPT ![t] = affinity[t]])
  <1> DEFINE d == affinity[t]
             g == FastQueued(f, t)
             m == [n EXCEPT ![t] = @ + 1]
             q == [p EXCEPT ![t] = affinity[t]]
  <1>1. g \in [CPU -> Seq(Handler)] /\ g[d] = Append(f[d], t) /\ \A c \in CPU \ {d} : g[c] = f[c]
    BY DEF Sound, FastQueued
  <1>2. m \in [Thread -> Nat] /\ m[t] = n[t] + 1 /\ \A u \in Handler \ {t} : m[u] = n[u]
    BY DEF Sound, Thread
  <1>3. q \in [Thread -> CPU \cup {NoCpu}] /\ q[t] = d /\ \A u \in Handler \ {t} : q[u] = p[u]
    BY DEF Sound, Thread
  <1> HIDE DEF g, m, q
  <1>4. ASSUME NEW c \in CPU, NEW k \in 1..Len(g[c]) PROVE affinity[g[c][k]] = c
    <2>1. CASE c = d
      <3>1. f[d] \in Seq(Handler) BY DEF Sound
      <3>2. \/ k = Len(f[d]) + 1 /\ g[c][k] = t
            \/ k \in 1..Len(f[d]) /\ g[c][k] = f[d][k]
        BY <1>1, <1>4, <2>1, <3>1, SMTT(30)
      <3> QED BY <2>1, <3>2 DEF Sound
    <2>2. CASE c # d BY <1>1, <1>4, <2>2 DEF Sound
    <2> QED BY <2>1, <2>2
  <1>5. ASSUME NEW u \in Handler, NEW c \in CPU, affinity[u] = c
        PROVE  m[u] = Cardinality(Entries(g[c], u))
    <2>1. n[u] = Cardinality(Entries(f[c], u)) BY <1>5 DEF Sound
    <2>2. CASE c = d
      <3>1. f[d] \in Seq(Handler) BY DEF Sound
      <3>2. Cardinality(Entries(Append(f[d], t), u)) =
              IF t = u THEN Cardinality(Entries(f[d], u)) + 1 ELSE Cardinality(Entries(f[d], u))
        BY <3>1, EntriesAppend
      <3> QED BY <2>1, <2>2, <3>2, <1>1, <1>2
    <2>3. CASE c # d
      <3>1. u # t BY <2>3, <1>5
      <3> QED BY <2>1, <2>3, <3>1, <1>1, <1>2
    <2> QED BY <2>2, <2>3
  <1>6. \A u \in Handler : q[u] = NoCpu <=> m[u] = 0
    <2>1. n[t] \in Nat BY DEF Sound, Thread
    <2> QED BY <1>2, <1>3, <2>1 DEF Sound
  <1>7. \A u \in Handler : affinity[u] = NoCpu => m[u] = 0
    BY <1>2 DEF Sound
  <1>8. Sound(g, m, q) BY <1>1, <1>2, <1>3, <1>4, <1>5, <1>6, <1>7 DEF Sound
  <1> QED BY <1>8 DEF g, m, q

Popped(f, c) == [f EXCEPT ![c] = Tail(@)]
Fewer(n, t) == [n EXCEPT ![t] = @ - 1]
Leaving(p, n, t) == [p EXCEPT ![t] = IF n[t] = 1 THEN NoCpu ELSE @]

LEMMA DequeueSound ==
    ASSUME Affine, NEW f, NEW n, NEW p, Sound(f, n, p),
           NEW t \in Handler, NEW c \in CPU, f[c] # <<>>, Head(f[c]) = t
    PROVE  Sound(Popped(f, c), Fewer(n, t), Leaving(p, n, t))
  <1> DEFINE g == [f EXCEPT ![c] = Tail(@)]
             m == [n EXCEPT ![t] = @ - 1]
             q == [p EXCEPT ![t] = IF n[t] = 1 THEN NoCpu ELSE @]
  <1>1. f[c] \in Seq(Handler) /\ affinity[t] = c
    <2>1. f[c] \in Seq(Handler) BY DEF Sound
    <2>2. f[c][1] = t /\ 1 \in 1..Len(f[c]) BY <2>1
    <2> QED BY <2>1, <2>2 DEF Sound
  <1>2. n[t] = Cardinality(Entries(f[c], t)) /\ n[t] \in Nat /\ n[t] >= 1
    BY <1>1, EntriesTail DEF Sound, Thread
  <1>3. g \in [CPU -> Seq(Handler)] /\ g[c] = Tail(f[c]) /\ \A b \in CPU \ {c} : g[b] = f[b]
    BY <1>1 DEF Sound
  <1>4. m \in [Thread -> Nat] /\ m[t] = n[t] - 1 /\ \A u \in Handler \ {t} : m[u] = n[u]
    BY <1>2 DEF Sound, Thread
  <1>5. q \in [Thread -> CPU \cup {NoCpu}] /\ \A u \in Handler \ {t} : q[u] = p[u]
    BY DEF Sound, Thread
  <1>6. q[t] = IF n[t] = 1 THEN NoCpu ELSE p[t] BY DEF Sound, Thread
  <1> HIDE DEF g, m, q
  <1>7. ASSUME NEW b \in CPU, NEW k \in 1..Len(g[b]) PROVE affinity[g[b][k]] = b
    <2>1. CASE b = c
      <3>1. k + 1 \in 1..Len(f[c]) /\ g[c][k] = f[c][k + 1] BY <1>1, <1>3, <1>7, <2>1
      <3> QED BY <2>1, <3>1 DEF Sound
    <2>2. CASE b # c BY <1>3, <1>7, <2>2 DEF Sound
    <2> QED BY <2>1, <2>2
  <1>8. ASSUME NEW u \in Handler, NEW b \in CPU, affinity[u] = b
        PROVE  m[u] = Cardinality(Entries(g[b], u))
    <2>1. n[u] = Cardinality(Entries(f[b], u)) BY <1>8 DEF Sound
    <2>2. CASE b = c
      <3>1. Cardinality(Entries(Tail(f[c]), u)) =
              IF Head(f[c]) = u THEN Cardinality(Entries(f[c], u)) - 1
              ELSE Cardinality(Entries(f[c], u))
        BY <1>1, EntriesTail
      <3> QED BY <2>1, <2>2, <3>1, <1>3, <1>4
    <2>3. CASE b # c
      <3>1. u # t BY <1>1, <1>8, <2>3
      <3> QED BY <2>1, <2>3, <3>1, <1>3, <1>4
    <2> QED BY <2>2, <2>3
  <1>9. \A u \in Handler : q[u] = NoCpu <=> m[u] = 0
    <2>1. q[t] = NoCpu <=> m[t] = 0 BY <1>2, <1>4, <1>6 DEF Sound
    <2> QED BY <2>1, <1>4, <1>5 DEF Sound
  <1>10. \A u \in Handler : affinity[u] = NoCpu => m[u] = 0
    BY <1>1, <1>4 DEF Sound
  <1>11. Sound(g, m, q) BY <1>3, <1>4, <1>5, <1>7, <1>8, <1>9, <1>10 DEF Sound
  <1> QED BY <1>11 DEF g, m, q, Popped, Fewer, Leaving

---------------------------------------------------------------------------
(* What a step of thread t leaves alone                                     *)
Places4 ==
    /\ pc \in [Thread -> {"new", "user", "acked", "complete", "request", "release", "exit"}]
    /\ irq \in [Thread -> Line \cup {NoLine}]
    /\ irq_lock \in [Line -> Thread \cup {Nobody}]
    /\ pos \in [Thread -> Nat]

LEMMA PlacesStep ==
    ASSUME Places, Places4', NEW t \in Thread,
           \A u \in Thread \ {t} :
              pc'[u] = "complete" => pc[u] = "complete" /\ irq'[u] = irq[u] /\ pos'[u] = pos[u],
           \A i \in Line : irq_lock[i] \notin {t, Nobody} =>
              irq_lock'[i] = irq_lock[i] /\ Len(hook'[i].stubs) = Len(hook[i].stubs),
           pc'[t] = "complete" =>
              irq'[t] \in Line /\ irq_lock'[irq'[t]] = t /\ pos'[t] < Len(hook'[irq'[t]].stubs)
    PROVE  Places'
  <1>1. ASSUME NEW u \in Thread, pc'[u] = "complete"
        PROVE  irq'[u] \in Line /\ irq_lock'[irq'[u]] = u /\ pos'[u] < Len(hook'[irq'[u]].stubs)
    <2>1. CASE u = t BY <1>1, <2>1
    <2>2. CASE u # t
      <3>1. pc[u] = "complete" /\ irq'[u] = irq[u] /\ pos'[u] = pos[u] BY <1>1, <2>2
      <3>2. irq[u] \in Line /\ irq_lock[irq[u]] = u /\ pos[u] < Len(hook[irq[u]].stubs)
        BY <3>1 DEF Places
      <3>3. irq_lock[irq[u]] \notin {t, Nobody} BY <3>2, <2>2
      <3> QED BY <3>1, <3>2, <3>3
    <2> QED BY <2>1, <2>2
  <1> QED BY <1>1 DEF Places, Places4

(* A step that changes no handler of a line *)
SameHandlers ==
    /\ hook' \in [Line -> Hook]
    /\ \A i \in Line :
          /\ Len(hook'[i].stubs) = Len(hook[i].stubs)
          /\ \A p \in 1..Len(hook[i].stubs) : hook'[i].stubs[p].tr = hook[i].stubs[p].tr

LEMMA KeepLines ==
    ASSUME Lines, SameHandlers, UNCHANGED <<unmasked, affinity>>
    PROVE  Lines'
  BY DEF Lines, SameHandlers, MaskFollowsHandlers, count

LEMMA RaisedKeeps ==
    ASSUME Lines, NEW i \in Line, hook' = [hook EXCEPT ![i] = Raised(i)]
    PROVE  SameHandlers
  <1>1. hook[i] \in Hook BY DEF Lines
  <1>2. Raised(i) \in Hook /\ Raised(i).stubs = hook[i].stubs
    <2>1. PICK r \in Nat, x \in Nat, l \in Nat, s \in Seq(Stub) :
             hook[i] = [raised |-> r, index |-> x, last |-> l, stubs |-> s]
      BY <1>1 DEF Hook
    <2>2. Raised(i) = [hook[i] EXCEPT !.raised = r + 1, !.index = 0] BY <2>1 DEF Raised
    <2>3. Raised(i).stubs = hook[i].stubs BY <2>1, <2>2
    <2>4. [hook[i] EXCEPT !.raised = r + 1] \in Hook BY <1>1, <2>1 DEF Hook
    <2>5. \A h \in Hook : [h EXCEPT !.index = 0] \in Hook BY DEF Hook
    <2>6. Raised(i) = [[hook[i] EXCEPT !.raised = r + 1] EXCEPT !.index = 0] BY <2>2
    <2> QED BY <2>3, <2>4, <2>5, <2>6
  <1>3. hook' \in [Line -> Hook] BY <1>2 DEF Lines
  <1>4. \A j \in Line : hook'[j].stubs = hook[j].stubs BY <1>2 DEF Lines
  <1> QED BY <1>3, <1>4 DEF SameHandlers

LEMMA HaltKeeps ==
    ASSUME IInv, NEW why, Halt(why)
    PROVE  IInv'
  BY Stutter DEF Halt, lineVars, threadVars, core

LEMMA Remainder == \A a \in Nat : \A n \in Nat \ {0} : a % n \in 0 .. n - 1
OBVIOUS

LEMMA TurnRange ==
    ASSUME Lines, NEW i \in Line, count(i) # 0
    PROVE  Turn(i) \in Nat /\ Turn(i) < count(i)
  <1>1. hook[i] \in Hook BY DEF Lines
  <1>2. hook[i].index + hook[i].last \in Nat /\ count(i) \in Nat \ {0} BY <1>1 DEF Hook, count
  <1>3. Turn(i) \in 0 .. count(i) - 1 BY <1>2, Remainder DEF Turn
  <1> QED BY <1>2, <1>3

(* A stub of a line names a handler with a CPU.                             *)
LEMMA StubHandler ==
    ASSUME Lines, NEW i \in Line, NEW p \in Nat, p < count(i)
    PROVE  StubAt(i, p).tr \in Handler /\ affinity[StubAt(i, p).tr] \in CPU
  <1>1. hook[i].stubs \in Seq(Stub) BY DEF Lines, Hook
  <1>2. p + 1 \in 1..Len(hook[i].stubs) BY <1>1 DEF count
  <1>3. StubAt(i, p) \in Stub BY <1>1, <1>2 DEF StubAt
  <1> QED BY <1>2, <1>3 DEF Stub, StubAt, Lines

---------------------------------------------------------------------------
(* One lemma for each action that changes what the invariant speaks of      *)
LEMMA SpuriousStep == ASSUME IInv, NEW i \in Line, Spurious(i) PROVE IInv'
  <1>1. hook' = [hook EXCEPT ![i] = Raised(i)] /\ UNCHANGED <<unmasked, irq_lock, pc, irq, pos, queueVars>>
    BY DEF Spurious, threadVars
  <1>2. SameHandlers BY <1>1, RaisedKeeps DEF IInv
  <1>3. Lines' BY <1>1, <1>2, KeepLines DEF IInv, queueVars
  <1>4. Places'
    BY <1>1, <1>2 DEF IInv, Places, SameHandlers
  <1>5. Sound(fast, fast_queued, cpu)' /\ Affine'
    BY <1>1 DEF IInv, Sound, Affine, queueVars
  <1> QED BY <1>3, <1>4, <1>5 DEF IInv

LEMMA HandlerStart == ASSUME IInv, NEW i \in Line, irq_handler(i) PROVE IInv'
  <1>1. CASE \E why : Halt(why) BY <1>1, HaltKeeps
  <1> DEFINE t == StubAt(i, hook[i].last).tr
  <1>2. CASE ~ \E why : Halt(why)
    <2>1. /\ hook[i].last < count(i)
          /\ hook' = [hook EXCEPT ![i] = Raised(i)]
          /\ fast' = FastQueued(fast, t)
          /\ fast_queued' = [fast_queued EXCEPT ![t] = @ + 1]
          /\ cpu' = [cpu EXCEPT ![t] = affinity[t]]
          /\ UNCHANGED <<unmasked, irq_lock, pc, irq, pos, affinity>>
      <3>1. hook[i] \in Hook /\ count(i) \in Nat BY DEF IInv, Lines, Hook, count
      <3>2. ~(hook[i].last >= count(i)) BY <1>2 DEF irq_handler
      <3>3. hook[i].last < count(i) BY <3>1, <3>2 DEF Hook
      <3> QED BY <1>2, <3>2, <3>3 DEF irq_handler, threadVars
    <2>2. hook[i].last \in Nat BY DEF IInv, Lines, Hook
    <2>3. t \in Handler /\ affinity[t] \in CPU BY <2>1, <2>2, StubHandler DEF IInv
    <2>4. SameHandlers BY <2>1, RaisedKeeps DEF IInv
    <2>5. Lines' BY <2>1, <2>4, KeepLines DEF IInv
    <2>6. Places' BY <2>1, <2>4 DEF IInv, Places, SameHandlers
    <2>7. Affine' BY <2>1 DEF IInv, Affine
    <2> HIDE DEF t
    <2>8. Sound(FastQueued(fast, t), [fast_queued EXCEPT ![t] = @ + 1], [cpu EXCEPT ![t] = affinity[t]])
      BY <2>3, QueueSound DEF IInv
    <2>9. Sound(fast', fast_queued', cpu') BY <2>1, <2>8
    <2>10. Sound(fast, fast_queued, cpu)' BY <2>1, <2>9 DEF Sound
    <2> QED BY <2>5, <2>6, <2>7, <2>10 DEF IInv
  <1> QED BY <1>1, <1>2

(* A step that changes only places, and the lock of a line *)
LEMMA PlaceStep ==
    ASSUME IInv, Places', UNCHANGED <<hook, unmasked, queueVars>>,
           \A t \in Handler : pc'[t] = "new" => pc[t] = "new"
    PROVE  IInv'
  <1>1. Lines' BY DEF IInv, Lines, MaskFollowsHandlers, count, queueVars
  <1>2. Sound(fast, fast_queued, cpu)' /\ Affine' BY DEF IInv, Sound, Affine, queueVars
  <1> QED BY <1>1, <1>2 DEF IInv

LEMMA AckStep == ASSUME IInv, NEW t \in Handler, NEW c \in CPU, irq_ack(t, c) PROVE IInv'
  <1>1. CASE \E why : Halt(why) BY <1>1, HaltKeeps
  <1>2. CASE ~ \E why : Halt(why)
    <2>1. pc' = [pc EXCEPT ![t] = "acked"] /\ UNCHANGED <<hook, unmasked, irq_lock, irq, pos, queueVars>>
      BY <1>2 DEF irq_ack, lineVars
    <2>2. t \in Thread BY DEF Thread
    <2>3. Places4' BY <2>1, <2>2 DEF IInv, Places, Places4
    <2>4. Places' BY <2>1, <2>2, <2>3, PlacesStep DEF IInv, Places
    <2> QED BY <2>1, <2>4, PlaceStep DEF IInv, Places
  <1> QED BY <1>1, <1>2

LEMMA TestStep == ASSUME IInv, NEW t \in Handler, NEW c \in CPU, CompleteTest(t, c) PROVE IInv'
  <1> DEFINE i == irq[t]
  <1>1. CASE \E why : Halt(why) BY <1>1, HaltKeeps
  <1>2. CASE ~ \E why : Halt(why)
    <2>1. t \in Thread BY DEF Thread
    <2>2. UNCHANGED <<hook, unmasked, irq, queueVars>> BY <1>2 DEF CompleteTest, lineVars
    <2>3. CASE pc' = [pc EXCEPT ![t] = "exit"] /\ UNCHANGED <<irq_lock, pos>>
      <3>1. Places4' BY <2>1, <2>2, <2>3 DEF IInv, Places, Places4
      <3>2. Places' BY <2>1, <2>2, <2>3, <3>1, PlacesStep DEF IInv, Places
      <3> QED BY <2>1, <2>2, <2>3, <3>2, PlaceStep DEF IInv, Places
    <2>4. CASE /\ i \in Line /\ irq_lock[i] = Nobody /\ count(i) # 0
               /\ irq_lock' = [irq_lock EXCEPT ![i] = t]
               /\ pc' = [pc EXCEPT ![t] = "complete"]
               /\ pos' = [pos EXCEPT ![t] = Turn(i)]
      <3>1. Turn(i) \in Nat /\ Turn(i) < count(i) BY <2>4, TurnRange DEF IInv
      <3>2. Places4' BY <2>1, <2>2, <2>4, <3>1 DEF IInv, Places, Places4
      <3>3. \A u \in Thread \ {t} : pc'[u] = pc[u] /\ irq'[u] = irq[u] /\ pos'[u] = pos[u]
        BY <2>1, <2>2, <2>4 DEF IInv, Places
      <3>4. \A j \in Line : irq_lock[j] \notin {t, Nobody} =>
               irq_lock'[j] = irq_lock[j] /\ Len(hook'[j].stubs) = Len(hook[j].stubs)
        BY <2>2, <2>4 DEF IInv, Places
      <3>5. irq'[t] \in Line /\ irq_lock'[irq'[t]] = t /\ pos'[t] < Len(hook'[irq'[t]].stubs)
        BY <2>1, <2>2, <2>4, <3>1 DEF IInv, Places, count
      <3>6. Places' BY <2>1, <3>2, <3>3, <3>4, <3>5, PlacesStep DEF IInv
      <3> QED BY <2>1, <2>2, <2>4, <3>6, PlaceStep DEF IInv, Places
    <2>5. i \in Line \/ i = NoLine BY <2>1 DEF IInv, Places
    <2> QED BY <1>2, <2>3, <2>4, <2>5 DEF CompleteTest, lineVars
  <1> QED BY <1>1, <1>2

(* Taking the lock of a line for request_irq or release_irq *)
LEMMA LockStep ==
    ASSUME IInv, NEW t \in Thread, NEW i \in Line, NEW place \in {"request", "release"},
           irq_lock[i] = Nobody, irq_lock' = [irq_lock EXCEPT ![i] = t],
           pc' = [pc EXCEPT ![t] = place], UNCHANGED <<hook, unmasked, irq, pos, queueVars>>
    PROVE  IInv'
  <1>1. Places4' BY DEF IInv, Places, Places4
  <1>2. \A u \in Thread \ {t} : pc'[u] = pc[u] /\ irq'[u] = irq[u] /\ pos'[u] = pos[u]
    BY DEF IInv, Places
  <1>3. \A j \in Line : irq_lock[j] \notin {t, Nobody} =>
           irq_lock'[j] = irq_lock[j] /\ Len(hook'[j].stubs) = Len(hook[j].stubs)
    BY DEF IInv, Places
  <1>4. pc'[t] = place BY DEF IInv, Places
  <1>5. Places' BY <1>1, <1>2, <1>3, <1>4, PlacesStep DEF IInv
  <1>6. \A u \in Handler : pc'[u] = "new" => pc[u] = "new"
    BY <1>2, <1>4 DEF Thread
  <1> QED BY <1>5, <1>6, PlaceStep

AckOf(h, p, l) == [h EXCEPT !.stubs[p].ack = @ + 1, !.last = l]
NopOf(h, p, l) == [h EXCEPT !.stubs[p].nop = @ + 1, !.index = l]

(* Counting an answer changes neither the handlers of the line nor their order. *)
LEMMA CountStub ==
    ASSUME NEW h \in Hook, NEW p \in 1..Len(h.stubs), NEW l \in Nat,
           NEW g, g \in {AckOf(h, p, l), NopOf(h, p, l)}
    PROVE  /\ g \in Hook
           /\ Len(g.stubs) = Len(h.stubs)
           /\ \A k \in 1..Len(h.stubs) : g.stubs[k].tr = h.stubs[k].tr
  <1> DEFINE s == h.stubs
             a == [s[p] EXCEPT !.ack = @ + 1]
             n == [s[p] EXCEPT !.nop = @ + 1]
  <1>1. s \in Seq(Stub) /\ s[p] \in Stub BY DEF Hook
  <1>2. a \in Stub /\ n \in Stub /\ a.tr = s[p].tr /\ n.tr = s[p].tr
    <2>1. \A e \in Stub : [e EXCEPT !.ack = @ + 1] \in Stub BY DEF Stub
    <2>2. \A e \in Stub : [e EXCEPT !.nop = @ + 1] \in Stub BY DEF Stub
    <2>3. \A e \in Stub : [e EXCEPT !.ack = @ + 1].tr = e.tr BY DEF Stub
    <2>4. \A e \in Stub : [e EXCEPT !.nop = @ + 1].tr = e.tr BY DEF Stub
    <2> QED BY <1>1, <2>1, <2>2, <2>3, <2>4
  <1>3. ASSUME NEW e \in Stub PROVE [s EXCEPT ![p] = e] \in Seq(Stub) /\ Len([s EXCEPT ![p] = e]) = Len(s)
    BY <1>1
  <1>4. ASSUME NEW e \in Stub, e.tr = s[p].tr
        PROVE  \A k \in 1..Len(s) : [s EXCEPT ![p] = e][k].tr = s[k].tr
    BY <1>1, <1>4
  <1>5. CASE g = AckOf(h, p, l)
    <2>1. g.stubs = [s EXCEPT ![p] = a] BY <1>5 DEF Hook, AckOf
    <2>2. g = [[h EXCEPT !.stubs = [s EXCEPT ![p] = a]] EXCEPT !.last = l] BY <1>5 DEF AckOf
    <2>3. [s EXCEPT ![p] = a] \in Seq(Stub) BY <1>2, <1>3
    <2>4. g \in Hook
      <3> DEFINE z == [s EXCEPT ![p] = a]
      <3>1. z \in Seq(Stub) BY <2>3
      <3> HIDE DEF z
      <3>2. [h EXCEPT !.stubs = z] \in Hook BY <3>1 DEF Hook
      <3>3. \A y \in Hook : [y EXCEPT !.last = l] \in Hook BY DEF Hook
      <3>4. g = [[h EXCEPT !.stubs = z] EXCEPT !.last = l] BY <2>2 DEF z
      <3> QED BY <3>2, <3>3, <3>4
    <2> QED BY <2>1, <2>4, <1>2, <1>3, <1>4
  <1>6. CASE g = NopOf(h, p, l)
    <2>1. g.stubs = [s EXCEPT ![p] = n] BY <1>6 DEF Hook, NopOf
    <2>2. g = [[h EXCEPT !.stubs = [s EXCEPT ![p] = n]] EXCEPT !.index = l] BY <1>6 DEF NopOf
    <2>3. [s EXCEPT ![p] = n] \in Seq(Stub) BY <1>2, <1>3
    <2>4. g \in Hook
      <3> DEFINE z == [s EXCEPT ![p] = n]
      <3>1. z \in Seq(Stub) BY <2>3
      <3> HIDE DEF z
      <3>2. [h EXCEPT !.stubs = z] \in Hook BY <3>1 DEF Hook
      <3>3. \A y \in Hook : [y EXCEPT !.index = l] \in Hook BY DEF Hook
      <3>4. g = [[h EXCEPT !.stubs = z] EXCEPT !.index = l] BY <2>2 DEF z
      <3> QED BY <3>2, <3>3, <3>4
    <2> QED BY <2>1, <2>4, <1>2, <1>3, <1>4
  <1> QED BY <1>5, <1>6

Acked(t) == [hook EXCEPT ![irq[t]].stubs[pos[t] + 1].ack = @ + 1, ![irq[t]].last = pos[t]]
Nopped(t) == [hook EXCEPT ![irq[t]].stubs[pos[t] + 1].nop = @ + 1, ![irq[t]].index = @ + 1]

(* Counting the answer keeps the handlers of all lines. *)
LEMMA CompleteHook ==
    ASSUME IInv, NEW t \in Handler, pc[t] = "complete",
           hook' = Acked(t) \/ hook' = Nopped(t)
    PROVE  SameHandlers
  <1> DEFINE i == irq[t]
             p == pos[t] + 1
  <1>1. t \in Thread BY DEF Thread
  <1>2. i \in Line /\ irq_lock[i] = t /\ hook[i] \in Hook /\ pos[t] \in Nat /\ pos[t] < Len(hook[i].stubs)
    BY <1>1 DEF IInv, Places, Lines
  <1>3. p \in 1..Len(hook[i].stubs) /\ hook[i].index + 1 \in Nat BY <1>2, SMTT(30) DEF Hook
  <1>4. \/ hook'[i] = AckOf(hook[i], p, pos[t])
        \/ hook'[i] = NopOf(hook[i], p, hook[i].index + 1)
    BY <1>2 DEF IInv, Lines, AckOf, NopOf, Acked, Nopped
  <1>5. /\ hook'[i] \in Hook
        /\ Len(hook'[i].stubs) = Len(hook[i].stubs)
        /\ \A k \in 1..Len(hook[i].stubs) : hook'[i].stubs[k].tr = hook[i].stubs[k].tr
    <2> HIDE DEF i, p
    <2>1. PICK h \in Hook : h = hook[i] BY <1>2
    <2>2. PICK g : g = hook'[i] OBVIOUS
    <2>3. PICK l \in Nat : g \in {AckOf(h, p, l), NopOf(h, p, l)}
      <3>1. CASE hook'[i] = AckOf(hook[i], p, pos[t])
        <4>1. g \in {AckOf(h, p, pos[t]), NopOf(h, p, pos[t])} BY <2>1, <2>2, <3>1
        <4> QED BY <4>1, <1>2
      <3>2. CASE hook'[i] = NopOf(hook[i], p, hook[i].index + 1)
        <4>1. g \in {AckOf(h, p, h.index + 1), NopOf(h, p, h.index + 1)} BY <2>1, <2>2, <3>2
        <4>2. h.index + 1 \in Nat BY DEF Hook
        <4> QED BY <4>1, <4>2
      <3> QED BY <1>4, <3>1, <3>2
    <2>4. p \in 1..Len(h.stubs) BY <1>3, <2>1
    <2>5. /\ g \in Hook
          /\ Len(g.stubs) = Len(h.stubs)
          /\ \A k \in 1..Len(h.stubs) : g.stubs[k].tr = h.stubs[k].tr
      BY <2>3, <2>4, CountStub
    <2> QED BY <2>1, <2>2, <2>5
  <1>6. DOMAIN hook' = Line /\ hook' = [j \in Line |-> hook'[j]] /\ \A j \in Line \ {i} : hook'[j] = hook[j]
    BY <1>2 DEF IInv, Lines, Acked, Nopped
  <1>7. SameHandlers
    <2>1. hook' \in [Line -> Hook] BY <1>5, <1>6 DEF IInv, Lines
    <2> QED BY <2>1, <1>5, <1>6 DEF SameHandlers
  <1> QED BY <1>7

(* irq_complete, but for the fast queues *)
LEMMA CompleteEffect ==
    ASSUME IInv, NEW t \in Handler, pc[t] = "complete",
           hook' = Acked(t) \/ hook' = Nopped(t),
           irq_lock' = [irq_lock EXCEPT ![irq[t]] = Nobody],
           pc' = [pc EXCEPT ![t] = "user"], pos' = [pos EXCEPT ![t] = 0],
           UNCHANGED <<unmasked, irq, affinity>>
    PROVE  Lines' /\ Places' /\ Affine'
  <1> DEFINE i == irq[t]
  <1>1. t \in Thread BY DEF Thread
  <1>2. i \in Line /\ irq_lock[i] = t BY <1>1 DEF IInv, Places
  <1>7. SameHandlers BY CompleteHook
  <1>8. Lines' BY <1>7, KeepLines DEF IInv
  <1>9. Places4' BY <1>1, <1>2 DEF IInv, Places, Places4
  <1>10. \A u \in Thread \ {t} : pc'[u] = pc[u] /\ irq'[u] = irq[u] /\ pos'[u] = pos[u]
    BY <1>1 DEF IInv, Places
  <1>11. \A j \in Line : irq_lock[j] \notin {t, Nobody} =>
            irq_lock'[j] = irq_lock[j] /\ Len(hook'[j].stubs) = Len(hook[j].stubs)
    BY <1>2, <1>7 DEF IInv, Places, SameHandlers
  <1>12. pc'[t] = "user" BY <1>1 DEF IInv, Places
  <1>13. Places' BY <1>1, <1>9, <1>10, <1>11, <1>12, PlacesStep DEF IInv
  <1>14. Affine' BY <1>10, <1>12 DEF IInv, Affine, Thread
  <1> QED BY <1>8, <1>13, <1>14

LEMMA AcceptStep == ASSUME IInv, NEW t \in Handler, NEW c \in CPU, Accept(t, c) PROVE IInv'
  <1>1. CASE \E why : Halt(why) BY <1>1, HaltKeeps
  <1>2. CASE ~ \E why : Halt(why)
    <2>1. /\ pc[t] = "complete" /\ DequeueError(t, c, fast) = "no"
          /\ hook' = Acked(t)
          /\ irq_lock' = [irq_lock EXCEPT ![irq[t]] = Nobody]
          /\ Dequeued(t, c, fast, fast_queued)
          /\ pc' = [pc EXCEPT ![t] = "user"] /\ pos' = [pos EXCEPT ![t] = 0]
          /\ UNCHANGED <<unmasked, irq, affinity>>
      BY <1>2 DEF Accept, Acked
    <2>2. Lines' /\ Places' /\ Affine' BY <2>1, CompleteEffect
    <2>3. fast[c] # <<>> /\ Head(fast[c]) = t BY <2>1 DEF DequeueError
    <2>4. Sound(Popped(fast, c), Fewer(fast_queued, t), Leaving(cpu, fast_queued, t))
      BY <2>3, DequeueSound DEF IInv
    <2>5. fast' = Popped(fast, c) /\ fast_queued' = Fewer(fast_queued, t) /\ cpu' = Leaving(cpu, fast_queued, t)
      BY <2>1 DEF Dequeued, Popped, Fewer, Leaving
    <2>6. Sound(fast', fast_queued', cpu') BY <2>4, <2>5
    <2>7. Sound(fast, fast_queued, cpu)' BY <2>1, <2>6 DEF Sound
    <2> QED BY <2>2, <2>7 DEF IInv
  <1> QED BY <1>1, <1>2

LEMMA RefuseStep == ASSUME IInv, NEW t \in Handler, NEW c \in CPU, Refuse(t, c) PROVE IInv'
  <1>1. CASE \E why : Halt(why) BY <1>1, HaltKeeps
  <1> DEFINE i == irq[t]
             more == hook[i].index + 1 < count(i)
             next == StubAt(i, (pos[t] + 1) % count(i)).tr
             f == IF more THEN FastQueued(fast, next) ELSE fast
             n == IF more THEN [fast_queued EXCEPT ![next] = @ + 1] ELSE fast_queued
             p == IF more THEN [cpu EXCEPT ![next] = affinity[next]] ELSE cpu
  <1>2. CASE ~ \E why : Halt(why)
    <2>1. /\ pc[t] = "complete" /\ DequeueError(t, c, f) = "no"
          /\ more => affinity[next] = c
          /\ hook' = Nopped(t)
          /\ irq_lock' = [irq_lock EXCEPT ![irq[t]] = Nobody]
          /\ fast' = [f EXCEPT ![c] = Tail(@)]
          /\ fast_queued' = [n EXCEPT ![t] = @ - 1]
          /\ cpu' = [u \in Thread |-> IF more /\ u = next THEN c
                                      ELSE IF u = t /\ n[t] = 1 THEN NoCpu ELSE cpu[u]]
          /\ pc' = [pc EXCEPT ![t] = "user"] /\ pos' = [pos EXCEPT ![t] = 0]
          /\ UNCHANGED <<unmasked, irq, affinity>>
      BY <1>2 DEF Refuse, Nopped
    <2>2. Lines' /\ Places' /\ Affine' BY <2>1, CompleteEffect
    <2>3. t \in Thread BY DEF Thread
    <2>4. i \in Line /\ pos[t] \in Nat /\ pos[t] + 1 \in Nat /\ count(i) \in Nat \ {0}
      <3>1. i \in Line /\ pos[t] \in Nat /\ pos[t] < count(i) BY <2>1, <2>3 DEF IInv, Places, count
      <3>2. hook[i].stubs \in Seq(Stub) BY <3>1 DEF IInv, Lines, Hook
      <3>3. count(i) \in Nat BY <3>2 DEF count
      <3> QED BY <3>1, <3>3
    <2>5. (pos[t] + 1) % count(i) \in 0 .. count(i) - 1 BY <2>4, Remainder
    <2>6. next \in Handler /\ affinity[next] \in CPU
      <3>1. (pos[t] + 1) % count(i) \in Nat /\ (pos[t] + 1) % count(i) < count(i) BY <2>4, <2>5
      <3> QED BY <2>4, <3>1, StubHandler DEF IInv
    <2> HIDE DEF i, next, more
    <2>7. Sound(f, n, p)
      <3>1. CASE more BY <2>6, <3>1, QueueSound DEF IInv
      <3>2. CASE ~more BY <3>2 DEF IInv
      <3> QED BY <3>1, <3>2
    <2>8. f[c] # <<>> /\ Head(f[c]) = t /\ cpu[t] = c BY <2>1 DEF DequeueError
    <2>9. cpu' = Leaving(p, n, t)
      <3> USE DEF Leaving
      <3>1. fast_queued[t] \in Nat /\ fast_queued[t] # 0
        BY <2>3, <2>8 DEF IInv, Sound
      <3>2. cpu \in [Thread -> CPU \cup {NoCpu}] /\ fast_queued \in [Thread -> Nat] BY DEF IInv, Sound
      <3>3. CASE more
        <4>1. p = [cpu EXCEPT ![next] = c] /\ n = [fast_queued EXCEPT ![next] = @ + 1]
          BY <2>1, <3>3
        <4>2. next \in Thread BY <2>6 DEF Thread
        <4>3. CASE next = t
          <5>1. n[t] # 1 /\ p[t] = c BY <4>1, <4>2, <4>3, <3>1, <3>2, <2>3
          <5> QED BY <2>1, <2>3, <3>2, <3>3, <4>1, <4>3, <5>1
        <4>4. CASE next # t BY <2>1, <2>3, <3>2, <3>3, <4>1, <4>2, <4>4
        <4> QED BY <4>3, <4>4
      <3>4. CASE ~more
        <4>1. p = cpu BY <3>4
        <4> HIDE DEF n, p
        <4> QED BY <2>1, <2>3, <3>2, <3>4, <4>1
      <3> QED BY <3>3, <3>4
    <2> HIDE DEF f, n, p
    <2>10. Sound(fast', fast_queued', cpu')
      <3>1. Sound(Popped(f, c), Fewer(n, t), Leaving(p, n, t)) BY <2>7, <2>8, DequeueSound DEF IInv
      <3>2. fast' = Popped(f, c) /\ fast_queued' = Fewer(n, t) BY <2>1 DEF Popped, Fewer
      <3> QED BY <3>1, <3>2, <2>9
    <2>11. Sound(fast, fast_queued, cpu)' BY <2>1, <2>10 DEF Sound
    <2> QED BY <2>2, <2>11 DEF IInv
  <1> QED BY <1>1, <1>2

---------------------------------------------------------------------------
(* Registration: the new handler has no entry in any fast queue.            *)
LEMMA RequestStep ==
    ASSUME IInv, NEW m \in Thread, NEW c \in CPU, NEW i \in Line, NEW t \in Handler,
           request_irq(m, c, i, t)
    PROVE  IInv'
  <1>1. PICK d \in CPU : affinity' = [affinity EXCEPT ![t] = d]
    BY DEF request_irq
  <1>2. /\ pc[m] = "request" /\ irq_lock[i] = m /\ pc[t] = "new"
        /\ hook' = [hook EXCEPT ![i].stubs = Append(@, NewStub(t))]
        /\ unmasked' = IF count(i) = 0 THEN unmasked \cup {i} ELSE unmasked
        /\ irq' = [irq EXCEPT ![t] = i]
        /\ irq_lock' = [irq_lock EXCEPT ![i] = Nobody]
        /\ pc' = [pc EXCEPT ![m] = "user", ![t] = "user"]
        /\ UNCHANGED <<pos, fast, fast_queued, cpu>>
    BY DEF request_irq, Holds, Fresh
  <1>3. t \in Thread /\ t # m /\ affinity[t] = NoCpu BY <1>2 DEF IInv, Affine, Thread
  <1>4. \A u \in Handler : affinity'[u] = IF u = t THEN d ELSE affinity[u]
    BY <1>1 DEF IInv, Affine
  <1>5. Affine'
    <2>1. affinity' \in [Handler -> CPU \cup {NoCpu}] BY <1>1 DEF IInv, Affine
    <2>2. \A u \in Handler : pc'[u] = "new" => u # t /\ pc[u] = "new"
      BY <1>2, <1>3 DEF IInv, Places, Thread
    <2> QED BY <2>1, <2>2, <1>4 DEF IInv, Affine
  <1>6. Sound(fast, fast_queued, cpu)'
    <2>1. \A b \in CPU : \A k \in 1..Len(fast[b]) : fast[b][k] \in Handler /\ fast[b][k] # t
      BY <1>3 DEF IInv, Sound
    <2>2. fast_queued[t] = 0 BY <1>3 DEF IInv, Sound
    <2>3. \A b \in CPU : Entries(fast[b], t) = {} BY <2>1 DEF Entries
    <2>4. \A b \in CPU : Cardinality(Entries(fast[b], t)) = 0 BY <2>3, FS_EmptySet
    <2>5. \A b \in CPU : \A k \in 1..Len(fast[b]) : affinity'[fast[b][k]] = b
      BY <2>1, <1>4 DEF IInv, Sound
    <2>6. \A u \in Handler, b \in CPU : affinity'[u] = b => fast_queued[u] = Cardinality(Entries(fast[b], u))
      BY <2>2, <2>4, <1>4 DEF IInv, Sound
    <2>7. \A u \in Handler : affinity'[u] = NoCpu => fast_queued[u] = 0
      BY <2>2, <1>4 DEF IInv, Sound
    <2> QED BY <1>2, <2>5, <2>6, <2>7 DEF IInv, Sound
  <1>7. hook[i] \in Hook /\ hook[i].stubs \in Seq(Stub) BY DEF IInv, Lines, Hook
  <1>8. NewStub(t) \in Stub /\ NewStub(t).tr = t BY DEF NewStub, Stub
  <1> DEFINE z == Append(hook[i].stubs, NewStub(t))
  <1>9. z \in Seq(Stub) /\ Len(z) = Len(hook[i].stubs) + 1 /\ z[Len(z)].tr = t
        /\ \A k \in 1..Len(hook[i].stubs) : z[k] = hook[i].stubs[k]
    BY <1>7, <1>8
  <1>10. hook' = [hook EXCEPT ![i] = [hook[i] EXCEPT !.stubs = z]] BY <1>2
  <1> HIDE DEF z
  <1>11. hook' \in [Line -> Hook] /\ hook'[i].stubs = z /\ \A j \in Line \ {i} : hook'[j] = hook[j]
    <2>1. [hook[i] EXCEPT !.stubs = z] \in Hook /\ [hook[i] EXCEPT !.stubs = z].stubs = z
      BY <1>7, <1>9 DEF Hook
    <2> QED BY <2>1, <1>10 DEF IInv, Lines
  <1>12. Lines'
    <2>1. MaskFollowsHandlers'
      <3>1. i \in unmasked' /\ Len(hook'[i].stubs) > 0
        <4>1. i \in unmasked'
          <5>1. count(i) \in Nat BY <1>7 DEF count
          <5> QED BY <5>1, <1>2 DEF IInv, Lines, MaskFollowsHandlers
        <4>2. Len(hook[i].stubs) \in Nat BY <1>7
        <4> QED BY <4>1, <4>2, <1>9, <1>11
      <3>2. \A j \in Line \ {i} : j \in unmasked' <=> Len(hook'[j].stubs) > 0
        BY <1>2, <1>11 DEF IInv, Lines, MaskFollowsHandlers, count
      <3> QED BY <3>1, <3>2 DEF MaskFollowsHandlers, count
    <2>2. ASSUME NEW j \in Line, NEW k \in 1..Len(hook'[j].stubs)
          PROVE  affinity'[hook'[j].stubs[k].tr] \in CPU
      <3>1. ASSUME NEW b \in 1..Len(hook[j].stubs)
            PROVE  hook[j].stubs[b].tr \in Handler /\ affinity[hook[j].stubs[b].tr] \in CPU
        <4>1. hook[j].stubs[b] \in Stub BY DEF IInv, Lines, Hook
        <4> QED BY <4>1 DEF IInv, Lines, Stub
      <3>2. ASSUME NEW b \in 1..Len(hook[j].stubs)
            PROVE  affinity'[hook[j].stubs[b].tr] \in CPU
        BY <3>1, <1>4
      <3>3. CASE j # i BY <2>2, <3>2, <3>3, <1>11
      <3>4. CASE j = i
        <4>1. k = Len(z) \/ k \in 1..Len(hook[i].stubs) BY <2>2, <3>4, <1>7, <1>9, <1>11
        <4> QED BY <4>1, <3>2, <3>4, <1>4, <1>9, <1>11
      <3> QED BY <3>3, <3>4
    <2>3. unmasked' \subseteq Line BY <1>2 DEF IInv, Lines
    <2> QED BY <2>1, <2>2, <2>3, <1>11 DEF Lines
  <1>13. Places'
    <2>1. Places4' BY <1>2, <1>3 DEF IInv, Places, Places4
    <2>2. \A u \in Thread \ {m} :
             pc'[u] = "complete" => pc[u] = "complete" /\ irq'[u] = irq[u] /\ pos'[u] = pos[u]
      BY <1>2, <1>3 DEF IInv, Places
    <2>3. \A j \in Line : irq_lock[j] \notin {m, Nobody} =>
             irq_lock'[j] = irq_lock[j] /\ Len(hook'[j].stubs) = Len(hook[j].stubs)
      BY <1>2, <1>11 DEF IInv, Places
    <2>4. pc'[m] = "user" BY <1>2, <1>3 DEF IInv, Places
    <2> QED BY <2>1, <2>2, <2>3, <2>4, PlacesStep DEF IInv
  <1> QED BY <1>5, <1>6, <1>12, <1>13 DEF IInv

(* What is left of the handlers of a line *)
LEMMA RemainingStubs ==
    ASSUME Lines, NEW i \in Line, NEW t
    PROVE  /\ Remaining(t, i) \in Seq(Stub)
           /\ \A k \in 1..Len(Remaining(t, i)) : affinity[Remaining(t, i)[k].tr] \in CPU
           /\ count(i) = 0 => Remaining(t, i) = <<>>
  <1> DEFINE s == hook[i].stubs
             p == CHOOSE q \in 1..count(i) : hook[i].stubs[q].tr = t
             w == [k \in 1..(count(i) - 1) |-> s[IF k < p THEN k ELSE k + 1]]
  <1>1. s \in Seq(Stub) /\ count(i) = Len(s) /\ Len(s) \in Nat BY DEF Lines, Hook, count
  <1>2. \A k \in 1..Len(s) : s[k] \in Stub /\ affinity[s[k].tr] \in CPU BY <1>1 DEF Lines
  <1>3. CASE count(i) = 1
    <2>1. Remaining(t, i) = <<>> BY <1>3 DEF Remaining
    <2> QED BY <2>1, <1>3
  <1>4. CASE count(i) # 1
    <2>1. Remaining(t, i) = w BY <1>4 DEF Remaining, Without
    <2> HIDE DEF p, s
    <2>2. ASSUME NEW k \in 1..(count(i) - 1)
          PROVE  (IF k < p THEN k ELSE k + 1) \in 1..Len(s)
      BY <1>1
    <2>3. \A k \in 1..(count(i) - 1) : w[k] \in Stub /\ affinity[w[k].tr] \in CPU
      BY <1>2, <2>2
    <2>4. CASE count(i) = 0
      <3>1. w = <<>> BY <2>4
      <3>2. Remaining(t, i) = <<>> BY <2>1, <3>1
      <3> QED BY <3>2
    <2>5. CASE count(i) # 0
      <3>1. count(i) - 1 \in Nat BY <1>1, <2>5
      <3>2. w \in Seq(Stub) /\ Len(w) = count(i) - 1 BY <2>3, <3>1
      <3> HIDE DEF w
      <3> QED BY <2>1, <2>3, <2>5, <3>2
    <2> QED BY <2>4, <2>5
  <1> QED BY <1>3, <1>4

LEMMA RetiredHook ==
    ASSUME NEW i \in Line, hook[i] \in Hook, NEW s \in Seq(Stub)
    PROVE  Retired(i, s) \in Hook /\ Retired(i, s).stubs = s
  <1> DEFINE x == IF hook[i].index >= Len(s) /\ hook[i].index > 0 THEN hook[i].index - 1 ELSE hook[i].index
             l == IF hook[i].last >= Len(s) /\ hook[i].last > 0 THEN hook[i].last + 1 ELSE hook[i].last
  <1>1. x \in Nat /\ l \in Nat BY DEF Hook
  <1>2. Retired(i, s) = [[[hook[i] EXCEPT !.stubs = s] EXCEPT !.index = x] EXCEPT !.last = l]
    BY DEF Retired, Hook
  <1> HIDE DEF x, l
  <1>3. [hook[i] EXCEPT !.stubs = s] \in Hook /\ [hook[i] EXCEPT !.stubs = s].stubs = s BY DEF Hook
  <1>4. \A h \in Hook : [h EXCEPT !.index = x] \in Hook BY <1>1 DEF Hook
  <1>5. \A h \in Hook : [h EXCEPT !.index = x].stubs = h.stubs BY <1>1 DEF Hook
  <1>6. \A h \in Hook : [h EXCEPT !.last = l] \in Hook BY <1>1 DEF Hook
  <1>7. \A h \in Hook : [h EXCEPT !.last = l].stubs = h.stubs BY <1>1 DEF Hook
  <1> QED BY <1>2, <1>3, <1>4, <1>5, <1>6, <1>7

LEMMA ReleaseStep ==
    ASSUME IInv, NEW t \in Thread, NEW c \in CPU, NEW i \in Line, release_irq(t, c, i)
    PROVE  IInv'
  <1> DEFINE s == Remaining(t, i)
  <1>1. /\ irq_lock[i] = t
        /\ hook' = [hook EXCEPT ![i] = Retired(i, s)]
        /\ unmasked' = IF s = <<>> THEN unmasked \ {i} ELSE unmasked
        /\ irq' = [irq EXCEPT ![t] = NoLine]
        /\ irq_lock' = [irq_lock EXCEPT ![i] = Nobody]
        /\ pc' = [pc EXCEPT ![t] = IF t \in Main THEN "user" ELSE "acked"]
        /\ UNCHANGED <<pos, queueVars>>
    BY DEF release_irq, Holds, Closed
  <1>2. /\ s \in Seq(Stub)
        /\ \A k \in 1..Len(s) : affinity[s[k].tr] \in CPU
        /\ count(i) = 0 => s = <<>>
    BY RemainingStubs DEF IInv
  <1>3. hook[i] \in Hook /\ hook[i].stubs \in Seq(Stub) BY DEF IInv, Lines, Hook
  <1> HIDE DEF s
  <1>4. Retired(i, s) \in Hook /\ Retired(i, s).stubs = s BY <1>2, <1>3, RetiredHook
  <1>5. hook' \in [Line -> Hook] /\ hook'[i].stubs = s /\ \A j \in Line \ {i} : hook'[j] = hook[j]
    BY <1>1, <1>4 DEF IInv, Lines
  <1>6. Lines'
    <2>1. i \in unmasked' <=> Len(hook'[i].stubs) > 0
      <3>1. CASE s = <<>> BY <1>1, <1>5, <3>1
      <3>2. CASE s # <<>>
        <4>1. Len(s) > 0 BY <1>2, <3>2
        <4>2. count(i) # 0 /\ count(i) \in Nat BY <1>2, <1>3, <3>2 DEF count
        <4>3. i \in unmasked BY <4>2 DEF IInv, Lines, MaskFollowsHandlers
        <4> QED BY <4>1, <4>3, <1>1, <1>5, <3>2
      <3> QED BY <3>1, <3>2
    <2>2. \A j \in Line \ {i} : j \in unmasked' <=> Len(hook'[j].stubs) > 0
      BY <1>1, <1>5 DEF IInv, Lines, MaskFollowsHandlers, count
    <2>3. MaskFollowsHandlers' BY <2>1, <2>2 DEF MaskFollowsHandlers, count
    <2>4. \A j \in Line : \A k \in 1..Len(hook'[j].stubs) : affinity[hook'[j].stubs[k].tr] \in CPU
      BY <1>2, <1>5 DEF IInv, Lines
    <2>5. affinity' = affinity /\ unmasked' \subseteq Line BY <1>1 DEF queueVars, IInv, Lines
    <2> QED BY <2>3, <2>4, <2>5, <1>5 DEF Lines
  <1>7. Places'
    <2>1. Places4' BY <1>1 DEF IInv, Places, Places4
    <2>2. \A u \in Thread \ {t} : pc'[u] = pc[u] /\ irq'[u] = irq[u] /\ pos'[u] = pos[u]
      BY <1>1 DEF IInv, Places
    <2>3. \A j \in Line : irq_lock[j] \notin {t, Nobody} =>
             irq_lock'[j] = irq_lock[j] /\ Len(hook'[j].stubs) = Len(hook[j].stubs)
      BY <1>1, <1>5 DEF IInv, Places
    <2>4. pc'[t] # "complete" BY <1>1 DEF IInv, Places
    <2> QED BY <2>1, <2>2, <2>3, <2>4, PlacesStep DEF IInv
  <1>8. Affine' BY <1>1 DEF IInv, Affine, Places, queueVars, Thread
  <1>9. Sound(fast, fast_queued, cpu)' BY <1>1 DEF IInv, Sound, queueVars
  <1> QED BY <1>6, <1>7, <1>8, <1>9 DEF IInv

---------------------------------------------------------------------------
LEMMA NextIInv == IInv /\ [Next]_vars => IInv'
  <1> SUFFICES ASSUME IInv, [Next]_vars PROVE IInv' OBVIOUS
  <1> USE DEF core
  <1>1. ASSUME NEW c \in CPU, RunFast(c) \/ RunNext(c) \/ Preempt(c) PROVE IInv'
    BY <1>1, Stutter DEF RunFast, RunNext, Preempt, lineVars, threadVars
  <1>2. ASSUME NEW i \in Line, Latch(i) PROVE IInv'
    BY <1>2, Stutter DEF Latch, lineVars, threadVars
  <1>3. ASSUME NEW i \in Line, Spurious(i) \/ irq_handler(i) PROVE IInv'
    BY <1>3, SpuriousStep, HandlerStart
  <1>4. ASSUME NEW t \in Handler, NEW c \in CPU, HandlerStep(t, c) PROVE IInv'
    <2>1. CASE irq_ack(t, c) BY <2>1, AckStep
    <2>2. CASE CompleteTest(t, c) BY <2>2, TestStep
    <2>3. CASE Accept(t, c) BY <2>3, AcceptStep
    <2>4. CASE Refuse(t, c) BY <2>4, RefuseStep
    <2>5. CASE Exit(t, c) BY <2>5, HaltKeeps DEF Exit
    <2> QED BY <1>4, <2>1, <2>2, <2>3, <2>4, <2>5 DEF HandlerStep
  <1>5. ASSUME NEW t \in Thread, NEW c \in CPU, NEW i \in Line, CallStep(t, c, i) PROVE IInv'
    <2>1. CASE RequestLock(t, c, i) BY <2>1, LockStep DEF RequestLock
    <2>2. CASE \E h \in Handler : request_irq(t, c, i, h) BY <2>2, RequestStep
    <2>3. CASE ReleaseLock(t, c, i) BY <2>3, LockStep DEF ReleaseLock
    <2>4. CASE sched_lock_all(t, c) BY <2>4, Stutter DEF sched_lock_all, lineVars, threadVars
    <2>5. CASE release_irq(t, c, i) BY <2>5, ReleaseStep
    <2> QED BY <1>5, <2>1, <2>2, <2>3, <2>4, <2>5 DEF CallStep
  <1>6. CASE UNCHANGED vars BY <1>6, Stutter DEF vars, lineVars, threadVars
  <1> QED BY <1>1, <1>2, <1>3, <1>4, <1>5, <1>6 DEF Next

(* The inductive invariant holds in every state.                            *)
THEOREM Invariance == Spec => []IInv
  <1>1. IInv /\ [Next]_vars => IInv' BY NextIInv
  <1> QED BY <1>1, InitIInv, PTL DEF Spec

(* For any lines, handlers and CPUs: a line is open at the controller       *)
(* exactly while handlers[irq] has a handler, whatever registrations,       *)
(* releases and interrupts come in between.                                 *)
THEOREM LinesMasked == Spec => []MaskFollowsHandlers
  <1>1. IInv => MaskFollowsHandlers BY DEF IInv, Lines
  <1> QED BY <1>1, Invariance, PTL

(* For any fast queues: they hold only handlers of their CPU, and           *)
(* fast_queued and cpu of a thread say how often it is in its queue.        *)
THEOREM FastCounts == Spec => []FastCountsExact
  <1>1. IInv => FastCountsExact BY DEF IInv, Sound, FastCountsExact, Entries
  <1> QED BY <1>1, Invariance, PTL

(* irq_complete writes only inside the array: the position it computed      *)
(* before its assertions is a position of handlers[irq]->stubs afterwards.  *)
THEOREM CompletesInside ==
    Spec => [](\A t \in Handler : pc[t] = "complete" =>
                  irq_lock[irq[t]] = t /\ pos[t] < Len(hook[irq[t]].stubs))
  <1>1. IInv => \A t \in Handler : pc[t] = "complete" =>
                  irq_lock[irq[t]] = t /\ pos[t] < Len(hook[irq[t]].stubs)
    BY DEF IInv, Places, Thread
  <1> QED BY <1>1, Invariance, PTL

---------------------------------------------------------------------------
(* Interrupts that are accepted, lines that are kept.                        *)

(* The turn of a line that was never turned is its first handler's.          *)
LEMMA ZeroTurn == \A n \in Nat \ {0} : 0 % n = 0
OBVIOUS

(* The thread is the first handler of its line. *)
First(t) == irq[t] \in Line /\ count(irq[t]) > 0 /\ hook[irq[t]].stubs[1].tr = t

(* An entry of a fast queue whose handler has not begun to serve it *)
Owed(c, k) == k \in 1..Len(fast[c]) /\ (k = 1 => pc[fast[c][1]] = "user")

(* Until the first refusal or release no line passes its turn on; the        *)
(* handlers of a line know it; only first handlers are in a fast queue; a    *)
(* thread is placed on its CPU or nowhere; what a CPU executes is the head   *)
(* of its queue; irq_complete turns nobody away; and at most one entry of    *)
(* all fast queues is owed a service, none when the APIC waits for nothing.  *)
Unturned == \A i \in Line : hook[i].index = 0 /\ hook[i].last = 0
Attached == \A i \in Line : \A p \in 1..Len(hook[i].stubs) : irq[hook[i].stubs[p].tr] = i
FirstQueued == \A c \in CPU : \A k \in 1..Len(fast[c]) : First(fast[c][k])
AtHome == \A t \in Handler : cpu[t] \in {NoCpu, affinity[t]}
HeadRuns == \A c \in CPU : current[c] \in Handler => Len(fast[c]) > 0 /\ fast[c][1] = current[c]
NoneTurnedAway == \A t \in Handler : pc[t] \notin {"exit", "request"} /\ (pc[t] = "complete" => pos[t] = 0)
OneOwed == \A c, d \in CPU : \A k, l \in Nat : Owed(c, k) /\ Owed(d, l) => c = d /\ k = l
NoneOwed == inservice = NoLine => \A c \in CPU : \A k \in Nat : ~Owed(c, k)

Calm == /\ Unturned /\ Attached /\ FirstQueued /\ AtHome
        /\ HeadRuns /\ NoneTurnedAway /\ OneOwed /\ NoneOwed

(* The types of the variables that IInv leaves out                           *)
Rest == /\ current \in [CPU -> Thread \cup {Nobody}]
        /\ flip \in [CPU -> BOOLEAN]
        /\ state \in [Thread -> {"suspended", "irq", "running"}]
        /\ locker \in Thread \cup {Nobody}
        /\ latched \subseteq Line
        /\ inservice \in Line \cup {NoLine}
        /\ panic \in {"no", "divide", "ring full", "not queued", "not the head", "interrupts off", "exit", "wild"}

(* Nothing is queued at first.                                               *)
LEMMA InitCalm == Init => Rest /\ Calm
  <1> SUFFICES ASSUME Init PROVE Rest /\ Calm OBVIOUS
  <1> USE DEF Init, Thread
  <1>1. Rest BY DEF Rest
  <1>2. Unturned /\ Attached BY DEF Unturned, Attached
  <1>3. FirstQueued BY DEF FirstQueued
  <1>4. AtHome BY ThreadAssumption DEF AtHome
  <1>5. HeadRuns BY MarkerAssumption DEF HeadRuns
  <1>6. NoneTurnedAway BY ThreadAssumption DEF NoneTurnedAway
  <1>7. OneOwed /\ NoneOwed BY DEF OneOwed, NoneOwed, Owed
  <1> QED BY <1>1, <1>2, <1>3, <1>4, <1>5, <1>6, <1>7 DEF Calm

(* A kernel that stops keeps the types.                                      *)
LEMMA RestHalt ==
    ASSUME Rest, NEW why, Halt(why),
           why \in {"divide", "ring full", "not queued", "not the head", "interrupts off", "exit", "wild"}
    PROVE  Rest'
  BY DEF Rest, Halt, cpuVars, threadVars

(* Every step keeps the types.                                               *)
LEMMA RestNext == ASSUME IInv, Rest, Next PROVE Rest'
  <1>1. ASSUME NEW c \in CPU, RunFast(c) PROVE Rest'
    <2>1. fast[c] \in Seq(Handler) /\ fast[c] # <<>> BY <1>1 DEF IInv, Sound, RunFast
    <2>2. Head(fast[c]) \in Thread BY <2>1 DEF Thread
    <2> QED BY <1>1, <2>2 DEF RunFast, Rest, threadVars
  <1>2. ASSUME NEW c \in CPU, RunNext(c) \/ Preempt(c) PROVE Rest'
    <2>1. CASE RunNext(c)
      <3>1. PICK t \in Main : current' = [current EXCEPT ![c] = t] BY <2>1 DEF RunNext, RunQueue
      <3>2. t \in Thread BY DEF Thread
      <3>3. flip' = [flip EXCEPT ![c] = FALSE] /\ UNCHANGED <<locker, state, latched, inservice, panic>>
        BY <2>1 DEF RunNext, threadVars
      <3> QED BY <3>1, <3>2, <3>3 DEF Rest
    <2>2. CASE Preempt(c) BY <2>2 DEF Preempt, Rest, threadVars
    <2> QED BY <1>2, <2>1, <2>2
  <1>3. ASSUME NEW i \in Line, Latch(i) PROVE Rest'
    BY <1>3 DEF Latch, Rest, threadVars, cpuVars, IInv, Lines
  <1>4. ASSUME NEW i \in Line, Spurious(i) PROVE Rest'
    BY <1>4 DEF Spurious, Rest, threadVars, cpuVars
  <1>5. ASSUME NEW i \in Line, irq_handler(i) PROVE Rest'
    <2>1. CASE Halt("wild") \/ Halt("ring full") BY <2>1, RestHalt
    <2>2. CASE ~(Halt("wild") \/ Halt("ring full"))
      BY <1>5, <2>2 DEF irq_handler, Rest, threadVars, cpuVars
    <2> QED BY <2>1, <2>2
  <1>6. ASSUME NEW t \in Handler, NEW c \in CPU, irq_ack(t, c) \/ CompleteTest(t, c) PROVE Rest'
    <2>1. CASE Halt("divide") BY <2>1, RestHalt
    <2>2. CASE ~Halt("divide") BY <1>6, <2>2 DEF irq_ack, CompleteTest, Rest, threadVars, cpuVars
    <2> QED BY <2>1, <2>2
  <1>7. ASSUME NEW t \in Handler, NEW c \in CPU, Accept(t, c) \/ Refuse(t, c) \/ Exit(t, c) PROVE Rest'
    <2>1. CASE \E why \in {"ring full", "interrupts off", "not queued", "not the head", "exit"} : Halt(why)
      BY <2>1, RestHalt
    <2>2. CASE ~ \E why \in {"ring full", "interrupts off", "not queued", "not the head", "exit"} : Halt(why)
      <3>1. CASE Accept(t, c) BY <2>2, <3>1 DEF Accept, DequeueError, Rest, threadVars, cpuVars
      <3>2. CASE Refuse(t, c)
        <4>1. UNCHANGED <<current, flip, locker, state, latched, inservice, panic>>
          BY <2>2, <3>2, Zenon DEF Refuse, DequeueError, cpuVars
        <4> QED BY <4>1 DEF Rest
      <3>3. CASE Exit(t, c) BY <2>2, <3>3 DEF Exit
      <3> QED BY <1>7, <3>1, <3>2, <3>3
    <2> QED BY <2>1, <2>2
  <1>8. ASSUME NEW t \in Thread, NEW c \in CPU, NEW i \in Line, CallStep(t, c, i) PROVE Rest'
    BY <1>8 DEF CallStep, RequestLock, request_irq, ReleaseLock, sched_lock_all, release_irq, Rest, threadVars, cpuVars
  <1> QED BY <1>1, <1>2, <1>3, <1>4, <1>5, <1>6, <1>7, <1>8 DEF Next, HandlerStep

(* A step that keeps the handlers and the answers of all lines was not the first refusal. *)
SameAnswers ==
    \A i \in Line : \A p \in 1..Len(hook[i].stubs) :
       p \in 1..Len(hook'[i].stubs) /\ hook'[i].stubs[p].nop = hook[i].stubs[p].nop

(* If nothing is disturbed after such a step, nothing was before.            *)
LEMMA CalmBefore ==
    ASSUME SameAnswers, Undisturbed',
           \A t \in Thread : state[t] = "suspended" /\ pc[t] # "new" => state'[t] = "suspended" /\ pc'[t] # "new"
    PROVE  Undisturbed
  <1>1. \A i \in Line : \A p \in 1..Len(hook'[i].stubs) : hook'[i].stubs[p].nop = 0
    BY DEF Undisturbed, count
  <1>2. \A i \in Line : \A p \in 1..Len(hook[i].stubs) : hook[i].stubs[p].nop = 0
    BY <1>1 DEF SameAnswers
  <1>3. \A t \in Thread : state'[t] = "suspended" => pc'[t] = "new"
    BY DEF Undisturbed
  <1> QED BY <1>2, <1>3 DEF Undisturbed, count

(* A step that moves no entry *)
LEMMA CalmFrame ==
    ASSUME IInv, Calm, SameHandlers, Unturned', HeadRuns', NoneTurnedAway', NoneOwed',
           UNCHANGED <<fast, irq, affinity, cpu>>,
           \A t \in Handler : pc'[t] = "user" => pc[t] = "user"
    PROVE  Calm'
  <1>1. Attached' BY DEF Calm, Attached, SameHandlers
  <1>2. \A c \in CPU : \A k \in 1..Len(fast[c]) : fast[c][k] \in Handler BY DEF IInv, Sound
  <1>3. FirstQueued'
    <2>1. ASSUME NEW t, First(t) PROVE First(t)'
      <3>1. irq[t] \in Line /\ hook[irq[t]].stubs \in Seq(Stub) BY <2>1 DEF First, IInv, Lines, Hook
      <3>2. 1 \in 1..Len(hook[irq[t]].stubs) BY <2>1, <3>1 DEF First, count
      <3> QED BY <2>1, <3>1, <3>2 DEF First, count, SameHandlers
    <2> QED BY <2>1 DEF Calm, FirstQueued
  <1>4. AtHome' BY DEF Calm, AtHome
  <1>5. ASSUME NEW c \in CPU, NEW k \in Nat, Owed(c, k)' PROVE Owed(c, k)
    <2>1. k \in 1..Len(fast[c]) BY <1>5 DEF Owed
    <2>2. k = 1 => fast[c][1] \in Handler BY <2>1, <1>2
    <2> QED BY <1>5, <2>1, <2>2 DEF Owed
  <1>6. OneOwed' BY <1>5 DEF Calm, OneOwed
  <1> QED BY <1>1, <1>3, <1>4, <1>6 DEF Calm

(* A step that leaves the lines alone keeps handlers and answers.            *)
LEMMA SameHook == ASSUME IInv, hook' = hook PROVE SameHandlers /\ SameAnswers
  BY DEF IInv, Lines, SameHandlers, SameAnswers

(* The loop of the scheduler *)
LEMMA CalmLoop ==
    ASSUME IInv, Rest, Calm, NEW c \in CPU, RunFast(c) \/ RunNext(c) \/ Preempt(c)
    PROVE  Calm'
  <1>1. UNCHANGED <<hook, fast, irq, affinity, cpu, pc, pos, inservice>>
    BY DEF RunFast, RunNext, Preempt, lineVars, threadVars, queueVars
  <1>2. SameHandlers BY <1>1, SameHook
  <1>3. Unturned' /\ NoneTurnedAway' BY <1>1 DEF Calm, Unturned, NoneTurnedAway
  <1>4. NoneOwed' BY <1>1 DEF Calm, NoneOwed, Owed
  <1>5. HeadRuns'
    <2>1. CASE RunFast(c)
      <3>1. fast[c] \in Seq(Handler) /\ fast[c] # <<>> BY <2>1 DEF IInv, Sound, RunFast
      <3>2. Len(fast[c]) > 0 /\ Head(fast[c]) = fast[c][1] BY <3>1
      <3> QED BY <1>1, <2>1, <3>2 DEF RunFast, Calm, HeadRuns, Rest
    <2>2. CASE RunNext(c)
      <3>1. PICK t \in Main : current' = [current EXCEPT ![c] = t] BY <2>2 DEF RunNext, RunQueue
      <3> QED BY <1>1, <3>1, ThreadAssumption DEF Calm, HeadRuns, Rest
    <2>3. CASE Preempt(c)
      BY <1>1, <2>3 DEF Preempt, Calm, HeadRuns, Rest, Thread
    <2> QED BY <2>1, <2>2, <2>3
  <1> QED BY <1>1, <1>2, <1>3, <1>4, <1>5, CalmFrame

(* A step that changes neither queue nor line nor place *)
LEMMA CalmStill ==
    ASSUME IInv, Calm, UNCHANGED <<hook, fast, irq, affinity, cpu, pos, pc, inservice, current>>
    PROVE  Calm'
  <1>1. SameHandlers BY SameHook
  <1>2. Unturned' /\ NoneTurnedAway' BY DEF Calm, Unturned, NoneTurnedAway
  <1>3. HeadRuns' BY DEF Calm, HeadRuns
  <1>4. NoneOwed' BY DEF Calm, NoneOwed, Owed
  <1> QED BY <1>1, <1>2, <1>3, <1>4, CalmFrame

(* Raising an interrupt changes the counts of the line only. *)
LEMMA RaisedHook ==
    ASSUME IInv, NEW i \in Line, hook' = [hook EXCEPT ![i] = Raised(i)]
    PROVE  /\ SameHandlers /\ SameAnswers
           /\ \A j \in Line : hook'[j].last = hook[j].last /\ hook'[j].index \in {0, hook[j].index}
  <1>1. SameHandlers BY RaisedKeeps DEF IInv
  <1>2. hook \in [Line -> Hook] BY DEF IInv, Lines
  <1>3. Raised(i).index = 0 /\ Raised(i).last = hook[i].last /\ Raised(i).stubs = hook[i].stubs
    <2>1. PICK r \in Nat, x \in Nat, l \in Nat, s \in Seq(Stub) :
             hook[i] = [raised |-> r, index |-> x, last |-> l, stubs |-> s]
      BY <1>2 DEF Hook
    <2>2. Raised(i) = [hook[i] EXCEPT !.raised = r + 1, !.index = 0] BY <2>1 DEF Raised
    <2> QED BY <2>1, <2>2
  <1>4. SameAnswers BY <1>2, <1>3 DEF SameAnswers
  <1>5. \A j \in Line : hook'[j].last = hook[j].last /\ hook'[j].index \in {0, hook[j].index}
    BY <1>2, <1>3
  <1> QED BY <1>1, <1>4, <1>5

(* An interrupt without a handler                                            *)
LEMMA CalmSpurious == ASSUME IInv, Calm, NEW i \in Line, Spurious(i) PROVE Calm'
  <1>1. /\ hook' = [hook EXCEPT ![i] = Raised(i)]
        /\ UNCHANGED <<fast, irq, affinity, cpu, pc, pos, current>> /\ inservice' = i
    BY DEF Spurious, threadVars, queueVars, cpuVars
  <1>2. /\ SameHandlers
        /\ \A j \in Line : hook'[j].last = hook[j].last /\ hook'[j].index \in {0, hook[j].index}
    BY <1>1, RaisedHook
  <1>3. Unturned' BY <1>2 DEF Calm, Unturned
  <1>4. NoneTurnedAway' BY <1>1 DEF Calm, NoneTurnedAway
  <1>5. HeadRuns' BY <1>1 DEF Calm, HeadRuns
  <1>6. NoneOwed' BY <1>1 DEF NoneOwed
  <1> QED BY <1>1, <1>2, <1>3, <1>4, <1>5, <1>6, CalmFrame

(* Places that the caller leaves "user" for *)
LEMMA CalmPlace ==
    ASSUME IInv, Calm, NEW t \in Thread, NEW place \in {"acked", "request", "release"},
           place = "request" => t \notin Handler,
           pc' = [pc EXCEPT ![t] = place], UNCHANGED <<hook, fast, irq, affinity, cpu, pos, current, inservice>>
    PROVE  Calm'
  <1>1. SameHandlers BY SameHook
  <1>2. Unturned' /\ HeadRuns' BY DEF Calm, Unturned, HeadRuns
  <1>3. \A u \in Thread : pc'[u] = IF u = t THEN place ELSE pc[u] BY DEF IInv, Places
  <1>4. NoneTurnedAway' BY <1>3 DEF Calm, NoneTurnedAway, Thread
  <1>5. \A u \in Handler : pc'[u] = "user" => pc[u] = "user" BY <1>3 DEF Thread
  <1>6. \A c \in CPU : \A k \in 1..Len(fast[c]) : fast[c][k] \in Handler BY DEF IInv, Sound
  <1>7. NoneOwed' BY <1>5, <1>6 DEF Calm, NoneOwed, Owed
  <1> QED BY <1>1, <1>2, <1>4, <1>5, <1>7, CalmFrame

(* One entry that is served and one that is owed are all there is.           *)
LEMMA Short ==
    ASSUME IInv, Calm, NEW c \in CPU
    PROVE  Len(fast[c]) <= 2 /\ (inservice = NoLine => Len(fast[c]) <= 1)
  <1>1. Len(fast[c]) \in Nat BY DEF IInv, Sound
  <1>2. Len(fast[c]) >= 2 => Owed(c, 2) BY <1>1 DEF Owed
  <1>3. Len(fast[c]) >= 3 => Owed(c, 3) BY <1>1 DEF Owed
  <1>4. ~(Owed(c, 2) /\ Owed(c, 3)) BY DEF Calm, OneOwed
  <1>5. inservice = NoLine => ~Owed(c, 2) BY DEF Calm, NoneOwed
  <1> QED BY <1>1, <1>2, <1>3, <1>4, <1>5

(* A kernel that stops changes nothing else.                                 *)
LEMMA HaltCalm == ASSUME IInv, Calm, NEW why, Halt(why) PROVE Calm'
  <1>1. UNCHANGED <<hook, fast, irq, affinity, cpu, pos, pc, inservice, current>>
    BY DEF Halt, lineVars, threadVars, queueVars, cpuVars
  <1> QED BY <1>1, CalmStill

(* An interrupt is queued for the first handler of its line. *)
LEMMA FirstHandler ==
    ASSUME IInv, Calm, NEW i \in Line, count(i) > 0
    PROVE  /\ hook[i].last = 0
           /\ StubAt(i, 0).tr \in Handler
           /\ affinity[StubAt(i, 0).tr] \in CPU
           /\ First(StubAt(i, 0).tr)
  <1>1. count(i) \in Nat /\ 1 \in 1..Len(hook[i].stubs) BY DEF IInv, Lines, Hook, count
  <1>2. StubAt(i, 0).tr \in Handler /\ affinity[StubAt(i, 0).tr] \in CPU BY <1>1, StubHandler DEF IInv
  <1>3. StubAt(i, 0) = hook[i].stubs[1] BY DEF StubAt
  <1>4. irq[StubAt(i, 0).tr] = i BY <1>1, <1>3 DEF Calm, Attached
  <1> QED BY <1>2, <1>3, <1>4 DEF First, Calm, Unturned

(* The entry of a new interrupt is the only one that is owed a service.      *)
LEMMA CalmHandler == ASSUME IInv, Rest, Calm, NEW i \in Line, irq_handler(i) PROVE Calm'
  <1>1. CASE \E why : Halt(why) BY <1>1, HaltCalm
  <1>2. CASE ~ \E why : Halt(why)
    <2>1. count(i) > 0 /\ inservice = NoLine BY DEF irq_handler, Deliver
    <2> DEFINE t == StubAt(i, 0).tr
               d == affinity[t]
    <2>2. hook[i].last = 0 /\ t \in Handler /\ d \in CPU /\ First(t) BY <2>1, FirstHandler
    <2>3. /\ hook' = [hook EXCEPT ![i] = Raised(i)]
          /\ fast' = FastQueued(fast, t)
          /\ cpu' = [cpu EXCEPT ![t] = affinity[t]]
          /\ inservice' = i
          /\ UNCHANGED <<irq, pc, pos, affinity, current>>
      BY <1>2, <2>2 DEF irq_handler, threadVars, cpuVars
    <2>4. /\ SameHandlers
          /\ \A j \in Line : hook'[j].last = hook[j].last /\ hook'[j].index \in {0, hook[j].index}
      BY <2>3, RaisedHook
    <2>7. Unturned' BY <2>4 DEF Calm, Unturned
    <2>9. Attached' BY <2>3, <2>4 DEF Calm, Attached, SameHandlers
    <2>10. NoneTurnedAway' BY <2>3 DEF Calm, NoneTurnedAway
    <2>11. AtHome' BY <2>2, <2>3 DEF Calm, AtHome, IInv, Sound, Thread
    <2>12. NoneOwed' BY <2>3 DEF NoneOwed
    <2> HIDE DEF t, d
    <2>13. fast \in [CPU -> Seq(Handler)] BY DEF IInv, Sound
    <2>14. fast' = [fast EXCEPT ![d] = Append(fast[d], t)] BY <2>2, <2>3 DEF FastQueued, d
    <2>15. /\ fast'[d] = Append(fast[d], t)
           /\ \A c \in CPU \ {d} : fast'[c] = fast[c]
      BY <2>2, <2>13, <2>14
    <2>16. /\ Len(fast'[d]) = Len(fast[d]) + 1 /\ Len(fast[d]) \in Nat
           /\ \A k \in 1..Len(fast[d]) : fast'[d][k] = fast[d][k]
           /\ fast'[d][Len(fast[d]) + 1] = t
      BY <2>2, <2>13, <2>15
    <2>17. \A u : First(u) => First(u)'
      <3> SUFFICES ASSUME NEW u, First(u) PROVE First(u)' OBVIOUS
      <3>1. irq[u] \in Line /\ hook[irq[u]].stubs \in Seq(Stub) BY DEF First, IInv, Lines, Hook
      <3>2. 1 \in 1..Len(hook[irq[u]].stubs) BY <3>1 DEF First, count
      <3> QED BY <2>3, <2>4, <3>1, <3>2 DEF First, count, SameHandlers
    <2>18. FirstQueued'
      <3>1. ASSUME NEW c \in CPU, NEW k \in 1..Len(fast'[c]), NEW u, u = fast'[c][k] PROVE First(u)
        <4>1. CASE c # d BY <3>1, <4>1, <2>15 DEF Calm, FirstQueued
        <4>2. CASE c = d
          <5>1. k \in 1..Len(fast[d]) \/ k = Len(fast[d]) + 1 BY <3>1, <4>2, <2>16
          <5> QED BY <5>1, <3>1, <4>2, <2>2, <2>16 DEF Calm, FirstQueued
        <4> QED BY <4>1, <4>2
      <3>2. \A c \in CPU : \A k \in 1..Len(fast'[c]) : \A u : u = fast'[c][k] => First(u)' BY <3>1, <2>17
      <3> QED BY <3>2 DEF FirstQueued, First
    <2>19. HeadRuns' BY <2>2, <2>3, <2>15, <2>16 DEF Calm, HeadRuns
    <2>20. ASSUME NEW c \in CPU, NEW k \in Nat, Owed(c, k)' PROVE c = d /\ k = Len(fast[d]) + 1
      <3>1. ~Owed(c, k) BY <2>1 DEF Calm, NoneOwed
      <3>2. CASE c # d BY <2>3, <2>15, <2>20, <3>1, <3>2 DEF Owed
      <3>3. CASE c = d /\ k \in 1..Len(fast[d]) BY <2>3, <2>16, <2>20, <3>1, <3>3 DEF Owed
      <3>4. CASE c = d /\ k \notin 1..Len(fast[d]) BY <2>16, <2>20, <3>4 DEF Owed
      <3> QED BY <3>2, <3>3, <3>4
    <2>21. OneOwed' BY <2>20 DEF OneOwed
    <2> QED BY <2>7, <2>9, <2>10, <2>11, <2>12, <2>18, <2>19, <2>21 DEF Calm
  <1> QED BY <1>1, <1>2

(* There is room in the ring, and stubs[last] exists.                        *)
LEMMA GuardHandler ==
    ASSUME MAX_FAST > 3, IInv, Rest, Calm, NEW i \in Line, irq_handler(i)
    PROVE  panic' = panic
  <1>1. count(i) > 0 /\ inservice = NoLine BY DEF irq_handler, Deliver
  <1> DEFINE t == StubAt(i, 0).tr
  <1>2. hook[i].last = 0 /\ affinity[t] \in CPU BY <1>1, FirstHandler
  <1>3. count(i) \in Nat BY DEF IInv, Lines, Hook, count
  <1>4. Len(fast[affinity[t]]) <= 1 /\ Len(fast[affinity[t]]) \in Nat
    BY <1>1, <1>2, Short DEF IInv, Sound
  <1>5. ~RingFull(fast, t) BY <1>4, RingAssumption DEF RingFull
  <1>6. ~(hook[i].last >= count(i)) BY <1>1, <1>2, <1>3
  <1> QED BY <1>2, <1>5, <1>6 DEF irq_handler

(* A handler that runs is the first of its line, and its turn has come. *)
LEMMA RunningFirst ==
    ASSUME IInv, Calm, NEW t \in Handler, NEW c \in CPU, current[c] = t
    PROVE  /\ irq[t] \in Line /\ count(irq[t]) \in Nat \ {0} /\ Turn(irq[t]) = 0
           /\ StubAt(irq[t], 0).tr = t
           /\ Len(fast[c]) \in Nat \ {0} /\ fast[c][1] = t
           /\ affinity[t] = c /\ cpu[t] = c
  <1>1. Len(fast[c]) \in Nat \ {0} /\ fast[c][1] = t BY DEF Calm, HeadRuns, IInv, Sound
  <1>2. First(t) BY <1>1 DEF Calm, FirstQueued
  <1>3. irq[t] \in Line /\ count(irq[t]) \in Nat \ {0} BY <1>2 DEF First, count, IInv, Lines, Hook
  <1>4. hook[irq[t]].index + hook[irq[t]].last = 0 BY <1>3 DEF Calm, Unturned
  <1>5. Turn(irq[t]) = 0 BY <1>3, <1>4, ZeroTurn DEF Turn
  <1>6. affinity[t] = c BY <1>1 DEF IInv, Sound
  <1>7. 1 \in Entries(fast[c], t) BY <1>1 DEF Entries
  <1>8. fast_queued[t] # 0
    <2>1. fast_queued[t] = Cardinality(Entries(fast[c], t)) BY <1>6 DEF IInv, Sound
    <2>2. fast[c] \in Seq(Handler) BY DEF IInv, Sound
    <2>3. IsFiniteSet(Entries(fast[c], t)) BY <2>2, EntriesFinite
    <2> QED BY <1>7, <2>1, <2>3, FS_EmptySet
  <1>9. cpu[t] = c BY <1>6, <1>8 DEF IInv, Sound, Calm, AtHome
  <1> QED BY <1>1, <1>2, <1>3, <1>5, <1>6, <1>9 DEF First, StubAt

(* The handler that acknowledges serves the one entry that was owed.         *)
LEMMA CalmAck ==
    ASSUME IInv, Rest, Calm, NEW t \in Handler, NEW c \in CPU, irq_ack(t, c)
    PROVE  Calm' /\ panic' = panic
  <1>1. current[c] = t /\ pc[t] = "user" BY DEF irq_ack, Runs
  <1>2. count(irq[t]) # 0 /\ Len(fast[c]) \in Nat \ {0} /\ fast[c][1] = t BY <1>1, RunningFirst
  <1>3. /\ pc' = [pc EXCEPT ![t] = "acked"]
        /\ UNCHANGED <<hook, fast, irq, affinity, cpu, pos, current, panic>>
    BY <1>2 DEF irq_ack, lineVars, queueVars, cpuVars
  <1>4. t \in Thread BY DEF Thread
  <1>5. SameHandlers BY <1>3, SameHook
  <1>6. Unturned' /\ HeadRuns' BY <1>3 DEF Calm, Unturned, HeadRuns
  <1>7. \A u \in Thread : pc'[u] = IF u = t THEN "acked" ELSE pc[u] BY <1>3, <1>4 DEF IInv, Places
  <1>8. NoneTurnedAway' BY <1>3, <1>7 DEF Calm, NoneTurnedAway, Thread
  <1>9. \A u \in Handler : pc'[u] = "user" => pc[u] = "user" BY <1>7 DEF Thread
  <1>10. Owed(c, 1) BY <1>1, <1>2 DEF Owed
  <1>11. ASSUME NEW d \in CPU, NEW k \in Nat, Owed(d, k)' PROVE FALSE
    <2>1. k \in 1..Len(fast[d]) /\ (k = 1 => pc'[fast[d][1]] = "user") BY <1>3, <1>11 DEF Owed
    <2>2. k = 1 => fast[d][1] \in Handler BY <2>1 DEF IInv, Sound
    <2>3. Owed(d, k) BY <2>1, <2>2, <1>9 DEF Owed
    <2>4. d = c /\ k = 1 BY <1>10, <2>3 DEF Calm, OneOwed
    <2> QED BY <2>1, <2>4, <1>2, <1>4, <1>7
  <1>12. NoneOwed' BY <1>11 DEF NoneOwed
  <1> QED BY <1>3, <1>5, <1>6, <1>8, <1>9, <1>12, CalmFrame

(* irq_complete finds that it is the turn of its caller.                     *)
LEMMA CalmTest ==
    ASSUME IInv, Rest, Calm, NEW t \in Handler, NEW c \in CPU, CompleteTest(t, c)
    PROVE  Calm' /\ panic' = panic
  <1>1. current[c] = t BY DEF CompleteTest, Runs
  <1>2. irq[t] \in Line /\ count(irq[t]) # 0 /\ Turn(irq[t]) = 0 /\ StubAt(irq[t], 0).tr = t
    BY <1>1, RunningFirst
  <1>3. /\ pc' = [pc EXCEPT ![t] = "complete"] /\ pos' = [pos EXCEPT ![t] = 0]
        /\ UNCHANGED <<hook, fast, irq, affinity, cpu, current, inservice, panic>>
    BY <1>2 DEF CompleteTest, queueVars, cpuVars
  <1>4. t \in Thread BY DEF Thread
  <1>5. SameHandlers BY <1>3, SameHook
  <1>6. Unturned' /\ HeadRuns' BY <1>3 DEF Calm, Unturned, HeadRuns
  <1>7. \A u \in Thread : /\ pc'[u] = IF u = t THEN "complete" ELSE pc[u]
                          /\ pos'[u] = IF u = t THEN 0 ELSE pos[u]
    BY <1>3, <1>4 DEF IInv, Places
  <1>8. NoneTurnedAway' BY <1>7 DEF Calm, NoneTurnedAway, Thread
  <1>9. \A u \in Handler : pc'[u] = "user" => pc[u] = "user" BY <1>7 DEF Thread
  <1>10. \A d \in CPU : \A k \in 1..Len(fast[d]) : fast[d][k] \in Handler BY DEF IInv, Sound
  <1>11. NoneOwed' BY <1>3, <1>9, <1>10 DEF Calm, NoneOwed, Owed
  <1> QED BY <1>3, <1>5, <1>6, <1>8, <1>9, <1>11, CalmFrame

(* What counting an answer does to a line *)
LEMMA AckStub ==
    ASSUME NEW h \in Hook, NEW p \in 1..Len(h.stubs), NEW l \in Nat
    PROVE  /\ AckOf(h, p, l).index = h.index /\ AckOf(h, p, l).last = l
           /\ \A k \in 1..Len(h.stubs) : AckOf(h, p, l).stubs[k].nop = h.stubs[k].nop
           /\ Len(AckOf(h, p, l).stubs) = Len(h.stubs)
           /\ Len(NopOf(h, p, l).stubs) = Len(h.stubs)
           /\ NopOf(h, p, l).stubs[p].nop # 0
  <1> DEFINE s == h.stubs
             a == [s[p] EXCEPT !.ack = @ + 1]
             n == [s[p] EXCEPT !.nop = @ + 1]
  <1>1. s \in Seq(Stub) /\ s[p] \in Stub BY DEF Hook
  <1>2. a.nop = s[p].nop /\ n.nop # 0
    <2>1. \A e \in Stub : [e EXCEPT !.ack = @ + 1].nop = e.nop BY DEF Stub
    <2>2. \A e \in Stub : [e EXCEPT !.nop = @ + 1].nop = e.nop + 1 /\ e.nop \in Nat BY DEF Stub
    <2> QED BY <1>1, <2>1, <2>2
  <1>3. AckOf(h, p, l).stubs = [s EXCEPT ![p] = a] BY DEF Hook, AckOf
  <1>4. NopOf(h, p, l).stubs = [s EXCEPT ![p] = n] BY DEF Hook, NopOf
  <1>5. AckOf(h, p, l).index = h.index /\ AckOf(h, p, l).last = l BY DEF Hook, AckOf
  <1>6. ASSUME NEW e PROVE /\ Len([s EXCEPT ![p] = e]) = Len(s) /\ [s EXCEPT ![p] = e][p] = e
                           /\ \A k \in 1..Len(s) : k # p => [s EXCEPT ![p] = e][k] = s[k]
    BY <1>1
  <1> HIDE DEF a, n
  <1>7. \A k \in 1..Len(s) : [s EXCEPT ![p] = a][k].nop = s[k].nop BY <1>1, <1>2, <1>6
  <1> QED BY <1>2, <1>3, <1>4, <1>5, <1>6, <1>7

(* An accepted interrupt leaves the turn where it was.                       *)
LEMMA AckedHook ==
    ASSUME IInv, NEW t \in Handler, pc[t] = "complete", hook' = Acked(t)
    PROVE  /\ SameHandlers /\ SameAnswers
           /\ \A j \in Line : hook'[j].index = hook[j].index /\ hook'[j].last \in {hook[j].last, pos[t]}
  <1> DEFINE i == irq[t]
             p == pos[t] + 1
  <1>1. t \in Thread BY DEF Thread
  <1>2. i \in Line /\ hook[i] \in Hook /\ pos[t] \in Nat /\ pos[t] < Len(hook[i].stubs)
    BY <1>1 DEF IInv, Places, Lines
  <1>3. p \in 1..Len(hook[i].stubs) BY <1>2 DEF Hook
  <1>4. hook'[i] = AckOf(hook[i], p, pos[t]) BY <1>2 DEF IInv, Lines, AckOf, Acked
  <1>5. \A j \in Line \ {i} : hook'[j] = hook[j] BY <1>2 DEF IInv, Lines, Acked
  <1>6. SameHandlers BY CompleteHook
  <1> HIDE DEF i, p
  <1>7. /\ hook'[i].index = hook[i].index /\ hook'[i].last = pos[t]
        /\ \A k \in 1..Len(hook[i].stubs) : hook'[i].stubs[k].nop = hook[i].stubs[k].nop
    BY <1>2, <1>3, <1>4, AckStub
  <1>8. SameAnswers BY <1>5, <1>6, <1>7 DEF SameAnswers, SameHandlers
  <1> QED BY <1>5, <1>6, <1>7, <1>8

(* An entry that was served leaves, and what is owed moves up.               *)
LEMMA CalmAccept ==
    ASSUME IInv, Rest, Calm, NEW t \in Handler, NEW c \in CPU, Accept(t, c)
    PROVE  Calm' /\ panic' = panic
  <1>1. current[c] = t /\ pc[t] = "complete" BY DEF Accept, Runs
  <1>2. /\ Len(fast[c]) \in Nat \ {0} /\ fast[c][1] = t /\ cpu[t] = c /\ affinity[t] = c
    BY <1>1, RunningFirst
  <1>3. fast \in [CPU -> Seq(Handler)] BY DEF IInv, Sound
  <1>4. fast[c] # <<>> /\ Head(fast[c]) = t BY <1>2, <1>3
  <1>5. DequeueError(t, c, fast) = "no" BY <1>2, <1>4 DEF DequeueError
  <1>6. /\ hook' = Acked(t)
        /\ fast' = [fast EXCEPT ![c] = Tail(@)]
        /\ cpu' = [cpu EXCEPT ![t] = IF fast_queued[t] = 1 THEN NoCpu ELSE @]
        /\ pc' = [pc EXCEPT ![t] = "user"]
        /\ current' = [current EXCEPT ![c] = Nobody]
        /\ pos' = [pos EXCEPT ![t] = 0]
        /\ UNCHANGED <<irq, affinity, inservice, panic>>
    BY <1>5 DEF Accept, Acked, Dequeued
  <1>7. t \in Thread BY DEF Thread
  <1>8. /\ SameHandlers
        /\ \A j \in Line : hook'[j].index = hook[j].index /\ hook'[j].last \in {hook[j].last, pos[t]}
    BY <1>1, <1>6, AckedHook
  <1>9. Unturned' BY <1>1, <1>8 DEF Calm, Unturned, NoneTurnedAway
  <1>10. Attached' BY <1>6, <1>8 DEF Calm, Attached, SameHandlers
  <1>11. \A u \in Thread : /\ pc'[u] = IF u = t THEN "user" ELSE pc[u]
                           /\ pos'[u] = IF u = t THEN 0 ELSE pos[u]
    BY <1>6, <1>7 DEF IInv, Places
  <1>12. NoneTurnedAway' BY <1>11 DEF Calm, NoneTurnedAway, Thread
  <1>13. AtHome' BY <1>6, <1>7 DEF Calm, AtHome, IInv, Sound, Thread
  <1>14. /\ fast'[c] = Tail(fast[c]) /\ \A d \in CPU \ {c} : fast'[d] = fast[d]
    BY <1>3, <1>6
  <1>15. /\ Len(fast'[c]) = Len(fast[c]) - 1
         /\ \A k \in 1..Len(fast'[c]) : k + 1 \in 1..Len(fast[c]) /\ fast'[c][k] = fast[c][k + 1]
    BY <1>2, <1>3, <1>4, <1>14
  <1>16. \A u : First(u) => First(u)'
    <2> SUFFICES ASSUME NEW u, First(u) PROVE First(u)' OBVIOUS
    <2>1. irq[u] \in Line /\ hook[irq[u]].stubs \in Seq(Stub) BY DEF First, IInv, Lines, Hook
    <2>2. 1 \in 1..Len(hook[irq[u]].stubs) BY <2>1 DEF First, count
    <2> QED BY <1>6, <1>8, <2>1, <2>2 DEF First, count, SameHandlers
  <1>17. FirstQueued'
    <2>1. ASSUME NEW d \in CPU, NEW k \in 1..Len(fast'[d]), NEW u, u = fast'[d][k] PROVE First(u)
      BY <2>1, <1>14, <1>15 DEF Calm, FirstQueued
    <2>2. \A d \in CPU : \A k \in 1..Len(fast'[d]) : \A u : u = fast'[d][k] => First(u)' BY <2>1, <1>16
    <2> QED BY <2>2 DEF FirstQueued, First
  <1>18. HeadRuns'
    <2>1. \A d \in CPU : current'[d] = IF d = c THEN Nobody ELSE current[d] BY <1>6 DEF Rest
    <2> QED BY <2>1, <1>14 DEF Calm, HeadRuns, Thread
  <1>19. ASSUME NEW d \in CPU, NEW k \in Nat, Owed(d, k)'
         PROVE  IF d = c THEN Owed(c, k + 1) ELSE Owed(d, k)
    <2>1. CASE d = c
      <3>1. k \in 1..Len(fast'[c]) BY <1>19, <2>1 DEF Owed
      <3>2. k + 1 \in 1..Len(fast[c]) /\ k + 1 # 1 BY <3>1, <1>15
      <3> QED BY <2>1, <3>2 DEF Owed
    <2>2. CASE d # c
      <3>1. k \in 1..Len(fast[d]) /\ (k = 1 => pc'[fast[d][1]] = "user") BY <1>14, <1>19, <2>2 DEF Owed
      <3>2. k = 1 => fast[d][1] \in Handler /\ affinity[fast[d][1]] = d BY <3>1 DEF IInv, Sound
      <3>3. k = 1 => pc[fast[d][1]] = "user" BY <1>2, <1>11, <2>2, <3>1, <3>2 DEF Thread
      <3> QED BY <2>2, <3>1, <3>3 DEF Owed
    <2> QED BY <2>1, <2>2
  <1>20. NoneOwed' BY <1>6, <1>19 DEF Calm, NoneOwed
  <1>21. OneOwed'
    <2> SUFFICES ASSUME NEW d \in CPU, NEW e \in CPU, NEW k \in Nat, NEW l \in Nat,
                        Owed(d, k)', Owed(e, l)'
                 PROVE  d = e /\ k = l
      BY DEF OneOwed
    <2>1. CASE d = c /\ e = c BY <1>19, <2>1 DEF Calm, OneOwed
    <2>2. CASE d = c /\ e # c BY <1>19, <2>2 DEF Calm, OneOwed
    <2>3. CASE d # c /\ e = c BY <1>19, <2>3 DEF Calm, OneOwed
    <2>4. CASE d # c /\ e # c BY <1>19, <2>4 DEF Calm, OneOwed
    <2> QED BY <2>1, <2>2, <2>3, <2>4
  <1> QED BY <1>6, <1>8, <1>9, <1>10, <1>12, <1>13, <1>17, <1>18, <1>20, <1>21 DEF Calm

(* A refusal that does not stop the kernel ends the calm. *)
LEMMA RefuseDisturbs ==
    ASSUME IInv, NEW t \in Handler, NEW c \in CPU, Refuse(t, c), ~ \E why : Halt(why)
    PROVE  ~Undisturbed'
  <1>1. pc[t] = "complete" /\ hook' = Nopped(t) BY Zenon DEF Refuse, Nopped
  <1> DEFINE i == irq[t]
             p == pos[t] + 1
  <1>2. t \in Thread BY DEF Thread
  <1>3. i \in Line /\ hook[i] \in Hook /\ pos[t] \in Nat /\ pos[t] < Len(hook[i].stubs)
    BY <1>1, <1>2 DEF IInv, Places, Lines
  <1>4. p \in 1..Len(hook[i].stubs) /\ hook[i].index + 1 \in Nat BY <1>3 DEF Hook
  <1>5. hook'[i] = NopOf(hook[i], p, hook[i].index + 1) BY <1>1, <1>3 DEF IInv, Lines, NopOf, Nopped
  <1> HIDE DEF i, p
  <1>6. Len(hook'[i].stubs) = Len(hook[i].stubs) /\ hook'[i].stubs[p].nop # 0
    BY <1>3, <1>4, <1>5, AckStub
  <1> QED BY <1>3, <1>4, <1>6 DEF Undisturbed, count

(* The first refusal finds room in the ring and its caller at the head.      *)
LEMMA GuardRefuse ==
    ASSUME MAX_FAST > 3, IInv, Rest, Calm, NEW t \in Handler, NEW c \in CPU, Refuse(t, c)
    PROVE  panic' \in {panic, "interrupts off"}
  <1>1. current[c] = t /\ pc[t] = "complete" BY DEF Refuse, Runs
  <1>2. /\ Len(fast[c]) \in Nat \ {0} /\ fast[c][1] = t /\ cpu[t] = c
        /\ irq[t] \in Line /\ count(irq[t]) \in Nat \ {0}
    BY <1>1, RunningFirst
  <1>3. fast \in [CPU -> Seq(Handler)] BY DEF IInv, Sound
  <1> DEFINE i == irq[t]
             more == hook[i].index + 1 < count(i)
             next == StubAt(i, (pos[t] + 1) % count(i)).tr
             f == IF more THEN FastQueued(fast, next) ELSE fast
  <1>4. next \in Handler /\ affinity[next] \in CPU
    <2>1. t \in Thread BY DEF Thread
    <2>2. pos[t] + 1 \in Nat BY <2>1 DEF IInv, Places
    <2>3. (pos[t] + 1) % count(i) \in 0 .. count(i) - 1 BY <1>2, <2>2, Remainder
    <2>4. (pos[t] + 1) % count(i) \in Nat /\ (pos[t] + 1) % count(i) < count(i) BY <1>2, <2>3
    <2> QED BY <1>2, <2>4, StubHandler DEF IInv
  <1> HIDE DEF i, more, next
  <1>5. Len(fast[affinity[next]]) <= 2 /\ Len(fast[affinity[next]]) \in Nat BY <1>3, <1>4, Short
  <1>6. ~RingFull(fast, next) BY <1>5, RingAssumption DEF RingFull
  <1>7. f[c] # <<>> /\ Head(f[c]) = t
    <2>1. fast[c] \in Seq(Handler) /\ fast[c] # <<>> BY <1>2, <1>3
    <2>2. Append(fast[c], next) # <<>> /\ Head(Append(fast[c], next)) = t BY <1>2, <1>4, <2>1
    <2>3. f[c] = fast[c] \/ f[c] = Append(fast[c], next) BY <1>3, <1>4 DEF FastQueued
    <2>4. Head(fast[c]) = t BY <1>2, <2>1
    <2> QED BY <2>1, <2>2, <2>3, <2>4
  <1>8. DequeueError(t, c, f) = "no" BY <1>2, <1>7 DEF DequeueError
  <1> DEFINE why == IF more /\ RingFull(fast, next) THEN "ring full"
                    ELSE IF more /\ affinity[next] # c THEN "interrupts off" ELSE DequeueError(t, c, f)
  <1>9. why \in {"interrupts off", "no"} BY <1>6, <1>8
  <1>10. IF why # "no" THEN Halt(why) ELSE UNCHANGED panic
    BY Zenon DEF Refuse, i, more, next
  <1> HIDE DEF why
  <1> QED BY <1>9, <1>10 DEF Halt

(* Registration adds a handler at the end of its line. *)
LEMMA RequestHook ==
    ASSUME IInv, NEW i \in Line, NEW t \in Handler,
           hook' = [hook EXCEPT ![i].stubs = Append(@, NewStub(t))]
    PROVE  /\ SameAnswers
           /\ \A j \in Line : hook'[j].index = hook[j].index /\ hook'[j].last = hook[j].last
           /\ \A j \in Line \ {i} : hook'[j].stubs = hook[j].stubs
           /\ Len(hook[i].stubs) \in Nat
           /\ Len(hook'[i].stubs) = Len(hook[i].stubs) + 1
           /\ hook'[i].stubs[Len(hook[i].stubs) + 1].tr = t
           /\ \A k \in 1..Len(hook[i].stubs) : hook'[i].stubs[k] = hook[i].stubs[k]
  <1>1. hook[i] \in Hook /\ hook[i].stubs \in Seq(Stub) BY DEF IInv, Lines, Hook
  <1>2. NewStub(t) \in Stub /\ NewStub(t).tr = t BY DEF NewStub, Stub
  <1> DEFINE z == Append(hook[i].stubs, NewStub(t))
  <1>3. /\ Len(z) = Len(hook[i].stubs) + 1 /\ z[Len(hook[i].stubs) + 1].tr = t
        /\ Len(hook[i].stubs) \in Nat
        /\ \A k \in 1..Len(hook[i].stubs) : z[k] = hook[i].stubs[k]
    BY <1>1, <1>2
  <1>4. hook' = [hook EXCEPT ![i] = [hook[i] EXCEPT !.stubs = z]] OBVIOUS
  <1> HIDE DEF z
  <1>5. /\ hook'[i].stubs = z /\ hook'[i].index = hook[i].index /\ hook'[i].last = hook[i].last
        /\ \A j \in Line \ {i} : hook'[j] = hook[j]
    BY <1>1, <1>4 DEF IInv, Lines, Hook
  <1>6. SameAnswers BY <1>3, <1>5 DEF SameAnswers
  <1> QED BY <1>3, <1>5, <1>6

(* A new handler is in no queue and behind the others of its line.           *)
LEMMA CalmRequest ==
    ASSUME IInv, Rest, Calm, NEW m \in Thread, NEW c \in CPU, NEW i \in Line, NEW t \in Handler,
           request_irq(m, c, i, t)
    PROVE  Calm'
  <1>1. PICK b \in CPU : affinity' = [affinity EXCEPT ![t] = b]
    BY DEF request_irq
  <1>2. /\ pc[m] = "request" /\ pc[t] = "new"
        /\ hook' = [hook EXCEPT ![i].stubs = Append(@, NewStub(t))]
        /\ irq' = [irq EXCEPT ![t] = i]
        /\ pc' = [pc EXCEPT ![m] = "user", ![t] = "user"]
        /\ UNCHANGED <<pos, fast, cpu, current, inservice>>
    BY DEF request_irq, Fresh
  <1>3. t \in Thread /\ t # m /\ affinity[t] = NoCpu BY <1>2 DEF IInv, Affine, Thread
  <1>4. \A u \in Handler : affinity'[u] = IF u = t THEN b ELSE affinity[u]
    BY <1>1 DEF IInv, Affine
  <1>5. \A u \in Thread : /\ irq'[u] = IF u = t THEN i ELSE irq[u]
                          /\ pc'[u] = IF u \in {m, t} THEN "user" ELSE pc[u]
    BY <1>2, <1>3 DEF IInv, Places
  <1>6. /\ \A j \in Line : hook'[j].index = hook[j].index /\ hook'[j].last = hook[j].last
        /\ \A j \in Line \ {i} : hook'[j].stubs = hook[j].stubs
        /\ Len(hook[i].stubs) \in Nat
        /\ Len(hook'[i].stubs) = Len(hook[i].stubs) + 1
        /\ hook'[i].stubs[Len(hook[i].stubs) + 1].tr = t
        /\ \A k \in 1..Len(hook[i].stubs) : hook'[i].stubs[k] = hook[i].stubs[k]
    BY <1>2, RequestHook
  <1>13. Unturned' BY <1>6 DEF Calm, Unturned
  <1>14. \A j \in Line : \A p \in 1..Len(hook[j].stubs) : hook[j].stubs[p].tr \in Handler \ {t}
    <2>1. \A j \in Line : \A p \in 1..Len(hook[j].stubs) :
             hook[j].stubs[p] \in Stub /\ affinity[hook[j].stubs[p].tr] \in CPU
      BY DEF IInv, Lines, Hook
    <2> QED BY <2>1, <1>3 DEF Stub
  <1>15. Attached'
    <2> SUFFICES ASSUME NEW j \in Line, NEW p \in 1..Len(hook'[j].stubs)
                 PROVE  irq'[hook'[j].stubs[p].tr] = j
      BY DEF Attached
    <2>1. \A k \in 1..Len(hook[j].stubs) : irq'[hook[j].stubs[k].tr] = j
      BY <1>5, <1>14 DEF Calm, Attached, Thread
    <2>2. CASE j # i BY <2>1, <2>2, <1>6
    <2>3. CASE j = i
      <3>1. p = Len(hook[i].stubs) + 1 \/ p \in 1..Len(hook[i].stubs) BY <2>3, <1>6
      <3> QED BY <3>1, <2>1, <2>3, <1>3, <1>5, <1>6
    <2> QED BY <2>2, <2>3
  <1>16. \A d \in CPU : \A k \in 1..Len(fast[d]) : fast[d][k] \in Handler \ {t}
    BY <1>3 DEF IInv, Sound
  <1>17. FirstQueued'
    <2>1. ASSUME NEW u \in Handler \ {t}, First(u) PROVE First(u)'
      <3>1. irq[u] \in Line /\ hook[irq[u]].stubs \in Seq(Stub) BY <2>1 DEF First, IInv, Lines, Hook
      <3>2. 1 \in 1..Len(hook[irq[u]].stubs) BY <2>1, <3>1 DEF First, count
      <3>3. irq'[u] = irq[u] BY <2>1, <1>5 DEF Thread
      <3>4. CASE irq[u] = i
        <4>1. Len(hook'[i].stubs) > 0 /\ hook'[i].stubs[1] = hook[i].stubs[1] BY <3>2, <3>4, <1>6
        <4> QED BY <2>1, <3>3, <3>4, <4>1 DEF First, count
      <3>5. CASE irq[u] # i BY <2>1, <3>1, <3>3, <3>5, <1>6 DEF First, count
      <3> QED BY <3>4, <3>5
    <2>2. \A d \in CPU : \A k \in 1..Len(fast'[d]) : \A u : u = fast'[d][k] => First(u)'
      BY <1>2, <1>16, <2>1 DEF Calm, FirstQueued
    <2> QED BY <2>2 DEF FirstQueued, First
  <1>18. AtHome'
    <2>1. fast_queued[t] = 0 BY <1>3 DEF IInv, Sound
    <2>2. cpu[t] = NoCpu BY <2>1 DEF IInv, Sound
    <2> QED BY <2>2, <1>2, <1>4 DEF Calm, AtHome
  <1>19. HeadRuns' BY <1>2 DEF Calm, HeadRuns
  <1>20. NoneTurnedAway'
    <2>1. \A u \in Handler : pc'[u] = pc[u] \/ pc'[u] = "user" BY <1>5 DEF Thread
    <2>2. pos' = pos BY <1>2
    <2> QED BY <2>1, <2>2 DEF Calm, NoneTurnedAway
  <1>21. m \notin Handler BY <1>2 DEF Calm, NoneTurnedAway
  <1>22. ASSUME NEW d \in CPU, NEW k \in Nat, Owed(d, k)' PROVE Owed(d, k)
    <2>1. k \in 1..Len(fast[d]) /\ (k = 1 => pc'[fast[d][1]] = "user") BY <1>2, <1>22 DEF Owed
    <2>2. k = 1 => fast[d][1] \in Handler \ {t} BY <2>1, <1>16
    <2> QED BY <2>1, <2>2, <1>5, <1>21 DEF Owed, Thread
  <1>23. OneOwed' BY <1>22 DEF Calm, OneOwed
  <1>24. NoneOwed' BY <1>2, <1>22 DEF Calm, NoneOwed
  <1> QED BY <1>13, <1>15, <1>17, <1>18, <1>19, <1>20, <1>23, <1>24 DEF Calm

(* A release ends the calm. *)
LEMMA CalmRelease ==
    ASSUME IInv, Rest, NEW t \in Thread, NEW c \in CPU, NEW i \in Line, release_irq(t, c, i)
    PROVE  ~Undisturbed'
  <1>1. state'[t] = "suspended" /\ pc'[t] # "new" BY DEF release_irq, Rest, IInv, Places
  <1> QED BY <1>1 DEF Undisturbed

(* The calm lasts until the first refusal or release.                        *)
CalmInv == Undisturbed => Calm

(* What has been refused or released stays so. *)
LEMMA DisturbedStays == ASSUME IInv, Rest, Next, Undisturbed' PROVE Undisturbed
  <1> DEFINE Marks == \A t \in Thread : state[t] = "suspended" /\ pc[t] # "new" =>
                         state'[t] = "suspended" /\ pc'[t] # "new"
  <1>0. SameAnswers /\ Marks => Undisturbed BY CalmBefore
  <1>1. CASE hook' = hook /\ UNCHANGED <<state, pc>> BY <1>0, <1>1, SameHook
  <1>2. CASE \E why : Halt(why) BY <1>1, <1>2 DEF Halt, lineVars, threadVars
  <1>3. ASSUME NEW t \in Thread, NEW place \in {"user", "acked", "complete", "request", "release", "exit"},
               hook' = hook, state' = state, pc' = [pc EXCEPT ![t] = place]
        PROVE  Undisturbed
    <2>1. Marks BY <1>3 DEF IInv, Places
    <2> QED BY <1>0, <1>3, <2>1, SameHook
  <1>4. ASSUME NEW c \in CPU, RunFast(c) \/ RunNext(c) \/ Preempt(c) PROVE Undisturbed
    BY <1>1, <1>4 DEF RunFast, RunNext, Preempt, lineVars, threadVars
  <1>5. ASSUME NEW i \in Line, Latch(i) PROVE Undisturbed
    BY <1>1, <1>5 DEF Latch, lineVars, threadVars
  <1>6. ASSUME NEW i \in Line, Spurious(i) \/ irq_handler(i) PROVE Undisturbed
    <2>1. CASE ~ \E why : Halt(why)
      <3>1. hook' = [hook EXCEPT ![i] = Raised(i)] /\ UNCHANGED <<state, pc>>
        BY <1>6, <2>1 DEF Spurious, irq_handler, threadVars
      <3>2. SameAnswers BY <3>1, RaisedHook
      <3> QED BY <3>1, <3>2, <1>0
    <2> QED BY <2>1, <1>2
  <1>7. ASSUME NEW t \in Handler, NEW c \in CPU, HandlerStep(t, c), ~ \E why : Halt(why) PROVE Undisturbed
    <2>0. t \in Thread BY DEF Thread
    <2>1. CASE irq_ack(t, c) BY <1>3, <1>7, <2>0, <2>1 DEF irq_ack, lineVars
    <2>2. CASE CompleteTest(t, c)
      <3>1. hook' = hook /\ state' = state /\ (pc' = [pc EXCEPT ![t] = "exit"] \/ pc' = [pc EXCEPT ![t] = "complete"])
        BY <1>7, <2>2 DEF CompleteTest, lineVars
      <3> QED BY <1>3, <2>0, <3>1
    <2>3. CASE Accept(t, c)
      <3>1. pc[t] = "complete" /\ hook' = Acked(t) /\ state' = state /\ pc' = [pc EXCEPT ![t] = "user"]
        BY <1>7, <2>3 DEF Accept, Acked
      <3>2. SameAnswers BY <3>1, AckedHook
      <3>3. Marks BY <2>0, <3>1 DEF IInv, Places
      <3> QED BY <1>0, <3>2, <3>3
    <2>4. CASE Refuse(t, c) BY <1>7, <2>4, RefuseDisturbs
    <2>5. CASE Exit(t, c) BY <1>7, <2>5 DEF Exit
    <2> QED BY <1>7, <2>1, <2>2, <2>3, <2>4, <2>5 DEF HandlerStep
  <1>8. ASSUME NEW t \in Thread, NEW c \in CPU, NEW i \in Line, CallStep(t, c, i) PROVE Undisturbed
    <2>1. CASE RequestLock(t, c, i) BY <1>3, <2>1 DEF RequestLock
    <2>2. ASSUME NEW h \in Handler, request_irq(t, c, i, h) PROVE Undisturbed
      <3>1. /\ pc[h] = "new"
            /\ hook' = [hook EXCEPT ![i].stubs = Append(@, NewStub(h))]
            /\ state' = [state EXCEPT ![h] = "irq"]
            /\ pc' = [pc EXCEPT ![t] = "user", ![h] = "user"]
        BY <2>2 DEF request_irq, Fresh
      <3>2. SameAnswers BY <3>1, RequestHook
      <3>3. h \in Thread BY DEF Thread
      <3>4. Marks BY <3>1, <3>3 DEF IInv, Places, Rest
      <3> QED BY <1>0, <3>2, <3>4
    <2>3. CASE ReleaseLock(t, c, i) BY <1>3, <2>3 DEF ReleaseLock
    <2>4. CASE sched_lock_all(t, c) BY <1>1, <2>4 DEF sched_lock_all, lineVars, threadVars
    <2>5. CASE release_irq(t, c, i) BY <2>5, CalmRelease
    <2> QED BY <1>8, <2>1, <2>2, <2>3, <2>4, <2>5 DEF CallStep
  <1> QED BY <1>2, <1>4, <1>5, <1>6, <1>7, <1>8 DEF Next

(* Until the first refusal or release every step keeps it. *)
LEMMA CalmNext == ASSUME IInv, Rest, CalmInv, Next PROVE CalmInv'
  <1> SUFFICES ASSUME Undisturbed' PROVE Calm' BY DEF CalmInv
  <1>0. Calm BY DisturbedStays DEF CalmInv
  <1>1. ASSUME NEW c \in CPU, RunFast(c) \/ RunNext(c) \/ Preempt(c) PROVE Calm'
    BY <1>0, <1>1, CalmLoop
  <1>2. CASE UNCHANGED <<hook, fast, irq, affinity, cpu, pos, pc, inservice, current>>
    BY <1>0, <1>2, CalmStill
  <1>3. ASSUME NEW i \in Line, Latch(i) PROVE Calm'
    BY <1>2, <1>3 DEF Latch, lineVars, threadVars, queueVars, cpuVars
  <1>4. ASSUME NEW i \in Line, Spurious(i) \/ irq_handler(i) PROVE Calm'
    BY <1>0, <1>4, CalmSpurious, CalmHandler
  <1>5. ASSUME NEW t \in Handler, NEW c \in CPU, HandlerStep(t, c) PROVE Calm'
    <2>1. CASE irq_ack(t, c) \/ CompleteTest(t, c) \/ Accept(t, c)
      BY <1>0, <2>1, CalmAck, CalmTest, CalmAccept
    <2>2. CASE Refuse(t, c) BY <1>0, <2>2, RefuseDisturbs, HaltCalm
    <2>3. CASE Exit(t, c) BY <1>0, <2>3, HaltCalm DEF Exit
    <2> QED BY <1>5, <2>1, <2>2, <2>3 DEF HandlerStep
  <1>6. ASSUME NEW t \in Thread, NEW c \in CPU, NEW i \in Line, CallStep(t, c, i) PROVE Calm'
    <2>1. CASE RequestLock(t, c, i)
      <3>1. t \notin Handler BY <2>1, ThreadAssumption DEF RequestLock
      <3>2. pc' = [pc EXCEPT ![t] = "request"] /\ UNCHANGED <<hook, fast, irq, affinity, cpu, pos, current, inservice>>
        BY <2>1 DEF RequestLock, queueVars, cpuVars
      <3> QED BY <1>0, <3>1, <3>2, CalmPlace
    <2>2. CASE \E h \in Handler : request_irq(t, c, i, h) BY <1>0, <2>2, CalmRequest
    <2>3. CASE ReleaseLock(t, c, i)
      <3>1. pc' = [pc EXCEPT ![t] = "release"] /\ UNCHANGED <<hook, fast, irq, affinity, cpu, pos, current, inservice>>
        BY <2>3 DEF ReleaseLock, queueVars, cpuVars
      <3> QED BY <1>0, <3>1, CalmPlace
    <2>4. CASE sched_lock_all(t, c)
      BY <1>2, <2>4 DEF sched_lock_all, lineVars, threadVars, queueVars
    <2>5. CASE release_irq(t, c, i) BY <2>5, CalmRelease
    <2> QED BY <1>6, <2>1, <2>2, <2>3, <2>4, <2>5 DEF CallStep
  <1> QED BY <1>1, <1>3, <1>4, <1>5, <1>6 DEF Next

(* The three invariants together are inductive.                              *)
LEMMA CalmSteps == IInv /\ Rest /\ CalmInv /\ [Next]_vars => (IInv /\ Rest /\ CalmInv)'
  <1> SUFFICES ASSUME IInv, Rest, CalmInv, [Next]_vars PROVE (IInv /\ Rest /\ CalmInv)' OBVIOUS
  <1>1. IInv' BY NextIInv
  <1>2. CASE Next BY <1>1, <1>2, RestNext, CalmNext
  <1>3. CASE UNCHANGED vars
    <2>1. Rest' BY <1>3 DEF Rest, vars, threadVars, cpuVars
    <2>2. UNCHANGED <<hook, fast, irq, affinity, cpu, pos, pc, inservice, current, state>>
      BY <1>3 DEF vars, lineVars, threadVars, queueVars, cpuVars
    <2>3. Undisturbed' => Undisturbed BY <2>2 DEF Undisturbed, count
    <2>4. CalmInv' BY <2>2, <2>3, CalmStill DEF CalmInv
    <2> QED BY <1>1, <2>1, <2>4
  <1> QED BY <1>2, <1>3

(* For any lines, handlers and CPUs: fast_queued and cpu are exact, and      *)
(* while no handler has refused an interrupt and no line was released, a     *)
(* fast queue holds at most the handler that is served and one more.         *)
THEOREM FastQueuesShort == Spec => []FastQueueSound
  <1>1. Init => IInv /\ Rest /\ CalmInv BY InitIInv, InitCalm DEF CalmInv
  <1>2. IInv /\ Rest /\ CalmInv => FastQueueSound
    BY Short DEF FastQueueSound, CalmInv, IInv, Sound, FastCountsExact, Entries
  <1> QED BY <1>1, <1>2, CalmSteps, PTL DEF Spec

(* With a ring of at least four slots (the code has 32): while no handler    *)
(* has refused an interrupt and no line was released, no assertion of        *)
(* fast_queue, fast_dequeue and irq_complete fails, stubs[last] exists and   *)
(* no handler is turned away.                                                *)
THEOREM HandlersKeepRunning ==
    ASSUME MAX_FAST > 3
    PROVE  Spec => []KernelKeepsRunning
  <1>1. Init => IInv /\ Rest /\ CalmInv /\ KernelKeepsRunning
    BY InitIInv, InitCalm DEF CalmInv, Init, KernelKeepsRunning
  <1>2. ASSUME IInv, Rest, CalmInv, KernelKeepsRunning, Next PROVE KernelKeepsRunning'
    <2> SUFFICES ASSUME Undisturbed' PROVE panic' \in {"no", "interrupts off"} BY DEF KernelKeepsRunning
    <2>1. Calm /\ panic = "no" BY <1>2, DisturbedStays DEF CalmInv, Next
    <2>2. ASSUME NEW c \in CPU, RunFast(c) \/ RunNext(c) \/ Preempt(c) PROVE panic' = panic
      BY <2>2 DEF RunFast, RunNext, Preempt
    <2>3. ASSUME NEW i \in Line, Latch(i) \/ Spurious(i) PROVE panic' = panic BY <2>3 DEF Latch, Spurious
    <2>4. ASSUME NEW i \in Line, irq_handler(i) PROVE panic' = panic BY <1>2, <2>1, <2>4, GuardHandler
    <2>5. ASSUME NEW t \in Handler, NEW c \in CPU, HandlerStep(t, c) PROVE panic' \in {panic, "interrupts off"}
      <3>1. CASE irq_ack(t, c) \/ CompleteTest(t, c) \/ Accept(t, c)
        BY <1>2, <2>1, <3>1, CalmAck, CalmTest, CalmAccept
      <3>2. CASE Refuse(t, c) BY <1>2, <2>1, <3>2, GuardRefuse
      <3>3. CASE Exit(t, c) BY <2>1, <3>3 DEF Exit, Calm, NoneTurnedAway
      <3> QED BY <2>5, <3>1, <3>2, <3>3 DEF HandlerStep
    <2>6. ASSUME NEW t \in Thread, NEW c \in CPU, NEW i \in Line, CallStep(t, c, i) PROVE panic' = panic
      BY <2>6 DEF CallStep, RequestLock, request_irq, ReleaseLock, sched_lock_all, release_irq
    <2> QED BY <1>2, <2>1, <2>2, <2>3, <2>4, <2>5, <2>6 DEF Next
  <1>3. ASSUME KernelKeepsRunning, UNCHANGED vars PROVE KernelKeepsRunning'
    BY <1>3 DEF KernelKeepsRunning, Undisturbed, count, vars, lineVars, threadVars
  <1>4. IInv /\ Rest /\ CalmInv /\ KernelKeepsRunning /\ [Next]_vars => (IInv /\ Rest /\ CalmInv /\ KernelKeepsRunning)'
    BY <1>2, <1>3, CalmSteps
  <1> QED BY <1>1, <1>4, PTL DEF Spec

(* In every execution the variables have their types; what stops the kernel  *)
(* is one of the failures that the model names.                              *)
THEOREM IRQTypes == Spec => []TypeOK
  <1>1. Init => IInv /\ Rest /\ CalmInv BY InitIInv, InitCalm DEF CalmInv
  <1>2. IInv /\ Rest => TypeOK BY DEF IInv, Rest, Sound, Affine, Lines, Hook, Places, TypeOK
  <1> QED BY <1>1, <1>2, CalmSteps, PTL DEF Spec
=============================================================================
