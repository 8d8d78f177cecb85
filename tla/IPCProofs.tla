----------------------------- MODULE IPCProofs -----------------------------
(* Proofs about ports, messages and pulses for any numbers of threads,      *)
(* ports and messages.                                                      *)
EXTENDS IPC, FiniteSetTheorems, WellFoundedInduction, TLAPS

-----------------------------------------------------------------------------
(* Facts about the scans. *)

(* A set of array indexes that is not empty has a least element. *)
LEMMA LeastIndex ==
    ASSUME NEW S \in SUBSET Ports, S # {}
    PROVE  \E i \in S : \A j \in S : i <= j
<1>1. S \subseteq Nat
    BY PortAssumption DEF Ports
<1>2. PICK i \in S : \A j \in S : ~(<<j, i>> \in OpToRel(<, Nat))
    BY <1>1, WFMin, NatLessThanWellFounded
<1>3. \A j \in S : ~(j < i)
    BY <1>1, <1>2 DEF OpToRel
<1> QED BY <1>1, <1>3

(* FirstOf returns an entry of one of the slots it was given. *)
LEMMA FirstOfSlot ==
    ASSUME NEW t \in Threads, NEW S \in SUBSET Ports, S # {}
    PROVE  \E i \in S : FirstOf(t, S) = ports[t][i]
BY LeastIndex DEF FirstOf

(* A free port leaves room in every thread's list: a full list would hold   *)
(* all ports, each owned by the thread.                                     *)
LEMMA RoomForPort ==
    ASSUME TypeOK, PortListsExact, NEW t \in Threads, NEW p \in Ports, tid[p] = NoTid
    PROVE  \E i \in Ports : FreeSlots(t) = {i}
<1>1. \E i \in Ports : ports[t][i] = NoPort
    <2> SUFFICES ASSUME \A i \in Ports : ports[t][i] # NoPort PROVE FALSE
        OBVIOUS
    <2> DEFINE f == [i \in Ports |-> ports[t][i]]
               Rest == Ports \ {p}
    <2>1. f \in [Ports -> Rest]
        BY TidAssumption DEF TypeOK, PortListsExact, ListsOwnPorts, PortOrNone
    <2>2. IsFiniteSet(Ports) /\ Cardinality(Ports) = MaxPorts
        BY FS_Interval, PortAssumption DEF Ports
    <2>3. IsFiniteSet(Rest) /\ Cardinality(Rest) = MaxPorts - 1
        BY <2>2, FS_RemoveElement
    <2>4. PICK i \in Ports, j \in Ports : i # j /\ f[i] = f[j]
        <3> HIDE DEF f, Rest
        <3> QED BY <2>1, <2>2, <2>3, FS_PigeonHole, PortAssumption
    <2>5. i \in Int /\ j \in Int /\ ports[t][i] = ports[t][j]
        BY <2>4, PortAssumption DEF Ports
    <2>6. i < j \/ j < i
        BY <2>4, <2>5
    <2> QED BY <2>5, <2>6 DEF PortListsExact, ListsAreCompact
<1>2. PICK i \in Ports : /\ ports[t][i] = NoPort
                         /\ \A j \in Ports : ports[t][j] = NoPort => i <= j
    <2> DEFINE S == {k \in Ports : ports[t][k] = NoPort}
    <2>1. S # {} /\ S \in SUBSET Ports
        BY <1>1
    <2>2. PICK k \in S : \A j \in S : k <= j
        BY <2>1, LeastIndex
    <2> QED BY <2>2
<1>3. \A j \in 0 .. i - 1 : j \in Ports /\ ports[t][j] # NoPort
    BY <1>2, PortAssumption DEF Ports
<1>4. i \in FreeSlots(t)
    BY <1>2, <1>3 DEF FreeSlots
<1>5. \A k \in FreeSlots(t) : k = i
    <2> SUFFICES ASSUME NEW k \in FreeSlots(t) PROVE k = i
        OBVIOUS
    <2>1. k \in Ports /\ ports[t][k] = NoPort /\ \A j \in 0 .. k - 1 : ports[t][j] # NoPort
        BY DEF FreeSlots
    <2>2. i <= k /\ i \in Int /\ k \in Int /\ 0 <= i
        BY <2>1, <1>2, PortAssumption DEF Ports
    <2>3. ~(i < k)
        BY <2>1, <2>2, <1>2
    <2> QED BY <2>2, <2>3
<1> QED BY <1>4, <1>5
(* An entry of a scanned slot is a port. *)
LEMMA SlotHoldsPort ==
    ASSUME TypeOK, NEW t \in Threads, NEW i \in Slots(t)
    PROVE  i \in Ports /\ ports[t][i] \in Ports
BY PortAssumption DEF Slots, Ports, TypeOK, PortOrNone

(* What a receiver takes from: nothing, or a port whose queue is not empty. *)
Source(q, r) == r = NoPort \/ (r \in Ports /\ q[r] # <<>>)

LEMMA NamedSource ==
    ASSUME NEW q, NEW p \in Ports
    PROVE  Source(q, Named(q, p))
BY DEF Source, Named

LEMMA FirstOfPort ==
    ASSUME TypeOK, NEW t \in Threads, NEW S \in SUBSET Slots(t)
    PROVE  FirstOf(t, S) = NoPort \/ \E i \in S : ports[t][i] \in Ports /\ FirstOf(t, S) = ports[t][i]
<1>1. S \in SUBSET Ports
    BY DEF Slots
<1>2. CASE S = {}
    BY <1>2 DEF FirstOf
<1>3. CASE S # {}
    <2>1. PICK i \in S : FirstOf(t, S) = ports[t][i]
        BY <1>1, <1>3, FirstOfSlot
    <2>2. ports[t][i] \in Ports
        BY <2>1, SlotHoldsPort
    <2> QED BY <2>1, <2>2
<1> QED BY <1>2, <1>3

LEMMA FirstOfType ==
    ASSUME TypeOK, NEW t \in Threads, NEW S \in SUBSET Slots(t)
    PROVE  FirstOf(t, S) \in PortOrNone
BY FirstOfPort DEF PortOrNone

LEMMA SkipEmptySource ==
    ASSUME TypeOK, NEW t \in Threads, NEW q
    PROVE  Source(q, SkipEmpty(t, q))
<1> DEFINE S == {i \in Unmasked(t) : q[ports[t][i]] # <<>>}
<1>1. S \in SUBSET Slots(t)
    BY DEF Unmasked
<1>2. FirstOf(t, S) = NoPort \/ \E i \in S : ports[t][i] \in Ports /\ FirstOf(t, S) = ports[t][i]
    BY <1>1, FirstOfPort
<1>3. SkipEmpty(t, q) = FirstOf(t, S)
    BY DEF SkipEmpty
<1> QED BY <1>2, <1>3 DEF Source

LEMMA StopEmptySource ==
    ASSUME TypeOK, NEW t \in Threads, NEW q
    PROVE  Source(q, StopEmpty(t, q))
<1>1. Unmasked(t) \in SUBSET Slots(t)
    BY DEF Unmasked
<1>2. FirstOf(t, Unmasked(t)) \in PortOrNone
    BY <1>1, FirstOfPort DEF PortOrNone
<1> QED BY <1>2 DEF Source, StopEmpty, PortOrNone

LEMMA RecvSource ==
    ASSUME TypeOK, NEW t \in Threads, NEW want \in PortOrNone
    PROVE  Source(message_q, RecvPort(t, want))
<1>1. Asked(want, last_port_message[t]) \in PortOrNone
    BY DEF Asked, TypeOK
<1> QED BY <1>1, NamedSource, SkipEmptySource DEF RecvPort, PortOrNone

LEMMA ReceiveSource ==
    ASSUME TypeOK, NEW t \in Threads, NEW want \in PortOrNone
    PROVE  Source(pulse_q, ReceivePort(t, want))
<1>1. Asked(want, last_port_pulse[t]) \in PortOrNone
    BY DEF Asked, TypeOK
<1> QED BY <1>1, NamedSource, StopEmptySource DEF ReceivePort, PortOrNone

LEMMA RemoveType ==
    ASSUME NEW X, NEW q \in [Ports -> Seq(X)], NEW r, Source(q, r)
    PROVE  Remove(q, r) \in [Ports -> Seq(X)]
<1>1. CASE r = NoPort
    BY <1>1 DEF Remove
<1>2. CASE r \in Ports /\ q[r] # <<>>
    <2>1. Tail(q[r]) \in Seq(X)
        BY <1>2
    <2> QED BY <2>1, <1>2 DEF Remove
<1> QED BY <1>1, <1>2 DEF Source

(* The message a receiver removes has a body in memory; its block is freed. *)
LEMMA DropSource ==
    ASSUME TypeOK, NEW t \in Threads
    PROVE  Source(message_q, IF last_port_message[t] # NoPort
                             THEN Named(message_q, last_port_message[t])
                             ELSE StopEmpty(t, message_q))
<1>1. last_port_message[t] \in PortOrNone
    BY DEF TypeOK
<1> QED BY <1>1, NamedSource, StopEmptySource DEF PortOrNone

LEMMA DropPulseSource ==
    ASSUME TypeOK, NEW t \in Threads
    PROVE  Source(pulse_q, IF last_port_pulse[t] # NoPort
                           THEN Named(pulse_q, last_port_pulse[t])
                           ELSE IF ports[t][0] # NoPort /\ pulse_q[ports[t][0]] # <<>>
                                THEN ports[t][0] ELSE NoPort)
<1>1. last_port_pulse[t] \in PortOrNone
    BY DEF TypeOK
<1>2. ports[t][0] \in PortOrNone
    BY PortAssumption DEF TypeOK, Ports
<1> QED BY <1>1, <1>2, NamedSource DEF PortOrNone, Source

LEMMA DroppedType ==
    ASSUME TypeOK, NEW t \in Threads
    PROVE  DroppedPulses(t) \in [Ports -> Seq(Pulses)]
<1> DEFINE hint == last_port_pulse[t]
           hinted == IF hint = NoPort THEN NoPort ELSE Named(pulse_q, hint)
           first == ports[t][0]
<1>1. hint \in PortOrNone /\ first \in PortOrNone
    BY PortAssumption DEF TypeOK, Ports
<1>2. Source(pulse_q, hinted)
    BY <1>1, NamedSource DEF PortOrNone, Source
<1>3. Remove(pulse_q, hinted) \in [Ports -> Seq(Pulses)]
    BY <1>2, RemoveType DEF TypeOK
<1>4. pulse_q \in [Ports -> Seq(Pulses)]
    BY DEF TypeOK
<1> HIDE DEF hint, hinted, first
<1>5. DroppedPulses(t) = IF (hint # NoPort /\ hinted = NoPort) \/ first = NoPort THEN pulse_q
                         ELSE [Remove(pulse_q, hinted) EXCEPT ![first] = <<>>]
    BY DEF DroppedPulses, hint, hinted, first
<1>6. <<>> \in Seq(Pulses)
    OBVIOUS
<1> QED BY <1>1, <1>3, <1>4, <1>5, <1>6 DEF PortOrNone
-----------------------------------------------------------------------------
(* Every operation keeps the types. *)
LEMMA TypeStep ==
    ASSUME TypeOK, [Next]_vars
    PROVE  TypeOK'
<1> USE DEF TypeOK
<1>1. ASSUME NEW t \in Threads, NEW p \in Ports, NEW o \in Threads, create_port(t, p, o)
      PROVE  TypeOK'
    BY <1>1 DEF create_port, hints, sleep, PortOrNone
<1>2. ASSUME NEW t \in Threads, NEW p \in Ports, NEW flag \in BOOLEAN, set_port_flags(t, p, flag)
      PROVE  TypeOK'
    BY <1>2 DEF set_port_flags, WithFlags, ForgetHints, queues, sleep, PortOrNone
<1>3. ASSUME NEW t \in Threads, NEW flag \in BOOLEAN, set_all_port_flags(t, flag)
      PROVE  TypeOK'
    BY <1>3 DEF set_all_port_flags, WithFlags, ForgetHints, queues, sleep, PortOrNone
<1>4. ASSUME NEW t \in Threads, NEW S \in SUBSET Ports, NEW flags \in [S -> BOOLEAN],
             bulk_set_ports(t, flags)
      PROVE  TypeOK'
    <2>1. masked' \in [Ports -> BOOLEAN]
        BY <1>4 DEF bulk_set_ports, WithFlags
    <2>2. /\ last_port_message' \in [Threads -> PortOrNone]
          /\ last_port_pulse' \in [Threads -> PortOrNone]
        BY <1>4 DEF bulk_set_ports, ForgetHints, hints, PortOrNone
    <2> QED BY <1>4, <2>1, <2>2 DEF bulk_set_ports, queues, sleep
<1>5. ASSUME NEW t \in Threads, NEW p \in Ports, release_port(t, p)
      PROVE  TypeOK'
    <2> DEFINE owner == tid[p]
    <2>1. owner \in Threads
        BY <1>5 DEF release_port
    <2>2. pulse_q' \in [Ports -> Seq(Pulses)]
        <3>1. DroppedPulses(owner) \in [Ports -> Seq(Pulses)]
            BY <2>1, DroppedType
        <3>2. pulse_q' = [DroppedPulses(owner) EXCEPT ![p] = <<>>]
            BY <1>5 DEF release_port
        <3> QED BY <3>1, <3>2
    <2>3. message_q' \in [Ports -> Seq(Blocks)] /\ heap' \subseteq Blocks
        BY <1>5 DEF release_port
    <2>4. WithoutPort(owner, p) \in [Ports -> PortOrNone]
        <3>1. ports[owner] \in [Ports -> PortOrNone] /\ NoPort \in PortOrNone
            BY <2>1 DEF PortOrNone
        <3>2. \A i \in Ports : i = MaxPorts - 1 \/ i + 1 \in Ports
            BY PortAssumption DEF Ports
        <3> HIDE DEF owner, TypeOK
        <3> QED BY <3>1, <3>2 DEF WithoutPort
    <2>5. /\ tid' \in [Ports -> Threads \cup {NoTid}] /\ masked' \in [Ports -> BOOLEAN]
          /\ ports' \in [Threads -> [Ports -> PortOrNone]]
        BY <1>5, <2>1, <2>4 DEF release_port
    <2>6. /\ last_port_message' \in [Threads -> PortOrNone]
          /\ last_port_pulse' \in [Threads -> PortOrNone]
        BY <1>5 DEF release_port, ForgetHints, PortOrNone
    <2> QED BY <1>5, <2>2, <2>3, <2>5, <2>6 DEF release_port, sleep
<1>6. ASSUME NEW p \in Ports, NEW b \in Blocks, send_message(p, b)
      PROVE  TypeOK'
    BY <1>6 DEF send_message, Wake, tables, hints
<1>7. ASSUME NEW p \in Ports, NEW u \in Pulses, send_pulse(p, u)
      PROVE  TypeOK'
    BY <1>7 DEF send_pulse, Wake, tables, hints
<1>8. ASSUME NEW t \in Threads, NEW want \in PortOrNone, recv_message(t, want)
      PROVE  TypeOK'
    <2>1. message_q' \in [Ports -> Seq(Blocks)]
        BY <1>8, RecvSource, RemoveType DEF recv_message
    <2> QED BY <1>8, <2>1 DEF recv_message, Free, tables, sleep, PortOrNone
<1>9. ASSUME NEW t \in Threads, drop_message(t)
      PROVE  TypeOK'
    <2>1. message_q' \in [Ports -> Seq(Blocks)]
        BY <1>9, DropSource, RemoveType DEF drop_message
    <2> QED BY <1>9, <2>1 DEF drop_message, Free, tables, sleep, PortOrNone
<1>10. ASSUME NEW t \in Threads, NEW want \in PortOrNone, peek_message(t, want)
       PROVE  TypeOK'
    <2> DEFINE S == {i \in PeekSlots(t, want) \cap Unmasked(t) : message_q[ports[t][i]] # <<>>}
    <2>1. S \in SUBSET Slots(t)
        BY DEF Unmasked
    <2>2. FirstOf(t, S) \in PortOrNone
        <3> HIDE DEF TypeOK, S
        <3> QED BY <2>1, FirstOfType
    <2> HIDE DEF S
    <2>3. last_port_message' \in {last_port_message, [last_port_message EXCEPT ![t] = FirstOf(t, S)]}
        BY <1>10 DEF peek_message, S
    <2> QED BY <1>10, <2>2, <2>3 DEF peek_message, tables, queues, sleep
<1>11. ASSUME NEW t \in Threads, NEW want \in PortOrNone, preview_pulse(t, want)
       PROVE  TypeOK'
    <2> DEFINE p == FirstOf(t, PeekSlots(t, want) \cap Unmasked(t))
    <2>1. PeekSlots(t, want) \cap Unmasked(t) \in SUBSET Slots(t)
        BY DEF Unmasked
    <2>2. p \in PortOrNone
        <3> HIDE DEF TypeOK
        <3> QED BY <2>1, FirstOfType
    <2> HIDE DEF p
    <2>3. \E r \in {p, NoPort} :
             last_port_pulse' \in {last_port_pulse, [last_port_pulse EXCEPT ![t] = r]}
        BY <1>11 DEF preview_pulse, p
    <2>4. NoPort \in PortOrNone
        BY DEF PortOrNone
    <2>5. last_port_pulse' \in [Threads -> PortOrNone]
        BY <2>2, <2>3, <2>4
    <2> QED BY <1>11, <2>5 DEF preview_pulse, tables, queues, sleep
<1>12. ASSUME NEW t \in Threads, NEW want \in PortOrNone, receive_pulse(t, want)
       PROVE  TypeOK'
    <2>1. pulse_q' \in [Ports -> Seq(Pulses)]
        BY <1>12, ReceiveSource, RemoveType DEF receive_pulse
    <2> QED BY <1>12, <2>1 DEF receive_pulse, tables, sleep, PortOrNone
<1>13. ASSUME NEW t \in Threads, drop_pulse(t)
       PROVE  TypeOK'
    <2>1. pulse_q' \in [Ports -> Seq(Pulses)]
        BY <1>13, DropPulseSource, RemoveType DEF drop_pulse
    <2> QED BY <1>13, <2>1 DEF drop_pulse, tables, sleep, PortOrNone
<1>14. ASSUME NEW c \in Threads, NEW t \in Threads, new_thread(c, t)
       PROVE  TypeOK'
    BY <1>14 DEF new_thread, queues, sleep, PortOrNone
<1>15. ASSUME NEW t \in Threads, delete_thread(t)
       PROVE  TypeOK'
    <2>1. /\ message_q' \in [Ports -> Seq(Blocks)] /\ pulse_q' \in [Ports -> Seq(Pulses)]
          /\ heap' \subseteq Blocks
        BY <1>15 DEF delete_thread
    <2>2. /\ tid' \in [Ports -> Threads \cup {NoTid}] /\ masked' \in [Ports -> BOOLEAN]
          /\ ports' \in [Threads -> [Ports -> PortOrNone]]
        BY <1>15 DEF delete_thread, PortOrNone
    <2>3. /\ last_port_message' \in [Threads -> PortOrNone]
          /\ last_port_pulse' \in [Threads -> PortOrNone]
        BY <1>15 DEF delete_thread, ForgetHints, PortOrNone
    <2>4. /\ threads' \subseteq Threads
          /\ dormant' \subseteq threads' /\ requesting' \subseteq threads' \ dormant'
        BY <1>15 DEF delete_thread, Active, sleep
    <2> QED BY <2>1, <2>2, <2>3, <2>4
<1>16. ASSUME NEW t \in Threads, Sleeps(t)
       PROVE  TypeOK'
    BY <1>16 DEF Sleeps, go_dormant, Suspend, Active, tables, queues, hints
<1>17. CASE UNCHANGED vars
    BY <1>17 DEF vars, tables, queues, hints, sleep
<1> HIDE DEF TypeOK
<1> QED
    BY <1>1, <1>2, <1>3, <1>4, <1>5, <1>6, <1>7, <1>8, <1>9, <1>10, <1>11, <1>12, <1>13,
       <1>14, <1>15, <1>16, <1>17 DEF Next, PortCalls, Receives, Sends
-----------------------------------------------------------------------------
(* The port lists. *)

(* The list holds p in exactly one slot, and no scan stops before it. *)
LEMMA SlotOfPort ==
    ASSUME TypeOK, PortListsExact, NEW p \in Ports, tid[p] # NoTid
    PROVE  \E k \in Ports : {i \in Slots(tid[p]) : ports[tid[p]][i] = p} = {k}
<1> DEFINE o == tid[p]
<1>1. o \in Threads
    BY DEF TypeOK
<1>2. PICK k \in Ports : ports[o][k] = p
    BY DEF PortListsExact, OwnersListPorts
<1>3. \A i \in Ports : ports[o][i] = p => i = k
    <2> SUFFICES ASSUME NEW i \in Ports, ports[o][i] = p, i # k PROVE FALSE
        OBVIOUS
    <2>1. i \in Int /\ k \in Int /\ p # NoPort
        BY PortAssumption DEF Ports, NoPort
    <2>2. i < k \/ k < i
        BY <2>1
    <2> QED BY <1>1, <1>2, <2>1, <2>2 DEF PortListsExact, ListsAreCompact
<1>4. \A j \in 0 .. k : ports[o][j] # NoPort
    <2> SUFFICES ASSUME NEW j \in 0 .. k PROVE ports[o][j] # NoPort
        OBVIOUS
    <2>1. j \in Ports /\ (j < k \/ j = k) /\ p # NoPort
        BY PortAssumption DEF Ports, NoPort
    <2> QED BY <1>1, <1>2, <2>1 DEF PortListsExact, ListsAreCompact
<1> QED BY <1>2, <1>3, <1>4 DEF Slots

(* A thread's list names all the ports it owns. *)
LEMMA ListedIsOwned ==
    ASSUME TypeOK, PortListsExact, NEW t \in Threads, NEW p \in Ports
    PROVE  p \in Listed(t) <=> tid[p] = t
<1>1. ASSUME p \in Listed(t) PROVE tid[p] = t
    <2>1. PICK i \in Slots(t) : p = ports[t][i]
        BY <1>1 DEF Listed
    <2>2. i \in Ports /\ ports[t][i] # NoPort
        BY <2>1, PortAssumption DEF Slots, Ports, NoPort
    <2> QED BY <2>1, <2>2 DEF PortListsExact, ListsOwnPorts
<1>2. ASSUME tid[p] = t PROVE p \in Listed(t)
    <2>1. tid[p] # NoTid
        BY <1>2, TidAssumption
    <2>2. PICK k \in Ports : {i \in Slots(tid[p]) : ports[tid[p]][i] = p} = {k}
        BY <2>1, SlotOfPort
    <2>3. k \in {i \in Slots(tid[p]) : ports[tid[p]][i] = p}
        BY <2>2
    <2> QED BY <1>2, <2>3 DEF Listed
<1> QED BY <1>1, <1>2

LEMMA ListsAfterCreate ==
    ASSUME TypeOK, PortListsExact, NEW t \in Threads, NEW p \in Ports, NEW o \in Threads,
           create_port(t, p, o)
    PROVE  PortListsExact'
<1>1. PICK f \in Ports : FreeSlots(o) = {f}
    BY RoomForPort DEF create_port
<1>2. /\ ports[o][f] = NoPort
      /\ \A j \in 0 .. f - 1 : ports[o][j] # NoPort
    <2>1. f \in FreeSlots(o)
        BY <1>1
    <2> QED BY <2>1 DEF FreeSlots
<1>3. /\ ports' = [ports EXCEPT ![o] = [i \in Ports |-> IF i = f THEN p ELSE ports[o][i]]]
      /\ tid[p] = NoTid /\ tid' = [tid EXCEPT ![p] = o]
      /\ o \in threads /\ threads' = threads
    BY <1>1 DEF create_port
<1>4. \A u \in Threads, i \in Ports :
         ports'[u][i] = IF u = o /\ i = f THEN p ELSE ports[u][i]
    BY <1>3 DEF TypeOK
<1>5. \A u \in Threads, i \in Ports : ports[u][i] # p
    BY <1>3, TidAssumption, PortAssumption DEF PortListsExact, ListsOwnPorts, Ports, NoPort
<1>6. ListsAreCompact'
    <2> SUFFICES ASSUME NEW u \in Threads, NEW i \in Ports, NEW j \in Ports,
                        i < j, ports'[u][j] # NoPort
                 PROVE  ports'[u][i] # NoPort /\ ports'[u][i] # ports'[u][j]
        BY DEF ListsAreCompact
    <2>1. CASE u = o /\ j = f
        <3>1. i \in 0 .. f - 1
            BY <2>1, PortAssumption DEF Ports
        <3> QED BY <1>2, <1>4, <1>5, <2>1, <3>1, PortAssumption DEF Ports
    <2>2. CASE ~(u = o /\ j = f)
        <3>1. ports'[u][j] = ports[u][j] /\ ports[u][i] # NoPort /\ ports[u][i] # ports[u][j]
            BY <1>4, <2>2 DEF PortListsExact, ListsAreCompact
        <3> QED BY <1>2, <1>4, <1>5, <3>1
    <2> QED BY <2>1, <2>2
<1>7. ListsOwnPorts'
    <2> SUFFICES ASSUME NEW u \in Threads, NEW i \in Ports, ports'[u][i] # NoPort
                 PROVE  tid'[ports'[u][i]] = u
        BY DEF ListsOwnPorts
    <2>1. CASE u = o /\ i = f
        BY <1>3, <1>4, <2>1 DEF TypeOK
    <2>2. CASE ~(u = o /\ i = f)
        <3>1. ports'[u][i] = ports[u][i] /\ ports[u][i] # p /\ tid[ports[u][i]] = u
            BY <1>4, <1>5, <2>2 DEF PortListsExact, ListsOwnPorts
        <3>2. ports[u][i] \in Ports
            BY <2>2, <1>4 DEF TypeOK, PortOrNone
        <3> QED BY <1>3, <3>1, <3>2 DEF TypeOK
    <2> QED BY <2>1, <2>2
<1>8. OwnersListPorts'
    <2> SUFFICES ASSUME NEW q \in Ports, tid'[q] # NoTid
                 PROVE  tid'[q] \in threads /\ \E i \in Ports : ports'[tid'[q]][i] = q
        BY <1>3 DEF OwnersListPorts
    <2>1. CASE q = p
        BY <1>3, <1>4, <2>1 DEF TypeOK
    <2>2. CASE q # p
        <3>1. tid'[q] = tid[q] /\ tid[q] \in threads /\ tid[q] \in Threads
            BY <1>3, <2>2 DEF TypeOK, PortListsExact, OwnersListPorts
        <3>2. PICK i \in Ports : ports[tid[q]][i] = q
            BY <3>1, <2>2 DEF PortListsExact, OwnersListPorts
        <3>3. q # NoPort
            BY PortAssumption DEF Ports, NoPort
        <3>4. ports'[tid[q]][i] = q
            BY <1>2, <1>4, <3>1, <3>2, <3>3
        <3> QED BY <3>1, <3>4
    <2> QED BY <2>1, <2>2
<1> QED BY <1>6, <1>7, <1>8 DEF PortListsExact
LEMMA ListsAfterRelease ==
    ASSUME TypeOK, PortListsExact, NEW t \in Threads, NEW p \in Ports, release_port(t, p)
    PROVE  PortListsExact'
<1> DEFINE o == tid[p]
<1>1. o \in Threads /\ o # NoTid
    BY DEF release_port, TypeOK
<1>2. PICK k \in Ports : {i \in Slots(o) : ports[o][i] = p} = {k}
    BY <1>1, SlotOfPort
<1>3. ports[o][k] = p
    <2>1. k \in {i \in Slots(o) : ports[o][i] = p}
        BY <1>2
    <2> QED BY <2>1
<1>4. /\ ports' = [ports EXCEPT ![o] = WithoutPort(o, p)]
      /\ tid' = [tid EXCEPT ![p] = NoTid] /\ threads' = threads
    BY DEF release_port
<1> HIDE DEF o
<1>5. WithoutPort(o, p) = [i \in Ports |-> IF i < k THEN ports[o][i]
                              ELSE IF i = MaxPorts - 1 THEN NoPort ELSE ports[o][i + 1]]
    BY <1>2 DEF WithoutPort
<1>6. \A i \in Ports : ports'[o][i] = IF i < k THEN ports[o][i]
                              ELSE IF i = MaxPorts - 1 THEN NoPort ELSE ports[o][i + 1]
    BY <1>1, <1>4, <1>5 DEF TypeOK
<1>7. \A u \in Threads : u # o => ports'[u] = ports[u]
    BY <1>4 DEF TypeOK
<1>8. \A i \in Ports : i + 1 \in Ports \/ i = MaxPorts - 1
    BY PortAssumption DEF Ports
<1>9. \A i \in Ports : ports[o][i] = p => i = k
    <2> SUFFICES ASSUME NEW i \in Ports, ports[o][i] = p, i # k PROVE FALSE
        OBVIOUS
    <2>1. (i < k \/ k < i) /\ p # NoPort
        BY PortAssumption DEF Ports, NoPort
    <2> QED BY <1>1, <1>3, <2>1 DEF PortListsExact, ListsAreCompact
\* An entry of the new list is an entry of the old one, other than p, from
\* the same slot or the one after it.
<1>10. \A i \in Ports : ports'[o][i] # NoPort =>
          \E h \in Ports : /\ ports'[o][i] = ports[o][h] /\ ports[o][h] # p
                           /\ h = IF i < k THEN i ELSE i + 1
    <2> SUFFICES ASSUME NEW i \in Ports, ports'[o][i] # NoPort
                 PROVE  \E h \in Ports : /\ ports'[o][i] = ports[o][h] /\ ports[o][h] # p
                                         /\ h = IF i < k THEN i ELSE i + 1
        OBVIOUS
    <2>1. CASE i < k
        BY <1>6, <1>9, <2>1, PortAssumption DEF Ports
    <2>2. CASE ~(i < k)
        <3>1. i # MaxPorts - 1
            BY <1>6, <2>2
        <3>2. i + 1 \in Ports /\ ports'[o][i] = ports[o][i + 1] /\ i + 1 # k
            BY <1>6, <1>8, <2>2, <3>1, PortAssumption DEF Ports
        <3> QED BY <1>9, <2>2, <3>2
    <2> QED BY <2>1, <2>2
<1>11. ListsAreCompact'
    <2> SUFFICES ASSUME NEW u \in Threads, NEW i \in Ports, NEW j \in Ports,
                        i < j, ports'[u][j] # NoPort
                 PROVE  ports'[u][i] # NoPort /\ ports'[u][i] # ports'[u][j]
        BY DEF ListsAreCompact
    <2>1. CASE u # o
        BY <1>7, <2>1 DEF PortListsExact, ListsAreCompact
    <2>2. CASE u = o
        <3>1. PICK h \in Ports : /\ ports'[o][j] = ports[o][h]
                                 /\ h = IF j < k THEN j ELSE j + 1
            BY <1>10, <2>2
        <3> DEFINE g == IF i < k THEN i ELSE i + 1
        <3>2. g \in Ports /\ g < h /\ (~(i < k) => i # MaxPorts - 1)
            BY <3>1, PortAssumption DEF Ports
        <3>3. ports'[o][i] = ports[o][g]
            BY <1>6, <3>2
        <3>4. ports[o][h] # NoPort
            BY <2>2, <3>1
        <3>5. ports[o][g] # NoPort /\ ports[o][g] # ports[o][h]
            <4> HIDE DEF g
            <4> QED BY <1>1, <3>2, <3>4 DEF PortListsExact, ListsAreCompact
        <3> QED BY <2>2, <3>1, <3>3, <3>5
    <2> QED BY <2>1, <2>2
<1>12. ListsOwnPorts'
    <2> SUFFICES ASSUME NEW u \in Threads, NEW i \in Ports, ports'[u][i] # NoPort
                 PROVE  tid'[ports'[u][i]] = u
        BY DEF ListsOwnPorts
    <2>1. PICK h \in Ports : ports'[u][i] = ports[u][h] /\ ports[u][h] # p
        <3>1. CASE u # o
            <4>1. ports'[u][i] = ports[u][i] /\ tid[ports[u][i]] = u
                BY <1>7, <3>1 DEF PortListsExact, ListsOwnPorts
            <4> QED BY <3>1, <4>1 DEF o
        <3>2. CASE u = o
            BY <1>10, <3>2
        <3> QED BY <3>1, <3>2
    <2>2. tid[ports[u][h]] = u /\ ports[u][h] \in Ports
        BY <2>1 DEF PortListsExact, ListsOwnPorts, TypeOK, PortOrNone
    <2> QED BY <1>4, <2>1, <2>2 DEF TypeOK
<1>13. OwnersListPorts'
    <2> SUFFICES ASSUME NEW q \in Ports, tid'[q] # NoTid
                 PROVE  tid'[q] \in threads /\ \E i \in Ports : ports'[tid'[q]][i] = q
        BY <1>4 DEF OwnersListPorts
    <2>1. q # p /\ tid'[q] = tid[q] /\ tid[q] \in threads /\ tid[q] \in Threads
        BY <1>4 DEF TypeOK, PortListsExact, OwnersListPorts
    <2>2. PICK h \in Ports : ports[tid[q]][h] = q
        BY <2>1 DEF PortListsExact, OwnersListPorts
    <2>3. CASE tid[q] # o
        BY <1>7, <2>1, <2>2, <2>3
    <2>4. CASE tid[q] = o
        <3>1. h # k
            BY <1>3, <2>1, <2>2, <2>4
        <3>2. CASE h < k
            BY <1>6, <2>1, <2>2, <2>4, <3>2
        <3>3. CASE ~(h < k)
            <4>1. h - 1 \in Ports /\ ~(h - 1 < k) /\ h - 1 # MaxPorts - 1 /\ h - 1 + 1 = h
                BY <3>1, <3>3, PortAssumption DEF Ports
            <4>2. ports'[o][h - 1] = ports[o][h]
                BY <1>6, <4>1
            <4> QED BY <2>1, <2>2, <2>4, <4>1, <4>2
        <3> QED BY <3>2, <3>3
    <2> QED BY <2>3, <2>4
<1> QED BY <1>11, <1>12, <1>13 DEF PortListsExact

LEMMA ListsAfterNew ==
    ASSUME TypeOK, PortListsExact, NEW c \in Threads, NEW t \in Threads, new_thread(c, t)
    PROVE  PortListsExact'
<1>1. \A u \in Threads, i \in Ports :
         ports'[u][i] = IF u = t THEN NoPort ELSE ports[u][i]
    BY DEF new_thread, TypeOK
<1>2. tid' = tid /\ threads' = threads \cup {t} /\ t \notin threads
    BY DEF new_thread
<1>3. \A p \in Ports : tid[p] # t
    BY <1>2, TidAssumption DEF PortListsExact, OwnersListPorts
<1>4. ListsAreCompact' /\ ListsOwnPorts'
    BY <1>1, <1>2 DEF PortListsExact, ListsAreCompact, ListsOwnPorts
<1>5. OwnersListPorts'
    <2> SUFFICES ASSUME NEW q \in Ports, tid[q] # NoTid
                 PROVE  tid[q] \in threads' /\ \E i \in Ports : ports'[tid[q]][i] = q
        BY <1>2 DEF OwnersListPorts
    <2>1. tid[q] \in Threads /\ tid[q] # t
        BY <1>3 DEF TypeOK
    <2> QED BY <1>1, <1>2, <2>1 DEF PortListsExact, OwnersListPorts
<1> QED BY <1>4, <1>5 DEF PortListsExact

LEMMA ListsAfterDelete ==
    ASSUME TypeOK, PortListsExact, NEW t \in Threads, delete_thread(t)
    PROVE  PortListsExact'
<1>1. \A u \in Threads, i \in Ports :
         ports'[u][i] = IF u = t THEN NoPort ELSE ports[u][i]
    BY DEF delete_thread, TypeOK
<1>2. \A p \in Ports : tid'[p] = IF tid[p] = t THEN NoTid ELSE tid[p]
    <2>1. \A p \in Ports : tid'[p] = IF p \in Listed(t) THEN NoTid ELSE tid[p]
        BY DEF delete_thread
    <2> QED BY <2>1, ListedIsOwned
<1>3. threads' = threads \ {t}
    BY DEF delete_thread
<1>4. ListsAreCompact'
    BY <1>1 DEF PortListsExact, ListsAreCompact
<1>5. ListsOwnPorts'
    <2> SUFFICES ASSUME NEW u \in Threads, NEW i \in Ports, ports'[u][i] # NoPort
                 PROVE  tid'[ports'[u][i]] = u
        BY DEF ListsOwnPorts
    <2>1. u # t /\ ports'[u][i] = ports[u][i] /\ ports[u][i] \in Ports /\ tid[ports[u][i]] = u
        BY <1>1 DEF PortListsExact, ListsOwnPorts, TypeOK, PortOrNone
    <2> QED BY <1>2, <2>1
<1>6. OwnersListPorts'
    <2> SUFFICES ASSUME NEW q \in Ports, tid'[q] # NoTid
                 PROVE  tid'[q] \in threads' /\ \E i \in Ports : ports'[tid'[q]][i] = q
        BY DEF OwnersListPorts
    <2>1. tid'[q] = tid[q] /\ tid[q] # t /\ tid[q] \in Threads
        BY <1>2 DEF TypeOK
    <2>2. tid[q] \in threads /\ \E i \in Ports : ports[tid[q]][i] = q
        BY <2>1 DEF PortListsExact, OwnersListPorts
    <2> QED BY <1>1, <1>3, <2>1, <2>2
<1> QED BY <1>4, <1>5, <1>6 DEF PortListsExact
(* No other operation changes the owners, the lists or the set of threads. *)
OtherCalls ==
    \/ \E t \in Threads, p \in Ports, flag \in BOOLEAN : set_port_flags(t, p, flag)
    \/ \E t \in Threads, flag \in BOOLEAN : set_all_port_flags(t, flag)
    \/ \E t \in Threads : \E S \in SUBSET Ports : \E flags \in [S -> BOOLEAN] : bulk_set_ports(t, flags)
    \/ \E t \in Threads : Receives(t) \/ Sleeps(t)
    \/ Sends

LEMMA OtherCallsKeepOwners ==
    OtherCalls => UNCHANGED <<threads, tid, ports>>
<1>1. ASSUME NEW t \in Threads, Receives(t) PROVE UNCHANGED <<threads, tid, ports>>
    BY <1>1 DEF Receives, recv_message, peek_message, receive_pulse, preview_pulse,
                drop_message, drop_pulse, tables
<1>2. ASSUME NEW t \in Threads, Sleeps(t) PROVE UNCHANGED <<threads, tid, ports>>
    BY <1>2 DEF Sleeps, go_dormant, Suspend, tables
<1>3. ASSUME Sends PROVE UNCHANGED <<threads, tid, ports>>
    BY <1>3 DEF Sends, send_message, send_pulse, tables
<1> QED BY <1>1, <1>2, <1>3 DEF OtherCalls, set_port_flags, set_all_port_flags, bulk_set_ports

(* The steps of the system, sorted by what they do to the tables. *)
LEMMA StepCases ==
    ASSUME Next
    PROVE  \/ \E t \in Threads, p \in Ports, o \in Threads : create_port(t, p, o)
           \/ \E t \in Threads, p \in Ports : release_port(t, p)
           \/ \E c \in Threads, t \in Threads : new_thread(c, t)
           \/ \E t \in Threads : delete_thread(t)
           \/ OtherCalls
BY DEF Next, PortCalls, OtherCalls

LEMMA ListStep ==
    ASSUME TypeOK, PortListsExact, [Next]_vars
    PROVE  PortListsExact'
<1>1. ASSUME UNCHANGED <<threads, tid, ports>> PROVE PortListsExact'
    BY <1>1 DEF PortListsExact, ListsAreCompact, ListsOwnPorts, OwnersListPorts
<1>2. CASE UNCHANGED vars
    BY <1>1, <1>2 DEF vars, tables
<1>3. CASE OtherCalls
    BY <1>1, <1>3, OtherCallsKeepOwners
<1> QED BY <1>2, <1>3, StepCases, ListsAfterCreate, ListsAfterRelease, ListsAfterNew,
           ListsAfterDelete

-----------------------------------------------------------------------------
(* The hints. *)
LEMMA HintStep ==
    ASSUME TypeOK, PortListsExact, HintsOwned, [Next]_vars
    PROVE  HintsOwned'
<1> USE TidAssumption
<1>1. ASSUME NEW t \in Threads, NEW p \in Ports, NEW o \in Threads, create_port(t, p, o)
      PROVE  HintsOwned'
    BY <1>1 DEF create_port, HintsOwned, TypeOK, hints
<1>2. ASSUME NEW t \in Threads, NEW p \in Ports, release_port(t, p)
      PROVE  HintsOwned'
    BY <1>2 DEF release_port, ForgetHints, HintsOwned, TypeOK
<1>3. ASSUME NEW c \in Threads, NEW t \in Threads, new_thread(c, t)
      PROVE  HintsOwned'
    BY <1>3 DEF new_thread, HintsOwned, TypeOK
<1>4. ASSUME NEW t \in Threads, delete_thread(t)
      PROVE  HintsOwned'
    <2>1. \A p \in Ports : tid'[p] = IF tid[p] = t THEN NoTid ELSE tid[p]
        <3>1. \A p \in Ports : tid'[p] = IF p \in Listed(t) THEN NoTid ELSE tid[p]
            BY <1>4 DEF delete_thread
        <3> QED BY <3>1, ListedIsOwned
    <2>2. /\ last_port_message' = [last_port_message EXCEPT ![t] = NoPort]
          /\ last_port_pulse' = [last_port_pulse EXCEPT ![t] = NoPort]
        BY <1>4 DEF delete_thread, ForgetHints
    <2>3. \A u \in Threads : last_port_message[u] \in PortOrNone /\ last_port_pulse[u] \in PortOrNone
        BY DEF TypeOK
    <2> QED BY <2>1, <2>2, <2>3 DEF HintsOwned, TypeOK, PortOrNone
\* A peek leaves NoPort or an entry of one of the scanned slots.
<1>5. \A t \in Threads : \A S \in SUBSET Slots(t) :
         FirstOf(t, S) # NoPort => tid[FirstOf(t, S)] = t
    <2> SUFFICES ASSUME NEW t \in Threads, NEW S \in SUBSET Slots(t), FirstOf(t, S) # NoPort
                 PROVE  tid[FirstOf(t, S)] = t
        OBVIOUS
    <2>1. PICK i \in S : FirstOf(t, S) = ports[t][i]
        BY FirstOfPort
    <2>2. i \in Ports
        BY DEF Slots
    <2> QED BY <2>1, <2>2 DEF PortListsExact, ListsOwnPorts
<1>6. ASSUME NEW t \in Threads, NEW want \in PortOrNone, peek_message(t, want)
      PROVE  HintsOwned'
    <2> DEFINE S == {i \in PeekSlots(t, want) \cap Unmasked(t) : message_q[ports[t][i]] # <<>>}
    <2>1. S \in SUBSET Slots(t)
        BY DEF Unmasked
    <2> HIDE DEF S
    <2>2. /\ last_port_message' \in {last_port_message, [last_port_message EXCEPT ![t] = FirstOf(t, S)]}
          /\ last_port_pulse' = last_port_pulse /\ tid' = tid
        BY <1>6 DEF peek_message, S, tables
    <2>3. FirstOf(t, S) # NoPort => tid[FirstOf(t, S)] = t
        BY <1>5, <2>1
    <2> QED BY <2>2, <2>3 DEF HintsOwned, TypeOK
<1>7. ASSUME NEW t \in Threads, NEW want \in PortOrNone, preview_pulse(t, want)
      PROVE  HintsOwned'
    <2> DEFINE S == PeekSlots(t, want) \cap Unmasked(t)
    <2>1. S \in SUBSET Slots(t)
        BY DEF Unmasked
    <2>2. PICK r \in {FirstOf(t, S), NoPort} :
              last_port_pulse' \in {last_port_pulse, [last_port_pulse EXCEPT ![t] = r]}
        BY <1>7 DEF preview_pulse
    <2> HIDE DEF S
    <2>3. last_port_message' = last_port_message /\ tid' = tid
        BY <1>7 DEF preview_pulse, tables
    <2>4. r # NoPort => tid[r] = t
        BY <1>5, <2>1, <2>2
    <2> QED BY <2>2, <2>3, <2>4 DEF HintsOwned, TypeOK
<1>8. ASSUME NEW t \in Threads,
             \/ \E want \in PortOrNone : recv_message(t, want) \/ receive_pulse(t, want)
             \/ drop_message(t) \/ drop_pulse(t)
      PROVE  HintsOwned'
    BY <1>8 DEF recv_message, receive_pulse, drop_message, drop_pulse, tables, HintsOwned, TypeOK
<1>9. ASSUME NEW t \in Threads,
             \/ \E p \in Ports, flag \in BOOLEAN : set_port_flags(t, p, flag)
             \/ \E flag \in BOOLEAN : set_all_port_flags(t, flag)
             \/ \E S \in SUBSET Ports : \E flags \in [S -> BOOLEAN] : bulk_set_ports(t, flags)
      PROVE  HintsOwned'
    <2>1. tid' = tid /\ (ForgetHints(t) \/ UNCHANGED hints)
        BY <1>9 DEF set_port_flags, set_all_port_flags, bulk_set_ports
    <2> QED BY <2>1 DEF ForgetHints, hints, HintsOwned, TypeOK
<1>10. ASSUME UNCHANGED <<tid, hints>> PROVE HintsOwned'
    BY <1>10 DEF HintsOwned, hints
<1>11. ASSUME NEW t \in Threads, Sleeps(t) PROVE HintsOwned'
    BY <1>10, <1>11 DEF Sleeps, go_dormant, Suspend, tables
<1>12. ASSUME Sends PROVE HintsOwned'
    BY <1>10, <1>12 DEF Sends, send_message, send_pulse, tables
<1>13. CASE UNCHANGED vars
    BY <1>10, <1>13 DEF vars, tables
<1> QED
    BY <1>1, <1>2, <1>3, <1>4, <1>6, <1>7, <1>8, <1>9, <1>11, <1>12, <1>13
    DEF Next, PortCalls, Receives
-----------------------------------------------------------------------------
(* The bodies of messages. *)

(* Taking one message from a queue and freeing its body. *)
LEMMA BodiesAfterTake ==
    ASSUME TypeOK, BodiesAllocated, NEW r, Source(message_q, r),
           message_q' = Remove(message_q, r), heap' = Free(r)
    PROVE  BodiesAllocated'
<1>1. CASE r = NoPort
    BY <1>1 DEF Remove, Free, BodiesAllocated, Bodies
<1>2. CASE r \in Ports /\ message_q[r] # <<>>
    <2> DEFINE m == message_q[r]
    <2>1. r # NoPort
        BY <1>2, PortAssumption DEF Ports, NoPort
    <2>2. m \in Seq(Blocks) /\ m # <<>>
        BY <1>2 DEF TypeOK
    <2>3. /\ Len(Tail(m)) = Len(m) - 1 /\ Len(m) \in Nat /\ Len(m) >= 1
          /\ \A i \in 1 .. Len(m) - 1 : Tail(m)[i] = m[i + 1]
          /\ Head(m) = m[1]
        BY <2>2
    <2> HIDE DEF m
    <2>4. message_q' = [message_q EXCEPT ![r] = Tail(m)] /\ heap' = heap \ {m[1]}
        BY <2>1, <2>3 DEF Remove, Free, m
    <2>5. \A p \in Ports : message_q'[p] = IF p = r THEN Tail(m) ELSE message_q[p]
        BY <2>4 DEF TypeOK
    \* Message i of a queue was there before, in a place other than the first of r.
    <2> DEFINE Old(p, i) == IF p = r THEN i + 1 ELSE i
    <2>6. \A p \in Ports : \A i \in 1 .. Len(message_q'[p]) :
             /\ Old(p, i) \in 1 .. Len(message_q[p])
             /\ message_q'[p][i] = message_q[p][Old(p, i)]
             /\ ~(p = r /\ Old(p, i) = 1)
        <3> SUFFICES ASSUME NEW p \in Ports, NEW i \in 1 .. Len(message_q'[p])
                     PROVE  /\ Old(p, i) \in 1 .. Len(message_q[p])
                            /\ message_q'[p][i] = message_q[p][Old(p, i)]
                            /\ ~(p = r /\ Old(p, i) = 1)
            OBVIOUS
        <3>1. CASE p = r
            <4>1. message_q'[p] = Tail(m) /\ message_q[p] = m
                BY <2>5, <3>1 DEF m
            <4>2. i \in 1 .. Len(m) - 1 /\ Tail(m)[i] = m[i + 1] /\ i + 1 \in 1 .. Len(m)
                BY <2>3, <4>1
            <4>3. i + 1 # 1
                BY <4>2
            <4> QED BY <3>1, <4>1, <4>2, <4>3
        <3>2. CASE p # r
            <4>1. message_q'[p] = message_q[p]
                BY <2>5, <3>2
            <4> QED BY <3>2, <4>1
        <3> QED BY <3>1, <3>2
    <2>7. \A p \in Ports : Bodies(message_q'[p]) \subseteq heap'
        <3> SUFFICES ASSUME NEW p \in Ports, NEW i \in 1 .. Len(message_q'[p])
                     PROVE  message_q'[p][i] \in heap'
            BY DEF Bodies
        <3>1. message_q[p][Old(p, i)] \in heap
            BY <2>6 DEF BodiesAllocated, Bodies
        <3>2. 1 \in 1 .. Len(message_q[r]) /\ m[1] = message_q[r][1]
            BY <2>3 DEF m
        <3>3. message_q[p][Old(p, i)] # message_q[r][1]
            <4> HIDE DEF Old
            <4> QED BY <1>2, <2>6, <3>2 DEF BodiesAllocated
        <3> QED BY <2>4, <2>6, <3>1, <3>2, <3>3
    <2>8. ASSUME NEW p \in Ports, NEW q \in Ports, NEW i \in 1 .. Len(message_q'[p]),
                 NEW j \in 1 .. Len(message_q'[q]), message_q'[p][i] = message_q'[q][j]
          PROVE  p = q /\ i = j
        <3>1. p = q /\ Old(p, i) = Old(q, j)
            <4> HIDE DEF Old
            <4> QED BY <2>6, <2>8 DEF BodiesAllocated
        <3> QED BY <3>1
    <2> QED BY <2>7, <2>8 DEF BodiesAllocated
<1> QED BY <1>1, <1>2 DEF Source

(* Emptying some queues and freeing at most their bodies. *)
LEMMA BodiesAfterClear ==
    ASSUME TypeOK, BodiesAllocated, NEW gone \in SUBSET Ports,
           message_q' = [p \in Ports |-> IF p \in gone THEN <<>> ELSE message_q[p]],
           \A b \in heap : b \notin heap' => \E p \in gone : b \in Bodies(message_q[p])
    PROVE  BodiesAllocated'
<1>1. \A p \in Ports : \A i \in 1 .. Len(message_q'[p]) :
         p \notin gone /\ i \in 1 .. Len(message_q[p]) /\ message_q'[p][i] = message_q[p][i]
    OBVIOUS
<1>2. \A p \in Ports : Bodies(message_q'[p]) \subseteq heap'
    <2> SUFFICES ASSUME NEW p \in Ports, NEW i \in 1 .. Len(message_q'[p]),
                        message_q'[p][i] \notin heap'
                 PROVE  FALSE
        BY DEF Bodies
    <2>1. p \notin gone /\ i \in 1 .. Len(message_q[p]) /\ message_q[p][i] \notin heap'
        BY <1>1
    <2>2. message_q[p][i] \in heap
        BY <2>1 DEF BodiesAllocated, Bodies
    <2>3. PICK q \in gone : message_q[p][i] \in Bodies(message_q[q])
        BY <2>1, <2>2
    <2> QED BY <2>1, <2>3 DEF BodiesAllocated, Bodies
<1> QED BY <1>1, <1>2 DEF BodiesAllocated

LEMMA BodyStep ==
    ASSUME TypeOK, PortListsExact, BodiesAllocated, [Next]_vars
    PROVE  BodiesAllocated'
<1>1. ASSUME NEW t \in Threads, NEW p \in Ports, NEW o \in Threads, create_port(t, p, o)
      PROVE  BodiesAllocated'
    <2>1. heap' = heap /\ message_q' = [q \in Ports |-> IF q \in {p} THEN <<>> ELSE message_q[q]]
        BY <1>1 DEF create_port, TypeOK
    <2> QED BY <2>1, BodiesAfterClear
<1>2. ASSUME NEW t \in Threads, NEW p \in Ports, release_port(t, p)
      PROVE  BodiesAllocated'
    <2>1. /\ heap' \in {heap, heap \ Bodies(message_q[p])}
          /\ message_q' = [q \in Ports |-> IF q \in {p} THEN <<>> ELSE message_q[q]]
        BY <1>2 DEF release_port, TypeOK
    <2> QED BY <2>1, BodiesAfterClear
<1>3. ASSUME NEW t \in Threads, delete_thread(t)
      PROVE  BodiesAllocated'
    <2> DEFINE gone == Listed(t) \cap Ports
    <2>1. message_q' = [p \in Ports |-> IF p \in gone THEN <<>> ELSE message_q[p]]
        BY <1>3 DEF delete_thread
    <2>2. \A b \in heap : b \notin heap' => \E p \in gone : b \in Bodies(message_q[p])
        <3> SUFFICES ASSUME NEW b \in heap, b \notin heap'
                     PROVE  \E p \in gone : b \in Bodies(message_q[p])
            OBVIOUS
        <3>1. PICK p \in Listed(t) : b \in Bodies(message_q[p])
            BY <1>3 DEF delete_thread
        <3>2. p \in Ports
            BY SlotHoldsPort DEF Listed
        <3> QED BY <3>1, <3>2
    <2> HIDE DEF gone
    <2>3. gone \in SUBSET Ports
        BY DEF gone
    <2> QED BY <2>1, <2>2, <2>3, BodiesAfterClear
<1>4. ASSUME NEW p \in Ports, NEW b \in Blocks, send_message(p, b)
      PROVE  BodiesAllocated'
    <2>1. b \notin heap /\ heap' = heap \cup {b} /\ message_q' = [message_q EXCEPT ![p] = Append(@, b)]
        BY <1>4 DEF send_message
    <2> DEFINE n == Len(message_q[p]) + 1
    <2>2. message_q[p] \in Seq(Blocks) /\ n \in Nat
        BY DEF TypeOK
    <2>3. \A q \in Ports : \A i \in 1 .. Len(message_q'[q]) :
             IF q = p /\ i = n THEN message_q'[q][i] = b
             ELSE i \in 1 .. Len(message_q[q]) /\ message_q'[q][i] = message_q[q][i]
        BY <2>1, <2>2 DEF TypeOK
    <2> HIDE DEF n
    <2>4. \A q \in Ports : \A i \in 1 .. Len(message_q[q]) : message_q[q][i] \in heap
        BY DEF BodiesAllocated, Bodies
    <2>5. \A q \in Ports : Bodies(message_q'[q]) \subseteq heap'
        BY <2>1, <2>3, <2>4 DEF Bodies
    <2>6. ASSUME NEW q \in Ports, NEW r \in Ports, NEW i \in 1 .. Len(message_q'[q]),
                 NEW j \in 1 .. Len(message_q'[r]), message_q'[q][i] = message_q'[r][j]
          PROVE  q = r /\ i = j
        <3>1. CASE (q = p /\ i = n) /\ (r = p /\ j = n)
            BY <3>1
        <3>2. CASE (q = p /\ i = n) /\ ~(r = p /\ j = n)
            BY <2>1, <2>3, <2>4, <2>6, <3>2
        <3>3. CASE ~(q = p /\ i = n) /\ (r = p /\ j = n)
            BY <2>1, <2>3, <2>4, <2>6, <3>3
        <3>4. CASE ~(q = p /\ i = n) /\ ~(r = p /\ j = n)
            <4>1. i \in 1 .. Len(message_q[q]) /\ message_q'[q][i] = message_q[q][i]
                BY <2>3, <3>4
            <4>2. j \in 1 .. Len(message_q[r]) /\ message_q'[r][j] = message_q[r][j]
                BY <2>3, <3>4
            <4>3. message_q[q][i] = message_q[r][j]
                BY <2>6, <4>1, <4>2
            <4> QED BY <4>1, <4>2, <4>3 DEF BodiesAllocated
        <3> QED BY <3>1, <3>2, <3>3, <3>4
    <2> QED BY <2>5, <2>6 DEF BodiesAllocated
<1>5. ASSUME NEW t \in Threads, NEW want \in PortOrNone, recv_message(t, want)
      PROVE  BodiesAllocated'
    BY <1>5, RecvSource, BodiesAfterTake DEF recv_message
<1>6. ASSUME NEW t \in Threads, drop_message(t)
      PROVE  BodiesAllocated'
    BY <1>6, DropSource, BodiesAfterTake DEF drop_message
<1>7. ASSUME UNCHANGED <<message_q, heap>> PROVE BodiesAllocated'
    BY <1>7 DEF BodiesAllocated, Bodies
<1>8. ASSUME NEW t \in Threads,
             \/ \E p \in Ports, flag \in BOOLEAN : set_port_flags(t, p, flag)
             \/ \E flag \in BOOLEAN : set_all_port_flags(t, flag)
             \/ \E S \in SUBSET Ports : \E flags \in [S -> BOOLEAN] : bulk_set_ports(t, flags)
             \/ \E n \in Threads : new_thread(t, n)
             \/ Sleeps(t)
      PROVE  BodiesAllocated'
    BY <1>7, <1>8 DEF set_port_flags, set_all_port_flags, bulk_set_ports, new_thread,
                      Sleeps, go_dormant, Suspend, queues
<1>9. ASSUME NEW t \in Threads,
             \/ \E want \in PortOrNone : \/ peek_message(t, want) \/ receive_pulse(t, want)
                                         \/ preview_pulse(t, want)
             \/ drop_pulse(t)
      PROVE  BodiesAllocated'
    BY <1>7, <1>9 DEF peek_message, receive_pulse, preview_pulse, drop_pulse, queues
<1>10. ASSUME NEW p \in Ports, NEW u \in Pulses, send_pulse(p, u)
       PROVE  BodiesAllocated'
    BY <1>7, <1>10 DEF send_pulse
<1>11. CASE UNCHANGED vars
    BY <1>7, <1>11 DEF vars, queues
<1> QED
    BY <1>1, <1>2, <1>3, <1>4, <1>5, <1>6, <1>8, <1>9, <1>10, <1>11
    DEF Next, PortCalls, Receives, Sends

-----------------------------------------------------------------------------
(* The inductive invariant: the lists keep the hints owned and tell the     *)
(* deletion of a thread which ports to release; neither is inductive alone. *)
Inv == TypeOK /\ PortListsExact /\ HintsOwned /\ BodiesAllocated

(* A process starts with one thread and no ports. *)
LEMMA InitInv == Init => Inv
<1> SUFFICES ASSUME Init PROVE Inv
    OBVIOUS
<1>1. TypeOK
    BY DEF Init, TypeOK, PortOrNone
<1>2. PortListsExact
    BY DEF Init, PortListsExact, ListsAreCompact, ListsOwnPorts, OwnersListPorts
<1>3. HintsOwned
    BY DEF Init, HintsOwned
<1>4. BodiesAllocated
    BY DEF Init, BodiesAllocated, Bodies
<1> QED BY <1>1, <1>2, <1>3, <1>4 DEF Inv

(* The inductive invariant holds in every reachable state: no sequence of   *)
(* port, message, pulse and thread calls breaks it.                         *)
THEOREM Invariance == Spec => []Inv
<1>1. Init => Inv
    BY InitInv
<1>2. Inv /\ [Next]_vars => Inv'
    BY TypeStep, ListStep, HintStep, BodyStep DEF Inv
<1> QED BY <1>1, <1>2, PTL DEF Spec

(* create_port, release_port and delete_thread keep the owner entries and   *)
(* the port arrays of all threads in agreement, for every number of ports   *)
(* and threads; in particular a new port always finds room in the array.    *)
THEOREM PortTables == Spec => []PortListsExact
<1>1. Inv => PortListsExact
    BY DEF Inv
<1> QED BY <1>1, Invariance, PTL

(* A hint that a receive or drop obeys always names a port of the thread.   *)
THEOREM HintOwnership == Spec => []HintsOwned
<1>1. Inv => HintsOwned
    BY DEF Inv
<1> QED BY <1>1, Invariance, PTL

(* A message body is freed once, after its message has left its queue.      *)
THEOREM BodyMemory == Spec => []BodiesAllocated
<1>1. Inv => BodiesAllocated
    BY DEF Inv
<1> QED BY <1>1, Invariance, PTL

(* Every variable keeps its type; a dormant thread is a live one whose      *)
(* request has been cleared.                                                *)
THEOREM IPCTypeOK == Spec => []TypeOK
<1>1. Inv => TypeOK
    BY DEF Inv
<1> QED BY <1>1, Invariance, PTL

(* recv_message without a port finds a message whenever messages_waiting    *)
(* counts one.                                                              *)
THEOREM ReceiveFindsMessages == Spec => []MessagesReachable
<1>1. Inv => MessagesReachable
    <2> SUFFICES ASSUME Inv, NEW t \in threads, last_port_message[t] = NoPort,
                        Waiting(t, message_q)
                 PROVE  RecvPort(t, NoPort) # NoPort
        BY DEF MessagesReachable
    <2> DEFINE S == {i \in Unmasked(t) : message_q[ports[t][i]] # <<>>}
    <2>1. S # {} /\ S \in SUBSET Slots(t) /\ S \in SUBSET Ports
        BY DEF Waiting, Unmasked, Slots
    <2>2. t \in Threads /\ TypeOK
        BY DEF Inv, TypeOK
    <2>3. RecvPort(t, NoPort) = FirstOf(t, S)
        BY DEF RecvPort, Asked, SkipEmpty
    <2> HIDE DEF S
    <2>4. PICK i \in S : FirstOf(t, S) = ports[t][i]
        BY <2>1, <2>2, FirstOfSlot
    <2>5. ports[t][i] \in Ports
        BY <2>1, <2>2, <2>4, SlotHoldsPort
    <2> QED BY <2>3, <2>4, <2>5, PortAssumption DEF Ports, NoPort
<1> QED BY <1>1, Invariance, PTL

(* Releasing ports, one by one or with their thread, empties only message   *)
(* queues of ports that are gone afterwards.                                *)
THEOREM ReleaseKeepsMessages == Spec => ReleaseKeepsOtherMessages
<1> DEFINE Kept == \A p \in Ports : Released(p) =>
                      \A q \in Ports : tid'[q] # NoTid => message_q'[q] = message_q[q]
<1>1. ASSUME Inv, [Next]_vars PROVE Kept
    <2>0. TypeOK /\ PortListsExact
        BY <1>1 DEF Inv
    <2>1. ASSUME tid' = tid PROVE Kept
        BY <2>1 DEF Released
    <2>2. ASSUME NEW t \in Threads, NEW p \in Ports, NEW o \in Threads, create_port(t, p, o)
          PROVE  Kept
        <3>1. \A r \in Ports : tid'[r] = IF r = p THEN o ELSE tid[r]
            BY <2>0, <2>2 DEF create_port, TypeOK
        <3> QED BY <3>1, TidAssumption DEF Released
    <2>3. ASSUME NEW t \in Threads, NEW p \in Ports, release_port(t, p)
          PROVE  Kept
        <3>1. tid'[p] = NoTid /\ \A q \in Ports : q # p => message_q'[q] = message_q[q]
            BY <2>0, <2>3 DEF release_port, TypeOK
        <3> QED BY <3>1
    <2>4. ASSUME NEW t \in Threads, delete_thread(t) PROVE Kept
        BY <2>4 DEF delete_thread
    <2>5. ASSUME NEW c \in Threads, NEW t \in Threads, new_thread(c, t) PROVE tid' = tid
        BY <2>5 DEF new_thread
    <2>6. OtherCalls \/ UNCHANGED vars => tid' = tid
        BY OtherCallsKeepOwners DEF vars, tables
    <2> HIDE DEF Kept
    <2> QED BY <1>1, <2>1, <2>2, <2>3, <2>4, <2>5, <2>6, StepCases
<1> QED BY <1>1, Invariance, PTL DEF Spec, ReleaseKeepsOtherMessages

-----------------------------------------------------------------------------
(* Dormant threads on one CPU. *)

(* A thread that sleeps, or is on its way to, has no unmasked port with     *)
(* anything in it.                                                          *)
Quiet == \A p \in Ports : tid[p] \in dormant \cup requesting /\ ~masked[p]
                             => message_q[p] = <<>> /\ pulse_q[p] = <<>>

(* Receivers and droppers leave an empty queue empty. *)
LEMMA RemoveKeepsEmpty ==
    ASSUME NEW X, NEW q \in [Ports -> Seq(X)], NEW r, Source(q, r),
           NEW p \in Ports, q[p] = <<>>
    PROVE  Remove(q, r)[p] = <<>>
BY DEF Source, Remove

LEMMA DroppedKeepsEmpty ==
    ASSUME TypeOK, NEW t \in Threads, NEW p \in Ports, pulse_q[p] = <<>>
    PROVE  DroppedPulses(t)[p] = <<>>
<1> DEFINE hint == last_port_pulse[t]
           hinted == IF hint = NoPort THEN NoPort ELSE Named(pulse_q, hint)
           first == ports[t][0]
<1>1. hint \in PortOrNone /\ first \in PortOrNone
    BY PortAssumption DEF TypeOK, Ports
<1>2. Source(pulse_q, hinted)
    BY <1>1, NamedSource DEF PortOrNone, Source
<1> HIDE DEF hint, hinted, first
<1>3. Remove(pulse_q, hinted) \in [Ports -> Seq(Pulses)] /\ Remove(pulse_q, hinted)[p] = <<>>
    BY <1>2, RemoveType, RemoveKeepsEmpty DEF TypeOK
<1>4. DroppedPulses(t) = IF (hint # NoPort /\ hinted = NoPort) \/ first = NoPort THEN pulse_q
                         ELSE [Remove(pulse_q, hinted) EXCEPT ![first] = <<>>]
    BY DEF DroppedPulses, hint, hinted, first
<1> QED BY <1>1, <1>3, <1>4 DEF PortOrNone

(* A queue with something in it, on an unmasked port of a thread, is what   *)
(* messages_waiting and pulses_waiting count.                               *)
LEMMA WaitingMeaning ==
    ASSUME TypeOK, PortListsExact, NEW t \in Threads, NEW q
    PROVE  Waiting(t, q) <=> \E p \in Ports : tid[p] = t /\ ~masked[p] /\ q[p] # <<>>
<1>1. ASSUME Waiting(t, q)
      PROVE  \E p \in Ports : tid[p] = t /\ ~masked[p] /\ q[p] # <<>>
    <2>1. PICK i \in Slots(t) : ~PortMasked(ports[t][i]) /\ q[ports[t][i]] # <<>>
        BY <1>1 DEF Waiting, Unmasked
    <2>2. ports[t][i] \in Ports /\ ports[t][i] \in Listed(t)
        BY <2>1, SlotHoldsPort DEF Listed
    <2>3. tid[ports[t][i]] = t
        BY <2>2, ListedIsOwned
    <2> QED BY <2>1, <2>2, <2>3 DEF PortMasked
<1>2. ASSUME NEW p \in Ports, tid[p] = t, ~masked[p], q[p] # <<>>
      PROVE  Waiting(t, q)
    <2>1. PICK i \in Slots(t) : ports[t][i] = p
        BY <1>2, ListedIsOwned DEF Listed
    <2>2. ~PortMasked(p)
        BY <1>2, TidAssumption DEF PortMasked
    <2> QED BY <1>2, <2>1, <2>2 DEF Waiting, Unmasked
<1> QED BY <1>1, <1>2

(* The calls that only take from the queues. *)
LEMMA QuietAfterReceive ==
    ASSUME TypeOK, Quiet, NEW t \in Threads, Receives(t)
    PROVE  Quiet'
<1>1. UNCHANGED <<tid, masked, dormant, requesting>>
    BY DEF Receives, recv_message, peek_message, receive_pulse, preview_pulse,
           drop_message, drop_pulse, tables, sleep
<1>2. ASSUME NEW p \in Ports, message_q[p] = <<>> PROVE message_q'[p] = <<>>
    <2>1. message_q \in [Ports -> Seq(Blocks)]
        BY DEF TypeOK
    <2>2. message_q' = message_q \/ \E r : Source(message_q, r) /\ message_q' = Remove(message_q, r)
        <3>1. ASSUME NEW want \in PortOrNone, recv_message(t, want)
              PROVE  \E r : Source(message_q, r) /\ message_q' = Remove(message_q, r)
            BY <3>1, RecvSource DEF recv_message
        <3>2. ASSUME drop_message(t)
              PROVE  \E r : Source(message_q, r) /\ message_q' = Remove(message_q, r)
            BY <3>2, DropSource DEF drop_message
        <3>3. ASSUME \/ \E want \in PortOrNone : \/ peek_message(t, want) \/ receive_pulse(t, want)
                                                 \/ preview_pulse(t, want)
                     \/ drop_pulse(t)
              PROVE  message_q' = message_q
            BY <3>3 DEF peek_message, receive_pulse, preview_pulse, drop_pulse, queues
        <3> QED BY <3>1, <3>2, <3>3 DEF Receives
    <2> QED BY <1>2, <2>1, <2>2, RemoveKeepsEmpty
<1>3. ASSUME NEW p \in Ports, pulse_q[p] = <<>> PROVE pulse_q'[p] = <<>>
    <2>1. pulse_q \in [Ports -> Seq(Pulses)]
        BY DEF TypeOK
    <2>2. pulse_q' = pulse_q \/ \E r : Source(pulse_q, r) /\ pulse_q' = Remove(pulse_q, r)
        <3>1. ASSUME NEW want \in PortOrNone, receive_pulse(t, want)
              PROVE  \E r : Source(pulse_q, r) /\ pulse_q' = Remove(pulse_q, r)
            BY <3>1, ReceiveSource DEF receive_pulse
        <3>2. ASSUME drop_pulse(t)
              PROVE  \E r : Source(pulse_q, r) /\ pulse_q' = Remove(pulse_q, r)
            BY <3>2, DropPulseSource DEF drop_pulse
        <3>3. ASSUME \/ \E want \in PortOrNone : \/ peek_message(t, want) \/ recv_message(t, want)
                                                 \/ preview_pulse(t, want)
                     \/ drop_message(t)
              PROVE  pulse_q' = pulse_q
            BY <3>3 DEF peek_message, recv_message, preview_pulse, drop_message, queues
        <3> QED BY <3>1, <3>2, <3>3 DEF Receives
    <2> QED BY <1>3, <2>1, <2>2, RemoveKeepsEmpty
<1> QED BY <1>1, <1>2, <1>3 DEF Quiet

(* On one CPU no step puts anything in front of a sleeping thread. *)
LEMMA QuietStep ==
    ASSUME Inv, Quiet, [OneCpuNext]_vars
    PROVE  Quiet'
<1>0. TypeOK /\ PortListsExact /\ dormant \subseteq Threads /\ requesting \subseteq Threads
    BY DEF Inv, TypeOK
<1>1. ASSUME NEW t \in requesting, Suspend(t) PROVE Quiet'
    <2>1. /\ dormant' \cup requesting' = dormant \cup requesting
          /\ UNCHANGED <<tid, masked, message_q, pulse_q>>
        BY <1>1 DEF Suspend, tables, queues
    <2> QED BY <2>1 DEF Quiet
<1>2. CASE UNCHANGED vars
    BY <1>2 DEF vars, tables, queues, sleep, Quiet
<1>3. ASSUME requesting = {}, Next, NoUnmaskOfDormant PROVE Quiet'
    <2>1. ASSUME NEW t \in Threads, NEW p \in Ports, NEW o \in Threads, create_port(t, p, o)
          PROVE  Quiet'
        <3>1. \A r \in Ports : /\ tid'[r] = IF r = p THEN o ELSE tid[r]
                               /\ masked'[r] = IF r = p THEN FALSE ELSE masked[r]
                               /\ message_q'[r] = IF r = p THEN <<>> ELSE message_q[r]
                               /\ pulse_q'[r] = IF r = p THEN <<>> ELSE pulse_q[r]
            BY <1>0, <2>1 DEF create_port, TypeOK
        <3>2. UNCHANGED <<dormant, requesting>>
            BY <2>1 DEF create_port, sleep
        <3> QED BY <3>1, <3>2 DEF Quiet
    <2>2. ASSUME NEW t \in Threads, NEW p \in Ports, release_port(t, p)
          PROVE  Quiet'
        <3>1. tid[p] \in Threads /\ UNCHANGED <<dormant, requesting>>
            BY <1>0, <2>2 DEF release_port, TypeOK, sleep
        <3>2. DroppedPulses(tid[p]) \in [Ports -> Seq(Pulses)]
            BY <1>0, <3>1, DroppedType
        <3>3. \A r \in Ports : r # p => /\ tid'[r] = tid[r] /\ masked'[r] = masked[r]
                                        /\ message_q'[r] = message_q[r]
                                        /\ pulse_q'[r] = DroppedPulses(tid[p])[r]
            BY <1>0, <2>2, <3>2 DEF release_port, TypeOK
        <3>4. tid'[p] = NoTid /\ NoTid \notin dormant' \cup requesting'
            BY <1>0, <2>2, <3>1, TidAssumption DEF release_port, TypeOK
        <3>5. \A r \in Ports : pulse_q[r] = <<>> => DroppedPulses(tid[p])[r] = <<>>
            BY <1>0, <3>1, DroppedKeepsEmpty
        <3> QED BY <3>1, <3>3, <3>4, <3>5 DEF Quiet
    <2>3. ASSUME NEW c \in Threads, NEW t \in Threads, new_thread(c, t) PROVE Quiet'
        BY <2>3 DEF new_thread, queues, sleep, Quiet
    <2>4. ASSUME NEW t \in Threads, delete_thread(t) PROVE Quiet'
        <3>1. \A r \in Ports : \/ tid'[r] = NoTid
                               \/ /\ tid'[r] = tid[r] /\ masked'[r] = masked[r]
                                  /\ message_q'[r] = message_q[r] /\ pulse_q'[r] = pulse_q[r]
            BY <1>0, <2>4 DEF delete_thread, TypeOK
        <3>2. UNCHANGED <<dormant, requesting>> /\ NoTid \notin dormant \cup requesting
            BY <1>0, <2>4, TidAssumption DEF delete_thread, sleep
        <3> QED BY <3>1, <3>2 DEF Quiet
    <2>5. ASSUME NEW t \in Threads,
                 \/ \E p \in Ports, flag \in BOOLEAN : set_port_flags(t, p, flag)
                 \/ \E flag \in BOOLEAN : set_all_port_flags(t, flag)
                 \/ \E S \in SUBSET Ports : \E flags \in [S -> BOOLEAN] : bulk_set_ports(t, flags)
          PROVE  Quiet'
        <3>1. UNCHANGED <<tid, message_q, pulse_q, dormant, requesting>>
            BY <2>5 DEF set_port_flags, set_all_port_flags, bulk_set_ports, queues, sleep
        <3>2. \A p \in Ports : tid[p] \in dormant => tid[p] # NoTid
            BY <1>0, TidAssumption
        <3>3. \A p \in Ports : masked[p] /\ ~masked'[p] => tid[p] \notin dormant
            BY <1>3, <3>1, <3>2 DEF NoUnmaskOfDormant
        <3> QED BY <1>3, <3>1, <3>3 DEF Quiet
    <2>6. ASSUME Sends PROVE Quiet'
        <3>1. PICK p \in Ports : /\ Wake(p) /\ tid[p] \in threads
                                 /\ \A r \in Ports : r # p => /\ message_q'[r] = message_q[r]
                                                              /\ pulse_q'[r] = pulse_q[r]
            BY <1>0, <2>6 DEF Sends, send_message, send_pulse, TypeOK
        <3>2. UNCHANGED <<tid, masked, requesting>>
            BY <2>6 DEF Sends, send_message, send_pulse, tables
        <3>3. masked[p] \/ tid[p] \notin dormant'
            BY <1>0, <3>1, TidAssumption DEF Wake, PortMasked, TypeOK
        <3>4. dormant' \subseteq dormant
            BY <3>1 DEF Wake
        <3> QED BY <1>3, <3>1, <3>2, <3>3, <3>4 DEF Quiet
    <2>7. ASSUME NEW t \in Threads, go_dormant(t) PROVE Quiet'
        <3>1. /\ UNCHANGED <<tid, masked, message_q, pulse_q, dormant>>
              /\ requesting' = requesting \cup {t}
              /\ ~Waiting(t, message_q) /\ ~Waiting(t, pulse_q)
            BY <2>7 DEF go_dormant, MayGoDormant, tables, queues
        <3>2. \A p \in Ports : tid[p] = t /\ ~masked[p] => message_q[p] = <<>> /\ pulse_q[p] = <<>>
            BY <1>0, <3>1, WaitingMeaning
        <3> QED BY <3>1, <3>2 DEF Quiet
    <2>8. ASSUME NEW t \in Threads, Suspend(t) PROVE FALSE
        BY <1>3, <2>8 DEF Suspend
    <2>9. ASSUME NEW t \in Threads, Receives(t) PROVE Quiet'
        BY <1>0, <2>9, QuietAfterReceive
    <2>10. CASE OtherCalls
        BY <2>5, <2>6, <2>7, <2>8, <2>9, <2>10 DEF OtherCalls, Sleeps
    <2> QED BY <1>3, <2>1, <2>2, <2>3, <2>4, <2>10, StepCases
<1> QED BY <1>1, <1>2, <1>3 DEF OneCpuNext

(* No lost wake-up on one CPU: whatever the order of sends, receives, mask  *)
(* changes, releases and go_dormant calls, a thread is not dormant while    *)
(* something it may see waits for it.                                       *)
THEOREM NoLostWakeup == OneCpuSpec => []DormantHasNothingWaiting
<1>1. Init => Quiet
    BY DEF Init, Quiet
<1>2. Inv /\ [OneCpuNext]_vars => [Next]_vars
    <2>1. Inv => requesting \subseteq Threads
        BY DEF Inv, TypeOK
    <2> QED BY <2>1 DEF OneCpuNext, Next, Sleeps
<1>3. Inv /\ [Next]_vars => Inv'
    BY TypeStep, ListStep, HintStep, BodyStep DEF Inv
<1>4. Init => Inv
    BY InitInv
<1>5. ASSUME Inv, Quiet PROVE DormantHasNothingWaiting
    <2>1. TypeOK /\ PortListsExact /\ dormant \subseteq Threads
        BY <1>5 DEF Inv, TypeOK
    <2>2. ASSUME NEW t \in dormant PROVE ~Waiting(t, message_q) /\ ~Waiting(t, pulse_q)
        <3>1. \A p \in Ports : tid[p] = t /\ ~masked[p] => message_q[p] = <<>> /\ pulse_q[p] = <<>>
            BY <1>5 DEF Quiet
        <3> QED BY <2>1, <3>1, WaitingMeaning
    <2> QED BY <2>2 DEF DormantHasNothingWaiting
<1> QED BY <1>1, <1>2, <1>3, <1>4, <1>5, QuietStep, PTL DEF OneCpuSpec
=============================================================================
