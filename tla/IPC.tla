-------------------------------- MODULE IPC --------------------------------
(***************************************************************************)
(* Ports, messages and pulses of one process: kernel/src/ports.c,           *)
(* messages.c, pulse.c and the sleeping of go_dormant (threads.c).          *)
(*                                                                          *)
(* Every operation runs with the process checked out (syscalls.c), so each  *)
(* is one action; senders are threads of any process.  A port's two queues  *)
(* are sequences, which the paged queue implements (AQueue).  The port list *)
(* of a thread is the C array it is, unused slots holding NoPort, because   *)
(* every scan stops at the first unused slot.                               *)
(***************************************************************************)
EXTENDS Integers, Sequences, FiniteSets

CONSTANTS Threads,      \* the thread ids the process may use
          NoTid,        \* -1 in ipc[port].tid
          MaxPorts,     \* MAX_PORTS
          Blocks,       \* memory for message bodies; bounds the messages in flight
          Pulses,       \* what a pulse can say
          MaxPulses     \* bound: no pulse is sent to a port with that many

ASSUME PortAssumption == MaxPorts \in Nat \ {0}
ASSUME TidAssumption == NoTid \notin Threads

Ports == 0 .. MaxPorts - 1
NoPort == -1
PortOrNone == Ports \cup {NoPort}

VARIABLES
    threads,            \* the threads of the process
    tid,                \* ipc[port].tid, the owner
    masked,             \* ipc[port].flags & IPC_MASKED
    message_q, pulse_q, \* the queues of a port; a message is its body's block
    ports,              \* thread->ports
    last_port_message, last_port_pulse, \* the hints a peek leaves behind
    heap,               \* the allocated message bodies
    dormant,            \* threads with state THREAD_DORMANT
    requesting          \* threads that committed to dormancy and still run

tables == <<tid, masked, ports>>
queues == <<message_q, pulse_q, heap>>
hints == <<last_port_message, last_port_pulse>>
sleep == <<dormant, requesting>>
vars == <<threads, tables, queues, hints, sleep>>

Init == /\ \E t \in Threads : threads = {t}
        /\ tid = [p \in Ports |-> NoTid]
        /\ masked = [p \in Ports |-> FALSE]
        /\ message_q = [p \in Ports |-> <<>>]
        /\ pulse_q = [p \in Ports |-> <<>>]
        /\ ports = [t \in Threads |-> [i \in Ports |-> NoPort]]
        /\ last_port_message = [t \in Threads |-> NoPort]
        /\ last_port_pulse = [t \in Threads |-> NoPort]
        /\ heap = {}
        /\ dormant = {} /\ requesting = {}

\* A thread that can make a system call.
Active(t) == t \in threads \ (dormant \cup requesting)

-----------------------------------------------------------------------------
(* What the scans of a thread's port list see. *)

\* port_flags(..., IPC_MASKED) != 0: masked, or not a port at all.
PortMasked(p) == tid[p] = NoTid \/ masked[p]

\* The slots of the list before the first unused one.
Slots(t) == {i \in Ports : \A j \in 0 .. i : ports[t][j] # NoPort}
Unmasked(t) == {i \in Slots(t) : ~PortMasked(ports[t][i])}

\* The port in the first of some slots.
FirstOf(t, S) == IF S = {} THEN NoPort
                 ELSE ports[t][CHOOSE i \in S : \A j \in S : i <= j]

\* A port asked for by number or by hint.
Named(q, p) == IF PortMasked(p) \/ q[p] = <<>> THEN NoPort ELSE p

\* A scan that passes over empty queues.
SkipEmpty(t, q) == FirstOf(t, {i \in Unmasked(t) : q[ports[t][i]] # <<>>})

\* A scan that gives up at the first unmasked port when that is empty.
StopEmpty(t, q) == LET p == FirstOf(t, Unmasked(t))
                   IN  IF p # NoPort /\ q[p] # <<>> THEN p ELSE NoPort

Remove(q, p) == IF p = NoPort THEN q ELSE [q EXCEPT ![p] = Tail(@)]

\* Freeing the body of the message taken from port p.
Free(p) == IF p = NoPort THEN heap ELSE heap \ {Head(message_q[p])}

\* messages_waiting > 0, pulses_waiting > 0.
Waiting(t, q) == \E i \in Unmasked(t) : q[ports[t][i]] # <<>>

-----------------------------------------------------------------------------
(* ports.c *)

\* The first unused slot of a list, if there is one.
FreeSlots(t) == {i \in Ports : ports[t][i] = NoPort /\ \A j \in 0 .. i - 1 : ports[t][j] # NoPort}

\* create_port: t makes a port for a thread of its process.
create_port(t, p, owner) ==
    /\ Active(t) /\ owner \in threads
    /\ tid[p] = NoTid
    /\ tid' = [tid EXCEPT ![p] = owner]
    /\ masked' = [masked EXCEPT ![p] = FALSE]
    /\ ports' = [ports EXCEPT ![owner] =
                    [i \in Ports |-> IF i \in FreeSlots(owner) THEN p ELSE @[i]]]
    /\ message_q' = [message_q EXCEPT ![p] = <<>>]
    /\ pulse_q' = [pulse_q EXCEPT ![p] = <<>>]
    /\ UNCHANGED <<threads, heap, hints, sleep>>

ForgetHints(t) ==
    /\ last_port_message' = [last_port_message EXCEPT ![t] = NoPort]
    /\ last_port_pulse' = [last_port_pulse EXCEPT ![t] = NoPort]

\* The flags after a sequence of set_port_flags calls: flags is a function from
\* port numbers; a number that is not a port is refused.
WithFlags(flags) == [p \in Ports |-> IF p \in DOMAIN flags /\ tid[p] # NoTid
                                     THEN flags[p] ELSE masked[p]]

\* set_port_flags for one port of the process, whoever owns it.
set_port_flags(t, p, flag) ==
    /\ Active(t)
    /\ masked' = WithFlags([q \in {p} |-> flag])
    /\ ForgetHints(t)
    /\ UNCHANGED <<threads, tid, ports, queues, sleep>>

\* set_port_flags(-1): all ports of the calling thread.
set_all_port_flags(t, flag) ==
    /\ Active(t)
    /\ masked' = WithFlags([q \in {ports[t][i] : i \in Slots(t)} |-> flag])
    /\ ForgetHints(t)
    /\ UNCHANGED <<threads, tid, ports, queues, sleep>>

\* bulk_set_ports: restores the flags a bulk_get_ports has saved.
bulk_set_ports(t, flags) ==
    /\ Active(t)
    /\ masked' = WithFlags(flags)
    /\ IF DOMAIN flags # {} THEN ForgetHints(t) ELSE UNCHANGED hints
    /\ UNCHANGED <<threads, tid, ports, queues, sleep>>

\* The array of a thread's ports after the entry for p was taken out.
WithoutPort(t, p) ==
    LET gone == {i \in Slots(t) : ports[t][i] = p}
    IN  [i \in Ports |-> IF \A k \in gone : i < k THEN ports[t][i]
                         ELSE IF i = MaxPorts - 1 THEN NoPort ELSE ports[t][i + 1]]

\* The first loop of release_port: drop_pulse until it fails.  The first call
\* obeys a hint for pulses, all others look at the first port of the owner,
\* masked or not.
DroppedPulses(owner) ==
    LET hint   == last_port_pulse[owner]
        hinted == IF hint = NoPort THEN NoPort ELSE Named(pulse_q, hint)
        first  == ports[owner][0]
    IN  IF (hint # NoPort /\ hinted = NoPort) \/ first = NoPort
        THEN pulse_q
        ELSE [Remove(pulse_q, hinted) EXCEPT ![first] = <<>>]

Bodies(q) == {q[k] : k \in 1 .. Len(q)}

\* Mutant: the array is not closed up, the slot is only cleared.
ReleasePortLeavingGap(t, p) ==
    LET owner == tid[p]
    IN  /\ Active(t) /\ owner # NoTid
        /\ tid' = [tid EXCEPT ![p] = NoTid]
        /\ ports' = [ports EXCEPT ![owner] = [i \in Ports |-> IF @[i] = p THEN NoPort ELSE @[i]]]
        /\ message_q' = [message_q EXCEPT ![p] = <<>>]
        /\ pulse_q' = [pulse_q EXCEPT ![p] = <<>>]
        /\ ForgetHints(owner)
        /\ UNCHANGED <<threads, masked, heap, sleep>>

\* Mutant: messages are dropped the way pulses are, from the first port.
ReleasePortDroppingFirst(t, p) ==
    LET owner == tid[p]
    IN  /\ Active(t) /\ owner # NoTid
        /\ heap' = heap \ (Bodies(message_q[p]) \cup Bodies(message_q[ports[owner][0]]))
        /\ message_q' = [message_q EXCEPT ![p] = <<>>, ![ports[owner][0]] = <<>>]
        /\ pulse_q' = [pulse_q EXCEPT ![p] = <<>>]
        /\ tid' = [tid EXCEPT ![p] = NoTid]
        /\ masked' = [masked EXCEPT ![p] = FALSE]
        /\ ports' = [ports EXCEPT ![owner] = WithoutPort(owner, p)]
        /\ ForgetHints(owner)
        /\ UNCHANGED <<threads, sleep>>

\* release_port: drop what is queued, free the queues, forget the port.  The
\* second loop drops the messages unless the port is masked; the bodies of
\* messages that stay behind are not freed.
release_port(t, p) ==
    LET owner == tid[p]
    IN  /\ Active(t) /\ owner # NoTid
        /\ heap' = IF PortMasked(p) THEN heap ELSE heap \ Bodies(message_q[p])
        /\ message_q' = [message_q EXCEPT ![p] = <<>>]
        /\ pulse_q' = [DroppedPulses(owner) EXCEPT ![p] = <<>>]
        /\ tid' = [tid EXCEPT ![p] = NoTid]
        /\ masked' = [masked EXCEPT ![p] = FALSE]
        /\ ports' = [ports EXCEPT ![owner] = WithoutPort(owner, p)]
        /\ ForgetHints(owner)
        /\ UNCHANGED <<threads, sleep>>

-----------------------------------------------------------------------------
(* messages.c and pulse.c *)

\* Mutant: senders do not look at the owner's state.
WakeNobody(p) == UNCHANGED dormant

\* The end of a send: an unmasked port wakes its owner if that is dormant.
Wake(p) == dormant' = IF PortMasked(p) THEN dormant ELSE dormant \ {tid[p]}

\* send_message: the body is copied to newly allocated memory.
send_message(p, b) ==
    /\ tid[p] \in threads
    /\ b \notin heap
    /\ heap' = heap \cup {b}
    /\ message_q' = [message_q EXCEPT ![p] = Append(@, b)]
    /\ Wake(p)
    /\ UNCHANGED <<threads, tables, pulse_q, hints, requesting>>

send_pulse(p, u) ==
    /\ tid[p] \in threads
    /\ Len(pulse_q[p]) < MaxPulses
    /\ pulse_q' = [pulse_q EXCEPT ![p] = Append(@, u)]
    /\ Wake(p)
    /\ UNCHANGED <<threads, tables, message_q, heap, hints, requesting>>

\* The port a receiver names, else the hint of its last peek.
Asked(want, hint) == IF want # NoPort THEN want ELSE hint

\* Mutant: the search gives up at the first empty port.
RecvPortGivingUp(t, want) ==
    LET p == Asked(want, last_port_message[t])
    IN  IF p # NoPort THEN Named(message_q, p) ELSE StopEmpty(t, message_q)

\* Where recv_message takes its message from.
RecvPort(t, want) ==
    LET p == Asked(want, last_port_message[t])
    IN  IF p # NoPort THEN Named(message_q, p) ELSE SkipEmpty(t, message_q)

\* Mutant: the body is freed and the message stays in the queue.
RecvWithoutRemove(t, want) ==
    /\ Active(t)
    /\ heap' = Free(RecvPort(t, want))
    /\ UNCHANGED <<threads, tables, message_q, pulse_q, hints, sleep>>

\* recv_message: with want = NoPort the hint counts, without one all ports of
\* the thread; any port of the process may be named.
recv_message(t, want) ==
    LET p == RecvPort(t, want)
    IN  /\ Active(t)
        /\ message_q' = Remove(message_q, p)
        /\ heap' = Free(p)
        /\ last_port_message' = [last_port_message EXCEPT ![t] = NoPort]
        /\ UNCHANGED <<threads, tables, pulse_q, last_port_pulse, sleep>>

\* drop_message
drop_message(t) ==
    LET hint == last_port_message[t]
        p    == IF hint # NoPort THEN Named(message_q, hint) ELSE StopEmpty(t, message_q)
    IN  /\ Active(t)
        /\ message_q' = Remove(message_q, p)
        /\ heap' = Free(p)
        /\ last_port_message' = [last_port_message EXCEPT ![t] = NoPort]
        /\ UNCHANGED <<threads, tables, pulse_q, last_port_pulse, sleep>>

\* The slots a peek looks at: one port of the thread, or all of them.
PeekSlots(t, want) == IF want = NoPort THEN Slots(t)
                  ELSE {i \in Slots(t) : ports[t][i] = want}

\* Mutant: a peek at a named port does not check that the port is the thread's.
PeekAnyPort(t, want) ==
    /\ Active(t)
    /\ last_port_message' = [last_port_message EXCEPT ![t] =
          IF want # NoPort THEN Named(message_q, want) ELSE SkipEmpty(t, message_q)]
    /\ UNCHANGED <<threads, tables, queues, last_port_pulse, sleep>>

\* peek_message leaves the port it found as a hint; asked for a port that is
\* not the thread's it fails and keeps the old hint.
peek_message(t, want) ==
    LET S == {i \in PeekSlots(t, want) \cap Unmasked(t) : message_q[ports[t][i]] # <<>>}
    IN  /\ Active(t)
        /\ last_port_message' =
              IF want # NoPort /\ PeekSlots(t, want) = {} THEN last_port_message
              ELSE [last_port_message EXCEPT ![t] = FirstOf(t, S)]
        /\ UNCHANGED <<threads, tables, queues, last_port_pulse, sleep>>

\* preview_pulse: as peek_message, but the first unmasked port decides.
preview_pulse(t, want) ==
    LET p == FirstOf(t, PeekSlots(t, want) \cap Unmasked(t))
    IN  /\ Active(t)
        /\ last_port_pulse' =
              IF want # NoPort /\ PeekSlots(t, want) = {} THEN last_port_pulse
              ELSE [last_port_pulse EXCEPT ![t] =
                       IF p # NoPort /\ pulse_q[p] # <<>> THEN p ELSE NoPort]
        /\ UNCHANGED <<threads, tables, queues, last_port_message, sleep>>

\* Where receive_pulse takes its pulse from.
ReceivePort(t, want) ==
    LET p == Asked(want, last_port_pulse[t])
    IN  IF p # NoPort THEN Named(pulse_q, p) ELSE StopEmpty(t, pulse_q)

receive_pulse(t, want) ==
    /\ Active(t)
    /\ pulse_q' = Remove(pulse_q, ReceivePort(t, want))
    /\ last_port_pulse' = [last_port_pulse EXCEPT ![t] = NoPort]
    /\ UNCHANGED <<threads, tables, message_q, heap, last_port_message, sleep>>

\* drop_pulse without a hint looks at the first port, masked or not.
drop_pulse(t) ==
    LET hint  == last_port_pulse[t]
        first == ports[t][0]
        p     == IF hint # NoPort THEN Named(pulse_q, hint)
                 ELSE IF first # NoPort /\ pulse_q[first] # <<>> THEN first ELSE NoPort
    IN  /\ Active(t)
        /\ pulse_q' = Remove(pulse_q, p)
        /\ last_port_pulse' = [last_port_pulse EXCEPT ![t] = NoPort]
        /\ UNCHANGED <<threads, tables, message_q, heap, last_port_message, sleep>>

-----------------------------------------------------------------------------
(* threads.c *)

\* new_thread, called by thread c: a thread without ports and hints.
new_thread(c, t) ==
    /\ Active(c)
    /\ t \notin threads
    /\ threads' = threads \cup {t}
    /\ ports' = [ports EXCEPT ![t] = [i \in Ports |-> NoPort]]
    /\ last_port_message' = [last_port_message EXCEPT ![t] = NoPort]
    /\ last_port_pulse' = [last_port_pulse EXCEPT ![t] = NoPort]
    /\ UNCHANGED <<tid, masked, queues, sleep>>

\* The ports in a thread's list.
Listed(t) == {ports[t][i] : i \in Slots(t)}

\* delete_thread, with the release_port of every port in the thread's list
\* (release_thread_ports); it is in no table afterwards.
delete_thread(t) ==
    LET gone == Listed(t)
    IN  /\ Active(t)
        /\ threads' = threads \ {t}
        /\ heap' = heap \ UNION {Bodies(message_q[p]) : p \in {q \in gone : ~PortMasked(q)}}
        /\ message_q' = [p \in Ports |-> IF p \in gone THEN <<>> ELSE message_q[p]]
        /\ pulse_q' = [p \in Ports |-> IF p \in gone THEN <<>> ELSE pulse_q[p]]
        /\ tid' = [p \in Ports |-> IF p \in gone THEN NoTid ELSE tid[p]]
        /\ masked' = [p \in Ports |-> masked[p] /\ p \notin gone]
        /\ ports' = [ports EXCEPT ![t] = [i \in Ports |-> NoPort]]
        /\ ForgetHints(t)
        /\ UNCHANGED sleep

\* The test of go_dormant.
MayGoDormant(t) == ~Waiting(t, pulse_q) /\ ~Waiting(t, message_q)

\* go_dormant up to commit_process: the thread asks its scheduler to make it
\* dormant; until the scheduler has switched it out its state is running.
go_dormant(t) ==
    /\ Active(t)
    /\ MayGoDormant(t)
    /\ requesting' = requesting \cup {t}
    /\ UNCHANGED <<threads, tables, queues, hints, dormant>>

\* sched_yield and remove_last: the scheduler honours the request.
Suspend(t) ==
    /\ t \in requesting
    /\ requesting' = requesting \ {t}
    /\ dormant' = dormant \cup {t}
    /\ UNCHANGED <<threads, tables, queues, hints>>

-----------------------------------------------------------------------------
PortCalls(t) ==
    \/ \E p \in Ports :
          \/ \E o \in Threads : create_port(t, p, o)
          \/ \E flag \in BOOLEAN : set_port_flags(t, p, flag)
          \/ release_port(t, p)
    \/ \E flag \in BOOLEAN : set_all_port_flags(t, flag)
    \/ \E S \in SUBSET Ports : \E flags \in [S -> BOOLEAN] : bulk_set_ports(t, flags)

Receives(t) ==
    \/ \E want \in PortOrNone :
          recv_message(t, want) \/ peek_message(t, want)
          \/ receive_pulse(t, want) \/ preview_pulse(t, want)
    \/ drop_message(t) \/ drop_pulse(t)

Sends == \E p \in Ports : \/ \E b \in Blocks : send_message(p, b)
                          \/ \E u \in Pulses : send_pulse(p, u)

Sleeps(t) == go_dormant(t) \/ Suspend(t)

Next == \/ \E t \in Threads : \/ PortCalls(t) \/ Receives(t) \/ Sleeps(t)
                              \/ delete_thread(t)
                              \/ \E n \in Threads : new_thread(t, n)
        \/ Sends

Spec == Init /\ [][Next]_vars

(***************************************************************************)
(* One CPU: interrupts are off from the commit in go_dormant to the yield,  *)
(* so nobody runs while a request is pending.  Unmasking does not wake: the  *)
(* mask of a dormant thread's port is assumed to stay until it wakes up.     *)
(***************************************************************************)
NoUnmaskOfDormant == \A p \in Ports :
    masked[p] /\ ~masked'[p] /\ tid'[p] # NoTid => tid[p] \notin dormant

OneCpuNext == \/ \E t \in requesting : Suspend(t)
              \/ requesting = {} /\ Next /\ NoUnmaskOfDormant

OneCpuSpec == Init /\ [][OneCpuNext]_vars

-----------------------------------------------------------------------------
\* The types of the port tables; a dormant or yielding thread exists, so nobody
\* wakes a deleted thread (delete_thread, send_message, send_pulse).
TypeOK == /\ threads \subseteq Threads
          /\ tid \in [Ports -> Threads \cup {NoTid}]
          /\ masked \in [Ports -> BOOLEAN]
          /\ message_q \in [Ports -> Seq(Blocks)]
          /\ pulse_q \in [Ports -> Seq(Pulses)]
          /\ ports \in [Threads -> [Ports -> PortOrNone]]
          /\ last_port_message \in [Threads -> PortOrNone]
          /\ last_port_pulse \in [Threads -> PortOrNone]
          /\ heap \subseteq Blocks
          /\ dormant \subseteq threads /\ requesting \subseteq threads \ dormant

(***************************************************************************)
(* The two records of who owns a port agree: a thread's list has no gaps    *)
(* (every scan stops at the first unused slot), no duplicates, and holds    *)
(* exactly the ports whose ipc entry names the thread, who is alive.        *)
(***************************************************************************)
ListsAreCompact ==
    \A t \in Threads : \A i, j \in Ports :
        i < j /\ ports[t][j] # NoPort => ports[t][i] # NoPort /\ ports[t][i] # ports[t][j]
ListsOwnPorts ==
    \A t \in Threads : \A i \in Ports : ports[t][i] # NoPort => tid[ports[t][i]] = t
OwnersListPorts ==
    \A p \in Ports : tid[p] # NoTid => /\ tid[p] \in threads
                                       /\ \E i \in Ports : ports[tid[p]][i] = p
PortListsExact == ListsAreCompact /\ ListsOwnPorts /\ OwnersListPorts

(***************************************************************************)
(* A hint left by peek_message or preview_pulse names a port that the       *)
(* thread still owns when recv_message, drop_message, receive_pulse or      *)
(* drop_pulse obeys it, whoever released or recreated ports meanwhile.      *)
(***************************************************************************)
HintsOwned ==
    \A t \in Threads : /\ last_port_message[t] # NoPort => tid[last_port_message[t]] = t
                       /\ last_port_pulse[t] # NoPort => tid[last_port_pulse[t]] = t

(***************************************************************************)
(* Message bodies are neither freed twice nor read after free: every queued *)
(* message has its own allocated body.                                      *)
(***************************************************************************)
BodiesAllocated ==
    /\ \A p \in Ports : Bodies(message_q[p]) \subseteq heap
    /\ \A p, q \in Ports : \A i \in 1 .. Len(message_q[p]), j \in 1 .. Len(message_q[q]) :
          message_q[p][i] = message_q[q][j] => p = q /\ i = j

(***************************************************************************)
(* When messages_waiting counts a message that a thread may see, a          *)
(* recv_message on any port finds one.                                      *)
(***************************************************************************)
MessagesReachable ==
    \A t \in threads : last_port_message[t] = NoPort /\ Waiting(t, message_q)
                          => RecvPort(t, NoPort) # NoPort

(***************************************************************************)
(* Releasing a port never drops a message that waits on another port.       *)
(***************************************************************************)
Released(p) == tid[p] # NoTid /\ tid'[p] = NoTid
ReleaseKeepsOtherMessages ==
    [][\A p \in Ports : Released(p) =>
          \A q \in Ports : tid'[q] # NoTid => message_q'[q] = message_q[q]]_vars

(***************************************************************************)
(* A thread is not dormant while a message or pulse that it may see waits   *)
(* for it.                                                                  *)
(***************************************************************************)
DormantHasNothingWaiting ==
    \A t \in dormant : ~Waiting(t, message_q) /\ ~Waiting(t, pulse_q)
=============================================================================
