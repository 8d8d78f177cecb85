------------------------------- MODULE DevFS -------------------------------
(***************************************************************************)
(* The device file system: the devfs daemon (devices/devfs), the library   *)
(* its clients and drivers are linked with (devices/libdevfs) and the loop *)
(* that feeds the daemon and the drivers (kernel/libcomms).                *)
(*                                                                         *)
(* A client opens devices by name and sends requests for the descriptors   *)
(* it gets.  The daemon forwards a request to the driver, remembers in a    *)
(* slot of the state table who asked, and passes the answer on.  A call     *)
(* waits for any message of the daemon on its port; the port of the next    *)
(* call has the same number.                                               *)
(*                                                                         *)
(* One thread of a process calls at a time.  The five operations that are  *)
(* forwarded alike (script, read, write, map, unmap) are "read" here.      *)
(***************************************************************************)
EXTENDS Integers, Sequences, SequencesExt, FiniteSets, Functions

CONSTANTS
    Client, Driver,   \* processes
    Name,             \* names of devices
    DeviceFlags,      \* what devices are registered with: a set of sets of flags
    FileFlags,        \* what files are opened with: a set of sets of flags
    INITIAL_STATES,   \* slots of the state table
    RequestPort,      \* number of the port a process calls from
    Mortal,           \* drivers that may end at any time
    Impatient,        \* bound: processes whose calls may outlast their timer
    MaxCalls,         \* bound: calls of each process
    MaxTotal,         \* bound: calls of all processes together
    Idle, Unused, Garbage

Process == Client \cup Driver
Slot == 0 .. INITIAL_STATES - 1

ASSUME SlotAssumption == INITIAL_STATES \in Nat \ {0}
ASSUME PortAssumption == RequestPort \in [Process -> Nat]
ASSUME ProcessAssumption == Client \cap Driver = {}
ASSUME MarkerAssumption == Garbage \notin Slot

VARIABLES
    \* libdevfs, in clients and drivers
    call,         \* the request a process waits for the answer of, or Idle
    timer,        \* the waiting process sleeps with a timer
    replies,      \* messages on the port of the call
    known,        \* descriptors that open has returned to a client
    listening,    \* push.c's list: descriptors with a function for pushes
    list,         \* register.c's list: streaming flag of a driver's devices
    events,       \* messages on the port of a driver's event loop
    \* the daemon
    messages, pulses,         \* on the daemon's port
    devices, devfs_deviceCount,
    files, last_fd,
    state_table, request_id,
    \* history
    calls,        \* calls each process has made
    dead,         \* drivers that have ended
    late,         \* processes that gave a call up
    stray,        \* somebody has acknowledged what was no request
    missed        \* devices whose driver was told of a stream before it knew the device

libVars == <<call, timer, known, listening, list, calls, late>>
tableVars == <<devices, devfs_deviceCount, files, last_fd>>
stateVars == <<state_table, request_id>>
vars == <<libVars, replies, events, messages, pulses, tableVars, stateVars, dead, stray, missed>>

Flag == {"on"} \cup UNION (DeviceFlags \cup FileFlags)
Status == {"OK", "EXISTS", "NOTFOUND", "INUSE", "NOTSUPPORTEDOP", "BAD_FLAGS", "PORT", "ERROR", "BAD_DEVICE"}
Call == [op : {"register", "deregister", "open", "close", "read", "stream"}, fd : Int, on : BOOLEAN]
Tag == Process \X Nat
Reply == [for : Tag, status : Status, fd : Int]
Events(op, req) == [op : op, fd : Int, req : req, flags : SUBSET Flag, for : Tag]
Event == Events({"read"}, Slot) \cup Events({"open", "close", "stream"}, {Garbage})
Pulse == [from : Driver, req : Slot \cup {Garbage}, for : Tag, status : Status]
Packets(from, op) == [from : from, op : op, name : Name \cup {""}, fd : Int, flags : SUBSET Flag,
                      req : Slot \cup {Garbage}, for : Tag]
Packet == \* from a client, or from a driver
    Packets(Client, {"open", "close", "read", "stream"}) \cup
    Packets(Driver, {"register", "deregister", "response"})
Device == [name : Name \cup {""}, pid : Driver, flags : SUBSET Flag,
           hooks : Seq(Client \X Int), streams : Seq(Client \X Int)]
File == [device : Nat, flags : SUBSET Flag]
Entry == [pid : Client, dest : Driver]
Partial(S, T) == UNION {[D -> T] : D \in SUBSET S}

ASSUME NothingAssumption == Unused \notin Entry /\ Idle \notin Call

TypeOK ==
    /\ call \in [Process -> Call \cup {Idle}]
    /\ timer \in [Process -> BOOLEAN]
    /\ replies \in [Process -> Seq(Reply)]
    /\ known \in [Client -> SUBSET Int]
    /\ listening \in [Client -> SUBSET Int]
    /\ list \in [Driver -> Partial(Int, BOOLEAN)]
    /\ events \in [Driver -> Seq(Event)]
    /\ messages \in Seq(Packet)
    /\ pulses \in Seq(Pulse)
    /\ devices \in Partial(Nat, Device)
    /\ devfs_deviceCount \in Nat
    /\ files \in [Client -> Partial(Int, File)]
    /\ last_fd \in [Client -> Int]
    /\ state_table \in [Slot -> Entry \cup {Unused}]
    /\ request_id \in Slot
    /\ calls \in [Process -> Nat]
    /\ dead \subseteq Driver
    /\ late \subseteq Process
    /\ stray \in BOOLEAN
    /\ missed \subseteq Int

Init ==
    /\ call = [p \in Process |-> Idle]
    /\ timer = [p \in Process |-> FALSE]
    /\ replies = [p \in Process |-> <<>>]
    /\ known = [c \in Client |-> {}]
    /\ listening = [c \in Client |-> {}]
    /\ list = [d \in Driver |-> <<>>]
    /\ events = [d \in Driver |-> <<>>]
    /\ messages = <<>> /\ pulses = <<>>
    /\ devices = <<>> /\ devfs_deviceCount = 1
    /\ files = [c \in Client |-> <<>>]
    /\ last_fd = [c \in Client |-> 0]
    /\ state_table = [s \in Slot |-> Unused] /\ request_id = 0
    /\ calls = [p \in Process |-> 0]
    /\ dead = {} /\ late = {} /\ stray = FALSE /\ missed = {}

---------------------------------------------------------------------------
(* A packet to the daemon: its sender, its fields, and the call it serves    *)
Message(from, op, name, fd, flags, req, for) ==
    [from |-> from, op |-> op, name |-> name, fd |-> fd, flags |-> flags, req |-> req, for |-> for]

(* Messages of the daemon.  One to a port that is gone is lost.            *)
Answered(r, p, answer) ==
    IF call[p] # Idle THEN [r EXCEPT ![p] = Append(@, answer)] ELSE r

(* send_resp: for names the call that is answered                          *)
send_resp(m, status, fd) ==
    replies' = Answered(replies, m.from, [for |-> m.for, status |-> status, fd |-> fd])

Told(d, e) == IF d \in dead THEN events ELSE [events EXCEPT ![d] = Append(@, e)]

(* The packets that tell a driver of something have no request id: the       *)
(* field is not written.                                                   *)
Notice(op, id, flags, m) == [op |-> op, fd |-> id, req |-> Garbage, flags |-> flags, for |-> m.for]

---------------------------------------------------------------------------
(* The tables of devices and files                                         *)
Named(name) == {i \in DOMAIN devices : devices[i].name = name}

Hooked(i, p, fd) == [devices EXCEPT ![i].hooks = Append(@, <<p, fd>>)]

\* Mutant: the entry is looked for by the process alone.
UnhookedByPid(dv, i, p, fd) ==
    [dv EXCEPT ![i].hooks = SelectSeq(@, LAMBDA h : h[1] # p)]

Unhooked(dv, i, p, fd) ==
    [dv EXCEPT ![i].hooks = IF Contains(@, <<p, fd>>)
                            THEN RemoveAt(@, CHOOSE k \in DOMAIN @ : @[k] = <<p, fd>>) ELSE @]

\* Mutant: the next descriptor is taken to be free.
NextFdBlind(c, fd) == fd + 1

NextFd(c, fd) ==
    CHOOSE n \in fd + 1 .. fd + 1 + Cardinality(DOMAIN files[c]) :
        /\ n \notin DOMAIN files[c]
        /\ \A k \in fd + 1 .. n - 1 : k \in DOMAIN files[c]

Insert(f, k, v) == [x \in DOMAIN f \cup {k} |-> IF x = k THEN v ELSE f[x]]
Without(f, k) == [x \in DOMAIN f \ {k} |-> f[x]]

---------------------------------------------------------------------------
(* The daemon's handlers, each for the message m at the head of its queue  *)
Receives(op) == messages # <<>> /\ Head(messages).op = op /\ messages' = Tail(messages)

register_device ==
    /\ Receives("register")
    /\ LET m == Head(messages)  id == devfs_deviceCount
       IN IF Named(m.name) # {}
          THEN send_resp(m, "EXISTS", -1) /\ UNCHANGED <<devices, devfs_deviceCount>>
          ELSE /\ devices' = Insert(devices, id,
                     [name |-> m.name, pid |-> m.from, flags |-> m.flags,
                      hooks |-> <<>>, streams |-> <<>>])
               /\ devfs_deviceCount' = id + 1
               /\ send_resp(m, "OK", id)
    /\ UNCHANGED <<libVars, events, pulses, files, last_fd, stateVars, dead, stray, missed>>

MayRemove(i, p) == CASE i \notin DOMAIN devices \/ devices[i].pid # p -> "NOTFOUND"
                     [] devices[i].hooks # <<>> -> "INUSE"
                     [] OTHER -> "OK"

deregister_device ==
    /\ Receives("deregister")
    /\ LET m == Head(messages)  status == MayRemove(m.fd, m.from)
       IN /\ devices' = IF status = "OK" THEN Without(devices, m.fd) ELSE devices
          /\ send_resp(m, status, m.fd)
    /\ UNCHANGED <<libVars, events, pulses, devfs_deviceCount, files, last_fd, stateVars, dead, stray, missed>>

(* A device that may not be opened stays hooked.                            *)
open ==
    /\ Receives("open")
    /\ LET m == Head(messages)  c == m.from  fd == last_fd[c]
           Refused(status) == send_resp(m, status, fd) /\ UNCHANGED <<files, last_fd, events>>
       IN \/ Named(m.name) = {} /\ Refused("NOTFOUND") /\ UNCHANGED devices
          \/ \E i \in Named(m.name) :
                \/ /\ "open" \notin devices[i].flags
                   /\ devices' = Hooked(i, c, fd) /\ Refused("NOTSUPPORTEDOP")
                \/ /\ "open" \in devices[i].flags /\ ~(m.flags \subseteq devices[i].flags)
                   /\ devices' = Unhooked(Hooked(i, c, fd), i, c, fd) /\ Refused("BAD_FLAGS")
                \/ /\ "open" \in devices[i].flags /\ m.flags \subseteq devices[i].flags
                   /\ devices' = Hooked(i, c, fd)
                   /\ files' = [files EXCEPT ![c] = Insert(@, fd, [device |-> i, flags |-> m.flags])]
                   /\ last_fd' = [last_fd EXCEPT ![c] = NextFd(c, fd)]
                   /\ events' = Told(devices[i].pid, Notice("open", i, {}, m))
                   /\ send_resp(m, "OK", fd)
    /\ UNCHANGED <<libVars, pulses, devfs_deviceCount, stateVars, dead, stray, missed>>

(* The file of message m; streams of the file stay with the device.        *)
HasFile(m) == m.fd \in DOMAIN files[m.from]
Opened(m) == files[m.from][m.fd]

NoFile ==
    /\ messages # <<>> /\ Head(messages).op \in {"close", "read", "stream"}
    /\ ~HasFile(Head(messages))
    /\ messages' = Tail(messages)
    /\ send_resp(Head(messages), "NOTFOUND", Head(messages).fd)
    /\ UNCHANGED <<libVars, events, pulses, tableVars, stateVars, dead, stray, missed>>

close ==
    /\ Receives("close") /\ HasFile(Head(messages))
    /\ LET m == Head(messages)  i == Opened(m).device
       IN /\ events' = Told(devices[i].pid, Notice("close", i, {}, m))
          /\ last_fd' = [last_fd EXCEPT ![m.from] = m.fd]
          /\ devices' = Unhooked(devices, i, m.from, m.fd)
          /\ files' = [files EXCEPT ![m.from] = Without(@, m.fd)]
          /\ send_resp(m, "OK", 0)
    /\ UNCHANGED <<libVars, pulses, devfs_deviceCount, stateVars, dead, stray, missed>>

---------------------------------------------------------------------------
(* The slots of the state table                                            *)
\* Mutant: the first slot is taken without a look at it.
FreeSlotBlind(s) == s = 0

(* get_next_request_id: the first unused slot from request_id on.  While    *)
(* there is none the daemon spins, and nothing else of it happens.         *)
FreeSlot(s) ==
    \E k \in 0 .. INITIAL_STATES - 1 :
        /\ s = (request_id + k) % INITIAL_STATES /\ state_table[s] = Unused
        /\ \A j \in 0 .. k - 1 : state_table[(request_id + j) % INITIAL_STATES] # Unused

(* A request for a driver that is gone: remove_state writes the caller's    *)
(* port over the error, and that is the status.                             *)
SendFailed(m) == IF RequestPort[m.from] = 0 THEN "OK" ELSE "PORT"

dispatch_request ==
    /\ Receives("read") /\ HasFile(Head(messages))
    /\ LET m == Head(messages)  i == Opened(m).device  d == devices[i].pid
       IN \/ /\ "read" \notin Opened(m).flags
             /\ send_resp(m, "BAD_FLAGS", m.fd)
             /\ UNCHANGED <<events, stateVars>>
          \/ \E s \in Slot :
                /\ "read" \in Opened(m).flags /\ FreeSlot(s)
                /\ request_id' = (s + 1) % INITIAL_STATES
                /\ IF d \in dead
                   THEN send_resp(m, SendFailed(m), i) /\ UNCHANGED <<events, state_table>>
                   ELSE /\ state_table' = [state_table EXCEPT ![s] = [pid |-> m.from, dest |-> d]]
                        /\ events' = Told(d, [op |-> "read", fd |-> i, req |-> s, flags |-> m.flags, for |-> m.for])
                        /\ UNCHANGED replies
    /\ UNCHANGED <<libVars, pulses, tableVars, dead, stray, missed>>

\* Mutant: the slot stays in use.
RemovedNot(s) == state_table

Removed(s) == [state_table EXCEPT ![s] = Unused]

(* remove_state, and the answer passed on.  An answer of the wrong process,  *)
(* or without a request, is dropped.                                       *)
PassOn(s, d, for, status) ==
    IF s \in Slot /\ state_table[s] # Unused /\ state_table[s].dest = d
    THEN /\ state_table' = Removed(s)
         /\ replies' = Answered(replies, state_table[s].pid, [for |-> for, status |-> status, fd |-> -1])
    ELSE UNCHANGED <<state_table, replies>>

process_response ==
    /\ Receives("response")
    /\ LET m == Head(messages) IN PassOn(m.req, m.from, m.for, "OK")
    /\ UNCHANGED <<libVars, events, pulses, tableVars, request_id, dead, stray, missed>>

(* The loop of libcomms looks at pulses when there is no message.  A request *)
(* id that nobody wrote may be any slot, or none.                           *)
process_response_pulse ==
    /\ messages = <<>> /\ pulses # <<>>
    /\ pulses' = Tail(pulses)
    /\ LET u == Head(pulses)
       IN \E s \in IF u.req = Garbage THEN Slot \cup {Garbage} ELSE {u.req} :
              PassOn(s, u.from, u.for, u.status)
    /\ UNCHANGED <<libVars, events, messages, tableVars, request_id, dead, stray, missed>>

---------------------------------------------------------------------------
(* Streams.  A process listens on one port, so release_stream takes the    *)
(* first entry of the process, whatever its descriptor.                    *)
StreamOf(i, c) == {k \in DOMAIN devices[i].streams : devices[i].streams[k][1] = c}

\* Mutant: the driver is only told of the first stream.
NoteFirst(on, n) == on /\ n = 1

(* The driver is told of the first stream and of the end of the last one.  *)
Note(on, n) == IF on THEN n = 1 ELSE n = 0

stream ==
    /\ Receives("stream") /\ HasFile(Head(messages))
    /\ LET m == Head(messages)  i == Opened(m).device  c == m.from  on == m.flags # {}
           first == CHOOSE k \in StreamOf(i, c) : \A j \in StreamOf(i, c) : k <= j
           now == IF on THEN Append(devices[i].streams, <<c, m.fd>>)
                          ELSE RemoveAt(devices[i].streams, first)
       IN \/ /\ "stream" \notin Opened(m).flags
             /\ send_resp(m, "BAD_FLAGS", m.fd)
             /\ UNCHANGED <<events, devices>>
          \/ /\ "stream" \in Opened(m).flags /\ ~on /\ StreamOf(i, c) = {}
             /\ send_resp(m, "ERROR", m.fd)
             /\ UNCHANGED <<events, devices>>
          \/ /\ "stream" \in Opened(m).flags /\ (on \/ StreamOf(i, c) # {})
             /\ devices' = [devices EXCEPT ![i].streams = now]
             /\ events' = IF Note(on, Len(now))
                          THEN Told(devices[i].pid, Notice("stream", i, m.flags, m)) ELSE events
             /\ send_resp(m, "OK", m.fd)
    /\ UNCHANGED <<libVars, pulses, devfs_deviceCount, files, last_fd, stateVars, dead, stray, missed>>

Daemon == \/ register_device \/ deregister_device \/ open \/ close \/ NoFile
          \/ dispatch_request \/ process_response \/ process_response_pulse \/ stream

---------------------------------------------------------------------------
(* The event loop of a driver: devfs_commsHandler                          *)
Current(d) == Head(events[d])
TakesEvent(d) == d \notin dead /\ events[d] # <<>> /\ events' = [events EXCEPT ![d] = Tail(@)]

(* devfs_send_ack                                                          *)
Ack(d, e, status) ==
    pulses' = Append(pulses, [from |-> d, req |-> e.req, for |-> e.for, status |-> status])

(* The device is not in the list (yet): the event is refused, whatever it is *)
UnknownDevice(d) ==
    /\ TakesEvent(d) /\ Current(d).fd \notin DOMAIN list[d]
    /\ Ack(d, Current(d), "BAD_DEVICE")
    /\ stray' = (stray \/ Current(d).op # "read")
    /\ missed' = IF Current(d).op = "stream" THEN missed \cup {Current(d).fd} ELSE missed
    /\ UNCHANGED <<libVars, replies, messages, tableVars, stateVars, dead>>

KnowsEvent(d, op) == TakesEvent(d) /\ Current(d).op = op /\ Current(d).fd \in DOMAIN list[d]

devfs_loopStream(d) ==
    /\ KnowsEvent(d, "stream")
    /\ list' = [list EXCEPT ![d][Current(d).fd] = (Current(d).flags # {})]
    /\ UNCHANGED <<call, timer, known, listening, calls, late, replies, messages, pulses, tableVars,
                   stateVars, dead, stray, missed>>

(* The hooks for open and close are the driver's own.                      *)
OpenOrClose(d) ==
    /\ KnowsEvent(d, "open") \/ KnowsEvent(d, "close")
    /\ UNCHANGED <<libVars, replies, messages, pulses, tableVars, stateVars, dead, stray, missed>>

(* A driver without the hook acknowledges the notice as if it were a request. *)
HookMissing(d) ==
    /\ KnowsEvent(d, "open") \/ KnowsEvent(d, "close")
    /\ Ack(d, Current(d), "NOTSUPPORTEDOP")
    /\ stray' = TRUE
    /\ UNCHANGED <<libVars, replies, messages, tableVars, stateVars, dead, missed>>

(* A hook that succeeds is answered by a message, one that fails by a pulse. *)
devfs_loopRead(d) ==
    /\ KnowsEvent(d, "read")
    /\ \/ /\ messages' = Append(messages, Message(d, "response", "", -1, {}, Current(d).req, Current(d).for))
          /\ UNCHANGED pulses
       \/ Ack(d, Current(d), "ERROR") /\ UNCHANGED messages
    /\ UNCHANGED <<libVars, replies, tableVars, stateVars, dead, stray, missed>>

DriverLoop(d) == \/ UnknownDevice(d) \/ devfs_loopStream(d) \/ OpenOrClose(d)
                 \/ HookMissing(d) \/ devfs_loopRead(d)

---------------------------------------------------------------------------
(* Calls: devfs_send and devfs_send_response                               *)
Total == FoldFunction(+, 0, calls)

Send(p, op, name, fd, flags) ==
    /\ call[p] = Idle /\ p \notin dead
    /\ calls[p] < MaxCalls[p] /\ Total < MaxTotal
    /\ calls' = [calls EXCEPT ![p] = @ + 1]
    /\ call' = [call EXCEPT ![p] = [op |-> op, fd |-> fd, on |-> flags # {}]]
    /\ timer' = [timer EXCEPT ![p] = TRUE]
    /\ messages' = Append(messages, Message(p, op, name, fd, flags, Garbage, <<p, calls[p] + 1>>))

Sent == UNCHANGED <<known, list, late, replies, events, pulses, tableVars, stateVars, dead, stray, missed>>

devfs_register(d) ==
    /\ \E n \in Name, f \in DeviceFlags : Send(d, "register", n, -1, f)
    /\ UNCHANGED listening /\ Sent

devfs_deregister(d) ==
    /\ \E i \in DOMAIN list[d] : Send(d, "deregister", "", i, {})
    /\ UNCHANGED listening /\ Sent

devfs_open(c) ==
    /\ \E n \in Name, f \in FileFlags : Send(c, "open", n, -1, f)
    /\ UNCHANGED listening /\ Sent

devfs_close(c) ==
    /\ \E fd \in known[c] : Send(c, "close", "", fd, {})
    /\ UNCHANGED listening /\ Sent

devfs_read(c) ==
    /\ \E fd \in known[c] : Send(c, "read", "", fd, {})
    /\ UNCHANGED listening /\ Sent

(* The function is listed before a stream is asked for, and taken off the   *)
(* list after it has been given back.                                      *)
devfs_set_streaming(c) ==
    /\ \E fd \in known[c] : /\ Send(c, "stream", "", fd, IF fd \in listening[c] THEN {} ELSE {"on"})
                      /\ listening' = [listening EXCEPT ![c] = @ \cup {fd}]
    /\ Sent

(* What the caller does with the status of its call                        *)
Delisted(p, status) ==
    LET r == call[p]
    IN IF r.op = "stream" /\ r.on = (status # "OK")
       THEN [listening EXCEPT ![p] = @ \ {r.fd}] ELSE listening

Relisted(p, a) ==
    CASE call[p].op = "register" /\ a.status = "OK" -> [list EXCEPT ![p] = Insert(@, a.fd, FALSE)]
      [] call[p].op = "deregister" /\ a.status = "OK" -> [list EXCEPT ![p] = Without(@, call[p].fd)]
      [] OTHER -> list

(* The call takes the first message of the daemon, releases the port and    *)
(* whatever else is on it.                                                 *)
Return(p) ==
    /\ p \notin dead /\ call[p] # Idle /\ replies[p] # <<>>
    /\ call' = [call EXCEPT ![p] = Idle]
    /\ timer' = [timer EXCEPT ![p] = FALSE]
    /\ replies' = [replies EXCEPT ![p] = <<>>]
    /\ known' = IF call[p].op = "open" /\ Head(replies[p]).status = "OK"
                THEN [known EXCEPT ![p] = @ \cup {Head(replies[p]).fd}] ELSE known
    /\ listening' = Delisted(p, Head(replies[p]).status)
    /\ list' = Relisted(p, Head(replies[p]))
    /\ UNCHANGED <<calls, late, events, messages, pulses, tableVars, stateVars, dead, stray, missed>>

(* The timer runs out: past the time, the call is given up; at the very     *)
(* millisecond the rest is zero, and go_dormant takes zero for no timer.    *)
TimeOut(p) ==
    /\ p \in Impatient \ dead /\ timer[p] /\ replies[p] = <<>>
    /\ call' = [call EXCEPT ![p] = Idle]
    /\ timer' = [timer EXCEPT ![p] = FALSE]
    /\ listening' = Delisted(p, "TIMEOUT")
    /\ late' = late \cup {p}
    /\ UNCHANGED <<calls, known, list, replies, events, messages, pulses, tableVars, stateVars, dead, stray, missed>>

SleepOn(p) ==
    /\ p \in Impatient \ dead /\ timer[p] /\ replies[p] = <<>>
    /\ timer' = [timer EXCEPT ![p] = FALSE]
    /\ UNCHANGED <<call, calls, late, known, listening, list, replies, events, messages, pulses, tableVars,
                   stateVars, dead, stray, missed>>

(* A driver ends: its ports are gone, and the daemon is not told.  events    *)
(* keeps what was lost with the port.                                      *)
Die(d) ==
    /\ d \in Mortal \ dead
    /\ dead' = dead \cup {d}
    /\ call' = [call EXCEPT ![d] = Idle]
    /\ timer' = [timer EXCEPT ![d] = FALSE]
    /\ replies' = [replies EXCEPT ![d] = <<>>]
    /\ UNCHANGED <<calls, late, known, listening, list, events, messages, pulses, tableVars, stateVars, stray, missed>>

ClientCall(c) == devfs_open(c) \/ devfs_close(c) \/ devfs_read(c) \/ devfs_set_streaming(c)

Next == \/ Daemon
        \/ \E d \in Driver : DriverLoop(d) \/ devfs_register(d) \/ devfs_deregister(d) \/ Die(d)
        \/ \E c \in Client : ClientCall(c)
        \/ \E p \in Process : Return(p) \/ TimeOut(p) \/ SleepOn(p)

Spec == Init /\ [][Next]_vars

\* The daemon's and the drivers' loops run on, a caller that has an answer
\* takes it, and a timer runs out.
Fairness == /\ WF_vars(Daemon)
            /\ \A d \in Driver : WF_vars(DriverLoop(d))
            /\ \A p \in Process : WF_vars(Return(p)) /\ WF_vars(TimeOut(p) \/ SleepOn(p))
FairSpec == Spec /\ Fairness

---------------------------------------------------------------------------
(* The device of an open file is registered: no file of the daemon points  *)
(* to an entry that deregister_device has freed (files.c fp->device).      *)
FilesHaveDevices ==
    \A c \in Client : \A fd \in DOMAIN files[c] : files[c][fd].device \in DOMAIN devices

(* The descriptor the next open of a process gives out is not in use, after *)
(* any sequence of opens and closes (files.c, last_fd): otherwise two files *)
(* would have one number, and the older one could never be closed.         *)
NextDescriptorFree == \A c \in Client : last_fd[c] \notin DOMAIN files[c]

(* A slot of the state table that is in use has its request with the driver, *)
(* or lost with it, or the driver's answer on the way (state.c): no slot     *)
(* leaks otherwise, so the spin for a free one ends while drivers answer.    *)
Pending(s, d) ==
    \/ \E k \in DOMAIN events[d] : events[d][k].req = s
    \/ \E k \in DOMAIN messages :
           messages[k].op = "response" /\ messages[k].req = s /\ messages[k].from = d
    \/ \E k \in DOMAIN pulses : pulses[k].req = s /\ pulses[k].from = d
SlotsPending == \A s \in Slot : state_table[s] # Unused => Pending(s, state_table[s].dest)

(* What a call receives is the answer to this call, and there is one, unless *)
(* the process has given up a call before (comms.c does not compare request  *)
(* ids) or a driver has acknowledged a notice (events.c).                    *)
AnswerIsOwn ==
    \A p \in Process :
        p \notin late /\ ~stray =>
            /\ Len(replies[p]) <= 1
            /\ \A k \in DOMAIN replies[p] : replies[p][k].for = <<p, calls[p]>>

(* A driver streams, or has been told to, exactly while the daemon has       *)
(* somebody to pass its pushes to, unless it was told before devfs_register  *)
(* had listed the device (files.c stream, events.c devfs_loopStream).       *)
Notes(d, i) == {k \in DOMAIN events[d] : events[d][k].op = "stream" /\ events[d][k].fd = i}
StreamsWhileListened ==
    \A d \in Driver : \A i \in DOMAIN list[d] \cap DOMAIN devices :
        d \notin dead /\ i \notin missed =>
            LET Streamed == devices[i].streams # <<>>
            IN  /\ Notes(d, i) = {} => (Streamed <=> list[d][i])
                /\ \A k \in Notes(d, i) :
                       (\A j \in Notes(d, i) : j <= k) => (Streamed <=> events[d][k].flags # {})

(* A call comes back, by an answer or by its timer (comms.c: "Timeout has    *)
(* occured. Our message took forever.").                                   *)
CallsReturn == \A c \in Client : (call[c] # Idle) ~> (call[c] = Idle)
=============================================================================
