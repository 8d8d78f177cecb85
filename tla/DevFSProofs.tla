---------------------------- MODULE DevFSProofs ----------------------------
(***************************************************************************)
(* Proofs about the devfs daemon, for any clients, drivers and slots: open  *)
(* files have a registered device, no slot of the state table leaks, a call *)
(* receives its own answer, and drivers stream while somebody listens.     *)
(***************************************************************************)
EXTENDS DevFS, SequenceTheorems, FiniteSetTheorems, WellFoundedInduction, TLAPS

(* Partial functions                                                       *)
LEMMA PartialFunctions ==
    ASSUME NEW S, NEW T, NEW f
    PROVE  f \in Partial(S, T) <=> f \in [DOMAIN f -> T] /\ DOMAIN f \subseteq S
BY DEF Partial

LEMMA InsertPartial ==
    ASSUME NEW S, NEW T, NEW f \in Partial(S, T), NEW k \in S, NEW v \in T
    PROVE  /\ Insert(f, k, v) \in Partial(S, T)
           /\ DOMAIN Insert(f, k, v) = DOMAIN f \cup {k}
           /\ Insert(f, k, v)[k] = v
           /\ \A x \in DOMAIN f : x # k => Insert(f, k, v)[x] = f[x]
<1>1. f \in [DOMAIN f -> T] /\ DOMAIN f \subseteq S
  BY PartialFunctions
<1>2. Insert(f, k, v) \in [DOMAIN f \cup {k} -> T]
  BY <1>1 DEF Insert
<1> QED
  BY <1>1, <1>2, PartialFunctions DEF Insert

LEMMA WithoutPartial ==
    ASSUME NEW S, NEW T, NEW f \in Partial(S, T), NEW k
    PROVE  /\ Without(f, k) \in Partial(S, T)
           /\ DOMAIN Without(f, k) = DOMAIN f \ {k}
           /\ \A x \in DOMAIN f : x # k => Without(f, k)[x] = f[x]
<1>1. f \in [DOMAIN f -> T] /\ DOMAIN f \subseteq S
  BY PartialFunctions
<1>2. Without(f, k) \in [DOMAIN f \ {k} -> T]
  BY <1>1 DEF Without
<1> QED
  BY <1>1, <1>2, PartialFunctions DEF Without

(* Queues: what Append and Tail keep                                       *)
LEMMA AppendKeeps ==
    ASSUME NEW S, NEW s \in Seq(S), NEW x \in S
    PROVE  /\ Append(s, x) \in Seq(S)
           /\ \A k \in DOMAIN s : k \in DOMAIN Append(s, x) /\ Append(s, x)[k] = s[k]
           /\ Len(s) + 1 \in DOMAIN Append(s, x) /\ Append(s, x)[Len(s) + 1] = x
  OBVIOUS

LEMMA TailKeeps ==
    ASSUME NEW S, NEW s \in Seq(S), s # <<>>
    PROVE  /\ Head(s) \in S /\ Tail(s) \in Seq(S)
           /\ \A k \in DOMAIN s : k # 1 => k - 1 \in DOMAIN Tail(s) /\ Tail(s)[k - 1] = s[k]
           /\ Head(s) = s[1]
  OBVIOUS

LEMMA ConcatKeeps ==
    ASSUME NEW S, NEW a \in Seq(S), NEW b \in Seq(S), NEW y, Contains(a, y) \/ Contains(b, y)
    PROVE  Contains(a \o b, y)
<1>1. Len(a) \in Nat /\ Len(b) \in Nat /\ Len(a \o b) = Len(a) + Len(b)
  BY ConcatProperties
<1>2. CASE Contains(a, y)
  <2>1. PICK k \in 1 .. Len(a) : a[k] = y
    BY <1>2 DEF Contains
  <2>2. k \in 1 .. Len(a \o b) /\ (a \o b)[k] = y
    BY <1>1, <2>1, ConcatProperties
  <2> QED BY <2>2 DEF Contains
<1>3. CASE Contains(b, y)
  <2>1. PICK k \in 1 .. Len(b) : b[k] = y
    BY <1>3 DEF Contains
  <2>2. /\ Len(a) + k \in 1 .. Len(a) + Len(b) /\ ~(Len(a) + k <= Len(a))
        /\ (Len(a) + k) - Len(a) = k
    BY <1>1
  <2>3. (a \o b)[Len(a) + k] = b[(Len(a) + k) - Len(a)]
    BY <2>2, ConcatProperties
  <2> QED BY <1>1, <2>1, <2>2, <2>3 DEF Contains
<1> QED BY <1>2, <1>3

LEMMA RemoveAtKeeps ==
    ASSUME NEW S, NEW s \in Seq(S), NEW i \in DOMAIN s
    PROVE  /\ RemoveAt(s, i) \in Seq(S)
           /\ \A y : Contains(s, y) /\ y # s[i] => Contains(RemoveAt(s, i), y)
<1>1. i \in 1 .. Len(s) /\ Len(s) \in Nat
  OBVIOUS
<1>2. SubSeq(s, 1, i - 1) \in Seq(S) /\ SubSeq(s, i + 1, Len(s)) \in Seq(S)
  BY <1>1
<1>3. RemoveAt(s, i) \in Seq(S)
  BY <1>2, ConcatProperties DEF RemoveAt
<1>4. ASSUME NEW y, Contains(s, y), y # s[i] PROVE Contains(RemoveAt(s, i), y)
  <2>1. PICK k \in 1 .. Len(s) : s[k] = y
    BY <1>4 DEF Contains
  <2>2. CASE k < i
    <3>1. k \in 1 .. Len(SubSeq(s, 1, i - 1)) /\ SubSeq(s, 1, i - 1)[k] = s[k]
      BY <1>1, <2>2
    <3> QED BY <3>1, <2>1, <1>2, ConcatKeeps DEF RemoveAt, Contains
  <2>3. CASE k > i
    <3>1. PICK j \in Nat : k = i + j /\ 1 <= j
      <4>1. k - i \in Nat /\ 1 <= k - i /\ k = i + (k - i)
        BY <1>1, <2>3
      <4> QED BY <4>1
    <3>2. j \in 1 .. Len(SubSeq(s, i + 1, Len(s))) /\ SubSeq(s, i + 1, Len(s))[j] = s[i + j]
      BY <1>1, <3>1
    <3>3. Contains(SubSeq(s, i + 1, Len(s)), y)
      BY <3>1, <3>2, <2>1 DEF Contains
    <3> QED BY <3>3, <1>2, ConcatKeeps DEF RemoveAt
  <2> QED BY <2>1, <2>2, <2>3, <1>1, <1>4
<1> QED BY <1>3, <1>4

(* Functions changed at a place that may lie outside their domain           *)
LEMMA ExceptType ==
    ASSUME NEW D, NEW T, NEW f \in [D -> T], NEW p, NEW v, p \in D => v \in T
    PROVE  [f EXCEPT ![p] = v] \in [D -> T]
  OBVIOUS

---------------------------------------------------------------------------
(* Types                                                                   *)
LEMMA ClientPacket ==
    ASSUME NEW m \in Packet, m.op \in {"open", "close", "read", "stream"}
    PROVE  /\ m.from \in Client /\ m.fd \in Int /\ m.flags \in SUBSET Flag
           /\ m.for \in Tag /\ m.name \in Name \cup {""}
  BY DEF Packet, Packets

LEMMA DriverPacket ==
    ASSUME NEW m \in Packet, m.op \in {"register", "deregister", "response"}
    PROVE  /\ m.from \in Driver /\ m.fd \in Int /\ m.flags \in SUBSET Flag
           /\ m.req \in Slot \cup {Garbage} /\ m.for \in Tag /\ m.name \in Name \cup {""}
  BY DEF Packet, Packets

LEMMA AnsweredType ==
    ASSUME replies \in [Process -> Seq(Reply)], NEW p, NEW a \in Reply
    PROVE  Answered(replies, p, a) \in [Process -> Seq(Reply)]
<1>1. p \in Process => Append(replies[p], a) \in Seq(Reply)
  OBVIOUS
<1> QED BY <1>1, ExceptType DEF Answered

LEMMA RespType ==
    ASSUME TypeOK, NEW m \in Packet, NEW status \in Status, NEW fd \in Int
    PROVE  Answered(replies, m.from, [for |-> m.for, status |-> status, fd |-> fd])
               \in [Process -> Seq(Reply)]
<1>1. [for |-> m.for, status |-> status, fd |-> fd] \in Reply
  BY DEF Packet, Packets, Reply
<1> QED BY <1>1, AnsweredType DEF TypeOK

LEMMA ToldType ==
    ASSUME TypeOK, NEW d \in Driver, NEW e \in Event
    PROVE  /\ Told(d, e) \in [Driver -> Seq(Event)]
           /\ \A x \in Driver : \A k \in DOMAIN events[x] :
                  k \in DOMAIN Told(d, e)[x] /\ Told(d, e)[x][k] = events[x][k]
<1>1. events \in [Driver -> Seq(Event)] /\ events[d] \in Seq(Event)
  BY DEF TypeOK
<1> QED BY <1>1, AppendKeeps DEF Told

LEMMA NoticeType ==
    ASSUME NEW m \in Packet, NEW op \in {"open", "close", "stream"}, NEW i \in Int, NEW f \in SUBSET Flag
    PROVE  Notice(op, i, f, m) \in Event
  BY DEF Notice, Event, Events, Packet, Packets

---------------------------------------------------------------------------
(* The search for a descriptor ends: among one more numbers than there are  *)
(* files one is free, and the first such number is found.                   *)
Less == {r \in Nat \X Nat : r[1] < r[2]}

LEMMA LeastElement ==
    ASSUME NEW T, T \subseteq Nat, T # {}
    PROVE  \E x \in T : \A y \in T : x <= y
<1>1. Less = OpToRel(<, Nat)
  BY DEF OpToRel, Less
<1>2. IsWellFoundedOn(Less, Nat)
  BY <1>1, NatLessThanWellFounded
<1>3. PICK x \in T : \A y \in T : ~(<<y, x>> \in Less)
  BY <1>2, WFMin
<1>4. \A y \in T : <<y, x>> \in Nat \X Nat /\ <<y, x>>[1] = y /\ <<y, x>>[2] = x
  OBVIOUS
<1>5. \A y \in T : ~(y < x)
  BY <1>3, <1>4 DEF Less
<1> QED BY <1>5

LEMMA IntervalNotCovered ==
    ASSUME NEW S, IsFiniteSet(S), NEW a \in Int
    PROVE  Cardinality(S) \in Nat /\ \E n \in a .. a + Cardinality(S) : n \notin S
<1>1. Cardinality(S) \in Nat
  BY FS_CardinalityType
<1>2. SUFFICES ASSUME a .. a + Cardinality(S) \subseteq S PROVE FALSE
  BY <1>1
<1>3. Cardinality(a .. a + Cardinality(S)) <= Cardinality(S)
  BY <1>2, FS_Subset
<1>4. Cardinality(a .. a + Cardinality(S)) = Cardinality(S) + 1
  BY <1>1, FS_Interval
<1> QED BY <1>1, <1>3, <1>4

LEMMA NextFdFree ==
    ASSUME NEW c, NEW fd \in Int, IsFiniteSet(DOMAIN files[c])
    PROVE  NextFd(c, fd) \in Int /\ NextFd(c, fd) > fd /\ NextFd(c, fd) \notin DOMAIN files[c]
<1> DEFINE N == Cardinality(DOMAIN files[c])
           T == {j \in Nat : j <= N /\ fd + 1 + j \notin DOMAIN files[c]}
           R == fd + 1 .. fd + 1 + N
<1>1. N \in Nat /\ \E n \in R : n \notin DOMAIN files[c]
  BY IntervalNotCovered, fd + 1 \in Int
<1> HIDE DEF N
<1>2. PICK n \in R : n \notin DOMAIN files[c]
  BY <1>1
<1>3. n - (fd + 1) \in T
  <2>1. n - (fd + 1) \in Nat /\ n - (fd + 1) <= N /\ fd + 1 + (n - (fd + 1)) = n
    BY <1>1, <1>2
  <2> QED BY <2>1, <1>2
<1>4. T \subseteq Nat /\ T # {}
  BY <1>3
<1>5. PICK x \in T : \A y \in T : x <= y
  BY <1>4, LeastElement
<1>6. fd + 1 + x \in R /\ fd + 1 + x \notin DOMAIN files[c]
  BY <1>1
<1>7. ASSUME NEW k \in fd + 1 .. (fd + 1 + x) - 1 PROVE k \in DOMAIN files[c]
  <2>1. /\ k - (fd + 1) \in Nat /\ k - (fd + 1) <= N /\ k - (fd + 1) < x
        /\ fd + 1 + (k - (fd + 1)) = k
    BY <1>1
  <2>2. k - (fd + 1) \notin T
    BY <1>5, <2>1
  <2> QED BY <2>1, <2>2
<1>8. \E m \in R : /\ m \notin DOMAIN files[c]
                   /\ \A k \in fd + 1 .. m - 1 : k \in DOMAIN files[c]
  BY <1>6, <1>7
<1>9. NextFd(c, fd) = CHOOSE m \in R : /\ m \notin DOMAIN files[c]
                                       /\ \A k \in fd + 1 .. m - 1 : k \in DOMAIN files[c]
  BY DEF NextFd, N
<1>10. NextFd(c, fd) \in R /\ NextFd(c, fd) \notin DOMAIN files[c]
  BY <1>8, <1>9
<1> QED BY <1>10, <1>1

---------------------------------------------------------------------------
(* What the inductive invariant adds to the types.  Identifiers of devices  *)
(* are not given out twice, and a device knows the files opened on it.      *)
FiniteFiles == \A c \in Client : IsFiniteSet(DOMAIN files[c])
FreshId == \A i \in DOMAIN devices : i < devfs_deviceCount
HookedFiles ==
    \A c \in Client : \A fd \in DOMAIN files[c] :
        /\ files[c][fd].device \in DOMAIN devices
        /\ Contains(devices[files[c][fd].device].hooks, <<c, fd>>)
IInv == TypeOK /\ FiniteFiles /\ FreshId /\ HookedFiles /\ NextDescriptorFree /\ SlotsPending

(* Types of the tables, elementwise                                        *)
LEMMA DeviceType ==
    ASSUME TypeOK, NEW i \in DOMAIN devices
    PROVE  /\ i \in Nat /\ devices[i] \in Device /\ devices[i].pid \in Driver
           /\ devices[i].hooks \in Seq(Client \X Int) /\ devices[i].streams \in Seq(Client \X Int)
<1>1. devices \in [DOMAIN devices -> Device] /\ DOMAIN devices \subseteq Nat
  BY PartialFunctions DEF TypeOK
<1> QED BY <1>1 DEF Device

LEMMA FileType ==
    ASSUME TypeOK, NEW c \in Client
    PROVE  /\ files[c] \in Partial(Int, File) /\ DOMAIN files[c] \subseteq Int
           /\ \A fd \in DOMAIN files[c] : files[c][fd] \in File /\ files[c][fd].device \in Nat
<1>1. files[c] \in Partial(Int, File)
  BY DEF TypeOK
<1>2. files[c] \in [DOMAIN files[c] -> File] /\ DOMAIN files[c] \subseteq Int
  BY <1>1, PartialFunctions
<1> QED BY <1>1, <1>2 DEF File

(* A device with other hooks or streams                                    *)
WithHooks(dv, i, h) == [dv EXCEPT ![i].hooks = h]
WithStreams(dv, i, h) == [dv EXCEPT ![i].streams = h]

LEMMA HooksChanged ==
    ASSUME NEW dv \in Partial(Nat, Device), NEW i \in DOMAIN dv, NEW h \in Seq(Client \X Int),
           NEW new, new = WithHooks(dv, i, h)
    PROVE  /\ new \in Partial(Nat, Device) /\ DOMAIN new = DOMAIN dv
           /\ new[i].hooks = h /\ \A j \in DOMAIN dv : j # i => new[j] = dv[j]
<1>1. dv \in [DOMAIN dv -> Device] /\ DOMAIN dv \subseteq Nat
  BY PartialFunctions
<1>2. dv[i] \in Device
  BY <1>1
<1>3. [dv[i] EXCEPT !.hooks = h] \in Device /\ [dv[i] EXCEPT !.hooks = h].hooks = h
  BY <1>2 DEF Device
<1>4. new = [dv EXCEPT ![i] = [dv[i] EXCEPT !.hooks = h]]
  BY DEF WithHooks
<1>5. new \in [DOMAIN dv -> Device]
  BY <1>1, <1>3, <1>4
<1>6. new \in Partial(Nat, Device)
  BY <1>1, <1>5, PartialFunctions
<1> QED BY <1>1, <1>3, <1>4, <1>6

LEMMA StreamsChanged ==
    ASSUME NEW dv \in Partial(Nat, Device), NEW i \in DOMAIN dv, NEW h \in Seq(Client \X Int),
           NEW new, new = WithStreams(dv, i, h)
    PROVE  /\ new \in Partial(Nat, Device) /\ DOMAIN new = DOMAIN dv
           /\ \A j \in DOMAIN dv : new[j].hooks = dv[j].hooks
<1>1. dv \in [DOMAIN dv -> Device] /\ DOMAIN dv \subseteq Nat
  BY PartialFunctions
<1>2. dv[i] \in Device
  BY <1>1
<1>3. [dv[i] EXCEPT !.streams = h] \in Device /\ [dv[i] EXCEPT !.streams = h].hooks = dv[i].hooks
  BY <1>2 DEF Device
<1>4. new = [dv EXCEPT ![i] = [dv[i] EXCEPT !.streams = h]]
  BY DEF WithStreams
<1>5. new \in [DOMAIN dv -> Device]
  BY <1>1, <1>3, <1>4
<1>6. new \in Partial(Nat, Device)
  BY <1>1, <1>5, PartialFunctions
<1> QED BY <1>1, <1>3, <1>4, <1>6

LEMMA HookedKeeps ==
    ASSUME TypeOK, NEW i \in DOMAIN devices, NEW c \in Client, NEW fd \in Int
    PROVE  /\ Hooked(i, c, fd) \in Partial(Nat, Device) /\ DOMAIN Hooked(i, c, fd) = DOMAIN devices
           /\ Contains(Hooked(i, c, fd)[i].hooks, <<c, fd>>)
           /\ \A j \in DOMAIN devices : \A y :
                  Contains(devices[j].hooks, y) => Contains(Hooked(i, c, fd)[j].hooks, y)
<1> DEFINE h == devices[i].hooks
           g == Append(h, <<c, fd>>)
<1>1. h \in Seq(Client \X Int) /\ <<c, fd>> \in Client \X Int
  BY DeviceType
<1>2. Hooked(i, c, fd) = WithHooks(devices, i, g)
  BY DEF Hooked, WithHooks
<1>3. g \in Seq(Client \X Int) /\ Contains(g, <<c, fd>>) /\ \A y : Contains(h, y) => Contains(g, y)
  <2> HIDE DEF h
  <2>1. g \in Seq(Client \X Int) /\ DOMAIN g = 1 .. Len(g) /\ DOMAIN h = 1 .. Len(h)
    BY <1>1
  <2>2. /\ Len(h) + 1 \in DOMAIN g /\ g[Len(h) + 1] = <<c, fd>>
        /\ \A k \in DOMAIN h : k \in DOMAIN g /\ g[k] = h[k]
    BY <1>1, AppendKeeps
  <2> HIDE DEF g
  <2> QED BY <2>1, <2>2 DEF Contains
<1>4. devices \in Partial(Nat, Device)
  BY DEF TypeOK
<1> HIDE DEF g
<1>5. /\ Hooked(i, c, fd) \in Partial(Nat, Device) /\ DOMAIN Hooked(i, c, fd) = DOMAIN devices
      /\ Hooked(i, c, fd)[i].hooks = g
      /\ \A j \in DOMAIN devices : j # i => Hooked(i, c, fd)[j] = devices[j]
  BY <1>2, <1>3, <1>4, HooksChanged
<1>6. ASSUME NEW j \in DOMAIN devices, NEW y, Contains(devices[j].hooks, y)
      PROVE  Contains(Hooked(i, c, fd)[j].hooks, y)
  <2>1. CASE j = i
    <3>1. Contains(g, y)
      BY <1>3, <1>6, <2>1
    <3> QED BY <3>1, <1>5, <2>1
  <2>2. CASE j # i
    <3>1. Hooked(i, c, fd)[j] = devices[j]
      BY <1>5, <2>2
    <3> QED BY <1>6, <3>1
  <2> QED BY <2>1, <2>2
<1> QED BY <1>3, <1>5, <1>6

LEMMA UnhookedKeeps ==
    ASSUME NEW dv \in Partial(Nat, Device), NEW i \in DOMAIN dv, NEW c \in Client, NEW fd \in Int
    PROVE  /\ Unhooked(dv, i, c, fd) \in Partial(Nat, Device)
           /\ DOMAIN Unhooked(dv, i, c, fd) = DOMAIN dv
           /\ \A j \in DOMAIN dv : \A y :
                  Contains(dv[j].hooks, y) /\ y # <<c, fd>> => Contains(Unhooked(dv, i, c, fd)[j].hooks, y)
<1> DEFINE h == dv[i].hooks
           at == CHOOSE k \in DOMAIN h : h[k] = <<c, fd>>
           g == IF Contains(h, <<c, fd>>) THEN RemoveAt(h, at) ELSE h
<1>1. h \in Seq(Client \X Int)
  <2>1. dv \in [DOMAIN dv -> Device]
    BY PartialFunctions
  <2> QED BY <2>1 DEF Device
<1>2. Unhooked(dv, i, c, fd) = WithHooks(dv, i, g)
  BY DEF Unhooked, WithHooks
<1>3. g \in Seq(Client \X Int) /\ \A y : Contains(h, y) /\ y # <<c, fd>> => Contains(g, y)
  <2> HIDE DEF h
  <2>1. CASE Contains(h, <<c, fd>>)
    <3>1. at \in DOMAIN h /\ h[at] = <<c, fd>>
      BY <1>1, <2>1 DEF Contains
    <3> HIDE DEF at
    <3> QED BY <1>1, <2>1, <3>1, RemoveAtKeeps
  <2>2. CASE ~Contains(h, <<c, fd>>)
    BY <1>1, <2>2
  <2> QED BY <2>1, <2>2
<1> HIDE DEF g
<1>4. /\ Unhooked(dv, i, c, fd) \in Partial(Nat, Device) /\ DOMAIN Unhooked(dv, i, c, fd) = DOMAIN dv
      /\ Unhooked(dv, i, c, fd)[i].hooks = g
      /\ \A j \in DOMAIN dv : j # i => Unhooked(dv, i, c, fd)[j] = dv[j]
  BY <1>2, <1>3, HooksChanged
<1>5. ASSUME NEW j \in DOMAIN dv, NEW y, Contains(dv[j].hooks, y), y # <<c, fd>>
      PROVE  Contains(Unhooked(dv, i, c, fd)[j].hooks, y)
  <2>1. CASE j = i
    <3>1. Contains(g, y)
      BY <1>3, <1>5, <2>1
    <3> QED BY <3>1, <1>4, <2>1
  <2>2. CASE j # i
    <3>1. Unhooked(dv, i, c, fd)[j] = dv[j]
      BY <1>4, <2>2
    <3> QED BY <1>5, <3>1
  <2> QED BY <2>1, <2>2
<1> QED BY <1>4, <1>5

---------------------------------------------------------------------------
(* Every step keeps the types.  First the daemon's handlers.               *)
LEMMA FirstMessage ==
    ASSUME TypeOK, messages # <<>>
    PROVE  Head(messages) \in Packet /\ Tail(messages) \in Seq(Packet)
  BY TailKeeps DEF TypeOK

LEMMA RegisterTypes == ASSUME IInv, register_device PROVE TypeOK'
<1> DEFINE m == Head(messages)
<1>1. TypeOK /\ messages # <<>> /\ m.op = "register" /\ messages' = Tail(messages)
  BY DEF IInv, register_device, Receives
<1>2. m \in Packet /\ Tail(messages) \in Seq(Packet)
  BY <1>1, FirstMessage
<1>3. m.from \in Driver /\ m.flags \in SUBSET Flag /\ m.name \in Name \cup {""}
  BY <1>1, <1>2, DriverPacket
<1>4. devices \in Partial(Nat, Device) /\ devfs_deviceCount \in Nat /\ devfs_deviceCount \in Int
  BY <1>1 DEF TypeOK
<1>5. replies' \in [Process -> Seq(Reply)]
  <2>1. CASE send_resp(m, "EXISTS", -1)
    BY <1>1, <1>2, <2>1, RespType DEF send_resp, Status
  <2>2. CASE send_resp(m, "OK", devfs_deviceCount)
    BY <1>1, <1>2, <1>4, <2>2, RespType DEF send_resp, Status
  <2> QED BY <2>1, <2>2 DEF register_device
<1>6. [name |-> m.name, pid |-> m.from, flags |-> m.flags, hooks |-> <<>>, streams |-> <<>>] \in Device
  <2>1. <<>> \in Seq(Client \X Int)
    OBVIOUS
  <2> QED BY <1>3, <2>1 DEF Device
<1>7. devices' \in Partial(Nat, Device) /\ devfs_deviceCount' \in Nat
  <2>1. CASE Named(m.name) # {}
    BY <1>4, <2>1 DEF register_device
  <2>2. CASE Named(m.name) = {}
    <3>1. /\ devices' = Insert(devices, devfs_deviceCount, [name |-> m.name, pid |-> m.from,
                               flags |-> m.flags, hooks |-> <<>>, streams |-> <<>>])
          /\ devfs_deviceCount' = devfs_deviceCount + 1
      BY <2>2 DEF register_device
    <3> DEFINE new == [name |-> m.name, pid |-> m.from, flags |-> m.flags, hooks |-> <<>>, streams |-> <<>>]
    <3>2. new \in Device /\ devices' = Insert(devices, devfs_deviceCount, new)
      BY <1>6, <3>1
    <3> HIDE DEF new
    <3>3. Insert(devices, devfs_deviceCount, new) \in Partial(Nat, Device)
      BY <1>4, <3>2, InsertPartial
    <3> QED BY <1>4, <3>1, <3>2, <3>3
  <2> QED BY <2>1, <2>2
<1> QED
  BY <1>1, <1>2, <1>5, <1>7 DEF TypeOK, register_device, libVars, stateVars

LEMMA DeregisterTypes == ASSUME IInv, deregister_device PROVE TypeOK'
<1> DEFINE m == Head(messages)
<1>1. TypeOK /\ messages # <<>> /\ m.op = "deregister" /\ messages' = Tail(messages)
  BY DEF IInv, deregister_device, Receives
<1>2. m \in Packet /\ Tail(messages) \in Seq(Packet)
  BY <1>1, FirstMessage
<1>3. m.from \in Driver /\ m.fd \in Int
  BY <1>1, <1>2, DriverPacket
<1>4. devices \in Partial(Nat, Device)
  BY <1>1 DEF TypeOK
<1>7. MayRemove(m.fd, m.from) \in Status
  BY DEF MayRemove, Status
<1>5. replies' \in [Process -> Seq(Reply)]
  BY <1>1, <1>2, <1>3, <1>7, RespType DEF deregister_device, send_resp
<1>6. devices' \in Partial(Nat, Device)
  BY <1>4, WithoutPartial DEF deregister_device
<1> QED
  BY <1>1, <1>2, <1>5, <1>6 DEF TypeOK, deregister_device, libVars, stateVars

LEMMA NoFileTypes == ASSUME IInv, NoFile PROVE TypeOK'
<1> DEFINE m == Head(messages)
<1>1. /\ TypeOK /\ messages # <<>> /\ m.op \in {"close", "read", "stream"}
      /\ messages' = Tail(messages) /\ send_resp(m, "NOTFOUND", m.fd)
  BY DEF IInv, NoFile
<1>2. m \in Packet /\ Tail(messages) \in Seq(Packet)
  BY <1>1, FirstMessage
<1>3. m.fd \in Int
  BY <1>1, <1>2, ClientPacket
<1>4. replies' \in [Process -> Seq(Reply)]
  BY <1>1, <1>2, <1>3, RespType DEF send_resp, Status
<1> QED
  BY <1>1, <1>2, <1>4 DEF TypeOK, NoFile, libVars, stateVars, tableVars

LEMMA OpenTypes == ASSUME IInv, open PROVE TypeOK'
<1> DEFINE m == Head(messages)
           c == m.from
           fd == last_fd[c]
<1>1. TypeOK /\ messages # <<>> /\ m.op = "open" /\ messages' = Tail(messages)
  BY DEF IInv, open, Receives
<1>2. m \in Packet /\ Tail(messages) \in Seq(Packet)
  BY <1>1, FirstMessage
<1>3. c \in Client /\ m.flags \in SUBSET Flag
  BY <1>1, <1>2, ClientPacket
<1>4. /\ fd \in Int /\ files[c] \in Partial(Int, File) /\ devices \in Partial(Nat, Device)
      /\ IsFiniteSet(DOMAIN files[c])
  BY <1>1, <1>3 DEF TypeOK, IInv, FiniteFiles
<1>5. replies' \in [Process -> Seq(Reply)]
  <2>1. \E status \in Status : send_resp(m, status, fd)
    BY DEF open, Status
  <2> QED BY <1>1, <1>2, <1>4, <2>1, RespType DEF send_resp
<1> DEFINE Typed == /\ devices' \in Partial(Nat, Device) /\ events' \in [Driver -> Seq(Event)]
                    /\ files' \in [Client -> Partial(Int, File)] /\ last_fd' \in [Client -> Int]
<1>6. Typed
  <2>0. \/ UNCHANGED <<devices, files, last_fd, events>>
        \/ \E i \in Named(m.name) :
              \/ devices' = Hooked(i, c, fd) /\ UNCHANGED <<files, last_fd, events>>
              \/ devices' = Unhooked(Hooked(i, c, fd), i, c, fd) /\ UNCHANGED <<files, last_fd, events>>
              \/ /\ devices' = Hooked(i, c, fd)
                 /\ files' = [files EXCEPT ![c] = Insert(@, fd, [device |-> i, flags |-> m.flags])]
                 /\ last_fd' = [last_fd EXCEPT ![c] = NextFd(c, fd)]
                 /\ events' = Told(devices[i].pid, Notice("open", i, {}, m))
    BY DEF open
  <2>1. CASE UNCHANGED <<devices, files, last_fd, events>>
    BY <1>1, <2>1 DEF TypeOK
  <2>2. ASSUME NEW i \in Named(m.name), devices' = Hooked(i, c, fd), UNCHANGED <<files, last_fd, events>>
        PROVE  Typed
    BY <1>1, <1>3, <1>4, <2>2, HookedKeeps DEF TypeOK, Named
  <2>3. ASSUME NEW i \in Named(m.name), devices' = Unhooked(Hooked(i, c, fd), i, c, fd),
               UNCHANGED <<files, last_fd, events>>
        PROVE  Typed
    <3>1. i \in DOMAIN devices
      BY DEF Named
    <3>2. Hooked(i, c, fd) \in Partial(Nat, Device) /\ i \in DOMAIN Hooked(i, c, fd)
      BY <1>1, <1>3, <1>4, <3>1, HookedKeeps
    <3>3. devices' \in Partial(Nat, Device)
      BY <1>3, <1>4, <2>3, <3>2, UnhookedKeeps
    <3> QED BY <1>1, <2>3, <3>3 DEF TypeOK
  <2>4. ASSUME NEW i \in Named(m.name), devices' = Hooked(i, c, fd),
               files' = [files EXCEPT ![c] = Insert(@, fd, [device |-> i, flags |-> m.flags])],
               last_fd' = [last_fd EXCEPT ![c] = NextFd(c, fd)],
               events' = Told(devices[i].pid, Notice("open", i, {}, m))
        PROVE  Typed
    <3>1. i \in DOMAIN devices
      BY DEF Named
    <3>2. i \in Nat /\ i \in Int /\ devices[i].pid \in Driver
      BY <1>1, <3>1, DeviceType
    <3>3. devices' \in Partial(Nat, Device)
      BY <1>1, <1>3, <1>4, <2>4, <3>1, HookedKeeps
    <3>4. Notice("open", i, {}, m) \in Event
      BY <1>2, <3>2, NoticeType
    <3>5. events' \in [Driver -> Seq(Event)]
      BY <1>1, <2>4, <3>2, <3>4, ToldType
    <3>6. [device |-> i, flags |-> m.flags] \in File
      BY <1>3, <3>2 DEF File
    <3>7. Insert(files[c], fd, [device |-> i, flags |-> m.flags]) \in Partial(Int, File)
      BY <1>4, <3>6, InsertPartial
    <3>8. NextFd(c, fd) \in Int
      BY <1>4, NextFdFree
    <3> QED BY <1>1, <2>4, <3>3, <3>5, <3>7, <3>8 DEF TypeOK
  <2> HIDE DEF Typed
  <2> QED
    BY <2>0, <2>1, <2>2, <2>3, <2>4
<1> QED
  BY <1>1, <1>2, <1>5, <1>6 DEF TypeOK, open, libVars, stateVars

(* The file a message names, and its device                                *)
LEMMA FileOfMessage ==
    ASSUME IInv, NEW m \in Packet, m.op \in {"close", "read", "stream"}, HasFile(m)
    PROVE  /\ m.from \in Client /\ m.fd \in DOMAIN files[m.from] /\ m.fd \in Int
           /\ Opened(m).device \in DOMAIN devices /\ Opened(m).device \in Int
           /\ devices[Opened(m).device].pid \in Driver
<1>1. TypeOK /\ m.from \in Client /\ m.fd \in Int /\ m.fd \in DOMAIN files[m.from]
  BY ClientPacket DEF IInv, HasFile
<1>2. Opened(m).device \in DOMAIN devices
  BY <1>1 DEF IInv, HookedFiles, Opened
<1> QED BY <1>1, <1>2, DeviceType

LEMMA CloseTypes == ASSUME IInv, close PROVE TypeOK'
<1> DEFINE m == Head(messages)
           i == Opened(m).device
<1>1. TypeOK /\ messages # <<>> /\ m.op = "close" /\ messages' = Tail(messages) /\ HasFile(m)
  BY DEF IInv, close, Receives
<1>2. m \in Packet /\ Tail(messages) \in Seq(Packet)
  BY <1>1, FirstMessage
<1>3. /\ m.from \in Client /\ m.fd \in Int /\ i \in DOMAIN devices /\ i \in Int
      /\ devices[i].pid \in Driver
  BY <1>1, <1>2, FileOfMessage
<1>4. /\ events' = Told(devices[i].pid, Notice("close", i, {}, m))
      /\ last_fd' = [last_fd EXCEPT ![m.from] = m.fd]
      /\ devices' = Unhooked(devices, i, m.from, m.fd)
      /\ files' = [files EXCEPT ![m.from] = Without(@, m.fd)]
      /\ send_resp(m, "OK", 0)
  BY DEF close
<1>5. replies' \in [Process -> Seq(Reply)]
  BY <1>1, <1>2, <1>4, RespType DEF send_resp, Status
<1>6. events' \in [Driver -> Seq(Event)]
  <2>1. Notice("close", i, {}, m) \in Event
    BY <1>2, <1>3, NoticeType
  <2> QED BY <1>1, <1>3, <1>4, <2>1, ToldType
<1>7. devices' \in Partial(Nat, Device)
  <2>1. devices \in Partial(Nat, Device)
    BY <1>1 DEF TypeOK
  <2> QED BY <1>3, <1>4, <2>1, UnhookedKeeps
<1>8. files' \in [Client -> Partial(Int, File)] /\ last_fd' \in [Client -> Int]
  <2>1. Without(files[m.from], m.fd) \in Partial(Int, File)
    BY <1>1, <1>3, FileType, WithoutPartial
  <2> QED BY <1>1, <1>3, <1>4, <2>1 DEF TypeOK
<1> QED
  BY <1>1, <1>2, <1>5, <1>6, <1>7, <1>8 DEF TypeOK, close, libVars, stateVars

LEMMA DispatchTypes == ASSUME IInv, dispatch_request PROVE TypeOK'
<1> DEFINE m == Head(messages)
           i == Opened(m).device
           d == devices[i].pid
<1>1. TypeOK /\ messages # <<>> /\ m.op = "read" /\ messages' = Tail(messages) /\ HasFile(m)
  BY DEF IInv, dispatch_request, Receives
<1>2. m \in Packet /\ Tail(messages) \in Seq(Packet)
  BY <1>1, FirstMessage
<1>3. m.from \in Client /\ m.fd \in Int /\ i \in Int /\ d \in Driver
  BY <1>1, <1>2, FileOfMessage
<1> DEFINE Typed == /\ replies' \in [Process -> Seq(Reply)] /\ events' \in [Driver -> Seq(Event)]
                    /\ state_table' \in [Slot -> Entry \cup {Unused}] /\ request_id' \in Slot
<1>4. Typed
  <2>1. CASE send_resp(m, "BAD_FLAGS", m.fd) /\ UNCHANGED <<events, stateVars>>
    <3>1. replies' \in [Process -> Seq(Reply)]
      BY <1>1, <1>2, <1>3, <2>1, RespType DEF send_resp, Status
    <3> QED BY <1>1, <2>1, <3>1 DEF TypeOK, stateVars
  <2>2. ASSUME NEW s \in Slot, request_id' = (s + 1) % INITIAL_STATES,
               send_resp(m, SendFailed(m), i), UNCHANGED <<events, state_table>>
        PROVE  Typed
    <3>1. replies' \in [Process -> Seq(Reply)]
      BY <1>1, <1>2, <1>3, <2>2, RespType DEF send_resp, Status, SendFailed
    <3>2. request_id' \in Slot
      BY <2>2, SlotAssumption DEF Slot
    <3> QED BY <1>1, <2>2, <3>1, <3>2 DEF TypeOK
  <2>3. ASSUME NEW s \in Slot, request_id' = (s + 1) % INITIAL_STATES,
               state_table' = [state_table EXCEPT ![s] = [pid |-> m.from, dest |-> d]],
               events' = Told(d, [op |-> "read", fd |-> i, req |-> s, flags |-> m.flags, for |-> m.for]),
               UNCHANGED replies
        PROVE  Typed
    <3>1. request_id' \in Slot
      BY <2>3, SlotAssumption DEF Slot
    <3>2. [op |-> "read", fd |-> i, req |-> s, flags |-> m.flags, for |-> m.for] \in Event
      BY <1>1, <1>2, <1>3, ClientPacket DEF Event, Events
    <3>3. events' \in [Driver -> Seq(Event)]
      BY <1>1, <1>3, <2>3, <3>2, ToldType
    <3>4. [pid |-> m.from, dest |-> d] \in Entry
      BY <1>3 DEF Entry
    <3>5. state_table' \in [Slot -> Entry \cup {Unused}]
      BY <1>1, <2>3, <3>4 DEF TypeOK
    <3> QED BY <1>1, <2>3, <3>1, <3>3, <3>5 DEF TypeOK
  <2>4. \/ send_resp(m, "BAD_FLAGS", m.fd) /\ UNCHANGED <<events, stateVars>>
        \/ \E s \in Slot :
              /\ request_id' = (s + 1) % INITIAL_STATES
              /\ \/ send_resp(m, SendFailed(m), i) /\ UNCHANGED <<events, state_table>>
                 \/ /\ state_table' = [state_table EXCEPT ![s] = [pid |-> m.from, dest |-> d]]
                    /\ events' = Told(d, [op |-> "read", fd |-> i, req |-> s, flags |-> m.flags, for |-> m.for])
                    /\ UNCHANGED replies
    BY DEF dispatch_request
  <2> HIDE DEF Typed
  <2> QED BY <2>1, <2>2, <2>3, <2>4
<1> QED
  BY <1>1, <1>2, <1>4 DEF TypeOK, dispatch_request, libVars, tableVars

LEMMA PassOnTypes ==
    ASSUME TypeOK, NEW s, NEW d, NEW for \in Tag, NEW status \in Status, PassOn(s, d, for, status)
    PROVE  replies' \in [Process -> Seq(Reply)] /\ state_table' \in [Slot -> Entry \cup {Unused}]
<1>1. CASE UNCHANGED <<state_table, replies>>
  BY <1>1 DEF TypeOK
<1>2. CASE /\ s \in Slot /\ state_table' = Removed(s)
           /\ replies' = Answered(replies, state_table[s].pid, [for |-> for, status |-> status, fd |-> -1])
  <2>1. [for |-> for, status |-> status, fd |-> -1] \in Reply
    BY DEF Reply
  <2>2. replies' \in [Process -> Seq(Reply)]
    BY <1>2, <2>1, AnsweredType DEF TypeOK
  <2>3. state_table' \in [Slot -> Entry \cup {Unused}]
    BY <1>2 DEF TypeOK, Removed
  <2> QED BY <2>2, <2>3
<1> QED BY <1>1, <1>2 DEF PassOn

LEMMA ResponseTypes == ASSUME IInv, process_response PROVE TypeOK'
<1> DEFINE m == Head(messages)
<1>1. TypeOK /\ messages # <<>> /\ m.op = "response" /\ messages' = Tail(messages)
  BY DEF IInv, process_response, Receives
<1>2. m \in Packet /\ Tail(messages) \in Seq(Packet)
  BY <1>1, FirstMessage
<1>3. m.for \in Tag /\ "OK" \in Status
  BY <1>1, <1>2, DriverPacket DEF Status
<1>4. PassOn(m.req, m.from, m.for, "OK")
  BY DEF process_response
<1>5. replies' \in [Process -> Seq(Reply)] /\ state_table' \in [Slot -> Entry \cup {Unused}]
  BY <1>1, <1>3, <1>4, PassOnTypes
<1> QED
  BY <1>1, <1>2, <1>5 DEF TypeOK, process_response, libVars, tableVars

LEMMA ResponsePulseTypes == ASSUME IInv, process_response_pulse PROVE TypeOK'
<1> DEFINE u == Head(pulses)
<1>1. TypeOK /\ pulses # <<>> /\ pulses' = Tail(pulses)
  BY DEF IInv, process_response_pulse
<1>2. u \in Pulse /\ Tail(pulses) \in Seq(Pulse)
  BY <1>1, TailKeeps DEF TypeOK
<1>3. u.for \in Tag /\ u.status \in Status
  BY <1>2 DEF Pulse
<1>4. PICK s : PassOn(s, u.from, u.for, u.status)
  BY DEF process_response_pulse
<1>5. replies' \in [Process -> Seq(Reply)] /\ state_table' \in [Slot -> Entry \cup {Unused}]
  BY <1>1, <1>3, <1>4, PassOnTypes
<1> QED
  BY <1>1, <1>2, <1>5 DEF TypeOK, process_response_pulse, libVars, tableVars

LEMMA FirstOfProcess ==
    ASSUME NEW s \in Seq(Client \X Int), NEW c, {k \in DOMAIN s : s[k][1] = c} # {}
    PROVE  LET K == {k \in DOMAIN s : s[k][1] = c}
           IN  (CHOOSE k \in K : \A j \in K : k <= j) \in DOMAIN s
<1> DEFINE K == {k \in DOMAIN s : s[k][1] = c}
<1>1. K \subseteq Nat /\ K # {}
  OBVIOUS
<1>2. \E k \in K : \A j \in K : k <= j
  BY <1>1, LeastElement
<1> QED BY <1>2

LEMMA StreamTypes == ASSUME IInv, stream PROVE TypeOK'
<1> DEFINE m == Head(messages)
           i == Opened(m).device
           c == m.from
           on == m.flags # {}
           first == CHOOSE k \in StreamOf(i, c) : \A j \in StreamOf(i, c) : k <= j
           now == IF on THEN Append(devices[i].streams, <<c, m.fd>>)
                  ELSE RemoveAt(devices[i].streams, first)
<1>1. TypeOK /\ messages # <<>> /\ m.op = "stream" /\ messages' = Tail(messages) /\ HasFile(m)
  BY DEF IInv, stream, Receives
<1>2. m \in Packet /\ Tail(messages) \in Seq(Packet)
  BY <1>1, FirstMessage
<1>3. /\ c \in Client /\ m.fd \in Int /\ i \in DOMAIN devices /\ i \in Int
      /\ devices[i].pid \in Driver /\ m.flags \in SUBSET Flag
  BY <1>1, <1>2, FileOfMessage, ClientPacket
<1>4. devices \in Partial(Nat, Device) /\ devices[i].streams \in Seq(Client \X Int)
  BY <1>1, <1>3, DeviceType DEF TypeOK
<1>5. replies' \in [Process -> Seq(Reply)]
  <2>1. \E status \in Status : send_resp(m, status, m.fd)
    BY DEF stream, Status
  <2> QED BY <1>1, <1>2, <1>3, <2>1, RespType DEF send_resp
<1>6. devices' \in Partial(Nat, Device) /\ events' \in [Driver -> Seq(Event)]
  <2>1. CASE UNCHANGED <<events, devices>>
    BY <1>1, <2>1 DEF TypeOK
  <2>2. CASE /\ on \/ StreamOf(i, c) # {}
             /\ devices' = [devices EXCEPT ![i].streams = now]
             /\ events' = IF Note(on, Len(now))
                          THEN Told(devices[i].pid, Notice("stream", i, m.flags, m)) ELSE events
    <3>1. now \in Seq(Client \X Int)
      <4>1. CASE on
        BY <1>3, <1>4, <4>1
      <4>2. CASE ~on
        <5>1. first \in DOMAIN devices[i].streams
          BY <1>4, <2>2, <4>2, FirstOfProcess DEF StreamOf
        <5> HIDE DEF first
        <5> QED BY <1>4, <4>2, <5>1, RemoveAtKeeps
      <4> QED BY <4>1, <4>2
    <3>2. devices' = WithStreams(devices, i, now)
      BY <2>2 DEF WithStreams
    <3>3. Notice("stream", i, m.flags, m) \in Event
      BY <1>2, <1>3, NoticeType
    <3>4. events' \in [Driver -> Seq(Event)]
      BY <1>1, <1>3, <2>2, <3>3, ToldType DEF TypeOK
    <3> HIDE DEF now
    <3> QED BY <1>3, <1>4, <3>1, <3>2, <3>4, StreamsChanged
  <2> QED BY <2>1, <2>2 DEF stream
<1> QED
  BY <1>1, <1>2, <1>5, <1>6 DEF TypeOK, stream, libVars, stateVars

(* The drivers                                                             *)
LEMMA FirstEvent ==
    ASSUME TypeOK, NEW d \in Driver, TakesEvent(d)
    PROVE  /\ Current(d) \in Event /\ events[d] # <<>> /\ events[d] \in Seq(Event)
           /\ events' = [events EXCEPT ![d] = Tail(@)] /\ events' \in [Driver -> Seq(Event)]
<1>1. events \in [Driver -> Seq(Event)] /\ events[d] \in Seq(Event) /\ events[d] # <<>>
  BY DEF TypeOK, TakesEvent
<1>2. Current(d) \in Event /\ Tail(events[d]) \in Seq(Event)
  BY <1>1, TailKeeps DEF Current
<1> QED BY <1>1, <1>2 DEF TakesEvent

LEMMA AckType ==
    ASSUME TypeOK, NEW d \in Driver, NEW e \in Event, NEW status \in Status
    PROVE  /\ [from |-> d, req |-> e.req, for |-> e.for, status |-> status] \in Pulse
           /\ Append(pulses, [from |-> d, req |-> e.req, for |-> e.for, status |-> status]) \in Seq(Pulse)
<1>1. [from |-> d, req |-> e.req, for |-> e.for, status |-> status] \in Pulse
  BY DEF Event, Events, Pulse
<1> QED BY <1>1 DEF TypeOK

LEMMA DriverLoopTypes == ASSUME IInv, NEW d \in Driver, DriverLoop(d) PROVE TypeOK'
<1>1. TypeOK
  BY DEF IInv
<1>2. CASE UnknownDevice(d)
  <2>1. Current(d) \in Event /\ events' \in [Driver -> Seq(Event)]
    BY <1>1, <1>2, FirstEvent DEF UnknownDevice
  <2>2. pulses' \in Seq(Pulse)
    BY <1>1, <1>2, <2>1, AckType DEF UnknownDevice, Ack, Status
  <2>3. stray' \in BOOLEAN
    BY <1>2 DEF UnknownDevice
  <2>4. missed' \subseteq Int
    BY <1>1, <1>2, <2>1 DEF UnknownDevice, TypeOK, Event, Events
  <2> QED BY <1>1, <1>2, <2>1, <2>2, <2>3, <2>4 DEF TypeOK, UnknownDevice, libVars, tableVars, stateVars
<1>3. CASE devfs_loopStream(d)
  <2>1. Current(d) \in Event /\ events' \in [Driver -> Seq(Event)] /\ Current(d).fd \in DOMAIN list[d]
    BY <1>1, <1>3, FirstEvent DEF devfs_loopStream, KnowsEvent
  <2>2. list[d] \in Partial(Int, BOOLEAN)
    BY <1>1 DEF TypeOK
  <2>3. list[d] \in [DOMAIN list[d] -> BOOLEAN] /\ DOMAIN list[d] \subseteq Int
    BY <2>2, PartialFunctions
  <2>4. [list[d] EXCEPT ![Current(d).fd] = (Current(d).flags # {})] \in [DOMAIN list[d] -> BOOLEAN]
    BY <2>3, ExceptType
  <2>5. [list[d] EXCEPT ![Current(d).fd] = (Current(d).flags # {})] \in Partial(Int, BOOLEAN)
    <3> DEFINE l == [list[d] EXCEPT ![Current(d).fd] = (Current(d).flags # {})]
    <3> HIDE DEF l
    <3>1. l \in [DOMAIN list[d] -> BOOLEAN]
      BY <2>4 DEF l
    <3>2. l \in Partial(Int, BOOLEAN)
      BY <2>3, <3>1, PartialFunctions
    <3> QED BY <3>2 DEF l
  <2>6. list' = [list EXCEPT ![d] = [list[d] EXCEPT ![Current(d).fd] = (Current(d).flags # {})]]
    BY <1>3 DEF devfs_loopStream
  <2>7. list' \in [Driver -> Partial(Int, BOOLEAN)]
    BY <1>1, <2>5, <2>6, ExceptType DEF TypeOK
  <2> QED BY <1>1, <1>3, <2>1, <2>7 DEF TypeOK, devfs_loopStream, tableVars, stateVars
<1>4. CASE OpenOrClose(d)
  <2>1. events' \in [Driver -> Seq(Event)]
    BY <1>1, <1>4, FirstEvent DEF OpenOrClose, KnowsEvent
  <2> QED BY <1>1, <1>4, <2>1 DEF TypeOK, OpenOrClose, libVars, tableVars, stateVars
<1>6. CASE HookMissing(d)
  <2>1. Current(d) \in Event /\ events' \in [Driver -> Seq(Event)]
    BY <1>1, <1>6, FirstEvent DEF HookMissing, KnowsEvent
  <2>2. pulses' \in Seq(Pulse)
    BY <1>1, <1>6, <2>1, AckType DEF HookMissing, Ack, Status
  <2>3. stray' \in BOOLEAN
    BY <1>6 DEF HookMissing
  <2> QED BY <1>1, <1>6, <2>1, <2>2, <2>3 DEF TypeOK, HookMissing, libVars, tableVars, stateVars
<1>5. CASE devfs_loopRead(d)
  <2>1. Current(d) \in Event /\ events' \in [Driver -> Seq(Event)]
    BY <1>1, <1>5, FirstEvent DEF devfs_loopRead, KnowsEvent
  <2>2. Message(d, "response", "", -1, {}, Current(d).req, Current(d).for) \in Packet
    BY <2>1 DEF Message, Packet, Packets, Event, Events
  <2>3. messages' \in Seq(Packet) /\ pulses' \in Seq(Pulse)
    <3>1. CASE /\ messages' = Append(messages, Message(d, "response", "", -1, {}, Current(d).req, Current(d).for))
               /\ UNCHANGED pulses
      BY <1>1, <2>2, <3>1, AppendKeeps DEF TypeOK
    <3>2. CASE Ack(d, Current(d), "ERROR") /\ UNCHANGED messages
      <4>1. pulses' \in Seq(Pulse)
        BY <1>1, <2>1, <3>2, AckType DEF Ack, Status
      <4> QED BY <1>1, <3>2, <4>1 DEF TypeOK
    <3> QED BY <1>5, <3>1, <3>2 DEF devfs_loopRead
  <2> QED BY <1>1, <1>5, <2>1, <2>3 DEF TypeOK, devfs_loopRead, libVars, tableVars, stateVars
<1> QED BY <1>2, <1>3, <1>4, <1>5, <1>6 DEF DriverLoop

(* The callers                                                             *)
LEMMA SendTypes ==
    ASSUME TypeOK, NEW p \in Process, NEW op, NEW name, NEW fd \in Int, NEW flags \in SUBSET Flag,
           \/ p \in Client /\ op \in {"open", "close", "read", "stream"}
           \/ p \in Driver /\ op \in {"register", "deregister"},
           name \in Name \cup {""},
           Send(p, op, name, fd, flags)
    PROVE  /\ call' \in [Process -> Call \cup {Idle}] /\ timer' \in [Process -> BOOLEAN]
           /\ calls' \in [Process -> Nat] /\ messages' \in Seq(Packet)
<1> DEFINE r == [op |-> op, fd |-> fd, on |-> flags # {}]
           m == Message(p, op, name, fd, flags, Garbage, <<p, calls[p] + 1>>)
<1>0. calls \in [Process -> Nat] /\ call \in [Process -> Call \cup {Idle}] /\ messages \in Seq(Packet)
  BY DEF TypeOK
<1>1. calls[p] + 1 \in Nat /\ <<p, calls[p] + 1>> \in Tag
  <2>1. calls \in [Process -> Nat] /\ p \in Process
    BY <1>0
  <2>2. calls[p] \in Nat
    BY ONLY <2>1
  <2>3. calls[p] + 1 \in Nat
    BY ONLY <2>2
  <2> QED BY <2>3 DEF Tag
<1>2. r \in Call
  <2>1. op \in {"register", "deregister", "open", "close", "read", "stream"}
    OBVIOUS
  <2>2. (flags # {}) \in BOOLEAN
    OBVIOUS
  <2> QED BY <2>1, <2>2, Zenon DEF Call
<1>3. m \in Packet
  BY <1>1 DEF Message, Packet, Packets
<1>4. messages' = Append(messages, m) /\ call' = [call EXCEPT ![p] = r]
  BY DEF Send
<1> HIDE DEF r, m
<1>5. messages' \in Seq(Packet) /\ call' \in [Process -> Call \cup {Idle}]
  BY <1>0, <1>2, <1>3, <1>4, AppendKeeps, ExceptType
<1>6. calls' \in [Process -> Nat]
  BY <1>0, <1>1 DEF Send
<1>7. timer' \in [Process -> BOOLEAN]
  <2>1. timer' = [timer EXCEPT ![p] = TRUE] /\ timer \in [Process -> BOOLEAN] /\ TRUE \in BOOLEAN
    BY DEF TypeOK, Send
  <2> QED BY <2>1, ExceptType
<1> QED BY <1>5, <1>6, <1>7

LEMMA SentTypes ==
    ASSUME TypeOK, NEW p \in Process, NEW op, NEW name, NEW fd \in Int, NEW flags \in SUBSET Flag,
           \/ p \in Client /\ op \in {"open", "close", "read", "stream"}
           \/ p \in Driver /\ op \in {"register", "deregister"},
           name \in Name \cup {""},
           Send(p, op, name, fd, flags), Sent, listening' \in [Client -> SUBSET Int]
    PROVE  TypeOK'
  BY SendTypes DEF TypeOK, Sent, tableVars, stateVars

LEMMA DriverCallTypes ==
    ASSUME IInv, NEW d \in Driver, devfs_register(d) \/ devfs_deregister(d) PROVE TypeOK'
<1>1. TypeOK /\ d \in Process /\ {} \in SUBSET Flag /\ -1 \in Int
  BY DEF IInv, Process
<1>2. Sent /\ listening' \in [Client -> SUBSET Int]
  BY <1>1 DEF devfs_register, devfs_deregister, TypeOK
<1>3. CASE devfs_register(d)
  <2>1. PICK n \in Name, f \in DeviceFlags : Send(d, "register", n, -1, f)
    BY <1>3 DEF devfs_register
  <2>2. f \in SUBSET Flag
    BY DEF Flag
  <2> QED BY <1>1, <1>2, <2>1, <2>2, SentTypes
<1>4. CASE devfs_deregister(d)
  <2>1. PICK i \in DOMAIN list[d] : Send(d, "deregister", "", i, {})
    BY <1>4 DEF devfs_deregister
  <2>2. list[d] \in Partial(Int, BOOLEAN)
    BY <1>1 DEF TypeOK
  <2>3. i \in Int
    BY <2>2, PartialFunctions
  <2> QED BY <1>1, <1>2, <2>1, <2>3, SentTypes
<1> QED BY <1>3, <1>4

LEMMA ClientCallTypes == ASSUME IInv, NEW c \in Client, ClientCall(c) PROVE TypeOK'
<1>1. TypeOK /\ c \in Process /\ {} \in SUBSET Flag /\ -1 \in Int /\ known[c] \subseteq Int
  BY DEF IInv, Process, TypeOK
<1>2. CASE devfs_open(c)
  <2>1. PICK n \in Name, f \in FileFlags : Send(c, "open", n, -1, f)
    BY <1>2 DEF devfs_open
  <2>2. f \in SUBSET Flag
    BY DEF Flag
  <2>3. Sent /\ listening' \in [Client -> SUBSET Int]
    BY <1>1, <1>2 DEF devfs_open, TypeOK
  <2> QED BY <1>1, <2>1, <2>2, <2>3, SentTypes
<1>3. CASE devfs_close(c)
  <2>1. PICK fd \in known[c] : Send(c, "close", "", fd, {})
    BY <1>3 DEF devfs_close
  <2>2. Sent /\ listening' \in [Client -> SUBSET Int] /\ fd \in Int
    BY <1>1, <1>3 DEF devfs_close, TypeOK
  <2> QED BY <1>1, <2>1, <2>2, SentTypes
<1>4. CASE devfs_read(c)
  <2>1. PICK fd \in known[c] : Send(c, "read", "", fd, {})
    BY <1>4 DEF devfs_read
  <2>2. Sent /\ listening' \in [Client -> SUBSET Int] /\ fd \in Int
    BY <1>1, <1>4 DEF devfs_read, TypeOK
  <2> QED BY <1>1, <2>1, <2>2, SentTypes
<1>5. CASE devfs_set_streaming(c)
  <2>1. PICK fd \in known[c] : /\ Send(c, "stream", "", fd, IF fd \in listening[c] THEN {} ELSE {"on"})
                               /\ listening' = [listening EXCEPT ![c] = @ \cup {fd}]
    BY <1>5 DEF devfs_set_streaming
  <2>2. PICK f \in SUBSET Flag : Send(c, "stream", "", fd, f)
    BY <2>1 DEF Flag
  <2>3. Sent /\ fd \in Int
    BY <1>1, <1>5 DEF devfs_set_streaming
  <2>4. listening' \in [Client -> SUBSET Int]
    BY <1>1, <2>1, <2>3 DEF TypeOK
  <2> QED BY <1>1, <2>2, <2>3, <2>4, SentTypes
<1> QED BY <1>2, <1>3, <1>4, <1>5 DEF ClientCall

LEMMA DelistedType ==
    ASSUME TypeOK, NEW p, NEW status PROVE Delisted(p, status) \in [Client -> SUBSET Int]
<1>1. listening \in [Client -> SUBSET Int]
  BY DEF TypeOK
<1>2. p \in Client => listening[p] \ {call[p].fd} \in SUBSET Int
  BY <1>1
<1>3. [listening EXCEPT ![p] = listening[p] \ {call[p].fd}] \in [Client -> SUBSET Int]
  BY <1>1, <1>2, ExceptType
<1> QED BY <1>1, <1>3 DEF Delisted

LEMMA RelistedType ==
    ASSUME TypeOK, NEW p, NEW a \in Reply PROVE Relisted(p, a) \in [Driver -> Partial(Int, BOOLEAN)]
<1>1. list \in [Driver -> Partial(Int, BOOLEAN)] /\ a.fd \in Int
  BY DEF TypeOK, Reply
<1>2. p \in Driver => Insert(list[p], a.fd, FALSE) \in Partial(Int, BOOLEAN)
  <2>1. FALSE \in BOOLEAN
    OBVIOUS
  <2> QED BY <1>1, <2>1, InsertPartial
<1>3. p \in Driver => Without(list[p], call[p].fd) \in Partial(Int, BOOLEAN)
  <2> DEFINE k == call[p].fd
  <2> HIDE DEF k
  <2>1. ASSUME p \in Driver PROVE Without(list[p], k) \in Partial(Int, BOOLEAN)
    <3>1. list[p] \in Partial(Int, BOOLEAN)
      BY <1>1, <2>1
    <3> QED BY <3>1, WithoutPartial
  <2> QED BY <2>1 DEF k
<1>0. ASSUME NEW v, p \in Driver => v \in Partial(Int, BOOLEAN)
      PROVE  [list EXCEPT ![p] = v] \in [Driver -> Partial(Int, BOOLEAN)]
  BY <1>0, <1>1, ExceptType
<1>4. [list EXCEPT ![p] = Insert(list[p], a.fd, FALSE)] \in [Driver -> Partial(Int, BOOLEAN)]
  BY <1>0, <1>2
<1>5. [list EXCEPT ![p] = Without(list[p], call[p].fd)] \in [Driver -> Partial(Int, BOOLEAN)]
  BY <1>0, <1>3
<1> QED BY <1>1, <1>4, <1>5 DEF Relisted

(* The call of p is over                                                   *)
LEMMA CallEnds ==
    ASSUME TypeOK, NEW p
    PROVE  /\ [call EXCEPT ![p] = Idle] \in [Process -> Call \cup {Idle}]
           /\ [timer EXCEPT ![p] = FALSE] \in [Process -> BOOLEAN]
           /\ [replies EXCEPT ![p] = <<>>] \in [Process -> Seq(Reply)]
<1>1. /\ call \in [Process -> Call \cup {Idle}] /\ timer \in [Process -> BOOLEAN]
      /\ replies \in [Process -> Seq(Reply)] /\ FALSE \in BOOLEAN
  BY DEF TypeOK
<1>2. Idle \in Call \cup {Idle}
  OBVIOUS
<1>3. <<>> \in Seq(Reply)
  OBVIOUS
<1> QED BY <1>1, <1>2, <1>3, ExceptType

LEMMA ReturnTypes == ASSUME IInv, NEW p \in Process, Return(p) PROVE TypeOK'
<1> DEFINE a == Head(replies[p])
<1>1. TypeOK /\ replies[p] # <<>>
  BY DEF IInv, Return
<1>2. a \in Reply
  BY <1>1, TailKeeps DEF TypeOK
<1>3. a.fd \in Int
  BY <1>2 DEF Reply
<1>4. known' \in [Client -> SUBSET Int]
  <2>1. known \in [Client -> SUBSET Int]
    BY <1>1 DEF TypeOK
  <2>2. p \in Client => known[p] \cup {a.fd} \in SUBSET Int
    <3>1. p \in Client => known[p] \in SUBSET Int
      BY <2>1
    <3> HIDE DEF a
    <3> QED BY ONLY <1>3, <3>1
  <2>3. [known EXCEPT ![p] = known[p] \cup {a.fd}] \in [Client -> SUBSET Int]
    <3> DEFINE v == known[p] \cup {a.fd}
    <3>1. p \in Client => v \in SUBSET Int
      BY <2>2
    <3> HIDE DEF v
    <3>2. [known EXCEPT ![p] = v] \in [Client -> SUBSET Int]
      BY <2>1, <3>1, ExceptType
    <3> QED BY <3>2 DEF v
  <2> QED BY <2>1, <2>3 DEF Return
<1>5. listening' \in [Client -> SUBSET Int] /\ list' \in [Driver -> Partial(Int, BOOLEAN)]
  BY <1>1, <1>2, DelistedType, RelistedType DEF Return
<1>6. /\ call' \in [Process -> Call \cup {Idle}] /\ timer' \in [Process -> BOOLEAN]
      /\ replies' \in [Process -> Seq(Reply)]
  BY <1>1, CallEnds DEF Return
<1> QED BY <1>1, <1>4, <1>5, <1>6 DEF TypeOK, Return, tableVars, stateVars

LEMMA TimeOutTypes == ASSUME IInv, NEW p \in Process, TimeOut(p) PROVE TypeOK'
<1>1. TypeOK
  BY DEF IInv
<1>2. /\ call' \in [Process -> Call \cup {Idle}] /\ timer' \in [Process -> BOOLEAN]
      /\ listening' \in [Client -> SUBSET Int]
  BY <1>1, CallEnds, DelistedType DEF TimeOut
<1>3. late' \subseteq Process
  BY <1>1 DEF TimeOut, TypeOK
<1> QED BY <1>1, <1>2, <1>3 DEF TypeOK, TimeOut, tableVars, stateVars

LEMMA SleepOnTypes == ASSUME IInv, NEW p \in Process, SleepOn(p) PROVE TypeOK'
<1>1. TypeOK
  BY DEF IInv
<1>2. timer' \in [Process -> BOOLEAN]
  BY <1>1, CallEnds DEF SleepOn
<1> QED BY <1>1, <1>2 DEF TypeOK, SleepOn, tableVars, stateVars

LEMMA DieTypes == ASSUME IInv, NEW d \in Driver, Die(d) PROVE TypeOK'
<1>1. TypeOK
  BY DEF IInv
<1>2. /\ call' \in [Process -> Call \cup {Idle}] /\ timer' \in [Process -> BOOLEAN]
      /\ replies' \in [Process -> Seq(Reply)]
  BY <1>1, CallEnds DEF Die
<1>3. dead' \subseteq Driver
  BY <1>1 DEF Die, TypeOK
<1> QED BY <1>1, <1>2, <1>3 DEF TypeOK, Die, tableVars, stateVars

LEMMA TypesKept == IInv /\ [Next]_vars => TypeOK'
<1> SUFFICES ASSUME IInv, [Next]_vars PROVE TypeOK'
  OBVIOUS
<1>1. CASE UNCHANGED vars
  BY <1>1 DEF IInv, TypeOK, vars, libVars, tableVars, stateVars
<1>2. CASE Daemon
  BY <1>2, RegisterTypes, DeregisterTypes, OpenTypes, CloseTypes, NoFileTypes, DispatchTypes,
     ResponseTypes, ResponsePulseTypes, StreamTypes DEF Daemon
<1>3. ASSUME NEW d \in Driver, DriverLoop(d) \/ devfs_register(d) \/ devfs_deregister(d) \/ Die(d)
      PROVE  TypeOK'
  BY <1>3, DriverLoopTypes, DriverCallTypes, DieTypes
<1>4. ASSUME NEW c \in Client, ClientCall(c) PROVE TypeOK'
  BY <1>4, ClientCallTypes
<1>5. ASSUME NEW p \in Process, Return(p) \/ TimeOut(p) \/ SleepOn(p) PROVE TypeOK'
  BY <1>5, ReturnTypes, TimeOutTypes, SleepOnTypes
<1> QED BY <1>1, <1>2, <1>3, <1>4, <1>5 DEF Next

---------------------------------------------------------------------------
(* Files, their devices and the next descriptor                            *)
TableInv == FiniteFiles /\ FreshId /\ HookedFiles /\ NextDescriptorFree

LEMMA RegisterTables == ASSUME IInv, register_device PROVE TableInv'
<1> DEFINE m == Head(messages)
<1>1. /\ TypeOK /\ FiniteFiles /\ FreshId /\ HookedFiles /\ NextDescriptorFree
      /\ UNCHANGED <<files, last_fd>>
  BY DEF IInv, register_device
<1>2. devices \in Partial(Nat, Device) /\ devfs_deviceCount \in Nat /\ DOMAIN devices \subseteq Nat
  BY <1>1, PartialFunctions DEF TypeOK
<1>3. CASE UNCHANGED <<devices, devfs_deviceCount>>
  BY <1>1, <1>3 DEF TableInv, FiniteFiles, FreshId, HookedFiles, NextDescriptorFree
<1>4. ASSUME NEW new, devices' = Insert(devices, devfs_deviceCount, new),
             devfs_deviceCount' = devfs_deviceCount + 1
      PROVE  TableInv'
  <2>1. DOMAIN devices' = DOMAIN devices \cup {devfs_deviceCount}
    BY <1>4 DEF Insert
  <2>2. \A i \in DOMAIN devices : devices'[i] = devices[i]
    BY <1>1, <1>2, <1>4 DEF Insert, FreshId
  <2>3. FreshId'
    BY <1>1, <1>2, <1>4, <2>1 DEF FreshId
  <2>4. HookedFiles'
    BY <1>1, <2>1, <2>2 DEF HookedFiles
  <2> QED BY <1>1, <2>3, <2>4 DEF TableInv, FiniteFiles, NextDescriptorFree
<1>5. \/ UNCHANGED <<devices, devfs_deviceCount>>
      \/ \E new : devices' = Insert(devices, devfs_deviceCount, new) /\ devfs_deviceCount' = devfs_deviceCount + 1
  BY DEF register_device
<1> QED BY <1>3, <1>4, <1>5

LEMMA DeregisterTables == ASSUME IInv, deregister_device PROVE TableInv'
<1> DEFINE m == Head(messages)
<1>1. /\ TypeOK /\ FiniteFiles /\ FreshId /\ HookedFiles /\ NextDescriptorFree
      /\ UNCHANGED <<files, last_fd, devfs_deviceCount>>
  BY DEF IInv, deregister_device
<1>2. devices \in Partial(Nat, Device)
  BY <1>1 DEF TypeOK
<1>3. CASE devices' = devices
  BY <1>1, <1>3 DEF TableInv, FiniteFiles, FreshId, HookedFiles, NextDescriptorFree
<1>4. CASE devices' = Without(devices, m.fd) /\ MayRemove(m.fd, m.from) = "OK"
  <2>1. m.fd \in DOMAIN devices /\ devices[m.fd].hooks = <<>>
    BY <1>4 DEF MayRemove
  <2>2. DOMAIN devices' = DOMAIN devices \ {m.fd} /\ \A i \in DOMAIN devices' : devices'[i] = devices[i]
    BY <1>4 DEF Without
  <2>3. \A y : ~Contains(devices[m.fd].hooks, y)
    BY <2>1 DEF Contains
  <2>4. HookedFiles'
    BY <1>1, <2>2, <2>3 DEF HookedFiles
  <2>5. FreshId'
    BY <1>1, <2>2 DEF FreshId
  <2> QED BY <1>1, <2>4, <2>5 DEF TableInv, FiniteFiles, NextDescriptorFree
<1> QED BY <1>3, <1>4 DEF deregister_device

LEMMA OpenTables == ASSUME IInv, open PROVE TableInv'
<1> DEFINE m == Head(messages)
           c == m.from
           fd == last_fd[c]
<1>1. /\ TypeOK /\ FiniteFiles /\ FreshId /\ HookedFiles /\ NextDescriptorFree
      /\ messages # <<>> /\ m.op = "open" /\ UNCHANGED devfs_deviceCount
  BY DEF IInv, open, Receives
<1>2. c \in Client
  BY <1>1, FirstMessage, ClientPacket
<1>3. /\ fd \in Int /\ files[c] \in Partial(Int, File) /\ devices \in Partial(Nat, Device)
      /\ IsFiniteSet(DOMAIN files[c]) /\ fd \notin DOMAIN files[c]
  BY <1>1, <1>2 DEF TypeOK, FiniteFiles, NextDescriptorFree
<1>4. \/ UNCHANGED <<devices, files, last_fd>>
      \/ \E i \in Named(m.name) :
            \/ devices' = Hooked(i, c, fd) /\ UNCHANGED <<files, last_fd>>
            \/ devices' = Unhooked(Hooked(i, c, fd), i, c, fd) /\ UNCHANGED <<files, last_fd>>
            \/ /\ devices' = Hooked(i, c, fd)
               /\ files' = [files EXCEPT ![c] = Insert(@, fd, [device |-> i, flags |-> m.flags])]
               /\ last_fd' = [last_fd EXCEPT ![c] = NextFd(c, fd)]
  BY DEF open
<1>5. CASE UNCHANGED <<devices, files, last_fd>>
  BY <1>1, <1>5 DEF TableInv, FiniteFiles, FreshId, HookedFiles, NextDescriptorFree
<1>6. ASSUME NEW i \in Named(m.name), devices' = Hooked(i, c, fd), UNCHANGED <<files, last_fd>>
      PROVE  TableInv'
  <2>1. i \in DOMAIN devices
    BY DEF Named
  <2>2. /\ DOMAIN devices' = DOMAIN devices
        /\ \A j \in DOMAIN devices : \A y : Contains(devices[j].hooks, y) => Contains(devices'[j].hooks, y)
    BY <1>1, <1>2, <1>3, <1>6, <2>1, HookedKeeps
  <2>3. HookedFiles'
    BY <1>1, <1>6, <2>2 DEF HookedFiles
  <2> QED BY <1>1, <1>6, <2>2, <2>3 DEF TableInv, FiniteFiles, FreshId, NextDescriptorFree
<1>7. ASSUME NEW i \in Named(m.name), devices' = Unhooked(Hooked(i, c, fd), i, c, fd),
             UNCHANGED <<files, last_fd>>
      PROVE  TableInv'
  <2> DEFINE h == Hooked(i, c, fd)
  <2>1. i \in DOMAIN devices
    BY DEF Named
  <2>2. /\ h \in Partial(Nat, Device) /\ DOMAIN h = DOMAIN devices
        /\ \A j \in DOMAIN devices : \A y : Contains(devices[j].hooks, y) => Contains(h[j].hooks, y)
    BY <1>1, <1>2, <1>3, <2>1, HookedKeeps
  <2> HIDE DEF h
  <2>3. /\ DOMAIN devices' = DOMAIN h
        /\ \A j \in DOMAIN h : \A y : Contains(h[j].hooks, y) /\ y # <<c, fd>> => Contains(devices'[j].hooks, y)
    <3>1. devices' = Unhooked(h, i, c, fd) /\ i \in DOMAIN h
      BY <1>7, <2>1, <2>2 DEF h
    <3> HIDE DEF fd, c
    <3> QED BY <1>2, <1>3, <2>2, <3>1, UnhookedKeeps
  <2>4. ASSUME NEW b \in Client, NEW g \in DOMAIN files[b] PROVE <<b, g>> # <<c, fd>>
    BY <1>3
  <2>5. HookedFiles'
    <3> SUFFICES ASSUME NEW b \in Client, NEW g \in DOMAIN files[b]
                 PROVE  /\ files[b][g].device \in DOMAIN devices'
                        /\ Contains(devices'[files[b][g].device].hooks, <<b, g>>)
      BY <1>7 DEF HookedFiles
    <3>1. /\ files[b][g].device \in DOMAIN devices
          /\ Contains(devices[files[b][g].device].hooks, <<b, g>>)
      BY <1>1 DEF HookedFiles
    <3> QED BY <2>2, <2>3, <2>4, <3>1
  <2> QED BY <1>1, <1>7, <2>2, <2>3, <2>5 DEF TableInv, FiniteFiles, FreshId, NextDescriptorFree
<1>8. ASSUME NEW i \in Named(m.name), devices' = Hooked(i, c, fd),
             files' = [files EXCEPT ![c] = Insert(@, fd, [device |-> i, flags |-> m.flags])],
             last_fd' = [last_fd EXCEPT ![c] = NextFd(c, fd)]
      PROVE  TableInv'
  <2> DEFINE new == [device |-> i, flags |-> m.flags]
  <2>1. i \in DOMAIN devices
    BY DEF Named
  <2>2. /\ DOMAIN devices' = DOMAIN devices /\ Contains(devices'[i].hooks, <<c, fd>>)
        /\ \A j \in DOMAIN devices : \A y : Contains(devices[j].hooks, y) => Contains(devices'[j].hooks, y)
    BY <1>1, <1>2, <1>3, <1>8, <2>1, HookedKeeps
  <2>3. new.device = i
    OBVIOUS
  <2>4. files' = [files EXCEPT ![c] = Insert(files[c], fd, new)]
    BY <1>8
  <2> HIDE DEF new
  <2>5. /\ DOMAIN files'[c] = DOMAIN files[c] \cup {fd} /\ files'[c][fd] = new
        /\ \A g \in DOMAIN files[c] : files'[c][g] = files[c][g]
        /\ \A b \in Client : b # c => files'[b] = files[b]
    <3>1. files \in [Client -> Partial(Int, File)]
      BY <1>1 DEF TypeOK
    <3>2. files'[c] = Insert(files[c], fd, new) /\ \A b \in Client : b # c => files'[b] = files[b]
      BY <1>2, <2>4, <3>1
    <3> QED BY <1>3, <3>2 DEF Insert
  <2>6. FiniteFiles'
    <3>1. IsFiniteSet(DOMAIN files[c] \cup {fd})
      BY <1>3, FS_AddElement
    <3> QED BY <1>1, <2>5, <3>1 DEF FiniteFiles
  <2>7. HookedFiles'
    <3> SUFFICES ASSUME NEW b \in Client, NEW g \in DOMAIN files'[b]
                 PROVE  /\ files'[b][g].device \in DOMAIN devices'
                        /\ Contains(devices'[files'[b][g].device].hooks, <<b, g>>)
      BY DEF HookedFiles
    <3>1. CASE b = c /\ g = fd
      BY <2>1, <2>2, <2>3, <2>5, <3>1
    <3>2. CASE ~(b = c /\ g = fd)
      <4>1. g \in DOMAIN files[b] /\ files'[b][g] = files[b][g]
        BY <2>5, <3>2
      <4>2. /\ files[b][g].device \in DOMAIN devices
            /\ Contains(devices[files[b][g].device].hooks, <<b, g>>)
        BY <1>1, <4>1 DEF HookedFiles
      <4> QED BY <2>2, <4>1, <4>2
    <3> QED BY <3>1, <3>2
  <2>8. NextDescriptorFree'
    <3>1. NextFd(c, fd) \in Int /\ NextFd(c, fd) > fd /\ NextFd(c, fd) \notin DOMAIN files[c]
      BY <1>3, NextFdFree
    <3>2. NextFd(c, fd) \notin DOMAIN files'[c]
      BY <1>3, <2>5, <3>1
    <3>3. last_fd \in [Client -> Int]
      BY <1>1 DEF TypeOK
    <3>4. \A b \in Client : last_fd'[b] = IF b = c THEN NextFd(c, fd) ELSE last_fd[b]
      BY <1>8, <3>3
    <3> QED BY <1>1, <2>5, <3>2, <3>4 DEF NextDescriptorFree
  <2> QED BY <1>1, <2>2, <2>6, <2>7, <2>8 DEF TableInv, FreshId
<1> QED BY <1>4, <1>5, <1>6, <1>7, <1>8

LEMMA CloseTables == ASSUME IInv, close PROVE TableInv'
<1> DEFINE m == Head(messages)
           c == m.from
           fd == m.fd
           i == Opened(m).device
<1>1. /\ TypeOK /\ FiniteFiles /\ FreshId /\ HookedFiles /\ NextDescriptorFree
      /\ messages # <<>> /\ m.op = "close" /\ HasFile(m) /\ UNCHANGED devfs_deviceCount
  BY DEF IInv, close, Receives
<1>2. c \in Client /\ fd \in Int /\ i \in DOMAIN devices
  BY <1>1, FirstMessage, FileOfMessage
<1>3. /\ last_fd' = [last_fd EXCEPT ![c] = fd] /\ devices' = Unhooked(devices, i, c, fd)
      /\ files' = [files EXCEPT ![c] = Without(@, fd)]
  BY DEF close
<1>4. /\ DOMAIN devices' = DOMAIN devices
      /\ \A j \in DOMAIN devices : \A y :
             Contains(devices[j].hooks, y) /\ y # <<c, fd>> => Contains(devices'[j].hooks, y)
  <2>1. devices \in Partial(Nat, Device)
    BY <1>1 DEF TypeOK
  <2> QED BY <1>2, <1>3, <2>1, UnhookedKeeps
<1>5. /\ DOMAIN files'[c] = DOMAIN files[c] \ {fd}
      /\ \A g \in DOMAIN files'[c] : files'[c][g] = files[c][g]
      /\ \A b \in Client : b # c => files'[b] = files[b]
  <2>1. files \in [Client -> Partial(Int, File)]
    BY <1>1 DEF TypeOK
  <2>2. files'[c] = Without(files[c], fd) /\ \A b \in Client : b # c => files'[b] = files[b]
    BY <1>2, <1>3, <2>1
  <2> QED BY <2>2 DEF Without
<1>6. FiniteFiles'
  <2>1. IsFiniteSet(DOMAIN files[c] \ {fd})
    BY <1>1, <1>2, FS_Subset DEF FiniteFiles
  <2> QED BY <1>1, <1>5, <2>1 DEF FiniteFiles
<1>7. HookedFiles'
  <2> SUFFICES ASSUME NEW b \in Client, NEW g \in DOMAIN files'[b]
               PROVE  /\ files'[b][g].device \in DOMAIN devices'
                      /\ Contains(devices'[files'[b][g].device].hooks, <<b, g>>)
    BY DEF HookedFiles
  <2>1. g \in DOMAIN files[b] /\ files'[b][g] = files[b][g] /\ <<b, g>> # <<c, fd>>
    BY <1>5
  <2>2. /\ files[b][g].device \in DOMAIN devices
        /\ Contains(devices[files[b][g].device].hooks, <<b, g>>)
    BY <1>1, <2>1 DEF HookedFiles
  <2> QED BY <1>4, <2>1, <2>2
<1>8. NextDescriptorFree'
  <2>1. last_fd \in [Client -> Int]
    BY <1>1 DEF TypeOK
  <2>2. \A b \in Client : last_fd'[b] = IF b = c THEN fd ELSE last_fd[b]
    BY <1>3, <2>1
  <2> QED BY <1>1, <1>5, <2>2 DEF NextDescriptorFree
<1> QED BY <1>1, <1>4, <1>6, <1>7, <1>8 DEF TableInv, FreshId

LEMMA StreamTables == ASSUME IInv, stream PROVE TableInv'
<1> DEFINE m == Head(messages)
           i == Opened(m).device
<1>1. /\ TypeOK /\ FiniteFiles /\ FreshId /\ HookedFiles /\ NextDescriptorFree
      /\ UNCHANGED <<files, last_fd, devfs_deviceCount>>
  BY DEF IInv, stream
<1>2. UNCHANGED devices \/ \E now : devices' = [devices EXCEPT ![i].streams = now]
  BY DEF stream
<1>3. DOMAIN devices' = DOMAIN devices /\ \A j \in DOMAIN devices : devices'[j].hooks = devices[j].hooks
  <2>1. devices \in Partial(Nat, Device)
    BY <1>1 DEF TypeOK
  <2>2. devices \in [DOMAIN devices -> Device]
    BY <2>1, PartialFunctions
  <2>3. CASE UNCHANGED devices
    BY <2>3
  <2>4. ASSUME NEW now, devices' = [devices EXCEPT ![i].streams = now]
        PROVE  DOMAIN devices' = DOMAIN devices /\ \A j \in DOMAIN devices : devices'[j].hooks = devices[j].hooks
    <3> HIDE DEF i
    <3>1. \A r \in Device : [r EXCEPT !.streams = now].hooks = r.hooks
      BY DEF Device
    <3> QED BY <2>2, <2>4, <3>1
  <2> QED BY <1>2, <2>3, <2>4
<1>4. HookedFiles'
  BY <1>1, <1>3 DEF HookedFiles
<1> QED BY <1>1, <1>3, <1>4 DEF TableInv, FiniteFiles, FreshId, NextDescriptorFree

LEMMA TablesKept == IInv /\ [Next]_vars => TableInv'
<1> SUFFICES ASSUME IInv, [Next]_vars PROVE TableInv'
  OBVIOUS
<1>1. CASE UNCHANGED tableVars
  BY <1>1 DEF IInv, TableInv, FiniteFiles, FreshId, HookedFiles, NextDescriptorFree, tableVars
<1>2. CASE Daemon
  <2>1. CASE NoFile \/ dispatch_request \/ process_response \/ process_response_pulse
    BY <1>1, <2>1 DEF NoFile, dispatch_request, process_response, process_response_pulse
  <2> QED BY <1>2, <2>1, RegisterTables, DeregisterTables, OpenTables, CloseTables, StreamTables DEF Daemon
<1>3. ASSUME NEW d \in Driver, DriverLoop(d) \/ devfs_register(d) \/ devfs_deregister(d) \/ Die(d)
      PROVE  UNCHANGED tableVars
  BY <1>3 DEF DriverLoop, UnknownDevice, devfs_loopStream, OpenOrClose, HookMissing, devfs_loopRead,
              devfs_register, devfs_deregister, Die, Sent
<1>4. ASSUME NEW c \in Client, ClientCall(c) PROVE UNCHANGED tableVars
  BY <1>4 DEF ClientCall, devfs_open, devfs_close, devfs_read, devfs_set_streaming, Sent
<1>5. ASSUME NEW p \in Process, Return(p) \/ TimeOut(p) \/ SleepOn(p) PROVE UNCHANGED tableVars
  BY <1>5 DEF Return, TimeOut, SleepOn
<1>6. CASE UNCHANGED vars
  BY <1>1, <1>6 DEF vars
<1> QED BY <1>1, <1>2, <1>3, <1>4, <1>5, <1>6 DEF Next

---------------------------------------------------------------------------
(* Slots                                                                   *)
EventsGrow == \A d \in Driver : \A k \in DOMAIN events[d] :
                  k \in DOMAIN events'[d] /\ events'[d][k] = events[d][k]

LEMMA ToldGrows ==
    ASSUME TypeOK, NEW d \in Driver, NEW op \in {"open", "close", "stream"}, NEW i \in Int,
           NEW f \in SUBSET Flag, NEW m \in Packet, events' = Told(d, Notice(op, i, f, m))
    PROVE  EventsGrow
<1>1. Notice(op, i, f, m) \in Event
  BY NoticeType
<1> QED BY <1>1, ToldType DEF EventsGrow

LEMMA SlotType ==
    ASSUME TypeOK, NEW s \in Slot, state_table[s] # Unused PROVE state_table[s].dest \in Driver
<1>1. state_table[s] \in Entry
  BY DEF TypeOK
<1> QED BY <1>1 DEF Entry

LEMMA NoticeSlots ==
    ASSUME TypeOK, SlotsPending, messages # <<>>, messages' = Tail(messages),
           Head(messages).op # "response", UNCHANGED <<state_table, pulses>>, EventsGrow
    PROVE  SlotsPending'
<1> SUFFICES ASSUME NEW s \in Slot, state_table[s] # Unused PROVE Pending(s, state_table[s].dest)'
  BY DEF SlotsPending
<1> DEFINE d == state_table[s].dest
<1>1. d \in Driver /\ Pending(s, d) /\ messages \in Seq(Packet) /\ d' = d
  BY SlotType DEF SlotsPending, TypeOK
<1> HIDE DEF d
<1>2. \A k \in DOMAIN events[d] : k \in DOMAIN events'[d] /\ events'[d][k] = events[d][k]
  BY <1>1 DEF EventsGrow
<1>3. \A k \in DOMAIN messages : k # 1 => k - 1 \in DOMAIN messages' /\ messages'[k - 1] = messages[k]
  BY <1>1, TailKeeps
<1>4. Head(messages) = messages[1]
  BY <1>1, TailKeeps
<1>5. \/ \E k \in DOMAIN events'[d] : events'[d][k].req = s
      \/ \E k \in DOMAIN messages' :
             messages'[k].op = "response" /\ messages'[k].req = s /\ messages'[k].from = d
      \/ \E k \in DOMAIN pulses' : pulses'[k].req = s /\ pulses'[k].from = d
  BY <1>1, <1>2, <1>3, <1>4 DEF Pending
<1> QED BY <1>1, <1>5 DEF Pending, d

LEMMA TableSlots ==
    ASSUME IInv, register_device \/ deregister_device \/ open \/ close \/ NoFile \/ stream
    PROVE  SlotsPending'
<1> DEFINE m == Head(messages)
           i == Opened(m).device
<1>1. TypeOK /\ SlotsPending /\ FiniteFiles
  BY DEF IInv
<1>2. /\ messages # <<>> /\ messages' = Tail(messages) /\ UNCHANGED <<state_table, pulses>>
      /\ m.op \in {"register", "deregister", "open", "close", "read", "stream"}
  BY DEF register_device, deregister_device, open, close, NoFile, stream, Receives, stateVars
<1>3. m \in Packet
  BY <1>1, <1>2, FirstMessage
<1>4. EventsGrow
  <2>1. CASE UNCHANGED events
    BY <2>1 DEF EventsGrow
  <2>2. CASE register_device \/ deregister_device \/ NoFile
    BY <2>1, <2>2 DEF register_device, deregister_device, NoFile
  <2>3. CASE open
    <3>1. UNCHANGED events \/ \E j \in Named(m.name) : events' = Told(devices[j].pid, Notice("open", j, {}, m))
      BY <2>3 DEF open
    <3>2. ASSUME NEW j \in Named(m.name), events' = Told(devices[j].pid, Notice("open", j, {}, m))
          PROVE  EventsGrow
      <4>1. j \in DOMAIN devices
        BY DEF Named
      <4>2. j \in Int /\ devices[j].pid \in Driver /\ {} \in SUBSET Flag
        BY <1>1, <4>1, DeviceType
      <4> QED BY <1>1, <1>3, <3>2, <4>2, ToldGrows
    <3> QED BY <2>1, <3>1, <3>2
  <2>4. CASE close
    <3>1. m.op = "close" /\ HasFile(m) /\ events' = Told(devices[i].pid, Notice("close", i, {}, m))
      BY <2>4 DEF close, Receives
    <3>2. i \in Int /\ devices[i].pid \in Driver /\ {} \in SUBSET Flag
      BY <1>3, <3>1, FileOfMessage
    <3> QED BY <1>1, <1>3, <3>1, <3>2, ToldGrows
  <2>5. CASE stream
    <3>1. m.op = "stream" /\ HasFile(m)
      BY <2>5 DEF stream, Receives
    <3>2. UNCHANGED events \/ events' = Told(devices[i].pid, Notice("stream", i, m.flags, m))
      BY <2>5 DEF stream
    <3>3. i \in Int /\ devices[i].pid \in Driver /\ m.flags \in SUBSET Flag
      BY <1>3, <3>1, FileOfMessage, ClientPacket
    <3> QED BY <1>1, <1>3, <2>1, <3>2, <3>3, ToldGrows
  <2> QED BY <2>2, <2>3, <2>4, <2>5
<1> QED BY <1>1, <1>2, <1>4, NoticeSlots

LEMMA DispatchSlots == ASSUME IInv, dispatch_request PROVE SlotsPending'
<1> DEFINE m == Head(messages)
           i == Opened(m).device
           d == devices[i].pid
<1>1. /\ TypeOK /\ SlotsPending /\ messages # <<>> /\ m.op = "read" /\ messages' = Tail(messages)
      /\ HasFile(m) /\ UNCHANGED pulses
  BY DEF IInv, dispatch_request, Receives
<1>2. m \in Packet /\ messages \in Seq(Packet)
  BY <1>1, FirstMessage DEF TypeOK
<1>3. m.from \in Client /\ m.fd \in Int /\ i \in Int /\ d \in Driver
  BY <1>1, <1>2, FileOfMessage
<1>4. CASE UNCHANGED <<events, state_table>>
  <2>1. EventsGrow
    BY <1>4 DEF EventsGrow
  <2> QED BY <1>1, <1>4, <2>1, NoticeSlots
<1>5. ASSUME NEW s \in Slot, d \notin dead,
             state_table' = [state_table EXCEPT ![s] = [pid |-> m.from, dest |-> d]],
             events' = Told(d, [op |-> "read", fd |-> i, req |-> s, flags |-> m.flags, for |-> m.for])
      PROVE  SlotsPending'
  <2> DEFINE e == [op |-> "read", fd |-> i, req |-> s, flags |-> m.flags, for |-> m.for]
  <2>1. e \in Event /\ e.req = s
    BY <1>1, <1>2, <1>3, ClientPacket DEF Event, Events
  <2>2. events' = Told(d, e)
    BY <1>5
  <2> HIDE DEF e
  <2>3. EventsGrow
    BY <1>1, <1>3, <2>1, <2>2, ToldType DEF EventsGrow
  <2>4. Len(events[d]) + 1 \in DOMAIN events'[d] /\ events'[d][Len(events[d]) + 1] = e
    <3>1. events \in [Driver -> Seq(Event)] /\ events[d] \in Seq(Event)
      BY <1>1, <1>3 DEF TypeOK
    <3>2. events'[d] = Append(events[d], e)
      BY <1>3, <1>5, <2>2, <3>1 DEF Told
    <3> HIDE DEF d
    <3>3. Len(events[d]) + 1 \in DOMAIN Append(events[d], e) /\ Append(events[d], e)[Len(events[d]) + 1] = e
      BY <2>1, <3>1, AppendKeeps
    <3> QED BY <3>2, <3>3
  <2>5. state_table \in [Slot -> Entry \cup {Unused}]
    BY <1>1 DEF TypeOK
  <2>6. ASSUME NEW t \in Slot, state_table'[t] # Unused PROVE Pending(t, state_table[t].dest)'
    <3> DEFINE x == state_table'[t].dest
    <3>1. CASE t = s
      <4>1. x = d
        BY <1>5, <2>5, <3>1
      <4>2. \E k \in DOMAIN events'[x] : events'[x][k].req = t
        BY <2>1, <2>4, <3>1, <4>1
      <4> QED BY <4>2 DEF Pending
    <3>2. CASE t # s
      <4>1. state_table'[t] = state_table[t] /\ state_table[t] # Unused
        BY <1>5, <2>5, <2>6, <3>2
      <4>2. x = state_table[t].dest /\ x \in Driver
        BY <1>1, <4>1, SlotType
      <4>3. Pending(t, x)
        BY <1>1, <4>1, <4>2 DEF SlotsPending
      <4> HIDE DEF x
      <4>4. \A k \in DOMAIN events[x] : k \in DOMAIN events'[x] /\ events'[x][k] = events[x][k]
        BY <2>3, <4>2 DEF EventsGrow
      <4>5. \A k \in DOMAIN messages : k # 1 => k - 1 \in DOMAIN messages' /\ messages'[k - 1] = messages[k]
        BY <1>1, <1>2, TailKeeps
      <4>6. Head(messages) = messages[1]
        BY <1>1, <1>2, TailKeeps
      <4>7. \/ \E k \in DOMAIN events'[x] : events'[x][k].req = t
            \/ \E k \in DOMAIN messages' :
                   messages'[k].op = "response" /\ messages'[k].req = t /\ messages'[k].from = x
            \/ \E k \in DOMAIN pulses' : pulses'[k].req = t /\ pulses'[k].from = x
        BY <1>1, <4>3, <4>4, <4>5, <4>6 DEF Pending
      <4> QED BY <4>7 DEF Pending, x
    <3> QED BY <3>1, <3>2
  <2> QED BY <2>6 DEF SlotsPending
<1>6. \/ UNCHANGED <<events, state_table>>
      \/ \E s \in Slot :
            /\ d \notin dead
            /\ state_table' = [state_table EXCEPT ![s] = [pid |-> m.from, dest |-> d]]
            /\ events' = Told(d, [op |-> "read", fd |-> i, req |-> s, flags |-> m.flags, for |-> m.for])
  BY DEF dispatch_request, stateVars
<1> QED BY <1>4, <1>5, <1>6

(* An answer is passed on: its slot is unused from here on, and the answer  *)
(* counted for no other slot.                                              *)
LEMMA ResponseSlots == ASSUME IInv, process_response PROVE SlotsPending'
<1> DEFINE m == Head(messages)
<1>1. /\ TypeOK /\ SlotsPending /\ messages # <<>> /\ m.op = "response" /\ messages' = Tail(messages)
      /\ UNCHANGED <<events, pulses>> /\ PassOn(m.req, m.from, m.for, "OK")
  BY DEF IInv, process_response, Receives
<1>2. messages \in Seq(Packet) /\ state_table \in [Slot -> Entry \cup {Unused}]
  BY <1>1 DEF TypeOK
<1>3. \A k \in DOMAIN messages : k # 1 => k - 1 \in DOMAIN messages' /\ messages'[k - 1] = messages[k]
  BY <1>1, <1>2, TailKeeps
<1>4. m = messages[1]
  BY <1>1, <1>2, TailKeeps
<1>5. ASSUME NEW t \in Slot, state_table'[t] # Unused PROVE Pending(t, state_table[t].dest)'
  <2> DEFINE x == state_table'[t].dest
  <2>1. state_table'[t] = state_table[t] /\ state_table[t] # Unused /\ ~(m.req = t /\ m.from = state_table[t].dest)
    BY <1>1, <1>2, <1>5 DEF PassOn, Removed
  <2>2. x = state_table[t].dest /\ Pending(t, x) /\ ~(m.req = t /\ m.from = x)
    BY <1>1, <2>1 DEF SlotsPending
  <2> HIDE DEF x
  <2>3. \/ \E k \in DOMAIN events'[x] : events'[x][k].req = t
        \/ \E k \in DOMAIN messages' :
               messages'[k].op = "response" /\ messages'[k].req = t /\ messages'[k].from = x
        \/ \E k \in DOMAIN pulses' : pulses'[k].req = t /\ pulses'[k].from = x
    BY <1>1, <1>3, <1>4, <2>2 DEF Pending
  <2> QED BY <2>3 DEF Pending, x
<1> QED BY <1>5 DEF SlotsPending

LEMMA ResponsePulseSlots == ASSUME IInv, process_response_pulse PROVE SlotsPending'
<1> DEFINE u == Head(pulses)
<1>1. /\ TypeOK /\ SlotsPending /\ pulses # <<>> /\ pulses' = Tail(pulses) /\ UNCHANGED <<events, messages>>
  BY DEF IInv, process_response_pulse
<1>2. pulses \in Seq(Pulse) /\ state_table \in [Slot -> Entry \cup {Unused}]
  BY <1>1 DEF TypeOK
<1>3. \A k \in DOMAIN pulses : k # 1 => k - 1 \in DOMAIN pulses' /\ pulses'[k - 1] = pulses[k]
  BY <1>1, <1>2, TailKeeps
<1>4. u = pulses[1]
  BY <1>1, <1>2, TailKeeps
<1>5. PICK s : /\ u.req # Garbage => s = u.req
               /\ PassOn(s, u.from, u.for, u.status)
  BY DEF process_response_pulse
<1>6. ASSUME NEW t \in Slot, state_table'[t] # Unused PROVE Pending(t, state_table[t].dest)'
  <2> DEFINE x == state_table'[t].dest
  <2>1. state_table'[t] = state_table[t] /\ state_table[t] # Unused /\ ~(u.req = t /\ u.from = state_table[t].dest)
    <3>1. t # Garbage
      BY MarkerAssumption
    <3> QED BY <1>2, <1>5, <1>6, <3>1 DEF PassOn, Removed
  <2>2. x = state_table[t].dest /\ Pending(t, x) /\ ~(u.req = t /\ u.from = x)
    BY <1>1, <2>1 DEF SlotsPending
  <2> HIDE DEF x
  <2>3. \/ \E k \in DOMAIN events'[x] : events'[x][k].req = t
        \/ \E k \in DOMAIN messages' :
               messages'[k].op = "response" /\ messages'[k].req = t /\ messages'[k].from = x
        \/ \E k \in DOMAIN pulses' : pulses'[k].req = t /\ pulses'[k].from = x
    BY <1>1, <1>3, <1>4, <2>2 DEF Pending
  <2> QED BY <2>3 DEF Pending, x
<1> QED BY <1>6 DEF SlotsPending

(* A driver's event leaves the queue; a request comes back as an answer.    *)
LEMMA DriverLoopSlots == ASSUME IInv, NEW d \in Driver, DriverLoop(d) PROVE SlotsPending'
<1> DEFINE e == Current(d)
<1>1. /\ TypeOK /\ SlotsPending /\ TakesEvent(d) /\ UNCHANGED state_table
  BY DEF IInv, DriverLoop, UnknownDevice, devfs_loopStream, OpenOrClose, HookMissing, devfs_loopRead, KnowsEvent, stateVars
<1>2. /\ e \in Event /\ events[d] # <<>> /\ events[d] \in Seq(Event) /\ events' = [events EXCEPT ![d] = Tail(@)]
      /\ messages \in Seq(Packet) /\ pulses \in Seq(Pulse)
  BY <1>1, FirstEvent DEF TypeOK
<1> DEFINE Carried ==
      /\ \A k \in DOMAIN messages : k \in DOMAIN messages' /\ messages'[k] = messages[k]
      /\ \A k \in DOMAIN pulses : k \in DOMAIN pulses' /\ pulses'[k] = pulses[k]
      /\ e.req \in Slot =>
            \/ \E k \in DOMAIN messages' :
                   messages'[k].op = "response" /\ messages'[k].req = e.req /\ messages'[k].from = d
            \/ \E k \in DOMAIN pulses' : pulses'[k].req = e.req /\ pulses'[k].from = d
<1>3. Carried
  <2>1. ASSUME NEW status \in Status, Ack(d, e, status), UNCHANGED messages PROVE Carried
    <3> DEFINE u == [from |-> d, req |-> e.req, for |-> e.for, status |-> status]
    <3>1. u \in Pulse /\ pulses' = Append(pulses, u) /\ u.req = e.req /\ u.from = d
      BY <1>1, <1>2, <2>1, AckType DEF Ack
    <3> HIDE DEF u, e
    <3>2. /\ \A k \in DOMAIN pulses : k \in DOMAIN pulses' /\ pulses'[k] = pulses[k]
          /\ Len(pulses) + 1 \in DOMAIN pulses' /\ pulses'[Len(pulses) + 1] = u
      BY <1>2, <3>1, AppendKeeps
    <3> QED BY <2>1, <3>1, <3>2
  <2>2. CASE UnknownDevice(d)
    <3>1. Ack(d, e, "BAD_DEVICE") /\ UNCHANGED messages
      BY <2>2 DEF UnknownDevice
    <3>2. "BAD_DEVICE" \in Status
      BY DEF Status
    <3> HIDE DEF Carried, e
    <3> QED BY <2>1, <3>1, <3>2
  <2>5. CASE HookMissing(d)
    <3>1. Ack(d, e, "NOTSUPPORTEDOP") /\ UNCHANGED messages
      BY <2>5 DEF HookMissing
    <3>2. "NOTSUPPORTEDOP" \in Status
      BY DEF Status
    <3> HIDE DEF Carried, e
    <3> QED BY <2>1, <3>1, <3>2
  <2>3. CASE devfs_loopStream(d) \/ OpenOrClose(d)
    <3>1. e.op # "read" /\ UNCHANGED <<messages, pulses>>
      BY <2>3 DEF devfs_loopStream, OpenOrClose, KnowsEvent
    <3>2. e.req \notin Slot
      BY <1>2, <3>1, MarkerAssumption DEF Event, Events
    <3> QED BY <3>1, <3>2
  <2>4. CASE devfs_loopRead(d)
    <3>1. CASE Ack(d, e, "ERROR") /\ UNCHANGED messages
      <4>1. "ERROR" \in Status
        BY DEF Status
      <4> HIDE DEF Carried, e
      <4> QED BY <2>1, <3>1, <4>1
    <3>2. CASE /\ messages' = Append(messages, Message(d, "response", "", -1, {}, e.req, e.for))
               /\ UNCHANGED pulses
      <4> DEFINE m == Message(d, "response", "", -1, {}, e.req, e.for)
      <4>1. m \in Packet /\ messages' = Append(messages, m) /\ m.op = "response" /\ m.req = e.req /\ m.from = d
        <5>1. e.req \in Slot \cup {Garbage} /\ e.for \in Tag
          BY <1>2 DEF Event, Events
        <5> HIDE DEF e
        <5>2. m \in Packet
          BY <5>1 DEF Message, Packet, Packets
        <5> QED BY <3>2, <5>2 DEF Message
      <4> HIDE DEF m, e
      <4>2. /\ \A k \in DOMAIN messages : k \in DOMAIN messages' /\ messages'[k] = messages[k]
            /\ Len(messages) + 1 \in DOMAIN messages' /\ messages'[Len(messages) + 1] = m
        BY <1>2, <4>1, AppendKeeps
      <4> QED BY <3>2, <4>1, <4>2
    <3> QED BY <2>4, <3>1, <3>2 DEF devfs_loopRead
  <2> QED BY <2>2, <2>3, <2>4, <2>5 DEF DriverLoop
<1>4. \A k \in DOMAIN events[d] : k # 1 => k - 1 \in DOMAIN Tail(events[d]) /\ Tail(events[d])[k - 1] = events[d][k]
  BY <1>2, TailKeeps
<1>5. e = events[d][1]
  BY <1>2, TailKeeps DEF Current
<1>6. events'[d] = Tail(events[d]) /\ \A x \in Driver : x # d => events'[x] = events[x]
  BY <1>1, <1>2 DEF TypeOK
<1>7. ASSUME NEW t \in Slot, state_table[t] # Unused PROVE Pending(t, state_table[t].dest)'
  <2> DEFINE x == state_table[t].dest
  <2>1. x \in Driver /\ Pending(t, x) /\ x' = x
    BY <1>1, <1>7, SlotType DEF SlotsPending
  <2> HIDE DEF x, e
  <2>2. (\E k \in DOMAIN events[x] : events[x][k].req = t) =>
            \/ \E k \in DOMAIN events'[x] : events'[x][k].req = t
            \/ x = d /\ e.req = t
    <3>1. ASSUME NEW k \in DOMAIN events[x], events[x][k].req = t, x = d
          PROVE  (\E j \in DOMAIN events'[x] : events'[x][j].req = t) \/ e.req = t
      BY <1>4, <1>5, <1>6, <3>1
    <3>2. CASE x # d
      BY <1>6, <2>1, <3>2
    <3> QED BY <3>1, <3>2
  <2>3. \/ \E k \in DOMAIN events'[x] : events'[x][k].req = t
        \/ \E k \in DOMAIN messages' :
               messages'[k].op = "response" /\ messages'[k].req = t /\ messages'[k].from = x
        \/ \E k \in DOMAIN pulses' : pulses'[k].req = t /\ pulses'[k].from = x
    BY <1>3, <2>1, <2>2 DEF Pending
  <2> QED BY <2>1, <2>3 DEF Pending, x
<1> QED BY <1>1, <1>7 DEF SlotsPending

(* Everything else adds to the daemon's messages at most.                   *)
LEMMA GrowingSlots ==
    ASSUME TypeOK, SlotsPending, UNCHANGED <<state_table, events, pulses>>,
           \A k \in DOMAIN messages : k \in DOMAIN messages' /\ messages'[k] = messages[k]
    PROVE  SlotsPending'
<1>1. ASSUME NEW t \in Slot, state_table[t] # Unused PROVE Pending(t, state_table[t].dest)'
  <2> DEFINE x == state_table[t].dest
  <2>1. Pending(t, x) /\ x' = x
    BY <1>1 DEF SlotsPending
  <2> HIDE DEF x
  <2>2. \/ \E k \in DOMAIN events'[x] : events'[x][k].req = t
        \/ \E k \in DOMAIN messages' :
               messages'[k].op = "response" /\ messages'[k].req = t /\ messages'[k].from = x
        \/ \E k \in DOMAIN pulses' : pulses'[k].req = t /\ pulses'[k].from = x
    BY <2>1 DEF Pending
  <2> QED BY <2>1, <2>2 DEF Pending, x
<1> QED BY <1>1 DEF SlotsPending

LEMMA SlotsKept == IInv /\ [Next]_vars => SlotsPending'
<1> SUFFICES ASSUME IInv, [Next]_vars PROVE SlotsPending'
  OBVIOUS
<1>1. TypeOK /\ SlotsPending /\ messages \in Seq(Packet) /\ TypeOK'
  BY TypesKept DEF IInv, TypeOK
<1>2. CASE Daemon
  BY <1>2, TableSlots, DispatchSlots, ResponseSlots, ResponsePulseSlots DEF Daemon
<1>3. ASSUME NEW d \in Driver, DriverLoop(d) PROVE SlotsPending'
  BY <1>3, DriverLoopSlots
<1>4. CASE UNCHANGED <<state_table, events, pulses, messages>>
  BY <1>1, <1>4, GrowingSlots
<1>5. ASSUME NEW p, Return(p) \/ TimeOut(p) \/ SleepOn(p) \/ Die(p) PROVE SlotsPending'
  BY <1>4, <1>5 DEF Return, TimeOut, SleepOn, Die, stateVars
<1>6. ASSUME UNCHANGED <<state_table, events, pulses>>, NEW m, messages' = Append(messages, m)
      PROVE  SlotsPending'
  <2>1. \A k \in DOMAIN messages : k \in DOMAIN messages' /\ messages'[k] = messages[k]
    BY <1>1, <1>6
  <2> QED BY <1>1, <1>6, <2>1, GrowingSlots
<1>7. ASSUME NEW p, devfs_register(p) \/ devfs_deregister(p) \/ ClientCall(p) PROVE SlotsPending'
  <2>1. Sent /\ \E m : messages' = Append(messages, m)
    BY <1>7 DEF devfs_register, devfs_deregister, ClientCall, devfs_open, devfs_close, devfs_read,
                devfs_set_streaming, Send
  <2> QED BY <1>6, <2>1 DEF Sent, stateVars
<1>8. CASE UNCHANGED vars
  BY <1>4, <1>8 DEF vars, stateVars
<1> QED BY <1>2, <1>3, <1>5, <1>7, <1>8 DEF Next

---------------------------------------------------------------------------
LEMMA InitialStates == Init => IInv
<1> SUFFICES ASSUME Init PROVE IInv
  OBVIOUS
<1>1. <<>> \in Partial(Nat, Device) /\ <<>> \in Partial(Int, File) /\ <<>> \in Partial(Int, BOOLEAN)
  <2>1. \A T : <<>> \in [{} -> T] /\ DOMAIN <<>> = {}
    OBVIOUS
  <2> QED BY <2>1, PartialFunctions
<1>2. 0 \in Slot /\ FALSE \in BOOLEAN
  BY SlotAssumption DEF Slot
<1>3. TypeOK
  <2>1. timer \in [Process -> BOOLEAN] /\ stray \in BOOLEAN
    BY DEF Init
  <2> QED BY <1>1, <1>2, <2>1 DEF Init, TypeOK
<1>4. FiniteFiles
  BY FS_EmptySet DEF Init, FiniteFiles
<1>5. FreshId /\ HookedFiles /\ NextDescriptorFree /\ SlotsPending
  BY DEF Init, FreshId, HookedFiles, NextDescriptorFree, SlotsPending
<1> QED BY <1>3, <1>4, <1>5 DEF IInv

(* The inductive invariant of the devfs daemon and the library.            *)
THEOREM Invariance == Spec => []IInv
<1>1. IInv /\ [Next]_vars => IInv'
  BY TypesKept, TablesKept, SlotsKept DEF IInv, TableInv
<1> QED BY InitialStates, <1>1, PTL DEF Spec

(* The device of an open file is registered (devices.c, files.c): what      *)
(* deregister_device frees, no file points to.                             *)
THEOREM OpenFilesHaveDevices == Spec => []FilesHaveDevices
<1>1. IInv => FilesHaveDevices
  BY DEF IInv, HookedFiles, FilesHaveDevices
<1> QED BY Invariance, <1>1, PTL

(* The next open of a process gives out a descriptor that is not in use     *)
(* (files.c, last_fd), after any sequence of opens and closes.             *)
THEOREM DescriptorsUnique == Spec => []NextDescriptorFree
<1>1. IInv => NextDescriptorFree
  BY DEF IInv
<1> QED BY Invariance, <1>1, PTL

(* No slot of the state table leaks (state.c): its request is with the      *)
(* driver or lost with it, or its answer is on the way.                     *)
THEOREM SlotsAccounted == Spec => []SlotsPending
<1>1. IInv => SlotsPending
  BY DEF IInv
<1> QED BY Invariance, <1>1, PTL

---------------------------------------------------------------------------
(* Who holds a slot.  The request of a slot is carried by a read event, by   *)
(* the driver's response or by its pulse.                                  *)
Responds(m, k, s) == k \in DOMAIN m /\ m[k].op = "response" /\ m[k].req = s
Reads(e, d, k, s) == k \in DOMAIN e[d] /\ e[d][k].req = s
Acks(u, k, s) == k \in DOMAIN u /\ u[k].req = s

OneCarrier(m, e, u) ==
    \A s \in Slot : \A k, l \in Nat : \A c, d \in Driver :
        /\ Responds(m, k, s) /\ Responds(m, l, s) => k = l
        /\ Reads(e, c, k, s) /\ Reads(e, d, l, s) => c = d /\ k = l
        /\ Acks(u, k, s) /\ Acks(u, l, s) => k = l
        /\ ~(Responds(m, k, s) /\ Reads(e, d, l, s))
        /\ ~(Responds(m, k, s) /\ Acks(u, l, s))
        /\ ~(Reads(e, d, k, s) /\ Acks(u, l, s))

Carries(m, e, u, s, d, f) ==
    \/ \E k \in Nat : Responds(m, k, s) /\ m[k].from = d /\ m[k].for = f
    \/ \E k \in Nat : Reads(e, d, k, s) /\ e[d][k].for = f
    \/ \E k \in Nat : Acks(u, k, s) /\ u[k].from = d /\ u[k].for = f

(* The queues n, g, v have the carriers of m, e, u and one more at most.    *)
Adds(m, e, u, n, g, v, x, y, z) ==
    \A s \in Slot : \A d \in Driver : \A f : Carries(n, g, v, s, d, f) =>
        Carries(m, e, u, s, d, f) \/ (s = x /\ d = y /\ f = z)

NotCarried(m, e, u, s) ==
    /\ \A k \in Nat : ~Responds(m, k, s) /\ ~Acks(u, k, s)
    /\ \A d \in Driver : \A k \in Nat : ~Reads(e, d, k, s)

LEMMA TailPositions ==
    ASSUME NEW S, NEW s \in Seq(S), s # <<>>
    PROVE  /\ \A k \in DOMAIN Tail(s) : k \in Nat /\ k + 1 \in DOMAIN s /\ Tail(s)[k] = s[k + 1] /\ k + 1 # 1
           /\ 1 \in DOMAIN s /\ Head(s) = s[1] /\ Tail(s) \in Seq(S) /\ Head(s) \in S
  OBVIOUS

LEMMA AppendPositions ==
    ASSUME NEW S, NEW s \in Seq(S), NEW x \in S
    PROVE  /\ \A k \in DOMAIN Append(s, x) :
                  \/ k \in DOMAIN s /\ Append(s, x)[k] = s[k]
                  \/ k = Len(s) + 1 /\ Append(s, x)[k] = x
           /\ Append(s, x) \in Seq(S) /\ Len(s) \in Nat
           /\ \A k \in DOMAIN s : k \in Nat /\ k # Len(s) + 1
  OBVIOUS

(* A queue moves up by a places, or loses something.                        *)
LEMMA MessagesShift ==
    ASSUME NEW m, NEW e, NEW u, OneCarrier(m, e, u), NEW a \in Nat, NEW n,
           \A s \in Slot : \A k \in Nat : Responds(n, k, s) => Responds(m, k + a, s) /\ n[k] = m[k + a]
    PROVE  /\ OneCarrier(n, e, u)
           /\ \A s \in Slot : \A d \in Driver : \A f : Carries(n, e, u, s, d, f) => Carries(m, e, u, s, d, f)
<1>1. ASSUME NEW s \in Slot, NEW k \in Nat, NEW l \in Nat, NEW c \in Driver, NEW d \in Driver
      PROVE  /\ Responds(n, k, s) /\ Responds(n, l, s) => k = l
             /\ Reads(e, c, k, s) /\ Reads(e, d, l, s) => c = d /\ k = l
             /\ Acks(u, k, s) /\ Acks(u, l, s) => k = l
             /\ ~(Responds(n, k, s) /\ Reads(e, d, l, s))
             /\ ~(Responds(n, k, s) /\ Acks(u, l, s))
             /\ ~(Reads(e, d, k, s) /\ Acks(u, l, s))
  <2> DEFINE x == k + a
             y == l + a
  <2>1. x \in Nat /\ y \in Nat /\ (x = y => k = l)
    OBVIOUS
  <2>2. (Responds(n, k, s) => Responds(m, x, s)) /\ (Responds(n, l, s) => Responds(m, y, s))
    OBVIOUS
  <2> HIDE DEF x, y
  <2>3. /\ Responds(m, x, s) /\ Responds(m, y, s) => x = y
        /\ Reads(e, c, k, s) /\ Reads(e, d, l, s) => c = d /\ k = l
        /\ Acks(u, k, s) /\ Acks(u, l, s) => k = l
        /\ ~(Responds(m, x, s) /\ Reads(e, d, l, s))
        /\ ~(Responds(m, x, s) /\ Acks(u, l, s))
        /\ ~(Reads(e, d, k, s) /\ Acks(u, l, s))
    BY <2>1 DEF OneCarrier
  <2> QED BY <2>1, <2>2, <2>3
<1>2. OneCarrier(n, e, u)
  BY <1>1 DEF OneCarrier
<1>3. ASSUME NEW s \in Slot, NEW d \in Driver, NEW f, Carries(n, e, u, s, d, f)
      PROVE  Carries(m, e, u, s, d, f)
  <2>1. ASSUME NEW k \in Nat, Responds(n, k, s) /\ n[k].from = d /\ n[k].for = f
        PROVE  \E l \in Nat : Responds(m, l, s) /\ m[l].from = d /\ m[l].for = f
    <3>1. k + a \in Nat
      OBVIOUS
    <3> QED BY <2>1, <3>1
  <2> QED BY <1>3, <2>1 DEF Carries
<1> QED BY <1>2, <1>3

LEMMA PulsesShift ==
    ASSUME NEW m, NEW e, NEW u, OneCarrier(m, e, u), NEW a \in Nat, NEW v,
           \A s \in Slot : \A k \in Nat : Acks(v, k, s) => Acks(u, k + a, s) /\ v[k] = u[k + a]
    PROVE  /\ OneCarrier(m, e, v)
           /\ \A s \in Slot : \A d \in Driver : \A f : Carries(m, e, v, s, d, f) => Carries(m, e, u, s, d, f)
<1>1. ASSUME NEW s \in Slot, NEW k \in Nat, NEW l \in Nat, NEW c \in Driver, NEW d \in Driver
      PROVE  /\ Responds(m, k, s) /\ Responds(m, l, s) => k = l
             /\ Reads(e, c, k, s) /\ Reads(e, d, l, s) => c = d /\ k = l
             /\ Acks(v, k, s) /\ Acks(v, l, s) => k = l
             /\ ~(Responds(m, k, s) /\ Reads(e, d, l, s))
             /\ ~(Responds(m, k, s) /\ Acks(v, l, s))
             /\ ~(Reads(e, d, k, s) /\ Acks(v, l, s))
  <2> DEFINE x == k + a
             y == l + a
  <2>1. x \in Nat /\ y \in Nat /\ (x = y => k = l)
    OBVIOUS
  <2>2. (Acks(v, k, s) => Acks(u, x, s)) /\ (Acks(v, l, s) => Acks(u, y, s))
    OBVIOUS
  <2> HIDE DEF x, y
  <2>3. /\ Responds(m, k, s) /\ Responds(m, l, s) => k = l
        /\ Reads(e, c, k, s) /\ Reads(e, d, l, s) => c = d /\ k = l
        /\ Acks(u, x, s) /\ Acks(u, y, s) => x = y
        /\ ~(Responds(m, k, s) /\ Reads(e, d, l, s))
        /\ ~(Responds(m, k, s) /\ Acks(u, y, s))
        /\ ~(Reads(e, d, k, s) /\ Acks(u, y, s))
    BY <2>1 DEF OneCarrier
  <2> QED BY <2>1, <2>2, <2>3
<1>2. OneCarrier(m, e, v)
  BY <1>1 DEF OneCarrier
<1>3. ASSUME NEW s \in Slot, NEW d \in Driver, NEW f, Carries(m, e, v, s, d, f)
      PROVE  Carries(m, e, u, s, d, f)
  <2>1. ASSUME NEW k \in Nat, Acks(v, k, s) /\ v[k].from = d /\ v[k].for = f
        PROVE  \E l \in Nat : Acks(u, l, s) /\ u[l].from = d /\ u[l].for = f
    <3>1. k + a \in Nat
      OBVIOUS
    <3> QED BY <2>1, <3>1
  <2> QED BY <1>3, <2>1 DEF Carries
<1> QED BY <1>2, <1>3

LEMMA EventsShift ==
    ASSUME NEW m, NEW e, NEW u, OneCarrier(m, e, u), NEW a \in Nat, NEW y \in Driver, NEW g,
           \A d \in Driver : d # y => g[d] = e[d],
           \A s \in Slot : \A k \in Nat : Reads(g, y, k, s) => Reads(e, y, k + a, s) /\ g[y][k] = e[y][k + a]
    PROVE  /\ OneCarrier(m, g, u)
           /\ \A s \in Slot : \A d \in Driver : \A f : Carries(m, g, u, s, d, f) => Carries(m, e, u, s, d, f)
<1>1. ASSUME NEW s \in Slot, NEW k \in Nat, NEW l \in Nat, NEW c \in Driver, NEW d \in Driver
      PROVE  /\ Responds(m, k, s) /\ Responds(m, l, s) => k = l
             /\ Reads(g, c, k, s) /\ Reads(g, d, l, s) => c = d /\ k = l
             /\ Acks(u, k, s) /\ Acks(u, l, s) => k = l
             /\ ~(Responds(m, k, s) /\ Reads(g, d, l, s))
             /\ ~(Responds(m, k, s) /\ Acks(u, l, s))
             /\ ~(Reads(g, d, k, s) /\ Acks(u, l, s))
  <2> DEFINE w == IF c = y THEN k + a ELSE k
             x == IF d = y THEN l + a ELSE l
             z == IF d = y THEN k + a ELSE k
  <2>1. w \in Nat /\ x \in Nat /\ z \in Nat /\ (c = d /\ w = x => k = l)
    OBVIOUS
  <2>2. /\ Reads(g, c, k, s) => Reads(e, c, w, s)
        /\ Reads(g, d, l, s) => Reads(e, d, x, s)
        /\ Reads(g, d, k, s) => Reads(e, d, z, s)
    <3>1. \A q \in Driver : \A r \in Nat : q # y /\ Reads(g, q, r, s) => Reads(e, q, r, s)
      BY DEF Reads
    <3> QED BY <3>1
  <2> HIDE DEF w, x, z
  <2>3. /\ Responds(m, k, s) /\ Responds(m, l, s) => k = l
        /\ Reads(e, c, w, s) /\ Reads(e, d, x, s) => c = d /\ w = x
        /\ Acks(u, k, s) /\ Acks(u, l, s) => k = l
        /\ ~(Responds(m, k, s) /\ Reads(e, d, x, s))
        /\ ~(Responds(m, k, s) /\ Acks(u, l, s))
        /\ ~(Reads(e, d, z, s) /\ Acks(u, l, s))
    BY <2>1 DEF OneCarrier
  <2> QED BY <2>1, <2>2, <2>3
<1>2. OneCarrier(m, g, u)
  BY <1>1 DEF OneCarrier
<1>3. ASSUME NEW s \in Slot, NEW d \in Driver, NEW f, Carries(m, g, u, s, d, f)
      PROVE  Carries(m, e, u, s, d, f)
  <2>1. ASSUME NEW k \in Nat, Reads(g, d, k, s) /\ g[d][k].for = f
        PROVE  \E l \in Nat : Reads(e, d, l, s) /\ e[d][l].for = f
    <3>1. CASE d = y
      <4>1. k + a \in Nat
        OBVIOUS
      <4> QED BY <2>1, <3>1, <4>1
    <3>2. CASE d # y
      BY <2>1, <3>2 DEF Reads
    <3> QED BY <3>1, <3>2
  <2> QED BY <1>3, <2>1 DEF Carries
<1> QED BY <1>2, <1>3

(* A slot that nobody carries gets its one carrier.                         *)
LEMMA ResponseAdded ==
    ASSUME NEW m \in Seq(Packet), NEW e, NEW u, OneCarrier(m, e, u), NEW x \in Packet,
           x.op = "response", x.req \in Slot, NotCarried(m, e, u, x.req)
    PROVE  /\ OneCarrier(Append(m, x), e, u)
           /\ Adds(m, e, u, Append(m, x), e, u, x.req, x.from, x.for)
<1> DEFINE n == Append(m, x)
<1>1. \A s \in Slot : \A k \in Nat : Responds(n, k, s) =>
          (Responds(m, k, s) /\ n[k] = m[k]) \/ (s = x.req /\ k = Len(m) + 1 /\ n[k] = x)
  BY AppendPositions DEF Responds
<1> HIDE DEF n
<1>2. ASSUME NEW s \in Slot, NEW k \in Nat, NEW l \in Nat, NEW c \in Driver, NEW d \in Driver
      PROVE  /\ Responds(n, k, s) /\ Responds(n, l, s) => k = l
             /\ Reads(e, c, k, s) /\ Reads(e, d, l, s) => c = d /\ k = l
             /\ Acks(u, k, s) /\ Acks(u, l, s) => k = l
             /\ ~(Responds(n, k, s) /\ Reads(e, d, l, s))
             /\ ~(Responds(n, k, s) /\ Acks(u, l, s))
             /\ ~(Reads(e, d, k, s) /\ Acks(u, l, s))
  BY <1>1 DEF OneCarrier, NotCarried
<1>3. OneCarrier(n, e, u)
  BY <1>2 DEF OneCarrier
<1>4. ASSUME NEW s \in Slot, NEW d \in Driver, NEW f, Carries(n, e, u, s, d, f)
      PROVE  Carries(m, e, u, s, d, f) \/ (s = x.req /\ d = x.from /\ f = x.for)
  BY <1>1, <1>4 DEF Carries
<1> QED BY <1>3, <1>4 DEF n, Adds

LEMMA PulseAdded ==
    ASSUME NEW m, NEW e, NEW u \in Seq(Pulse), OneCarrier(m, e, u), NEW x \in Pulse,
           x.req \in Slot, NotCarried(m, e, u, x.req)
    PROVE  /\ OneCarrier(m, e, Append(u, x))
           /\ Adds(m, e, u, m, e, Append(u, x), x.req, x.from, x.for)
<1> DEFINE v == Append(u, x)
<1>1. \A s \in Slot : \A k \in Nat : Acks(v, k, s) =>
          (Acks(u, k, s) /\ v[k] = u[k]) \/ (s = x.req /\ k = Len(u) + 1 /\ v[k] = x)
  BY AppendPositions DEF Acks
<1> HIDE DEF v
<1>2. ASSUME NEW s \in Slot, NEW k \in Nat, NEW l \in Nat, NEW c \in Driver, NEW d \in Driver
      PROVE  /\ Responds(m, k, s) /\ Responds(m, l, s) => k = l
             /\ Reads(e, c, k, s) /\ Reads(e, d, l, s) => c = d /\ k = l
             /\ Acks(v, k, s) /\ Acks(v, l, s) => k = l
             /\ ~(Responds(m, k, s) /\ Reads(e, d, l, s))
             /\ ~(Responds(m, k, s) /\ Acks(v, l, s))
             /\ ~(Reads(e, d, k, s) /\ Acks(v, l, s))
  BY <1>1 DEF OneCarrier, NotCarried
<1>3. OneCarrier(m, e, v)
  BY <1>2 DEF OneCarrier
<1>4. ASSUME NEW s \in Slot, NEW d \in Driver, NEW f, Carries(m, e, v, s, d, f)
      PROVE  Carries(m, e, u, s, d, f) \/ (s = x.req /\ d = x.from /\ f = x.for)
  BY <1>1, <1>4 DEF Carries
<1> QED BY <1>3, <1>4 DEF v, Adds

LEMMA EventAdded ==
    ASSUME NEW m, NEW e \in [Driver -> Seq(Event)], NEW u, OneCarrier(m, e, u), NEW x \in Event,
           NEW y \in Driver, x.req \in Slot, NotCarried(m, e, u, x.req),
           NEW g,
           g[y] = Append(e[y], x), \A d \in Driver : d # y => g[d] = e[d]
    PROVE  /\ OneCarrier(m, g, u)
           /\ Adds(m, e, u, m, g, u, x.req, y, x.for)
<1>0. e[y] \in Seq(Event) /\ g[y] = Append(e[y], x) /\ \A d \in Driver : d # y => g[d] = e[d]
  OBVIOUS
<1>1. \A s \in Slot : \A d \in Driver : \A k \in Nat : Reads(g, d, k, s) =>
          \/ Reads(e, d, k, s) /\ g[d][k] = e[d][k]
          \/ s = x.req /\ d = y /\ k = Len(e[y]) + 1 /\ g[d][k] = x
  <2> SUFFICES ASSUME NEW s \in Slot, NEW d \in Driver, NEW k \in Nat, Reads(g, d, k, s)
               PROVE  \/ Reads(e, d, k, s) /\ g[d][k] = e[d][k]
                      \/ s = x.req /\ d = y /\ k = Len(e[y]) + 1 /\ g[d][k] = x
    OBVIOUS
  <2>1. CASE d = y
    <3>1. \A j \in DOMAIN g[y] : (j \in DOMAIN e[y] /\ g[y][j] = e[y][j]) \/ (j = Len(e[y]) + 1 /\ g[y][j] = x)
      BY <1>0, AppendPositions
    <3> QED BY <2>1, <3>1 DEF Reads
  <2>2. CASE d # y
    BY <1>0, <2>2 DEF Reads
  <2> QED BY <2>1, <2>2
<1>2. ASSUME NEW s \in Slot, NEW k \in Nat, NEW l \in Nat, NEW c \in Driver, NEW d \in Driver
      PROVE  /\ Responds(m, k, s) /\ Responds(m, l, s) => k = l
             /\ Reads(g, c, k, s) /\ Reads(g, d, l, s) => c = d /\ k = l
             /\ Acks(u, k, s) /\ Acks(u, l, s) => k = l
             /\ ~(Responds(m, k, s) /\ Reads(g, d, l, s))
             /\ ~(Responds(m, k, s) /\ Acks(u, l, s))
             /\ ~(Reads(g, d, k, s) /\ Acks(u, l, s))
  <2>1. /\ Responds(m, k, s) /\ Responds(m, l, s) => k = l
        /\ Reads(e, c, k, s) /\ Reads(e, d, l, s) => c = d /\ k = l
        /\ Acks(u, k, s) /\ Acks(u, l, s) => k = l
        /\ ~(Responds(m, k, s) /\ Reads(e, d, l, s))
        /\ ~(Responds(m, k, s) /\ Acks(u, l, s))
        /\ ~(Reads(e, d, k, s) /\ Acks(u, l, s))
    BY DEF OneCarrier
  <2>2. s = x.req => /\ ~Responds(m, k, s) /\ ~Acks(u, l, s)
                     /\ ~Reads(e, c, k, s) /\ ~Reads(e, d, l, s)
    BY DEF NotCarried
  <2>3. /\ Reads(g, c, k, s) => Reads(e, c, k, s) \/ (s = x.req /\ c = y /\ k = Len(e[y]) + 1)
        /\ Reads(g, d, k, s) => Reads(e, d, k, s) \/ (s = x.req /\ d = y /\ k = Len(e[y]) + 1)
        /\ Reads(g, d, l, s) => Reads(e, d, l, s) \/ (s = x.req /\ d = y /\ l = Len(e[y]) + 1)
    BY <1>1
  <2> QED BY <2>1, <2>2, <2>3
<1>3. OneCarrier(m, g, u)
  BY <1>2 DEF OneCarrier
<1>4. ASSUME NEW s \in Slot, NEW d \in Driver, NEW f, Carries(m, g, u, s, d, f)
      PROVE  Carries(m, e, u, s, d, f) \/ (s = x.req /\ d = y /\ f = x.for)
  <2>1. ASSUME NEW k \in Nat, Reads(g, d, k, s), g[d][k].for = f
        PROVE  (\E l \in Nat : Reads(e, d, l, s) /\ e[d][l].for = f) \/ (s = x.req /\ d = y /\ f = x.for)
    BY <1>1, <2>1
  <2> QED BY <1>4, <2>1 DEF Carries
<1> QED BY <1>3, <1>4 DEF Adds

---------------------------------------------------------------------------
(* What is taken from a queue leaves its slot without a carrier.            *)
LEMMA MessageTaken ==
    ASSUME NEW m \in Seq(Packet), m # <<>>, NEW e, NEW u, OneCarrier(m, e, u)
    PROVE  /\ OneCarrier(Tail(m), e, u)
           /\ \A s \in Slot : \A d \in Driver : \A f :
                  Carries(Tail(m), e, u, s, d, f) => Carries(m, e, u, s, d, f)
           /\ Head(m).op = "response" /\ Head(m).req \in Slot =>
                  /\ NotCarried(Tail(m), e, u, Head(m).req)
                  /\ Carries(m, e, u, Head(m).req, Head(m).from, Head(m).for)
<1> DEFINE n == Tail(m)
           a == 1
<1>1. \A s \in Slot : \A k \in Nat : Responds(n, k, s) => Responds(m, k + 1, s) /\ n[k] = m[k + 1]
  BY TailPositions DEF Responds
<1>2. \A s \in Slot : \A k \in Nat : Responds(n, k, s) => Responds(m, k + a, s) /\ n[k] = m[k + a]
  BY <1>1
<1>4. a \in Nat /\ 1 \in Nat
  OBVIOUS
<1> HIDE DEF n, a
<1>5. /\ OneCarrier(n, e, u)
      /\ \A s \in Slot : \A d \in Driver : \A f : Carries(n, e, u, s, d, f) => Carries(m, e, u, s, d, f)
  BY <1>2, <1>4, MessagesShift
<1>6. ASSUME Head(m).op = "response", Head(m).req \in Slot
      PROVE  /\ NotCarried(n, e, u, Head(m).req)
             /\ Carries(m, e, u, Head(m).req, Head(m).from, Head(m).for)
  <2> DEFINE s == Head(m).req
  <2>1. Responds(m, 1, s) /\ s \in Slot /\ m[1] = Head(m)
    BY <1>6, TailPositions DEF Responds
  <2> HIDE DEF s
  <2>2. ASSUME NEW k \in Nat PROVE ~Responds(n, k, s) /\ ~Acks(u, k, s)
    <3>1. k + 1 \in Nat /\ k \in Nat /\ 1 \in Nat /\ (Responds(n, k, s) => k + 1 # 1)
      BY TailPositions DEF Responds, n
    <3>2. Responds(n, k, s) => Responds(m, k + 1, s)
      BY <1>1, <2>1
    <3>3. ~Responds(n, k, s)
      <4>1. ASSUME NEW j \in Nat, Responds(m, j, s) PROVE j = 1
        <5>1. Driver # {} => j = 1
          BY <2>1, <4>1, <1>4 DEF OneCarrier
        <5>2. m[1].from \in Driver
          BY <2>1, <1>6, DriverPacket, TailPositions
        <5> QED BY <5>1, <5>2
      <4> QED BY <3>1, <3>2, <4>1
    <3>4. ~Acks(u, k, s)
      <4>1. m[1].from \in Driver
        BY <2>1, <1>6, DriverPacket, TailPositions
      <4> QED BY <4>1, <2>1, <1>4 DEF OneCarrier
    <3> QED BY <3>3, <3>4
  <2>3. ASSUME NEW d \in Driver, NEW k \in Nat PROVE ~Reads(e, d, k, s)
    BY <2>1, <1>4 DEF OneCarrier
  <2>4. NotCarried(n, e, u, s)
    BY <2>2, <2>3 DEF NotCarried
  <2>5. Carries(m, e, u, s, Head(m).from, Head(m).for)
    BY <2>1, <1>4 DEF Carries
  <2> QED BY <2>4, <2>5 DEF s
<1> QED BY <1>5, <1>6 DEF n

LEMMA PulseTaken ==
    ASSUME NEW m, NEW e, NEW u \in Seq(Pulse), u # <<>>, OneCarrier(m, e, u)
    PROVE  /\ OneCarrier(m, e, Tail(u))
           /\ \A s \in Slot : \A d \in Driver : \A f :
                  Carries(m, e, Tail(u), s, d, f) => Carries(m, e, u, s, d, f)
           /\ Head(u).req \in Slot =>
                  /\ NotCarried(m, e, Tail(u), Head(u).req)
                  /\ Carries(m, e, u, Head(u).req, Head(u).from, Head(u).for)
<1> DEFINE v == Tail(u)
           a == 1
<1>1. \A s \in Slot : \A k \in Nat : Acks(v, k, s) => Acks(u, k + 1, s) /\ v[k] = u[k + 1]
  BY TailPositions DEF Acks
<1>2. \A s \in Slot : \A k \in Nat : Acks(v, k, s) => Acks(u, k + a, s) /\ v[k] = u[k + a]
  BY <1>1
<1>4. a \in Nat /\ 1 \in Nat
  OBVIOUS
<1> HIDE DEF v, a
<1>5. /\ OneCarrier(m, e, v)
      /\ \A s \in Slot : \A d \in Driver : \A f : Carries(m, e, v, s, d, f) => Carries(m, e, u, s, d, f)
  BY <1>2, <1>4, PulsesShift
<1>6. ASSUME Head(u).req \in Slot
      PROVE  /\ NotCarried(m, e, v, Head(u).req)
             /\ Carries(m, e, u, Head(u).req, Head(u).from, Head(u).for)
  <2> DEFINE s == Head(u).req
  <2>1. Acks(u, 1, s) /\ s \in Slot /\ u[1] = Head(u) /\ Head(u) \in Pulse
    BY <1>6, TailPositions DEF Acks
  <2>0. u[1].from \in Driver
    BY <2>1 DEF Pulse
  <2> HIDE DEF s
  <2>2. ASSUME NEW k \in Nat PROVE ~Responds(m, k, s) /\ ~Acks(v, k, s)
    <3>1. k + 1 \in Nat /\ k \in Nat /\ 1 \in Nat /\ (Acks(v, k, s) => k + 1 # 1)
      BY TailPositions DEF Acks, v
    <3>2. Acks(v, k, s) => Acks(u, k + 1, s)
      BY <1>1, <2>1
    <3>3. ~Acks(v, k, s)
      <4>1. ASSUME NEW j \in Nat, Acks(u, j, s) PROVE j = 1
        BY <2>0, <2>1, <4>1, <1>4 DEF OneCarrier
      <4> QED BY <3>1, <3>2, <4>1
    <3>4. ~Responds(m, k, s)
      BY <2>0, <2>1, <1>4 DEF OneCarrier
    <3> QED BY <3>3, <3>4
  <2>3. ASSUME NEW d \in Driver, NEW k \in Nat PROVE ~Reads(e, d, k, s)
    BY <2>1, <1>4 DEF OneCarrier
  <2>4. NotCarried(m, e, v, s)
    BY <2>2, <2>3 DEF NotCarried
  <2>5. Carries(m, e, u, s, Head(u).from, Head(u).for)
    BY <2>1, <1>4 DEF Carries
  <2> QED BY <2>4, <2>5 DEF s
<1> QED BY <1>5, <1>6 DEF v

LEMMA EventTaken ==
    ASSUME NEW m, NEW e \in [Driver -> Seq(Event)], NEW u, OneCarrier(m, e, u),
           NEW y \in Driver, e[y] # <<>>, NEW g,
           g[y] = Tail(e[y]), \A d \in Driver : d # y => g[d] = e[d]
    PROVE  /\ OneCarrier(m, g, u)
           /\ \A s \in Slot : \A d \in Driver : \A f :
                  Carries(m, g, u, s, d, f) => Carries(m, e, u, s, d, f)
           /\ Head(e[y]).req \in Slot =>
                  /\ NotCarried(m, g, u, Head(e[y]).req)
                  /\ Carries(m, e, u, Head(e[y]).req, y, Head(e[y]).for)
<1> DEFINE a == 1
<1>0. /\ e[y] \in Seq(Event) /\ g[y] = Tail(e[y]) /\ \A d \in Driver : d # y => g[d] = e[d]
      /\ a \in Nat /\ 1 \in Nat
  OBVIOUS
<1>1. \A s \in Slot : \A k \in Nat : Reads(g, y, k, s) =>
          Reads(e, y, k + 1, s) /\ g[y][k] = e[y][k + 1] /\ k + 1 # 1
  BY <1>0, TailPositions DEF Reads
<1>2. \A s \in Slot : \A k \in Nat : Reads(g, y, k, s) => Reads(e, y, k + a, s) /\ g[y][k] = e[y][k + a]
  BY <1>1
<1> HIDE DEF a
<1>5. /\ OneCarrier(m, g, u)
      /\ \A s \in Slot : \A d \in Driver : \A f : Carries(m, g, u, s, d, f) => Carries(m, e, u, s, d, f)
  BY <1>0, <1>2, EventsShift
<1>6. ASSUME Head(e[y]).req \in Slot
      PROVE  /\ NotCarried(m, g, u, Head(e[y]).req)
             /\ Carries(m, e, u, Head(e[y]).req, y, Head(e[y]).for)
  <2> DEFINE s == Head(e[y]).req
  <2>1. Reads(e, y, 1, s) /\ s \in Slot /\ e[y][1] = Head(e[y])
    BY <1>0, <1>6, TailPositions DEF Reads
  <2> HIDE DEF s
  <2>2. ASSUME NEW k \in Nat PROVE ~Responds(m, k, s) /\ ~Acks(u, k, s)
    BY <2>1, <1>0 DEF OneCarrier
  <2>3. ASSUME NEW d \in Driver, NEW k \in Nat PROVE ~Reads(g, d, k, s)
    <3>1. ASSUME NEW j \in Nat, Reads(e, d, j, s) PROVE d = y /\ j = 1
      BY <2>1, <3>1, <1>0 DEF OneCarrier
    <3>2. CASE d = y
      <4>1. k + 1 \in Nat
        OBVIOUS
      <4> QED BY <1>1, <2>1, <3>1, <3>2, <4>1
    <3>3. CASE d # y
      BY <1>0, <3>1, <3>3 DEF Reads
    <3> QED BY <3>2, <3>3
  <2>4. NotCarried(m, g, u, s)
    BY <2>2, <2>3 DEF NotCarried
  <2>5. Carries(m, e, u, s, y, Head(e[y]).for)
    BY <2>1, <1>0 DEF Carries
  <2> QED BY <2>4, <2>5 DEF s
<1> QED BY <1>5, <1>6

(* Notices and requests are not carriers.                                  *)
LEMMA NoticeAdded ==
    ASSUME NEW m, NEW e \in [Driver -> Seq(Event)], NEW u, OneCarrier(m, e, u), NEW x \in Event,
           NEW y \in Driver, x.req = Garbage, NEW g,
           g[y] = Append(e[y], x), \A d \in Driver : d # y => g[d] = e[d]
    PROVE  /\ OneCarrier(m, g, u)
           /\ \A s \in Slot : \A d \in Driver : \A f : Carries(m, g, u, s, d, f) => Carries(m, e, u, s, d, f)
<1> DEFINE a == 0
<1>1. e[y] \in Seq(Event) /\ g[y] = Append(e[y], x) /\ \A d \in Driver : d # y => g[d] = e[d]
  OBVIOUS
<1>2. ASSUME NEW s \in Slot, NEW k \in Nat, Reads(g, y, k, s)
      PROVE  Reads(e, y, k + a, s) /\ g[y][k] = e[y][k + a]
  <2>1. k + a = k
    OBVIOUS
  <2>2. Reads(e, y, k, s) /\ g[y][k] = e[y][k]
    BY <1>1, <1>2, AppendPositions, MarkerAssumption DEF Reads
  <2> HIDE DEF a
  <2> QED BY <2>1, <2>2
<1>3. a \in Nat
  OBVIOUS
<1> HIDE DEF a
<1> QED BY <1>1, <1>2, <1>3, EventsShift

LEMMA RequestAdded ==
    ASSUME NEW m \in Seq(Packet), NEW e, NEW u, OneCarrier(m, e, u), NEW x \in Packet, x.op # "response"
    PROVE  /\ OneCarrier(Append(m, x), e, u)
           /\ \A s \in Slot : \A d \in Driver : \A f :
                  Carries(Append(m, x), e, u, s, d, f) => Carries(m, e, u, s, d, f)
<1> DEFINE n == Append(m, x)
           a == 0
<1>1. \A s \in Slot : \A k \in Nat : Responds(n, k, s) => Responds(m, k, s) /\ n[k] = m[k]
  BY AppendPositions DEF Responds
<1>2. ASSUME NEW s \in Slot, NEW k \in Nat, Responds(n, k, s)
      PROVE  Responds(m, k + a, s) /\ n[k] = m[k + a]
  <2>1. k + a = k
    OBVIOUS
  <2> QED BY <1>1, <1>2, <2>1
<1>3. a \in Nat
  OBVIOUS
<1> HIDE DEF n, a
<1>4. /\ OneCarrier(n, e, u)
      /\ \A s \in Slot : \A d \in Driver : \A f : Carries(n, e, u, s, d, f) => Carries(m, e, u, s, d, f)
  BY <1>2, <1>3, MessagesShift
<1> QED BY <1>4 DEF n

---------------------------------------------------------------------------
(* The requests of a process that are on the way to the daemon              *)
Asks(m, k, p) == k \in DOMAIN m /\ m[k].op # "response" /\ m[k].from = p
Asked(m, p, f) == \E k \in Nat : Asks(m, k, p) /\ m[k].for = f
OneRequest(m, p) == \A k, l \in Nat : Asks(m, k, p) /\ Asks(m, l, p) => k = l

LEMMA RequestTaken ==
    ASSUME NEW m \in Seq(Packet), m # <<>>
    PROVE  /\ \A p : OneRequest(m, p) => OneRequest(Tail(m), p)
           /\ \A p, f : Asked(Tail(m), p, f) => Asked(m, p, f)
           /\ Head(m).op # "response" =>
                  /\ Asked(m, Head(m).from, Head(m).for)
                  /\ OneRequest(m, Head(m).from) => \A f : ~Asked(Tail(m), Head(m).from, f)
<1> DEFINE n == Tail(m)
           h == Head(m)
<1>1. \A p : \A k \in Nat : Asks(n, k, p) => Asks(m, k + 1, p) /\ n[k] = m[k + 1] /\ k + 1 # 1
  BY TailPositions DEF Asks
<1>2. \A k \in Nat : k + 1 \in Nat
  OBVIOUS
<1>3. h.op # "response" => Asks(m, 1, h.from) /\ m[1].for = h.for
  BY TailPositions DEF Asks
<1> HIDE DEF n, h
<1>4. ASSUME NEW p, OneRequest(m, p) PROVE OneRequest(n, p)
  <2> SUFFICES ASSUME NEW k \in Nat, NEW l \in Nat, Asks(n, k, p), Asks(n, l, p) PROVE k = l
    BY DEF OneRequest
  <2>1. k + 1 = l + 1
    BY <1>1, <1>2, <1>4 DEF OneRequest
  <2> QED BY <2>1
<1>5. ASSUME NEW p, NEW f, Asked(n, p, f) PROVE Asked(m, p, f)
  <2>1. PICK k \in Nat : Asks(n, k, p) /\ n[k].for = f
    BY <1>5 DEF Asked
  <2>2. Asks(m, k + 1, p) /\ m[k + 1].for = f
    BY <1>1, <2>1
  <2> QED BY <1>2, <2>2 DEF Asked
<1>6. h.op # "response" => Asked(m, h.from, h.for)
  BY <1>3, 1 \in Nat DEF Asked
<1>7. ASSUME h.op # "response", OneRequest(m, h.from), NEW f PROVE ~Asked(n, h.from, f)
  <2> SUFFICES ASSUME NEW k \in Nat, Asks(n, k, h.from) PROVE FALSE
    BY DEF Asked
  <2>1. Asks(m, k + 1, h.from) /\ k + 1 # 1 /\ k + 1 \in Nat
    BY <1>1, <1>2
  <2> QED BY <1>3, <1>7, <2>1, 1 \in Nat DEF OneRequest
<1> QED BY <1>4, <1>5, <1>6, <1>7 DEF n, h

LEMMA MessageAdded ==
    ASSUME NEW m \in Seq(Packet), NEW x \in Packet
    PROVE  /\ \A p : OneRequest(m, p) /\ (x.op = "response" \/ p # x.from \/ \A f : ~Asked(m, p, f)) =>
                         OneRequest(Append(m, x), p)
           /\ \A p, f : Asked(Append(m, x), p, f) =>
                            Asked(m, p, f) \/ (x.op # "response" /\ p = x.from /\ f = x.for)
<1> DEFINE n == Append(m, x)
<1>1. \A p : \A k \in Nat : Asks(n, k, p) =>
          \/ Asks(m, k, p) /\ n[k] = m[k]
          \/ k = Len(m) + 1 /\ n[k] = x /\ x.op # "response" /\ p = x.from
  BY AppendPositions DEF Asks
<1> HIDE DEF n
<1>2. ASSUME NEW p, OneRequest(m, p), x.op = "response" \/ p # x.from \/ \A f : ~Asked(m, p, f)
      PROVE  OneRequest(n, p)
  <2>1. CASE x.op = "response" \/ p # x.from
    BY <1>1, <1>2, <2>1 DEF OneRequest
  <2>2. CASE \A f : ~Asked(m, p, f)
    <3>1. \A k \in Nat : ~Asks(m, k, p)
      BY <2>2 DEF Asked
    <3> QED BY <1>1, <3>1 DEF OneRequest
  <2> QED BY <1>2, <2>1, <2>2
<1>3. ASSUME NEW p, NEW f, Asked(n, p, f)
      PROVE  Asked(m, p, f) \/ (x.op # "response" /\ p = x.from /\ f = x.for)
  BY <1>1, <1>3 DEF Asked
<1> QED BY <1>2, <1>3 DEF n

---------------------------------------------------------------------------
(* A call that nobody has given up is in one place: its request on the way  *)
(* to the daemon, in a slot, or answered.                                  *)
Holds(t, s, p) == t[s] # Unused /\ t[s].pid = p

OnePlace(m, t, r, p, n) ==
    /\ OneRequest(m, p) /\ \A f : Asked(m, p, f) => f = <<p, n>>
    /\ \A s, q \in Slot : Holds(t, s, p) /\ Holds(t, q, p) => s = q
    /\ Len(r) <= 1 /\ \A k \in DOMAIN r : r[k].for = <<p, n>>
    /\ \A s \in Slot : \A f : ~(Asked(m, p, f) /\ Holds(t, s, p))
    /\ r # <<>> => (\A f : ~Asked(m, p, f)) /\ \A s \in Slot : ~Holds(t, s, p)

NoPlace(m, t, r, p) == (\A f : ~Asked(m, p, f)) /\ (\A s \in Slot : ~Holds(t, s, p)) /\ r = <<>>

(* The carriers of a slot carry the call the slot is held for.              *)
Carried(m, e, u, t, l, n) ==
    /\ OneCarrier(m, e, u)
    /\ \A s \in Slot : \A d \in Driver : \A f : Carries(m, e, u, s, d, f) =>
           /\ t[s] # Unused /\ t[s].pid = f[1] /\ t[s].dest = d
           /\ f[1] \notin l => f = <<f[1], n[f[1]]>>

(* What the inductive invariant adds for the answers.  It speaks of the time *)
(* before a driver acknowledges a notice.                                  *)
OwnRequests == \A p \in Process : \A f : Asked(messages, p, f) => f[1] = p
PulsesAnswer == \A k \in DOMAIN pulses : pulses[k].req \in Slot
CallsInOnePlace ==
    \A p \in Process : p \notin late => OnePlace(messages, state_table, replies[p], p, calls[p])
IdleInNoPlace ==
    \A p \in Process : p \notin late \cup dead /\ call[p] = Idle =>
        NoPlace(messages, state_table, replies[p], p)
Answers == /\ OwnRequests /\ PulsesAnswer /\ CallsInOnePlace /\ IdleInNoPlace
           /\ Carried(messages, events, pulses, state_table, late, calls)
AnswerInv == stray \/ Answers

LEMMA PacketType ==
    ASSUME NEW m \in Packet
    PROVE  /\ m.from \in Process /\ m.for \in Tag /\ m.for[1] \in Process
           /\ m.for = <<m.for[1], m.for[2]>>
           /\ m.op = "response" => m.from \in Driver
<1>1. /\ m.from \in Process /\ m.for \in Tag
      /\ m.op = "response" => m.from \in Driver
  BY DEF Packet, Packets, Process
<1>2. \A f \in Tag : f[1] \in Process /\ f = <<f[1], f[2]>>
  BY DEF Tag
<1> QED BY <1>1, <1>2

(* The daemon answers a request, and may tell a driver of it.               *)
LEMMA Replied ==
    ASSUME TypeOK, TypeOK', Answers, messages # <<>>, Head(messages).op # "response",
           messages' = Tail(messages),
           NEW a \in Reply, a.for = Head(messages).for,
           replies' = Answered(replies, Head(messages).from, a),
           UNCHANGED <<pulses, state_table, late, calls, dead, call>>,
           OneCarrier(messages', events, pulses) =>
               /\ OneCarrier(messages', events', pulses)
               /\ \A s \in Slot : \A d \in Driver : \A f :
                      Carries(messages', events', pulses, s, d, f) => Carries(messages', events, pulses, s, d, f)
    PROVE  Answers'
<1> DEFINE h == Head(messages)
           p == h.from
<1>1. messages \in Seq(Packet) /\ h \in Packet /\ p \in Process
  BY FirstMessage, PacketType DEF TypeOK
<1>2. Carried(messages', events', pulses', state_table', late', calls')
  <2>1. OneCarrier(messages, events, pulses)
    BY DEF Answers, Carried
  <2>2. /\ OneCarrier(messages', events, pulses)
        /\ \A s \in Slot : \A d \in Driver : \A f :
               Carries(messages', events, pulses, s, d, f) => Carries(messages, events, pulses, s, d, f)
    BY <1>1, <2>1, MessageTaken
  <2>3. /\ OneCarrier(messages', events', pulses')
        /\ \A s \in Slot : \A d \in Driver : \A f :
               Carries(messages', events', pulses', s, d, f) => Carries(messages, events, pulses, s, d, f)
    BY <2>2
  <2> QED BY <2>3 DEF Answers, Carried
<1>3. /\ \A q : OneRequest(messages, q) => OneRequest(messages', q)
      /\ \A q, f : Asked(messages', q, f) => Asked(messages, q, f)
      /\ Asked(messages, p, h.for)
      /\ OneRequest(messages, p) => \A f : ~Asked(messages', p, f)
  BY <1>1, RequestTaken
<1>4. OwnRequests'
  BY <1>3 DEF Answers, OwnRequests
<1>5. PulsesAnswer'
  BY DEF Answers, PulsesAnswer
<1>6. /\ replies \in [Process -> Seq(Reply)]
      /\ \A q \in Process : q # p => replies'[q] = replies[q]
      /\ call[p] = Idle => replies'[p] = replies[p]
      /\ call[p] # Idle => replies'[p] = Append(replies[p], a)
  BY <1>1 DEF TypeOK, Answered
<1> HIDE DEF h, p
<1>7. ASSUME NEW q \in Process, q \notin late
      PROVE  OnePlace(messages', state_table, replies'[q], q, calls[q])
  <2>1. OnePlace(messages, state_table, replies[q], q, calls[q])
    BY <1>7 DEF Answers, CallsInOnePlace
  <2>2. CASE q # p \/ call[p] = Idle
    <3>1. replies'[q] = replies[q]
      BY <1>6, <2>2
    <3> QED BY <1>3, <2>1, <3>1 DEF OnePlace
  <2>3. CASE q = p /\ call[p] # Idle
    <3>1. Asked(messages, q, h.for) /\ \A f : ~Asked(messages', q, f)
      BY <1>3, <2>1, <2>3 DEF OnePlace
    <3>2. replies[q] = <<>> /\ h.for = <<q, calls[q]>> /\ \A s \in Slot : ~Holds(state_table, s, q)
      BY <2>1, <3>1 DEF OnePlace
    <3>3. replies'[q] = <<a>>
      BY <1>6, <2>3, <3>2
    <3>4. Len(<<a>>) = 1 /\ DOMAIN <<a>> = {1} /\ <<a>>[1] = a
      OBVIOUS
    <3> DEFINE r == replies'[q]
    <3>5. a.for = <<q, calls[q]>> /\ r = <<a>>
      BY <3>2, <3>3 DEF h
    <3>6. Len(r) <= 1 /\ \A k \in DOMAIN r : r[k].for = <<q, calls[q]>>
      <4> HIDE DEF r
      <4> QED BY <3>4, <3>5
    <3> QED BY <1>3, <2>1, <3>1, <3>2, <3>6 DEF OnePlace
  <2> QED BY <2>2, <2>3
<1>8. CallsInOnePlace'
  BY <1>7 DEF CallsInOnePlace
<1>9. IdleInNoPlace'
  <2> SUFFICES ASSUME NEW q \in Process, q \notin late \cup dead, call[q] = Idle
               PROVE  NoPlace(messages', state_table, replies'[q], q)
    BY DEF IdleInNoPlace
  <2>1. NoPlace(messages, state_table, replies[q], q)
    BY DEF Answers, IdleInNoPlace
  <2>2. replies'[q] = replies[q]
    BY <1>6
  <2> QED BY <1>3, <2>1, <2>2 DEF NoPlace
<1> QED BY <1>2, <1>4, <1>5, <1>8, <1>9 DEF Answers

---------------------------------------------------------------------------
LEMMA NoticeTold ==
    ASSUME TypeOK, NEW y \in Driver, NEW x \in Event, x.req = Garbage, NEW g, g = Told(y, x),
           NEW m, NEW u, OneCarrier(m, events, u)
    PROVE  /\ OneCarrier(m, g, u)
           /\ \A s \in Slot : \A d \in Driver : \A f :
                  Carries(m, g, u, s, d, f) => Carries(m, events, u, s, d, f)
<1>1. CASE y \in dead
  BY <1>1 DEF Told
<1>2. CASE y \notin dead
  <2>1. events \in [Driver -> Seq(Event)]
    BY DEF TypeOK
  <2>2. g[y] = Append(events[y], x) /\ \A d \in Driver : d # y => g[d] = events[d]
    BY <1>2, <2>1 DEF Told
  <2> QED BY <2>1, <2>2, NoticeAdded
<1> QED BY <1>1, <1>2

(* The handlers that answer at once                                        *)
LEMMA RepliedAlone ==
    ASSUME TypeOK, TypeOK', Answers, messages # <<>>, Head(messages).op # "response",
           messages' = Tail(messages), NEW status \in Status, NEW fd \in Int,
           send_resp(Head(messages), status, fd),
           UNCHANGED <<events, pulses, state_table, late, calls, dead, call>>
    PROVE  Answers'
<1> DEFINE h == Head(messages)
           a == [for |-> h.for, status |-> status, fd |-> fd]
<1>1. h \in Packet
  BY FirstMessage
<1>2. a \in Reply /\ a.for = h.for /\ replies' = Answered(replies, h.from, a)
  BY <1>1, PacketType DEF Reply, send_resp
<1> HIDE DEF a
<1> QED BY <1>2, Replied

LEMMA RepliedAndTold ==
    ASSUME TypeOK, TypeOK', Answers, messages # <<>>, Head(messages).op # "response",
           messages' = Tail(messages), NEW status \in Status, NEW fd \in Int,
           send_resp(Head(messages), status, fd),
           NEW y \in Driver, NEW x \in Event, x.req = Garbage, events' = Told(y, x),
           UNCHANGED <<pulses, state_table, late, calls, dead, call>>
    PROVE  Answers'
<1> DEFINE h == Head(messages)
           a == [for |-> h.for, status |-> status, fd |-> fd]
<1>1. h \in Packet
  BY FirstMessage
<1>2. a \in Reply /\ a.for = h.for /\ replies' = Answered(replies, h.from, a)
  BY <1>1, PacketType DEF Reply, send_resp
<1>3. OneCarrier(messages', events, pulses) =>
          /\ OneCarrier(messages', events', pulses)
          /\ \A s \in Slot : \A d \in Driver : \A f :
                 Carries(messages', events', pulses, s, d, f) => Carries(messages', events, pulses, s, d, f)
  BY NoticeTold
<1> HIDE DEF a
<1> QED BY <1>2, <1>3, Replied

LEMMA NoticeEvent ==
    ASSUME NEW m \in Packet, NEW op \in {"open", "close", "stream"}, NEW i \in Int, NEW f \in SUBSET Flag
    PROVE  Notice(op, i, f, m) \in Event /\ Notice(op, i, f, m).req = Garbage
<1>1. Notice(op, i, f, m).req = Garbage
  BY DEF Notice
<1> QED BY <1>1, NoticeType

LEMMA TableAnswers ==
    ASSUME IInv, TypeOK', Answers,
           register_device \/ deregister_device \/ open \/ close \/ NoFile \/ stream
    PROVE  Answers'
<1> DEFINE m == Head(messages)
<1>1. TypeOK /\ messages # <<>> /\ m.op # "response" /\ messages' = Tail(messages)
  BY DEF IInv, register_device, deregister_device, open, close, NoFile, stream, Receives
<1>2. m \in Packet
  BY <1>1, FirstMessage
<1>3. UNCHANGED <<pulses, state_table, late, calls, dead, call>>
  BY DEF register_device, deregister_device, open, close, NoFile, stream, libVars, stateVars
<1>4. ASSUME NEW status \in Status, NEW fd \in Int, send_resp(m, status, fd), UNCHANGED events
      PROVE  Answers'
  BY <1>1, <1>3, <1>4, RepliedAlone
<1>5. ASSUME NEW status \in Status, NEW fd \in Int, send_resp(m, status, fd),
             NEW y \in Driver, NEW op \in {"open", "close", "stream"}, NEW i \in Int, NEW f \in SUBSET Flag,
             events' = Told(y, Notice(op, i, f, m))
      PROVE  Answers'
  <2> DEFINE x == Notice(op, i, f, m)
  <2>1. x \in Event /\ x.req = Garbage /\ events' = Told(y, x)
    BY <1>2, <1>5, NoticeEvent
  <2> HIDE DEF x
  <2> QED BY <1>1, <1>3, <1>5, <2>1, RepliedAndTold
<1>6. CASE register_device
  <2>1. devfs_deviceCount \in Int /\ -1 \in Int /\ "EXISTS" \in Status /\ "OK" \in Status
    BY <1>1 DEF TypeOK, Status
  <2>2. UNCHANGED events /\ (send_resp(m, "EXISTS", -1) \/ send_resp(m, "OK", devfs_deviceCount))
    BY <1>6 DEF register_device
  <2> QED BY <1>4, <2>1, <2>2
<1>7. CASE deregister_device
  <2>1. m.fd \in Int /\ MayRemove(m.fd, m.from) \in Status
    BY <1>2, <1>7, DriverPacket DEF MayRemove, Status, deregister_device, Receives
  <2>2. UNCHANGED events /\ send_resp(m, MayRemove(m.fd, m.from), m.fd)
    BY <1>7 DEF deregister_device
  <2> QED BY <1>4, <2>1, <2>2
<1>8. CASE open
  <2> DEFINE fd == last_fd[m.from]
  <2>1. m.from \in Client
    BY <1>2, <1>8, ClientPacket DEF open, Receives
  <2>2. fd \in Int
    BY <1>1, <2>1 DEF TypeOK
  <2>3. \/ UNCHANGED events /\ \E status \in Status : send_resp(m, status, fd)
        \/ /\ send_resp(m, "OK", fd)
           /\ \E i \in Named(m.name) : events' = Told(devices[i].pid, Notice("open", i, {}, m))
    BY <1>8 DEF open, Status
  <2>4. \A i \in Named(m.name) : i \in Int /\ devices[i].pid \in Driver
    BY <1>1, DeviceType DEF Named
  <2>5. "OK" \in Status /\ {} \in SUBSET Flag
    BY DEF Status
  <2> HIDE DEF fd, m
  <2> QED BY <1>4, <1>5, <2>2, <2>3, <2>4, <2>5
<1>9. CASE close
  <2>1. m.op = "close" /\ HasFile(m)
    BY <1>9 DEF close, Receives
  <2>2. Opened(m).device \in Int /\ devices[Opened(m).device].pid \in Driver
    BY <1>2, <2>1, FileOfMessage
  <2>3. /\ events' = Told(devices[Opened(m).device].pid, Notice("close", Opened(m).device, {}, m))
        /\ send_resp(m, "OK", 0)
    BY <1>9 DEF close
  <2>4. "OK" \in Status /\ {} \in SUBSET Flag /\ 0 \in Int
    BY DEF Status
  <2> HIDE DEF m
  <2> QED BY <1>5, <2>2, <2>3, <2>4
<1>10. CASE NoFile
  <2>1. m.fd \in Int /\ "NOTFOUND" \in Status
    BY <1>2, <1>10, ClientPacket DEF NoFile, Status
  <2> QED BY <1>4, <1>10, <2>1 DEF NoFile
<1>11. CASE stream
  <2>1. m.op = "stream" /\ HasFile(m)
    BY <1>11 DEF stream, Receives
  <2>2. /\ Opened(m).device \in Int /\ devices[Opened(m).device].pid \in Driver
        /\ m.fd \in Int /\ m.flags \in SUBSET Flag
    BY <1>2, <2>1, FileOfMessage, ClientPacket
  <2>3. /\ \E status \in {"BAD_FLAGS", "ERROR", "OK"} : send_resp(m, status, m.fd)
        /\ \/ UNCHANGED events
           \/ events' = Told(devices[Opened(m).device].pid, Notice("stream", Opened(m).device, m.flags, m))
    BY <1>11 DEF stream
  <2>4. {"BAD_FLAGS", "ERROR", "OK"} \subseteq Status
    BY DEF Status
  <2> HIDE DEF m
  <2> QED BY <1>4, <1>5, <2>2, <2>3, <2>4
<1> QED BY <1>6, <1>7, <1>8, <1>9, <1>10, <1>11

(* A request goes into a free slot and to its driver.                       *)
LEMMA DispatchAnswers ==
    ASSUME IInv, TypeOK', Answers, dispatch_request PROVE Answers'
<1> DEFINE m == Head(messages)
           i == Opened(m).device
           y == devices[i].pid
<1>1. TypeOK /\ messages # <<>> /\ m.op = "read" /\ messages' = Tail(messages) /\ HasFile(m)
  BY DEF IInv, dispatch_request, Receives
<1>2. m \in Packet /\ messages \in Seq(Packet)
  BY <1>1, FirstMessage DEF TypeOK
<1>3. m.from \in Client /\ m.fd \in Int /\ i \in Int /\ y \in Driver /\ m.flags \in SUBSET Flag /\ m.for \in Tag
  BY <1>1, <1>2, FileOfMessage, ClientPacket
<1>4. UNCHANGED <<pulses, late, calls, dead, call>>
  BY DEF dispatch_request, libVars
<1>5. ASSUME NEW status \in Status, NEW fd \in Int, send_resp(m, status, fd), UNCHANGED <<events, state_table>>
      PROVE  Answers'
  BY <1>1, <1>4, <1>5, RepliedAlone
<1>6. \/ send_resp(m, "BAD_FLAGS", m.fd) /\ UNCHANGED <<events, state_table>>
      \/ send_resp(m, SendFailed(m), i) /\ UNCHANGED <<events, state_table>>
      \/ \E s \in Slot :
            /\ FreeSlot(s) /\ y \notin dead /\ UNCHANGED replies
            /\ state_table' = [state_table EXCEPT ![s] = [pid |-> m.from, dest |-> y]]
            /\ events' = Told(y, [op |-> "read", fd |-> i, req |-> s, flags |-> m.flags, for |-> m.for])
  BY DEF dispatch_request, stateVars
<1>7. "BAD_FLAGS" \in Status /\ SendFailed(m) \in Status
  BY DEF Status, SendFailed
<1>8. ASSUME NEW s \in Slot, FreeSlot(s), y \notin dead, UNCHANGED replies,
             state_table' = [state_table EXCEPT ![s] = [pid |-> m.from, dest |-> y]],
             events' = Told(y, [op |-> "read", fd |-> i, req |-> s, flags |-> m.flags, for |-> m.for])
      PROVE  Answers'
  <2> DEFINE x == [op |-> "read", fd |-> i, req |-> s, flags |-> m.flags, for |-> m.for]
             p == m.from
             new == [pid |-> p, dest |-> y]
  <2>1. x \in Event /\ x.req = s /\ x.for = m.for
    BY <1>3 DEF Event, Events
  <2>2. new \in Entry /\ new # Unused /\ new.pid = p /\ new.dest = y
    BY <1>3, NothingAssumption DEF Entry
  <2>3. state_table[s] = Unused
    BY <1>8 DEF FreeSlot
  <2>4. state_table'[s] = new /\ \A q \in Slot : q # s => state_table'[q] = state_table[q]
    BY <1>1, <1>8 DEF TypeOK
  <2>5. events \in [Driver -> Seq(Event)]
    BY <1>1 DEF TypeOK
  <2>6. events'[y] = Append(events[y], x) /\ \A d \in Driver : d # y => events'[d] = events[d]
    BY <1>3, <1>8, <2>5 DEF Told
  <2> HIDE DEF x, new
  <2>7. /\ \A q : OneRequest(messages, q) => OneRequest(messages', q)
        /\ \A q, f : Asked(messages', q, f) => Asked(messages, q, f)
        /\ Asked(messages, p, m.for)
        /\ OneRequest(messages, p) => \A f : ~Asked(messages', p, f)
    BY <1>1, <1>2, RequestTaken
  <2>8. p \in Process
    BY <1>3 DEF Process
  <2> HIDE DEF m, y, i
  <2>9. Carried(messages', events', pulses', state_table', late', calls')
    <3>1. OneCarrier(messages, events, pulses)
      BY DEF Answers, Carried
    <3>2. /\ OneCarrier(messages', events, pulses)
          /\ \A q \in Slot : \A d \in Driver : \A f :
                 Carries(messages', events, pulses, q, d, f) => Carries(messages, events, pulses, q, d, f)
      BY <1>1, <1>2, <3>1, MessageTaken
    <3>3. NotCarried(messages', events, pulses, s)
      <4>1. \A d \in Driver : \A f : ~Carries(messages', events, pulses, s, d, f)
        BY <2>3, <3>2 DEF Answers, Carried
      <4>2. \A k \in Nat : ~Responds(messages', k, s)
        <5>1. ASSUME NEW k \in Nat, Responds(messages', k, s) PROVE FALSE
          <6>1. messages'[k] \in Packet /\ messages'[k].op = "response"
            BY <5>1 DEF TypeOK, Responds
          <6>2. messages'[k].from \in Driver
            BY <6>1, PacketType
          <6> QED BY <4>1, <5>1, <6>2 DEF Carries
        <5> QED BY <5>1
      <4>3. \A k \in Nat : ~Acks(pulses, k, s)
        <5>1. ASSUME NEW k \in Nat, Acks(pulses, k, s) PROVE FALSE
          <6>1. pulses[k] \in Pulse
            BY <1>1, <5>1 DEF TypeOK, Acks
          <6>2. pulses[k].from \in Driver
            BY <6>1 DEF Pulse
          <6> QED BY <4>1, <5>1, <6>2 DEF Carries
        <5> QED BY <5>1
      <4>4. \A d \in Driver : \A k \in Nat : ~Reads(events, d, k, s)
        BY <4>1 DEF Carries
      <4> QED BY <4>2, <4>3, <4>4 DEF NotCarried
    <3>4. /\ OneCarrier(messages', events', pulses)
          /\ \A q \in Slot : \A d \in Driver : \A f :
                 Carries(messages', events', pulses, q, d, f) =>
                     Carries(messages', events, pulses, q, d, f) \/ (q = s /\ d = y /\ f = m.for)
      <4> DEFINE g == events'
                 n == messages'
      <4>1. g[y] = Append(events[y], x) /\ (\A d \in Driver : d # y => g[d] = events[d]) /\ y \in Driver
        BY <1>3, <2>6
      <4>2. OneCarrier(n, events, pulses) /\ NotCarried(n, events, pulses, x.req) /\ x.req \in Slot
        BY <2>1, <3>2, <3>3
      <4> HIDE DEF g, n
      <4>3. OneCarrier(n, g, pulses) /\ Adds(n, events, pulses, n, g, pulses, x.req, y, x.for)
        BY <2>1, <2>5, <4>1, <4>2, EventAdded
      <4>4. OneCarrier(n, g, pulses) /\ Adds(n, events, pulses, n, g, pulses, s, y, m.for)
        BY <2>1, <4>3
      <4> QED BY <4>4 DEF g, n, Adds
    <3>5. m.for[1] = p /\ (p \notin late => m.for = <<p, calls[p]>>)
      BY <2>7, <2>8 DEF Answers, OwnRequests, CallsInOnePlace, OnePlace
    <3>6. ASSUME NEW q \in Slot, NEW d \in Driver, NEW f, Carries(messages', events', pulses, q, d, f)
          PROVE  /\ state_table'[q] # Unused /\ state_table'[q].pid = f[1] /\ state_table'[q].dest = d
                 /\ f[1] \notin late => f = <<f[1], calls[f[1]]>>
      <4>1. CASE q = s /\ d = y /\ f = m.for
        BY <2>2, <2>4, <3>5, <4>1
      <4>2. CASE Carries(messages', events, pulses, q, d, f)
        <5>1. /\ state_table[q] # Unused /\ state_table[q].pid = f[1] /\ state_table[q].dest = d
              /\ f[1] \notin late => f = <<f[1], calls[f[1]]>>
          BY <3>2, <4>2 DEF Answers, Carried
        <5> QED BY <2>3, <2>4, <5>1
      <4> QED BY <3>4, <3>6, <4>1, <4>2
    <3> QED BY <1>4, <3>4, <3>6 DEF Carried
  <2>10. OwnRequests'
    BY <2>7 DEF Answers, OwnRequests
  <2>11. PulsesAnswer'
    BY <1>4 DEF Answers, PulsesAnswer
  <2>12. \A q \in Process, r \in Slot : Holds(state_table', r, q) =>
            (Holds(state_table, r, q) /\ r # s) \/ (r = s /\ q = p)
    BY <2>2, <2>3, <2>4 DEF Holds
  <2>13. ASSUME NEW q \in Process, q \notin late
         PROVE  OnePlace(messages', state_table', replies[q], q, calls[q])
    <3>1. OnePlace(messages, state_table, replies[q], q, calls[q])
      BY <2>13 DEF Answers, CallsInOnePlace
    <3>2. CASE q # p
      BY <2>7, <2>12, <3>1, <3>2 DEF OnePlace
    <3>3. CASE q = p
      <4>1. Asked(messages, q, m.for) /\ \A f : ~Asked(messages', q, f)
        BY <2>7, <3>1, <3>3 DEF OnePlace
      <4>2. replies[q] = <<>> /\ \A r \in Slot : ~Holds(state_table, r, q)
        BY <3>1, <4>1 DEF OnePlace
      <4>3. \A r \in Slot : Holds(state_table', r, q) => r = s
        BY <2>12, <4>2
      <4> QED BY <2>7, <3>1, <4>1, <4>2, <4>3 DEF OnePlace
    <3> QED BY <3>2, <3>3
  <2>14. CallsInOnePlace'
    BY <1>4, <1>8, <2>13 DEF CallsInOnePlace
  <2>15. IdleInNoPlace'
    <3> SUFFICES ASSUME NEW q \in Process, q \notin late \cup dead, call[q] = Idle
                 PROVE  NoPlace(messages', state_table', replies[q], q)
      BY <1>4, <1>8 DEF IdleInNoPlace
    <3>1. NoPlace(messages, state_table, replies[q], q)
      BY DEF Answers, IdleInNoPlace
    <3>2. q # p
      BY <2>7, <3>1 DEF NoPlace
    <3> QED BY <2>7, <2>12, <3>1, <3>2 DEF NoPlace
  <2> QED BY <2>9, <2>10, <2>11, <2>14, <2>15 DEF Answers
<1> QED BY <1>3, <1>5, <1>6, <1>7, <1>8

---------------------------------------------------------------------------
(* A driver's answer is taken from its queue: it is passed on to the process *)
(* that holds the slot, and the slot is free.                               *)
LEMMA PassedOn ==
    ASSUME TypeOK, TypeOK', Answers, NEW s \in Slot, NEW y \in Driver, NEW z \in Tag, NEW status \in Status,
           Carries(messages, events, pulses, s, y, z), PassOn(s, y, z, status),
           OneCarrier(messages', events', pulses'), NotCarried(messages', events', pulses', s),
           \A q \in Slot : \A d \in Driver : \A f :
               Carries(messages', events', pulses', q, d, f) => Carries(messages, events, pulses, q, d, f),
           \A q : OneRequest(messages, q) => OneRequest(messages', q),
           \A q, f : Asked(messages', q, f) => Asked(messages, q, f),
           PulsesAnswer', UNCHANGED <<late, calls, dead, call>>
    PROVE  Answers'
<1> DEFINE p == z[1]
           a == [for |-> z, status |-> status, fd |-> -1]
<1>1. /\ state_table[s] # Unused /\ state_table[s].pid = p /\ state_table[s].dest = y
      /\ p \notin late => z = <<p, calls[p]>>
  BY DEF Answers, Carried
<1>2. state_table' = Removed(s) /\ replies' = Answered(replies, p, a)
  BY <1>1 DEF PassOn
<1>3. p \in Process /\ a.for = z /\ a \in Reply
  BY DEF Tag, Reply
<1> HIDE DEF a, p
<1>4. state_table'[s] = Unused /\ \A q \in Slot : q # s => state_table'[q] = state_table[q]
  BY <1>2 DEF TypeOK, Removed
<1>5. /\ replies \in [Process -> Seq(Reply)]
      /\ \A q \in Process : q # p => replies'[q] = replies[q]
      /\ call[p] = Idle => replies'[p] = replies[p]
      /\ call[p] # Idle => replies'[p] = Append(replies[p], a)
  BY <1>2, <1>3 DEF TypeOK, Answered
<1>6. Carried(messages', events', pulses', state_table', late', calls')
  <2>1. ASSUME NEW q \in Slot, NEW d \in Driver, NEW f, Carries(messages', events', pulses', q, d, f)
        PROVE  /\ state_table'[q] # Unused /\ state_table'[q].pid = f[1] /\ state_table'[q].dest = d
               /\ f[1] \notin late' => f = <<f[1], calls'[f[1]]>>
    <3>1. q # s
      BY <2>1 DEF NotCarried, Carries
    <3>2. /\ state_table[q] # Unused /\ state_table[q].pid = f[1] /\ state_table[q].dest = d
          /\ f[1] \notin late => f = <<f[1], calls[f[1]]>>
      BY <2>1 DEF Answers, Carried
    <3> QED BY <1>4, <3>1, <3>2
  <2> QED BY <2>1 DEF Carried
<1>7. OwnRequests'
  BY DEF Answers, OwnRequests
<1>8. /\ \A q \in Process, r \in Slot : Holds(state_table', r, q) => Holds(state_table, r, q) /\ r # s
      /\ Holds(state_table, s, p)
  BY <1>1, <1>4 DEF Holds
<1>9. ASSUME NEW q \in Process, q \notin late
      PROVE  OnePlace(messages', state_table', replies'[q], q, calls[q])
  <2>1. OnePlace(messages, state_table, replies[q], q, calls[q])
    BY <1>9 DEF Answers, CallsInOnePlace
  <2>2. CASE q # p \/ call[p] = Idle
    <3>1. replies'[q] = replies[q]
      BY <1>5, <2>2
    <3> QED BY <1>8, <2>1, <3>1 DEF OnePlace
  <2>3. CASE q = p /\ call[p] # Idle
    <3>1. /\ replies[q] = <<>> /\ (\A f : ~Asked(messages', q, f))
          /\ \A r \in Slot : ~Holds(state_table', r, q)
      BY <1>8, <2>1, <2>3 DEF OnePlace
    <3> DEFINE r == replies'[q]
    <3>2. r = <<a>> /\ a.for = <<q, calls[q]>>
      BY <1>1, <1>3, <1>5, <1>9, <2>3, <3>1
    <3>3. Len(<<a>>) = 1 /\ DOMAIN <<a>> = {1} /\ <<a>>[1] = a
      OBVIOUS
    <3>4. Len(r) <= 1 /\ \A k \in DOMAIN r : r[k].for = <<q, calls[q]>>
      <4> HIDE DEF r
      <4> QED BY <3>2, <3>3
    <3> QED BY <2>1, <3>1, <3>4 DEF OnePlace
  <2> QED BY <2>2, <2>3
<1>10. CallsInOnePlace'
  BY <1>9 DEF CallsInOnePlace
<1>11. IdleInNoPlace'
  <2> SUFFICES ASSUME NEW q \in Process, q \notin late \cup dead, call[q] = Idle
               PROVE  NoPlace(messages', state_table', replies'[q], q)
    BY DEF IdleInNoPlace
  <2>1. NoPlace(messages, state_table, replies[q], q)
    BY DEF Answers, IdleInNoPlace
  <2>2. replies'[q] = replies[q]
    BY <1>5
  <2> QED BY <1>8, <2>1, <2>2 DEF NoPlace
<1> QED BY <1>6, <1>7, <1>10, <1>11 DEF Answers

LEMMA ResponseAnswers == ASSUME IInv, TypeOK', Answers, process_response PROVE Answers'
<1> DEFINE m == Head(messages)
<1>1. TypeOK /\ messages # <<>> /\ m.op = "response" /\ messages' = Tail(messages)
  BY DEF IInv, process_response, Receives
<1>2. m \in Packet /\ messages \in Seq(Packet)
  BY <1>1, FirstMessage DEF TypeOK
<1>3. m.from \in Driver /\ m.for \in Tag /\ "OK" \in Status
  BY <1>1, <1>2, DriverPacket DEF Status
<1>4. PassOn(m.req, m.from, m.for, "OK") /\ UNCHANGED <<events, pulses, late, calls, dead, call>>
  BY DEF process_response, libVars
<1>5. OneCarrier(messages, events, pulses)
  BY DEF Answers, Carried
<1>6. /\ OneCarrier(messages', events', pulses')
      /\ \A s \in Slot : \A d \in Driver : \A f :
             Carries(messages', events', pulses', s, d, f) => Carries(messages, events, pulses, s, d, f)
      /\ m.req \in Slot => /\ NotCarried(messages', events', pulses', m.req)
                           /\ Carries(messages, events, pulses, m.req, m.from, m.for)
  BY <1>1, <1>2, <1>4, <1>5, MessageTaken
<1>7. /\ \A q : OneRequest(messages, q) => OneRequest(messages', q)
      /\ \A q, f : Asked(messages', q, f) => Asked(messages, q, f)
  BY <1>1, <1>2, RequestTaken
<1>8. PulsesAnswer'
  BY <1>4 DEF Answers, PulsesAnswer
<1> HIDE DEF m
<1>9. CASE m.req \in Slot
  BY <1>1, <1>3, <1>4, <1>6, <1>7, <1>8, <1>9, PassedOn
<1>10. CASE m.req \notin Slot
  <2>1. UNCHANGED <<state_table, replies>>
    BY <1>4, <1>10 DEF PassOn
  <2>2. Carried(messages', events', pulses', state_table', late', calls')
    BY <1>4, <1>6, <2>1 DEF Answers, Carried
  <2>3. OwnRequests'
    BY <1>7 DEF Answers, OwnRequests
  <2>4. CallsInOnePlace'
    <3>1. ASSUME NEW q \in Process, q \notin late
          PROVE  OnePlace(messages', state_table, replies[q], q, calls[q])
      <4>1. OnePlace(messages, state_table, replies[q], q, calls[q])
        BY <3>1 DEF Answers, CallsInOnePlace
      <4> QED BY <1>7, <4>1 DEF OnePlace
    <3> QED BY <1>4, <2>1, <3>1 DEF CallsInOnePlace
  <2>5. IdleInNoPlace'
    <3>1. ASSUME NEW q \in Process, q \notin late \cup dead, call[q] = Idle
          PROVE  NoPlace(messages', state_table, replies[q], q)
      <4>1. NoPlace(messages, state_table, replies[q], q)
        BY <3>1 DEF Answers, IdleInNoPlace
      <4> QED BY <1>7, <4>1 DEF NoPlace
    <3> QED BY <1>4, <2>1, <3>1 DEF IdleInNoPlace
  <2> QED BY <1>8, <2>2, <2>3, <2>4, <2>5 DEF Answers
<1> QED BY <1>9, <1>10

LEMMA ResponsePulseAnswers == ASSUME IInv, TypeOK', Answers, process_response_pulse PROVE Answers'
<1> DEFINE u == Head(pulses)
<1>1. TypeOK /\ pulses # <<>> /\ pulses' = Tail(pulses) /\ pulses \in Seq(Pulse)
  BY DEF IInv, process_response_pulse, TypeOK
<1>2. /\ u \in Pulse /\ u = pulses[1] /\ 1 \in DOMAIN pulses
      /\ \A k \in DOMAIN pulses' : k + 1 \in DOMAIN pulses /\ pulses'[k] = pulses[k + 1]
  BY <1>1, TailPositions
<1>3. u.from \in Driver /\ u.for \in Tag /\ u.status \in Status
  BY <1>2 DEF Pulse
<1>4. u.req \in Slot
  BY <1>2 DEF Answers, PulsesAnswer
<1>5. /\ PassOn(u.req, u.from, u.for, u.status)
      /\ UNCHANGED <<events, messages, late, calls, dead, call>>
  <2>1. u.req # Garbage
    BY <1>4, MarkerAssumption
  <2> QED BY <2>1 DEF process_response_pulse, libVars
<1>6. OneCarrier(messages, events, pulses)
  BY DEF Answers, Carried
<1>7. /\ OneCarrier(messages, events, pulses')
      /\ \A s \in Slot : \A d \in Driver : \A f :
             Carries(messages, events, pulses', s, d, f) => Carries(messages, events, pulses, s, d, f)
      /\ NotCarried(messages, events, pulses', u.req)
      /\ Carries(messages, events, pulses, u.req, u.from, u.for)
  BY <1>1, <1>4, <1>6, PulseTaken
<1>8. PulsesAnswer'
  BY <1>2 DEF Answers, PulsesAnswer
<1> HIDE DEF u
<1>9. /\ OneCarrier(messages', events', pulses') /\ NotCarried(messages', events', pulses', u.req)
      /\ \A s \in Slot : \A d \in Driver : \A f :
             Carries(messages', events', pulses', s, d, f) => Carries(messages, events, pulses, s, d, f)
      /\ \A q : OneRequest(messages, q) => OneRequest(messages', q)
      /\ \A q, f : Asked(messages', q, f) => Asked(messages, q, f)
  BY <1>5, <1>7
<1> QED BY <1>1, <1>3, <1>4, <1>5, <1>7, <1>8, <1>9, PassedOn

---------------------------------------------------------------------------
(* The drivers: what was carried by a read event is carried by the answer.  *)
LEMMA CarriersMoved ==
    ASSUME TypeOK, TypeOK', Answers, OneCarrier(messages', events', pulses'), PulsesAnswer',
           \A q \in Slot : \A d \in Driver : \A f :
               Carries(messages', events', pulses', q, d, f) => Carries(messages, events, pulses, q, d, f),
           \A q : OneRequest(messages, q) => OneRequest(messages', q),
           \A q, f : Asked(messages', q, f) => Asked(messages, q, f),
           UNCHANGED <<late, calls, dead, call, state_table, replies>>
    PROVE  Answers'
<1>1. Carried(messages', events', pulses', state_table', late', calls')
  BY DEF Answers, Carried
<1>2. OwnRequests'
  BY DEF Answers, OwnRequests
<1>3. CallsInOnePlace'
  <2>1. ASSUME NEW q \in Process, q \notin late
        PROVE  OnePlace(messages', state_table, replies[q], q, calls[q])
    <3>1. OnePlace(messages, state_table, replies[q], q, calls[q])
      BY <2>1 DEF Answers, CallsInOnePlace
    <3> QED BY <3>1 DEF OnePlace
  <2> QED BY <2>1 DEF CallsInOnePlace
<1>4. IdleInNoPlace'
  <2>1. ASSUME NEW q \in Process, q \notin late \cup dead, call[q] = Idle
        PROVE  NoPlace(messages', state_table, replies[q], q)
    <3>1. NoPlace(messages, state_table, replies[q], q)
      BY <2>1 DEF Answers, IdleInNoPlace
    <3> QED BY <3>1 DEF NoPlace
  <2> QED BY <2>1 DEF IdleInNoPlace
<1> QED BY <1>1, <1>2, <1>3, <1>4 DEF Answers

LEMMA DriverLoopAnswers ==
    ASSUME IInv, TypeOK', Answers, NEW y \in Driver, DriverLoop(y), ~stray'
    PROVE  Answers'
<1> DEFINE e == Current(y)
<1>1. TypeOK /\ TakesEvent(y)
  BY DEF IInv, DriverLoop, UnknownDevice, devfs_loopStream, OpenOrClose, HookMissing, devfs_loopRead, KnowsEvent
<1>2. /\ events \in [Driver -> Seq(Event)] /\ events[y] # <<>> /\ events[y] \in Seq(Event)
      /\ messages \in Seq(Packet) /\ pulses \in Seq(Pulse)
  BY <1>1 DEF TypeOK, TakesEvent
<1>3. events'[y] = Tail(events[y]) /\ \A d \in Driver : d # y => events'[d] = events[d]
  BY <1>1, <1>2 DEF TakesEvent
<1>4. e \in Event /\ e = Head(events[y])
  BY <1>2, TailPositions DEF Current
<1>5. (e.op = "read" => e.req \in Slot) /\ e.for \in Tag
  BY <1>4 DEF Event, Events
<1>6. UNCHANGED <<late, calls, dead, call, state_table, replies>>
  BY DEF DriverLoop, UnknownDevice, devfs_loopStream, OpenOrClose, HookMissing, devfs_loopRead, libVars, stateVars
<1>7. OneCarrier(messages, events, pulses)
  BY DEF Answers, Carried
<1> DEFINE g == events'
<1>8. g[y] = Tail(events[y]) /\ \A d \in Driver : d # y => g[d] = events[d]
  BY <1>3
<1> HIDE DEF g
<1>9. /\ OneCarrier(messages, g, pulses)
      /\ \A s \in Slot : \A d \in Driver : \A f :
             Carries(messages, g, pulses, s, d, f) => Carries(messages, events, pulses, s, d, f)
      /\ e.req \in Slot =>
             /\ NotCarried(messages, g, pulses, e.req)
             /\ Carries(messages, events, pulses, e.req, y, e.for)
  BY <1>2, <1>4, <1>7, <1>8, EventTaken
<1>10. PulsesAnswer
  BY DEF Answers
<1>11. CASE UNCHANGED <<messages, pulses>>
  <2>1. /\ OneCarrier(messages', events', pulses') /\ PulsesAnswer'
        /\ \A s \in Slot : \A d \in Driver : \A f :
               Carries(messages', events', pulses', s, d, f) => Carries(messages, events, pulses, s, d, f)
        /\ \A q : OneRequest(messages, q) => OneRequest(messages', q)
        /\ \A q, f : Asked(messages', q, f) => Asked(messages, q, f)
    BY <1>9, <1>10, <1>11 DEF g, PulsesAnswer
  <2> QED BY <1>1, <1>6, <2>1, CarriersMoved
<1>12. ASSUME NEW status \in Status, Ack(y, e, status), e.op = "read", UNCHANGED messages
       PROVE  Answers'
  <2> DEFINE x == [from |-> y, req |-> e.req, for |-> e.for, status |-> status]
  <2>1. x \in Pulse /\ pulses' = Append(pulses, x) /\ x.req = e.req /\ x.from = y /\ x.for = e.for /\ x.req \in Slot
    BY <1>5, <1>12 DEF Ack, Pulse
  <2> HIDE DEF x, e
  <2>2. OneCarrier(messages, g, pulses') /\ Adds(messages, g, pulses, messages, g, pulses', x.req, x.from, x.for)
    <3>1. NotCarried(messages, g, pulses, x.req)
      BY <1>9, <2>1
    <3> QED BY <1>2, <1>9, <2>1, <3>1, PulseAdded
  <2>3. \A s \in Slot : \A d \in Driver : \A f :
            Carries(messages, g, pulses', s, d, f) => Carries(messages, events, pulses, s, d, f)
    BY <1>9, <2>1, <2>2 DEF Adds
  <2>4. PulsesAnswer'
    <3>1. \A k \in DOMAIN pulses' : (k \in DOMAIN pulses /\ pulses'[k] = pulses[k]) \/ pulses'[k] = x
      BY <1>2, <2>1, AppendPositions
    <3> QED BY <1>10, <2>1, <3>1 DEF PulsesAnswer
  <2>5. /\ OneCarrier(messages', events', pulses')
        /\ \A s \in Slot : \A d \in Driver : \A f :
               Carries(messages', events', pulses', s, d, f) => Carries(messages, events, pulses, s, d, f)
        /\ \A q : OneRequest(messages, q) => OneRequest(messages', q)
        /\ \A q, f : Asked(messages', q, f) => Asked(messages, q, f)
    BY <1>12, <2>2, <2>3 DEF g
  <2> QED BY <1>1, <1>6, <2>4, <2>5, CarriersMoved
<1>13. ASSUME messages' = Append(messages, Message(y, "response", "", -1, {}, e.req, e.for)),
              e.op = "read", UNCHANGED pulses
       PROVE  Answers'
  <2> DEFINE x == Message(y, "response", "", -1, {}, e.req, e.for)
  <2>1. /\ x \in Packet /\ messages' = Append(messages, x) /\ x.op = "response"
        /\ x.req = e.req /\ x.from = y /\ x.for = e.for /\ x.req \in Slot
    <3>1. e.req \in Slot /\ e.for \in Tag
      BY <1>5, <1>13
    <3>2. messages' = Append(messages, x)
      BY <1>13
    <3> HIDE DEF e
    <3>3. x \in Packet
      BY <3>1 DEF Message, Packet, Packets
    <3>4. x.op = "response" /\ x.req = e.req /\ x.from = y /\ x.for = e.for
      BY DEF Message
    <3> QED BY <3>1, <3>2, <3>3, <3>4
  <2> HIDE DEF x, e
  <2>2. OneCarrier(messages', g, pulses) /\ Adds(messages, g, pulses, messages', g, pulses, x.req, x.from, x.for)
    <3>1. NotCarried(messages, g, pulses, x.req)
      BY <1>9, <2>1
    <3> QED BY <1>2, <1>9, <2>1, <3>1, ResponseAdded
  <2>3. \A s \in Slot : \A d \in Driver : \A f :
            Carries(messages', g, pulses, s, d, f) => Carries(messages, events, pulses, s, d, f)
    BY <1>9, <2>1, <2>2 DEF Adds
  <2>4. PulsesAnswer'
    BY <1>10, <1>13 DEF PulsesAnswer
  <2>5. /\ \A q : OneRequest(messages, q) => OneRequest(messages', q)
        /\ \A q, f : Asked(messages', q, f) => Asked(messages, q, f)
    BY <1>2, <2>1, MessageAdded
  <2>6. /\ OneCarrier(messages', events', pulses')
        /\ \A s \in Slot : \A d \in Driver : \A f :
               Carries(messages', events', pulses', s, d, f) => Carries(messages, events, pulses, s, d, f)
    BY <1>13, <2>2, <2>3 DEF g
  <2> QED BY <1>1, <1>6, <2>4, <2>5, <2>6, CarriersMoved
<1>14. CASE UnknownDevice(y)
  <2>1. Ack(y, e, "BAD_DEVICE") /\ e.op = "read" /\ UNCHANGED messages
    BY <1>14 DEF UnknownDevice
  <2> QED BY <1>12, <2>1 DEF Status
<1>15. CASE devfs_loopStream(y) \/ OpenOrClose(y)
  BY <1>11, <1>15 DEF devfs_loopStream, OpenOrClose
<1>16. CASE HookMissing(y)
  BY <1>16 DEF HookMissing
<1>17. CASE devfs_loopRead(y)
  <2>1. e.op = "read"
    BY <1>17 DEF devfs_loopRead, KnowsEvent
  <2>2. \/ /\ messages' = Append(messages, Message(y, "response", "", -1, {}, e.req, e.for))
           /\ UNCHANGED pulses
        \/ Ack(y, e, "ERROR") /\ UNCHANGED messages
    BY <1>17 DEF devfs_loopRead
  <2>3. "ERROR" \in Status
    BY DEF Status
  <2> QED BY <1>12, <1>13, <2>1, <2>2, <2>3
<1> QED BY <1>14, <1>15, <1>16, <1>17 DEF DriverLoop

---------------------------------------------------------------------------
(* The callers.  A call begins when nothing of the process is on the way.   *)
LEMMA SendAnswers ==
    ASSUME TypeOK, TypeOK', Answers, NEW p \in Process, NEW op, NEW name, NEW fd, NEW flags,
           Send(p, op, name, fd, flags), op # "response",
           [op |-> op, fd |-> fd, on |-> flags # {}] \in Call,
           Message(p, op, name, fd, flags, Garbage, <<p, calls[p] + 1>>) \in Packet,
           UNCHANGED <<late, replies, events, pulses, state_table, dead>>
    PROVE  Answers'
<1> DEFINE z == <<p, calls[p] + 1>>
           x == Message(p, op, name, fd, flags, Garbage, z)
<1>1. /\ x \in Packet /\ messages' = Append(messages, x) /\ messages \in Seq(Packet)
      /\ x.op # "response" /\ x.from = p /\ x.for = z
  <2>1. x.op = op /\ x.from = p /\ x.for = z
    BY DEF Message
  <2> QED BY <2>1 DEF Send, TypeOK
<1>2. z[1] = p
  OBVIOUS
<1>3. /\ call[p] = Idle /\ p \notin dead
      /\ calls'[p] = calls[p] + 1 /\ \A q \in Process : q # p => calls'[q] = calls[q]
      /\ call'[p] # Idle /\ \A q \in Process : q # p => call'[q] = call[q]
  <2>1. call'[p] \in Call
    BY DEF Send, TypeOK
  <2> QED BY <2>1, NothingAssumption DEF Send, TypeOK
<1>4. p \notin late => NoPlace(messages, state_table, replies[p], p)
  BY <1>3 DEF Answers, IdleInNoPlace
<1>0. z = <<p, calls'[p]>>
  BY <1>3
<1> HIDE DEF x, z
<1>5. /\ \A q : OneRequest(messages, q) /\ (q # p \/ \A f : ~Asked(messages, q, f)) => OneRequest(messages', q)
      /\ \A q, f : Asked(messages', q, f) => Asked(messages, q, f) \/ (q = p /\ f = z)
  BY <1>1, MessageAdded
<1>6. Carried(messages', events', pulses', state_table', late', calls')
  <2>1. OneCarrier(messages, events, pulses)
    BY DEF Answers, Carried
  <2>2. /\ OneCarrier(messages', events, pulses)
        /\ \A s \in Slot : \A d \in Driver : \A f :
               Carries(messages', events, pulses, s, d, f) => Carries(messages, events, pulses, s, d, f)
    BY <1>1, <2>1, RequestAdded
  <2>3. ASSUME NEW s \in Slot, NEW d \in Driver, NEW f, Carries(messages, events, pulses, s, d, f)
        PROVE  /\ state_table[s] # Unused /\ state_table[s].pid = f[1] /\ state_table[s].dest = d
               /\ f[1] \notin late => f = <<f[1], calls'[f[1]]>>
    <3>1. /\ state_table[s] # Unused /\ state_table[s].pid = f[1] /\ state_table[s].dest = d
          /\ f[1] \notin late => f = <<f[1], calls[f[1]]>>
      BY <2>3 DEF Answers, Carried
    <3>2. f[1] \notin late => f[1] # p
      BY <1>4, <3>1 DEF NoPlace, Holds
    <3>3. f[1] \in Process
      BY <3>1 DEF TypeOK, Entry, Process
    <3> QED BY <1>3, <3>1, <3>2, <3>3
  <2> QED BY <2>2, <2>3 DEF Carried
<1>7. OwnRequests'
  BY <1>2, <1>5 DEF Answers, OwnRequests
<1>8. PulsesAnswer'
  BY DEF Answers, PulsesAnswer
<1>9. ASSUME NEW q \in Process, q \notin late
      PROVE  OnePlace(messages', state_table, replies[q], q, calls'[q])
  <2>1. OnePlace(messages, state_table, replies[q], q, calls[q])
    BY <1>9 DEF Answers, CallsInOnePlace
  <2>2. CASE q # p
    <3>1. calls'[q] = calls[q]
      BY <1>3, <2>2
    <3>2. \A f : Asked(messages', q, f) => Asked(messages, q, f)
      BY <1>5, <2>2
    <3>3. OneRequest(messages', q)
      BY <1>5, <2>1, <2>2 DEF OnePlace
    <3> QED BY <2>1, <3>1, <3>2, <3>3 DEF OnePlace
  <2>3. CASE q = p
    <3>1. (\A f : ~Asked(messages, q, f)) /\ (\A s \in Slot : ~Holds(state_table, s, q)) /\ replies[q] = <<>>
      BY <1>4, <1>9, <2>3 DEF NoPlace
    <3>2. OneRequest(messages', q)
      BY <1>5, <2>1, <3>1 DEF OnePlace
    <3>3. \A f : Asked(messages', q, f) => f = <<q, calls'[q]>>
      BY <1>0, <1>5, <2>3, <3>1
    <3>4. Len(<<>>) = 0 /\ DOMAIN <<>> = {}
      OBVIOUS
    <3> QED BY <3>1, <3>2, <3>3, <3>4 DEF OnePlace
  <2> QED BY <2>2, <2>3
<1>10. CallsInOnePlace'
  BY <1>9 DEF CallsInOnePlace
<1>11. IdleInNoPlace'
  <2> SUFFICES ASSUME NEW q \in Process, q \notin late \cup dead, call'[q] = Idle
               PROVE  NoPlace(messages', state_table, replies[q], q)
    BY DEF IdleInNoPlace
  <2>1. q # p /\ call[q] = Idle
    BY <1>3
  <2>2. NoPlace(messages, state_table, replies[q], q)
    BY <2>1 DEF Answers, IdleInNoPlace
  <2> QED BY <1>5, <2>1, <2>2 DEF NoPlace
<1> QED BY <1>6, <1>7, <1>8, <1>10, <1>11 DEF Answers

(* A call ends, by its answer, by its timer or with its process.            *)
LEMMA EndAnswers ==
    ASSUME TypeOK, TypeOK', Answers, NEW p \in Process,
           \A q \in Process : q # p => call'[q] = call[q] /\ replies'[q] = replies[q],
           late \subseteq late', dead \subseteq dead',
           replies'[p] = <<>>,
           p \in late' \/ p \in dead' \/ replies[p] # <<>> \/ call'[p] # Idle,
           UNCHANGED <<messages, events, pulses, state_table, calls>>
    PROVE  Answers'
<1>1. Carried(messages', events', pulses', state_table', late', calls')
  BY DEF Answers, Carried
<1>2. OwnRequests' /\ PulsesAnswer'
  BY DEF Answers, OwnRequests, PulsesAnswer
<1>3. ASSUME NEW q \in Process, q \notin late'
      PROVE  OnePlace(messages, state_table, replies'[q], q, calls[q])
  <2>1. OnePlace(messages, state_table, replies[q], q, calls[q])
    BY <1>3 DEF Answers, CallsInOnePlace
  <2>2. CASE q # p
    BY <2>1, <2>2
  <2>3. CASE q = p
    <3>1. Len(<<>>) <= 1 /\ DOMAIN <<>> = {}
      OBVIOUS
    <3> QED BY <2>1, <2>3, <3>1 DEF OnePlace
  <2> QED BY <2>2, <2>3
<1>4. CallsInOnePlace'
  BY <1>3 DEF CallsInOnePlace
<1>5. IdleInNoPlace'
  <2> SUFFICES ASSUME NEW q \in Process, q \notin late' \cup dead', call'[q] = Idle
               PROVE  NoPlace(messages, state_table, replies'[q], q)
    BY DEF IdleInNoPlace
  <2>1. CASE q # p
    <3>1. NoPlace(messages, state_table, replies[q], q)
      BY <2>1 DEF Answers, IdleInNoPlace
    <3> QED BY <2>1, <3>1
  <2>2. CASE q = p
    <3>1. replies[q] # <<>> /\ replies'[q] = <<>>
      BY <2>2
    <3>2. OnePlace(messages, state_table, replies[q], q, calls[q])
      BY DEF Answers, CallsInOnePlace
    <3> QED BY <3>1, <3>2 DEF OnePlace, NoPlace
  <2> QED BY <2>1, <2>2
<1> QED BY <1>1, <1>2, <1>4, <1>5 DEF Answers

LEMMA SameAnswers ==
    ASSUME Answers,
           UNCHANGED <<messages, events, pulses, state_table, calls, call, replies, late, dead>>
    PROVE  Answers'
<1>1. Carried(messages', events', pulses', state_table', late', calls')
  BY DEF Answers
<1>2. OwnRequests' /\ PulsesAnswer' /\ CallsInOnePlace' /\ IdleInNoPlace'
  BY DEF Answers, OwnRequests, PulsesAnswer, CallsInOnePlace, IdleInNoPlace
<1> QED BY <1>1, <1>2 DEF Answers

---------------------------------------------------------------------------
(* What all calls have in common                                           *)
Sends(p) ==
    \E op, name : \E fd \in Int, flags \in SUBSET Flag :
        /\ \/ p \in Client /\ op \in {"open", "close", "read", "stream"}
           \/ p \in Driver /\ op \in {"register", "deregister"}
        /\ name \in Name \cup {""} /\ Send(p, op, name, fd, flags) /\ Sent

LEMMA DriverSends ==
    ASSUME TypeOK, NEW d \in Driver, devfs_register(d) \/ devfs_deregister(d) PROVE Sends(d)
<1>0. Sent
  BY DEF devfs_register, devfs_deregister
<1>1. Sent /\ {} \in SUBSET Flag /\ -1 \in Int
  BY <1>0
<1>2. CASE devfs_register(d)
  <2>1. PICK n \in Name, f \in DeviceFlags : Send(d, "register", n, -1, f)
    BY <1>2 DEF devfs_register
  <2>2. f \in SUBSET Flag
    BY DEF Flag
  <2> QED BY <1>1, <2>1, <2>2 DEF Sends
<1>3. CASE devfs_deregister(d)
  <2>1. PICK i \in DOMAIN list[d] : Send(d, "deregister", "", i, {})
    BY <1>3 DEF devfs_deregister
  <2>2. list[d] \in Partial(Int, BOOLEAN)
    BY DEF TypeOK
  <2>3. i \in Int
    BY <2>2, PartialFunctions
  <2> QED BY <1>1, <2>1, <2>3 DEF Sends
<1> QED BY <1>2, <1>3

LEMMA ClientSends == ASSUME TypeOK, NEW c \in Client, ClientCall(c) PROVE Sends(c)
<1>0. Sent
  BY DEF ClientCall, devfs_open, devfs_close, devfs_read, devfs_set_streaming
<1>1. Sent /\ {} \in SUBSET Flag /\ {"on"} \in SUBSET Flag /\ -1 \in Int /\ known[c] \subseteq Int
  BY <1>0 DEF TypeOK, Flag
<1>2. CASE devfs_open(c)
  <2>1. PICK n \in Name, f \in FileFlags : Send(c, "open", n, -1, f)
    BY <1>2 DEF devfs_open
  <2>2. f \in SUBSET Flag
    BY DEF Flag
  <2> QED BY <1>1, <2>1, <2>2 DEF Sends
<1>3. CASE devfs_close(c)
  <2>1. PICK fd \in known[c] : Send(c, "close", "", fd, {})
    BY <1>3 DEF devfs_close
  <2> QED BY <1>1, <2>1 DEF Sends
<1>4. CASE devfs_read(c)
  <2>1. PICK fd \in known[c] : Send(c, "read", "", fd, {})
    BY <1>4 DEF devfs_read
  <2> QED BY <1>1, <2>1 DEF Sends
<1>5. CASE devfs_set_streaming(c)
  <2>1. PICK fd \in known[c] : Send(c, "stream", "", fd, IF fd \in listening[c] THEN {} ELSE {"on"})
    BY <1>5 DEF devfs_set_streaming
  <2>2. PICK f \in SUBSET Flag : Send(c, "stream", "", fd, f)
    BY <1>1, <2>1
  <2> QED BY <1>1, <2>2 DEF Sends
<1> QED BY <1>2, <1>3, <1>4, <1>5 DEF ClientCall

LEMMA CallAnswers == ASSUME TypeOK, TypeOK', Answers, NEW p \in Process, Sends(p) PROVE Answers'
<1>0. PICK op, name : \E fd \in Int, flags \in SUBSET Flag :
          /\ \/ p \in Client /\ op \in {"open", "close", "read", "stream"}
             \/ p \in Driver /\ op \in {"register", "deregister"}
          /\ name \in Name \cup {""} /\ Send(p, op, name, fd, flags) /\ Sent
  BY DEF Sends
<1>1. PICK fd \in Int, flags \in SUBSET Flag :
          /\ \/ p \in Client /\ op \in {"open", "close", "read", "stream"}
             \/ p \in Driver /\ op \in {"register", "deregister"}
          /\ name \in Name \cup {""} /\ Send(p, op, name, fd, flags) /\ Sent
  BY <1>0
<1> DEFINE r == [op |-> op, fd |-> fd, on |-> flags # {}]
           z == <<p, calls[p] + 1>>
           m == Message(p, op, name, fd, flags, Garbage, z)
<1>2. r \in Call
  <2>1. op \in {"register", "deregister", "open", "close", "read", "stream"} /\ (flags # {}) \in BOOLEAN
    BY <1>1
  <2> QED BY <2>1, Zenon DEF Call
<1>3. z \in Tag
  <2>1. calls[p] \in Nat
    BY DEF TypeOK
  <2> QED BY <2>1 DEF Tag
<1> HIDE DEF z
<1>4. m \in Packet /\ op # "response"
  BY <1>1, <1>3 DEF Message, Packet, Packets
<1>5. UNCHANGED <<late, replies, events, pulses, state_table, dead>>
  BY <1>1 DEF Sent, stateVars
<1> HIDE DEF r, m
<1> QED BY <1>1, <1>2, <1>4, <1>5, SendAnswers DEF r, m, z

LEMMA ReturnAnswers ==
    ASSUME TypeOK, TypeOK', Answers, NEW p \in Process, Return(p) \/ TimeOut(p) \/ SleepOn(p) \/ Die(p)
    PROVE  Answers'
<1>1. call \in [Process -> Call \cup {Idle}] /\ replies \in [Process -> Seq(Reply)]
  BY DEF TypeOK
<1>2. CASE Return(p)
  <2>1. /\ call' = [call EXCEPT ![p] = Idle] /\ replies' = [replies EXCEPT ![p] = <<>>] /\ replies[p] # <<>>
        /\ UNCHANGED <<messages, events, pulses, state_table, calls, late, dead>>
    BY <1>2 DEF Return, stateVars
  <2>2. /\ \A q \in Process : q # p => call'[q] = call[q] /\ replies'[q] = replies[q]
        /\ replies'[p] = <<>>
    BY <1>1, <2>1
  <2> QED BY <2>1, <2>2, EndAnswers
<1>3. CASE TimeOut(p)
  <2>1. /\ call' = [call EXCEPT ![p] = Idle] /\ replies' = replies /\ replies[p] = <<>>
        /\ late' = late \cup {p}
        /\ UNCHANGED <<messages, events, pulses, state_table, calls, dead>>
    BY <1>3 DEF TimeOut, stateVars
  <2>2. /\ \A q \in Process : q # p => call'[q] = call[q] /\ replies'[q] = replies[q]
        /\ replies'[p] = <<>> /\ p \in late' /\ late \subseteq late'
    BY <1>1, <2>1
  <2> QED BY <2>1, <2>2, EndAnswers
<1>4. CASE SleepOn(p)
  <2>1. UNCHANGED <<messages, events, pulses, state_table, calls, call, replies, late, dead>>
    BY <1>4 DEF SleepOn, stateVars
  <2> QED BY <2>1, SameAnswers
<1>5. CASE Die(p)
  <2>1. /\ call' = [call EXCEPT ![p] = Idle] /\ replies' = [replies EXCEPT ![p] = <<>>]
        /\ dead' = dead \cup {p}
        /\ UNCHANGED <<messages, events, pulses, state_table, calls, late>>
    BY <1>5 DEF Die, stateVars
  <2>2. /\ \A q \in Process : q # p => call'[q] = call[q] /\ replies'[q] = replies[q]
        /\ replies'[p] = <<>> /\ p \in dead' /\ dead \subseteq dead'
    BY <1>1, <2>1
  <2> QED BY <2>1, <2>2, EndAnswers
<1> QED BY <1>2, <1>3, <1>4, <1>5

LEMMA AnswersKept == IInv /\ TypeOK' /\ AnswerInv /\ [Next]_vars => AnswerInv'
<1> SUFFICES ASSUME IInv, TypeOK', AnswerInv, [Next]_vars, ~stray' PROVE Answers'
  BY DEF AnswerInv
<1>1. TypeOK /\ Driver \subseteq Process /\ Client \subseteq Process
  BY DEF IInv, Process
<1>2. ~stray
  <2>1. CASE Daemon
    BY <2>1 DEF Daemon, register_device, deregister_device, open, close, NoFile, dispatch_request,
                process_response, process_response_pulse, stream
  <2>2. ASSUME NEW d \in Driver, DriverLoop(d) PROVE ~stray
    BY <2>2 DEF DriverLoop, UnknownDevice, devfs_loopStream, OpenOrClose, HookMissing, devfs_loopRead
  <2>3. ASSUME NEW d \in Driver, devfs_register(d) \/ devfs_deregister(d) PROVE ~stray
    BY <2>3 DEF devfs_register, devfs_deregister, Sent
  <2>4. ASSUME NEW c \in Client, ClientCall(c) PROVE ~stray
    BY <2>4 DEF ClientCall, devfs_open, devfs_close, devfs_read, devfs_set_streaming, Sent
  <2>5. ASSUME NEW p, Return(p) \/ TimeOut(p) \/ SleepOn(p) \/ Die(p) PROVE ~stray
    BY <2>5 DEF Return, TimeOut, SleepOn, Die
  <2>6. CASE UNCHANGED vars
    BY <2>6 DEF vars
  <2> QED BY <2>1, <2>2, <2>3, <2>4, <2>5, <2>6 DEF Next
<1>3. Answers
  BY <1>2 DEF AnswerInv
<1>4. CASE Daemon
  BY <1>3, <1>4, TableAnswers, DispatchAnswers, ResponseAnswers, ResponsePulseAnswers DEF Daemon
<1>5. ASSUME NEW d \in Driver, DriverLoop(d) PROVE Answers'
  BY <1>3, <1>5, DriverLoopAnswers
<1>6. ASSUME NEW d \in Driver, devfs_register(d) \/ devfs_deregister(d) PROVE Answers'
  <2>1. Sends(d) /\ d \in Process
    BY <1>1, <1>6, DriverSends
  <2> QED BY <1>1, <1>3, <2>1, CallAnswers
<1>7. ASSUME NEW c \in Client, ClientCall(c) PROVE Answers'
  <2>1. Sends(c) /\ c \in Process
    BY <1>1, <1>7, ClientSends
  <2> QED BY <1>1, <1>3, <2>1, CallAnswers
<1>8. ASSUME NEW p \in Process, Return(p) \/ TimeOut(p) \/ SleepOn(p) \/ Die(p) PROVE Answers'
  BY <1>1, <1>3, <1>8, ReturnAnswers
<1>9. CASE UNCHANGED vars
  <2>1. UNCHANGED <<messages, events, pulses, state_table, calls, call, replies, late, dead>>
    BY <1>9 DEF vars, libVars, stateVars
  <2> QED BY <1>3, <2>1, SameAnswers
<1>10. ASSUME NEW d \in Driver, Die(d) PROVE Answers'
  BY <1>1, <1>8, <1>10
<1> QED BY <1>4, <1>5, <1>6, <1>7, <1>8, <1>9, <1>10 DEF Next

LEMMA InitialAnswers == Init => AnswerInv
<1> SUFFICES ASSUME Init PROVE Answers
  BY DEF AnswerInv
<1>1. /\ messages = <<>> /\ pulses = <<>> /\ \A d \in Driver : events[d] = <<>>
      /\ \A p \in Process : replies[p] = <<>> /\ \A s \in Slot : state_table[s] = Unused
  BY DEF Init
<1>2. DOMAIN <<>> = {} /\ Len(<<>>) = 0
  OBVIOUS
<1>3. /\ \A k, s : ~Responds(messages, k, s) /\ ~Acks(pulses, k, s)
      /\ \A d \in Driver : \A k, s : ~Reads(events, d, k, s)
      /\ \A k, p : ~Asks(messages, k, p)
  BY <1>1, <1>2 DEF Responds, Acks, Reads, Asks
<1>4. Carried(messages, events, pulses, state_table, late, calls)
  BY <1>3 DEF Carried, OneCarrier, Carries
<1>5. \A p, f : ~Asked(messages, p, f)
  BY <1>3 DEF Asked
<1>6. \A p \in Process, s \in Slot : ~Holds(state_table, s, p)
  BY <1>1 DEF Holds
<1>7. OwnRequests /\ PulsesAnswer
  BY <1>1, <1>2, <1>5 DEF OwnRequests, PulsesAnswer
<1>8. CallsInOnePlace
  BY <1>1, <1>2, <1>3, <1>5, <1>6 DEF CallsInOnePlace, OnePlace, OneRequest
<1>9. IdleInNoPlace
  BY <1>1, <1>5, <1>6 DEF IdleInNoPlace, NoPlace
<1> QED BY <1>4, <1>7, <1>8, <1>9 DEF Answers

(* A call that nobody has given up receives the answer to this call, and    *)
(* only one, as long as no driver acknowledges a notice: although comms.c   *)
(* does not compare request ids and the slots of state.c are used again.    *)
THEOREM AnswersAreOwn == Spec => []AnswerIsOwn
<1>1. IInv /\ AnswerInv /\ IInv' /\ [Next]_vars => AnswerInv'
  BY AnswersKept DEF IInv
<1>2. AnswerInv => AnswerIsOwn
  BY DEF AnswerInv, Answers, CallsInOnePlace, OnePlace, AnswerIsOwn
<1> QED BY Invariance, InitialAnswers, <1>1, <1>2, PTL DEF Spec

---------------------------------------------------------------------------
(* Streams.  A queue of events agrees with a device i if its last notice of  *)
(* a stream of i says whether anybody listens, or, without one, what the     *)
(* driver does says so.                                                    *)
IsNote(q, k, i) == k \in DOMAIN q /\ q[k].op = "stream" /\ q[k].fd = i
LastNote(q, k, i) == IsNote(q, k, i) /\ \A j \in Nat : IsNote(q, j, i) => j <= k
Streaming(l, i) == i \in DOMAIN l /\ l[i] = TRUE
Agrees(q, i, streams, l) ==
    /\ (\A k \in Nat : ~IsNote(q, k, i)) => (streams # <<>> <=> Streaming(l, i))
    /\ \A k \in Nat : LastNote(q, k, i) => (streams # <<>> <=> q[k].flags # {})

LEMMA AgreesAlike ==
    ASSUME NEW q, NEW i, NEW s, NEW t, NEW l, NEW m, Agrees(q, i, s, l),
           s # <<>> <=> t # <<>>, Streaming(l, i) <=> Streaming(m, i)
    PROVE  Agrees(q, i, t, m)
  BY DEF Agrees

LEMMA OtherTaken ==
    ASSUME NEW q \in Seq(Event), q # <<>>, NEW i, ~(Head(q).op = "stream" /\ Head(q).fd = i),
           NEW streams, NEW l, Agrees(q, i, streams, l)
    PROVE  Agrees(Tail(q), i, streams, l)
<1> DEFINE t == Tail(q)
<1>1. \A k \in Nat : IsNote(t, k, i) => IsNote(q, k + 1, i) /\ t[k] = q[k + 1]
  BY TailPositions DEF IsNote
<1>2. \A k \in Nat : IsNote(q, k, i) => k - 1 \in Nat /\ IsNote(t, k - 1, i) /\ k = (k - 1) + 1
  <2> SUFFICES ASSUME NEW k \in Nat, IsNote(q, k, i)
               PROVE  k - 1 \in Nat /\ IsNote(t, k - 1, i) /\ k = (k - 1) + 1
    OBVIOUS
  <2>1. k # 1 /\ k \in DOMAIN q
    BY TailPositions DEF IsNote
  <2>2. k - 1 \in DOMAIN t /\ t[k - 1] = q[k] /\ k - 1 \in Nat /\ k = (k - 1) + 1
    BY <2>1
  <2> QED BY <2>2 DEF IsNote
<1> HIDE DEF t
<1>3. (\A k \in Nat : ~IsNote(t, k, i)) => (streams # <<>> <=> Streaming(l, i))
  BY <1>2 DEF Agrees
<1>4. ASSUME NEW k \in Nat, LastNote(t, k, i) PROVE streams # <<>> <=> t[k].flags # {}
  <2>1. IsNote(q, k + 1, i) /\ t[k] = q[k + 1] /\ k + 1 \in Nat
    BY <1>1, <1>4 DEF LastNote
  <2>2. ASSUME NEW j \in Nat, IsNote(q, j, i) PROVE j <= k + 1
    <3>1. j - 1 \in Nat /\ IsNote(t, j - 1, i)
      BY <1>2, <2>2
    <3>2. j - 1 <= k
      BY <1>4, <3>1 DEF LastNote
    <3> QED BY <3>2
  <2>3. LastNote(q, k + 1, i)
    BY <2>1, <2>2 DEF LastNote
  <2> QED BY <2>1, <2>3 DEF Agrees
<1> QED BY <1>3, <1>4 DEF Agrees, t

LEMMA OtherAdded ==
    ASSUME NEW q \in Seq(Event), NEW i, NEW x \in Event, ~(x.op = "stream" /\ x.fd = i),
           NEW streams, NEW l, Agrees(q, i, streams, l)
    PROVE  Agrees(Append(q, x), i, streams, l)
<1> DEFINE t == Append(q, x)
<1>1. \A k \in Nat : IsNote(t, k, i) => IsNote(q, k, i) /\ t[k] = q[k]
  BY AppendPositions DEF IsNote
<1>2. \A k \in Nat : IsNote(q, k, i) => IsNote(t, k, i)
  BY AppendKeeps DEF IsNote
<1> HIDE DEF t
<1>3. Agrees(t, i, streams, l)
  BY <1>1, <1>2 DEF Agrees, LastNote
<1> QED BY <1>3 DEF t

(* The driver acts on a notice.                                            *)
LEMMA NoteTaken ==
    ASSUME NEW q \in Seq(Event), q # <<>>, NEW i, Head(q).op = "stream", Head(q).fd = i,
           NEW streams, NEW l, NEW m, Streaming(m, i) <=> Head(q).flags # {}, Agrees(q, i, streams, l)
    PROVE  Agrees(Tail(q), i, streams, m)
<1> DEFINE t == Tail(q)
<1>1. \A k \in Nat : IsNote(t, k, i) => IsNote(q, k + 1, i) /\ t[k] = q[k + 1]
  BY TailPositions DEF IsNote
<1>2. \A k \in Nat : IsNote(q, k, i) => k = 1 \/ (k - 1 \in Nat /\ IsNote(t, k - 1, i))
  <2> SUFFICES ASSUME NEW k \in Nat, IsNote(q, k, i), k # 1
               PROVE  k - 1 \in Nat /\ IsNote(t, k - 1, i)
    OBVIOUS
  <2>1. k \in DOMAIN q
    BY DEF IsNote
  <2>2. k - 1 \in DOMAIN t /\ t[k - 1] = q[k] /\ k - 1 \in Nat
    BY <2>1
  <2> QED BY <2>2 DEF IsNote
<1>3. IsNote(q, 1, i) /\ q[1] = Head(q) /\ 1 \in Nat
  BY TailPositions DEF IsNote
<1> HIDE DEF t
<1>4. ASSUME \A k \in Nat : ~IsNote(t, k, i) PROVE streams # <<>> <=> Streaming(m, i)
  <2>1. \A j \in Nat : IsNote(q, j, i) => j <= 1
    BY <1>2, <1>4
  <2>2. LastNote(q, 1, i)
    BY <1>3, <2>1 DEF LastNote
  <2> QED BY <1>3, <2>2 DEF Agrees
<1>5. ASSUME NEW k \in Nat, LastNote(t, k, i) PROVE streams # <<>> <=> t[k].flags # {}
  <2>1. IsNote(q, k + 1, i) /\ t[k] = q[k + 1] /\ k + 1 \in Nat
    BY <1>1, <1>5 DEF LastNote
  <2>2. ASSUME NEW j \in Nat, IsNote(q, j, i) PROVE j <= k + 1
    <3>1. CASE j = 1
      BY <3>1
    <3>2. CASE j # 1
      <4>1. j - 1 \in Nat /\ IsNote(t, j - 1, i)
        BY <1>2, <2>2, <3>2
      <4>2. j - 1 <= k
        BY <1>5, <4>1 DEF LastNote
      <4> QED BY <4>2
    <3> QED BY <3>1, <3>2
  <2>3. LastNote(q, k + 1, i)
    BY <2>1, <2>2 DEF LastNote
  <2> QED BY <2>1, <2>3 DEF Agrees
<1> QED BY <1>4, <1>5 DEF Agrees, t

(* The daemon tells the driver.                                            *)
LEMMA NoteAdded ==
    ASSUME NEW q \in Seq(Event), NEW i, NEW x \in Event, x.op = "stream", x.fd = i,
           NEW now, NEW l, now # <<>> <=> x.flags # {}
    PROVE  Agrees(Append(q, x), i, now, l)
<1> DEFINE t == Append(q, x)
           n == Len(q) + 1
<1>1. IsNote(t, n, i) /\ t[n] = x /\ n \in Nat
  BY AppendKeeps, AppendPositions DEF IsNote
<1>2. \A k \in Nat : LastNote(t, k, i) => k = n
  <2>1. ASSUME NEW k \in Nat, LastNote(t, k, i) PROVE k = n
    <3>1. k <= n
      <4>1. k \in DOMAIN t
        BY <2>1 DEF LastNote, IsNote
      <4> QED BY <4>1
    <3>2. n <= k
      BY <1>1, <2>1 DEF LastNote
    <3>3. n \in Nat
      BY <1>1
    <3> QED BY <3>1, <3>2, <3>3
  <2> QED BY <2>1
<1> HIDE DEF t, n
<1>3. Agrees(t, i, now, l)
  BY <1>1, <1>2 DEF Agrees
<1> QED BY <1>3 DEF t

---------------------------------------------------------------------------
(* The devices a driver knows: in its list, or in an answer it has not read. *)
Granted(r, i) == \E k \in DOMAIN r : r[k].status = "OK" /\ r[k].fd = i
Knows(d, i) == i \in DOMAIN list[d] \/ Granted(replies[d], i)

KnownAreOld == \A d \in Driver : \A i \in Int : Knows(d, i) => i < devfs_deviceCount
KnownAreOwn == \A d \in Driver : \A i \in DOMAIN devices : Knows(d, i) => devices[i].pid = d
GrantedAreNew == \A d \in Driver : \A i \in DOMAIN devices : Granted(replies[d], i) => i \notin DOMAIN list[d]
NotesAreOld ==
    \A d \in Driver : \A k \in DOMAIN events[d] :
        events[d][k].op = "stream" => events[d][k].fd < devfs_deviceCount
EventsAgree ==
    \A d \in Driver : \A i \in DOMAIN devices :
        d \notin dead /\ i \notin missed /\ Knows(d, i) =>
            Agrees(events[d], i, devices[i].streams, list[d])
StreamInv == KnownAreOld /\ KnownAreOwn /\ GrantedAreNew /\ NotesAreOld /\ EventsAgree

(* Steps that change no stream and give out no device.  The answer to         *)
(* deregister names a device that is gone.                                 *)
LEMMA StreamsSame ==
    ASSUME StreamInv, UNCHANGED <<list, devfs_deviceCount>>, DOMAIN devices' \subseteq DOMAIN devices,
           \A i \in DOMAIN devices' : devices'[i].pid = devices[i].pid /\ devices'[i].streams = devices[i].streams,
           \A d \in Driver : \A i : Granted(replies'[d], i) =>
               Granted(replies[d], i) \/ (i < devfs_deviceCount /\ i \notin DOMAIN devices'),
           dead \subseteq dead', missed \subseteq missed', NotesAreOld',
           \A d \in Driver : \A i \in DOMAIN devices' :
               i \notin missed' /\ Agrees(events[d], i, devices[i].streams, list[d]) =>
                   Agrees(events'[d], i, devices[i].streams, list[d])
    PROVE  StreamInv'
<1>1. \A d \in Driver : \A i \in DOMAIN devices' : Granted(replies'[d], i) => Granted(replies[d], i)
  OBVIOUS
<1>2. \A d \in Driver : \A i \in DOMAIN devices' : Knows(d, i)' => Knows(d, i)
  BY <1>1 DEF Knows
<1>3. KnownAreOld'
  BY DEF StreamInv, KnownAreOld, Knows
<1>4. KnownAreOwn'
  BY <1>2 DEF StreamInv, KnownAreOwn
<1>5. GrantedAreNew'
  BY <1>1 DEF StreamInv, GrantedAreNew
<1>6. EventsAgree'
  <2> SUFFICES ASSUME NEW d \in Driver, NEW i \in DOMAIN devices', d \notin dead', i \notin missed', Knows(d, i)'
               PROVE  Agrees(events'[d], i, devices'[i].streams, list'[d])
    BY DEF EventsAgree
  <2>1. Agrees(events[d], i, devices[i].streams, list[d])
    BY <1>2 DEF StreamInv, EventsAgree
  <2>2. Agrees(events'[d], i, devices[i].streams, list[d])
    BY <2>1
  <2>3. devices'[i].streams = devices[i].streams /\ list'[d] = list[d]
    OBVIOUS
  <2> QED BY <2>2, <2>3
<1> QED BY <1>3, <1>4, <1>5, <1>6 DEF StreamInv

(* Answers, to anybody                                                     *)
LEMMA GrantedBy ==
    ASSUME TypeOK, NEW p, NEW a \in Reply, NEW r, r = Answered(replies, p, a)
    PROVE  \A d \in Driver : \A i :
               Granted(r[d], i) => Granted(replies[d], i) \/ (d = p /\ a.status = "OK" /\ i = a.fd)
<1>1. replies \in [Process -> Seq(Reply)] /\ Driver \subseteq Process
  BY DEF TypeOK, Process
<1>2. CASE r = replies
  BY <1>2
<1>3. CASE r = [replies EXCEPT ![p] = Append(@, a)]
  <2> SUFFICES ASSUME NEW d \in Driver, NEW i, Granted(r[d], i), ~Granted(replies[d], i)
               PROVE  d = p /\ a.status = "OK" /\ i = a.fd
    OBVIOUS
  <2>1. d = p
    BY <1>1, <1>3
  <2>2. r[d] = Append(replies[d], a) /\ replies[d] \in Seq(Reply)
    BY <1>1, <1>3, <2>1
  <2>3. \A k \in DOMAIN r[d] : (k \in DOMAIN replies[d] /\ r[d][k] = replies[d][k]) \/ r[d][k] = a
    BY <2>2, AppendPositions
  <2>4. PICK k \in DOMAIN r[d] : r[d][k].status = "OK" /\ r[d][k].fd = i
    BY DEF Granted
  <2> QED BY <2>1, <2>3, <2>4 DEF Granted
<1> QED BY <1>2, <1>3 DEF Answered

(* Answers to clients                                                      *)
LEMMA ClientAnswered ==
    ASSUME TypeOK, NEW c \in Client, NEW a, NEW r, r = Answered(replies, c, a)
    PROVE  \A d \in Driver : r[d] = replies[d]
<1>1. \A d \in Driver : d # c
  BY ProcessAssumption
<1> QED BY <1>1 DEF Answered, TypeOK, Process

(* Events that are no notice of a stream                                    *)
LEMMA ToldOther ==
    ASSUME TypeOK, StreamInv, NEW y \in Driver, NEW x \in Event, x.op # "stream", events' = Told(y, x),
           UNCHANGED devfs_deviceCount
    PROVE  /\ NotesAreOld'
           /\ \A d \in Driver : \A i, s, l : Agrees(events[d], i, s, l) => Agrees(events'[d], i, s, l)
<1>1. events \in [Driver -> Seq(Event)] /\ NotesAreOld
  BY DEF TypeOK, StreamInv
<1>2. CASE y \in dead
  BY <1>1, <1>2 DEF Told, NotesAreOld
<1>3. CASE y \notin dead
  <2>1. events[y] \in Seq(Event) /\ events'[y] = Append(events[y], x) /\ \A d \in Driver : d # y => events'[d] = events[d]
    BY <1>1, <1>3 DEF Told
  <2>2. NotesAreOld'
    <3>1. \A k \in DOMAIN events'[y] : (k \in DOMAIN events[y] /\ events'[y][k] = events[y][k]) \/ events'[y][k] = x
      BY <2>1, AppendPositions
    <3>2. ASSUME NEW d \in Driver, NEW k \in DOMAIN events'[d], events'[d][k].op = "stream"
          PROVE  events'[d][k].fd < devfs_deviceCount
      <4>1. CASE d = y
        BY <1>1, <3>1, <3>2, <4>1 DEF NotesAreOld
      <4>2. CASE d # y
        BY <1>1, <2>1, <3>2, <4>2 DEF NotesAreOld
      <4> QED BY <4>1, <4>2
    <3> QED BY <3>2 DEF NotesAreOld
  <2>3. ASSUME NEW d \in Driver, NEW i, NEW s, NEW l, Agrees(events[d], i, s, l)
        PROVE  Agrees(events'[d], i, s, l)
    <3>1. CASE d = y
      BY <2>1, <2>3, <3>1, OtherAdded
    <3>2. CASE d # y
      BY <2>1, <2>3, <3>2
    <3> QED BY <3>1, <3>2
  <2> QED BY <2>2, <2>3
<1> QED BY <1>2, <1>3

(* Other hooks                                                             *)
LEMMA HooksOnly ==
    ASSUME NEW dv \in Partial(Nat, Device), NEW i \in DOMAIN dv, NEW h, NEW new, new = WithHooks(dv, i, h)
    PROVE  /\ DOMAIN new = DOMAIN dv
           /\ \A j \in DOMAIN dv : new[j].pid = dv[j].pid /\ new[j].streams = dv[j].streams
<1>1. dv \in [DOMAIN dv -> Device]
  BY PartialFunctions
<1>2. dv[i] \in Device
  BY <1>1
<1>3. [dv[i] EXCEPT !.hooks = h].pid = dv[i].pid /\ [dv[i] EXCEPT !.hooks = h].streams = dv[i].streams
  BY <1>2 DEF Device
<1>4. new = [dv EXCEPT ![i] = [dv[i] EXCEPT !.hooks = h]]
  BY DEF WithHooks
<1> QED BY <1>1, <1>3, <1>4

LEMMA HookedOnly ==
    ASSUME TypeOK, NEW i \in DOMAIN devices, NEW c, NEW fd, NEW new, new = Hooked(i, c, fd)
    PROVE  /\ DOMAIN new = DOMAIN devices
           /\ \A j \in DOMAIN devices : new[j].pid = devices[j].pid /\ new[j].streams = devices[j].streams
<1>1. devices \in Partial(Nat, Device)
  BY DEF TypeOK
<1>2. new = WithHooks(devices, i, Append(devices[i].hooks, <<c, fd>>))
  BY DEF Hooked, WithHooks
<1> QED BY <1>1, <1>2, HooksOnly

LEMMA UnhookedOnly ==
    ASSUME NEW dv \in Partial(Nat, Device), NEW i \in DOMAIN dv, NEW c, NEW fd, NEW new, new = Unhooked(dv, i, c, fd)
    PROVE  /\ DOMAIN new = DOMAIN dv
           /\ \A j \in DOMAIN dv : new[j].pid = dv[j].pid /\ new[j].streams = dv[j].streams
<1> DEFINE h == dv[i].hooks
           g == IF Contains(h, <<c, fd>>) THEN RemoveAt(h, CHOOSE k \in DOMAIN h : h[k] = <<c, fd>>) ELSE h
<1>1. new = WithHooks(dv, i, g)
  BY DEF Unhooked, WithHooks
<1> HIDE DEF g
<1> QED BY <1>1, HooksOnly

LEMMA RegisterStreams == ASSUME IInv, StreamInv, register_device PROVE StreamInv'
<1> DEFINE m == Head(messages)
           id == devfs_deviceCount
<1>1. TypeOK /\ FreshId /\ messages # <<>> /\ m.op = "register"
  BY DEF IInv, register_device, Receives
<1>2. m \in Packet
  BY <1>1, FirstMessage
<1>3. m.from \in Driver /\ m.for \in Tag /\ m.flags \in SUBSET Flag /\ m.name \in Name \cup {""}
  BY <1>1, <1>2, DriverPacket
<1>4. devices \in Partial(Nat, Device) /\ id \in Nat /\ id \notin DOMAIN devices
  BY <1>1 DEF TypeOK, FreshId
<1>5. UNCHANGED <<list, events, dead, missed>>
  BY DEF register_device, libVars
<1>6. CASE send_resp(m, "EXISTS", -1) /\ UNCHANGED <<devices, devfs_deviceCount>>
  <2> DEFINE a == [for |-> m.for, status |-> "EXISTS", fd |-> -1]
  <2>0. "EXISTS" \in Status /\ -1 \in Int
    BY DEF Status
  <2>1. a \in Reply /\ a.status # "OK" /\ replies' = Answered(replies, m.from, a)
    <3>1. a \in Reply
      BY <1>3, <2>0 DEF Reply
    <3> QED BY <1>6, <3>1 DEF send_resp
  <2> HIDE DEF a
  <2>2. \A d \in Driver : \A i : Granted(replies'[d], i) => Granted(replies[d], i)
    BY <1>1, <2>1, GrantedBy
  <2>3. NotesAreOld'
    BY <1>5, <1>6 DEF StreamInv, NotesAreOld
  <2> QED BY <1>5, <1>6, <2>2, <2>3, StreamsSame
<1>7. CASE /\ devices' = Insert(devices, id, [name |-> m.name, pid |-> m.from, flags |-> m.flags,
                                              hooks |-> <<>>, streams |-> <<>>])
           /\ devfs_deviceCount' = id + 1 /\ send_resp(m, "OK", id)
  <2> DEFINE a == [for |-> m.for, status |-> "OK", fd |-> id]
             new == [name |-> m.name, pid |-> m.from, flags |-> m.flags, hooks |-> <<>>, streams |-> <<>>]
  <2>0. "OK" \in Status /\ id \in Int
    BY <1>4 DEF Status
  <2>1. a \in Reply /\ a.fd = id /\ replies' = Answered(replies, m.from, a)
    <3>1. a \in Reply
      BY <1>3, <2>0 DEF Reply
    <3> QED BY <1>7, <3>1 DEF send_resp
  <2>2. new \in Device /\ new.pid = m.from /\ new.streams = <<>> /\ devices' = Insert(devices, id, new)
    <3>1. <<>> \in Seq(Client \X Int)
      OBVIOUS
    <3> QED BY <1>3, <1>7, <3>1 DEF Device
  <2> HIDE DEF a, new, m
  <2>3. \A d \in Driver : \A i : Granted(replies'[d], i) => Granted(replies[d], i) \/ (d = m.from /\ i = id)
    <3>1. \A d \in Driver : \A i :
              Granted(replies'[d], i) => Granted(replies[d], i) \/ (d = m.from /\ a.status = "OK" /\ i = a.fd)
      BY <1>1, <2>1, GrantedBy
    <3> QED BY <2>1, <3>1
  <2>4. /\ DOMAIN devices' = DOMAIN devices \cup {id} /\ devices'[id] = new
        /\ \A i \in DOMAIN devices : devices'[i] = devices[i]
    <3> DEFINE e == Insert(devices, id, new)
    <3>1. /\ DOMAIN e = DOMAIN devices \cup {id} /\ e[id] = new
          /\ \A i \in DOMAIN devices : i # id => e[i] = devices[i]
      BY <1>4, <2>2, InsertPartial
    <3> HIDE DEF e
    <3> QED BY <1>4, <2>2, <3>1 DEF e
  <2>5. \A d \in Driver : \A i : Knows(d, i)' => Knows(d, i) \/ (d = m.from /\ i = id)
    BY <1>5, <2>3 DEF Knows
  <2>6. KnownAreOld'
    <3> SUFFICES ASSUME NEW d \in Driver, NEW i \in Int, Knows(d, i)' PROVE i < id + 1
      BY <1>7 DEF KnownAreOld
    <3>1. i < id \/ i = id
      BY <2>5 DEF StreamInv, KnownAreOld
    <3> HIDE DEF id
    <3> QED BY <1>4, <3>1
  <2>7. \A d \in Driver : ~Knows(d, id)
    <3>1. id \in Int /\ ~(id < id)
      BY <1>4
    <3> QED BY <3>1 DEF StreamInv, KnownAreOld
  <2>8. KnownAreOwn'
    BY <2>2, <2>4, <2>5, <2>7 DEF StreamInv, KnownAreOwn
  <2>9. GrantedAreNew'
    <3> SUFFICES ASSUME NEW d \in Driver, NEW i \in DOMAIN devices', Granted(replies'[d], i)
                 PROVE  i \notin DOMAIN list[d]
      BY <1>5 DEF GrantedAreNew
    <3>1. CASE i = id
      BY <2>7, <3>1 DEF Knows
    <3>2. CASE i # id
      BY <2>3, <2>4, <3>2 DEF StreamInv, GrantedAreNew
    <3> QED BY <3>1, <3>2
  <2>10. NotesAreOld'
    <3> SUFFICES ASSUME NEW d \in Driver, NEW k \in DOMAIN events[d], events[d][k].op = "stream"
                 PROVE  events[d][k].fd < id + 1
      BY <1>5, <1>7 DEF NotesAreOld
    <3>1. events[d] \in Seq(Event) /\ events[d][k] \in Event
      BY <1>1 DEF TypeOK
    <3>2. events[d][k].fd \in Int
      BY <3>1 DEF Event, Events
    <3>3. events[d][k].fd < id
      BY DEF StreamInv, NotesAreOld
    <3> HIDE DEF id
    <3> QED BY <1>4, <3>2, <3>3
  <2>11. EventsAgree'
    <3> SUFFICES ASSUME NEW d \in Driver, NEW i \in DOMAIN devices', d \notin dead, i \notin missed, Knows(d, i)'
                 PROVE  Agrees(events[d], i, devices'[i].streams, list[d])
      BY <1>5 DEF EventsAgree
    <3>1. CASE i = id
      <4>1. \A k \in Nat : ~IsNote(events[d], k, i)
        <5>1. ASSUME NEW k \in Nat, IsNote(events[d], k, i) PROVE FALSE
          <6>1. i < id
            BY <5>1 DEF IsNote, StreamInv, NotesAreOld
          <6> HIDE DEF id
          <6> QED BY <1>4, <3>1, <6>1
        <5> QED BY <5>1
      <4>2. devices'[i].streams = <<>> /\ ~Streaming(list[d], i)
        BY <2>2, <2>4, <2>7, <3>1 DEF Streaming, Knows
      <4> QED BY <4>1, <4>2 DEF Agrees, LastNote
    <3>2. CASE i # id
      <4>1. i \in DOMAIN devices /\ Knows(d, i)
        BY <2>4, <2>5, <3>2
      <4> QED BY <2>4, <4>1 DEF StreamInv, EventsAgree
    <3> QED BY <3>1, <3>2
  <2> QED BY <2>6, <2>8, <2>9, <2>10, <2>11 DEF StreamInv
<1> QED BY <1>6, <1>7 DEF register_device

LEMMA DeregisterStreams == ASSUME IInv, StreamInv, deregister_device PROVE StreamInv'
<1> DEFINE m == Head(messages)
           status == MayRemove(m.fd, m.from)
           a == [for |-> m.for, status |-> status, fd |-> m.fd]
<1>1. TypeOK /\ FreshId /\ messages # <<>> /\ m.op = "deregister"
  BY DEF IInv, deregister_device, Receives
<1>2. m \in Packet
  BY <1>1, FirstMessage
<1>3. m.from \in Driver /\ m.for \in Tag /\ m.fd \in Int
  BY <1>1, <1>2, DriverPacket
<1>4. devices \in Partial(Nat, Device)
  BY <1>1 DEF TypeOK
<1>5. UNCHANGED <<list, events, dead, missed, devfs_deviceCount>>
  BY DEF deregister_device, libVars
<1>6. status \in Status
  BY DEF MayRemove, Status
<1>7. a \in Reply /\ a.status = status /\ a.fd = m.fd /\ replies' = Answered(replies, m.from, a)
  <2>1. a \in Reply
    BY <1>3, <1>6 DEF Reply
  <2>2. send_resp(m, status, m.fd)
    BY DEF deregister_device
  <2> QED BY <2>1, <2>2 DEF send_resp
<1> HIDE DEF a
<1>8. \A d \in Driver : \A i : Granted(replies'[d], i) => Granted(replies[d], i) \/ (status = "OK" /\ i = m.fd)
  <2>1. \A d \in Driver : \A i :
            Granted(replies'[d], i) => Granted(replies[d], i) \/ (d = m.from /\ a.status = "OK" /\ i = a.fd)
    BY <1>1, <1>7, GrantedBy
  <2> QED BY <1>7, <2>1
<1>9. status = "OK" => m.fd \in DOMAIN devices
  BY DEF MayRemove
<1>10. status = "OK" => m.fd < devfs_deviceCount
  BY <1>1, <1>9 DEF FreshId
<1>11. devices' = IF status = "OK" THEN Without(devices, m.fd) ELSE devices
  BY DEF deregister_device
<1> HIDE DEF m, status
<1>12. /\ DOMAIN devices' \subseteq DOMAIN devices /\ \A i \in DOMAIN devices' : devices'[i] = devices[i]
       /\ status = "OK" => m.fd \notin DOMAIN devices'
  <2> DEFINE f == m.fd
             e == Without(devices, f)
  <2> HIDE DEF f
  <2>1. DOMAIN e = DOMAIN devices \ {f} /\ \A i \in DOMAIN devices : i # f => e[i] = devices[i]
    BY DEF Without
  <2>2. devices' = IF status = "OK" THEN e ELSE devices
    BY <1>11 DEF f
  <2> HIDE DEF e
  <2>3. CASE status = "OK"
    BY <2>1, <2>2, <2>3 DEF f
  <2>4. CASE status # "OK"
    BY <2>2, <2>4
  <2> QED BY <2>3, <2>4
<1>13. NotesAreOld'
  BY <1>5 DEF StreamInv, NotesAreOld
<1>14. \A d \in Driver : \A i : Granted(replies'[d], i) =>
           Granted(replies[d], i) \/ (i < devfs_deviceCount /\ i \notin DOMAIN devices')
  BY <1>8, <1>10, <1>12
<1> QED BY <1>5, <1>12, <1>13, <1>14, StreamsSame

(* The handlers of requests of clients, but for stream                      *)
SameDevices(dv) ==
    /\ DOMAIN dv = DOMAIN devices
    /\ \A i \in DOMAIN devices : dv[i].pid = devices[i].pid /\ dv[i].streams = devices[i].streams

LEMMA SilentStreams ==
    ASSUME TypeOK, StreamInv, UNCHANGED <<list, devfs_deviceCount, dead, missed, events>>, SameDevices(devices'),
           \A d \in Driver : replies'[d] = replies[d]
    PROVE  StreamInv'
<1>1. NotesAreOld'
  BY DEF StreamInv, NotesAreOld
<1>2. \A d \in Driver : \A i : Granted(replies'[d], i) => Granted(replies[d], i)
  OBVIOUS
<1> QED BY <1>1, <1>2, StreamsSame DEF SameDevices

LEMMA ToldStreams ==
    ASSUME TypeOK, StreamInv, UNCHANGED <<list, devfs_deviceCount, dead, missed>>, SameDevices(devices'),
           \A d \in Driver : replies'[d] = replies[d],
           NEW y \in Driver, NEW x \in Event, x.op # "stream", events' = Told(y, x)
    PROVE  StreamInv'
<1>1. /\ NotesAreOld'
      /\ \A d \in Driver : \A i, s, l : Agrees(events[d], i, s, l) => Agrees(events'[d], i, s, l)
  BY ToldOther
<1>2. \A d \in Driver : \A i : Granted(replies'[d], i) => Granted(replies[d], i)
  OBVIOUS
<1> QED BY <1>1, <1>2, StreamsSame DEF SameDevices

LEMMA NoticeOp ==
    ASSUME NEW m \in Packet, NEW op \in {"open", "close", "stream"}, NEW i \in Int, NEW f \in SUBSET Flag
    PROVE  /\ Notice(op, i, f, m) \in Event /\ Notice(op, i, f, m).op = op
           /\ Notice(op, i, f, m).fd = i /\ Notice(op, i, f, m).flags = f
<1>1. Notice(op, i, f, m).op = op /\ Notice(op, i, f, m).fd = i /\ Notice(op, i, f, m).flags = f
  BY DEF Notice
<1> QED BY <1>1, NoticeType

LEMMA OpenStreams == ASSUME IInv, StreamInv, open PROVE StreamInv'
<1> DEFINE m == Head(messages)
           c == m.from
           fd == last_fd[c]
<1>1. TypeOK /\ messages # <<>> /\ m.op = "open"
  BY DEF IInv, open, Receives
<1>2. m \in Packet
  BY <1>1, FirstMessage
<1>3. c \in Client
  BY <1>1, <1>2, ClientPacket
<1>4. UNCHANGED <<list, devfs_deviceCount, dead, missed>>
  BY DEF open, libVars
<1>5. \A d \in Driver : replies'[d] = replies[d]
  <2>1. \E status : send_resp(m, status, fd)
    BY DEF open
  <2> QED BY <1>1, <1>3, <2>1, ClientAnswered DEF send_resp
<1>6. CASE UNCHANGED <<devices, events>>
  <2>1. SameDevices(devices')
    BY <1>6 DEF SameDevices
  <2> QED BY <1>1, <1>4, <1>5, <1>6, <2>1, SilentStreams
<1>7. ASSUME NEW i \in Named(m.name),
             devices' = Hooked(i, c, fd) \/ devices' = Unhooked(Hooked(i, c, fd), i, c, fd),
             \/ UNCHANGED events
             \/ events' = Told(devices[i].pid, Notice("open", i, {}, m))
      PROVE  StreamInv'
  <2>1. i \in DOMAIN devices /\ i \in Int /\ devices[i].pid \in Driver
    BY <1>1, DeviceType DEF Named
  <2>2. SameDevices(devices')
    <3> DEFINE e == Hooked(i, c, fd)
    <3>1. SameDevices(e)
      BY <1>1, <2>1, HookedOnly DEF SameDevices
    <3>2. e \in Partial(Nat, Device)
      <4>1. fd \in Int
        BY <1>1, <1>3 DEF TypeOK
      <4> QED BY <1>1, <1>3, <2>1, <4>1, HookedKeeps
    <3>3. CASE devices' = e
      BY <3>1, <3>3
    <3>4. CASE devices' = Unhooked(e, i, c, fd)
      <4> HIDE DEF e
      <4>1. i \in DOMAIN e
        BY <2>1, <3>1 DEF SameDevices
      <4>2. /\ DOMAIN devices' = DOMAIN e
            /\ \A j \in DOMAIN e : devices'[j].pid = e[j].pid /\ devices'[j].streams = e[j].streams
        BY <3>2, <3>4, <4>1, UnhookedOnly
      <4> QED BY <3>1, <4>2 DEF SameDevices
    <3> QED BY <1>7, <3>3, <3>4
  <2>3. CASE UNCHANGED events
    BY <1>1, <1>4, <1>5, <2>2, <2>3, SilentStreams
  <2>4. CASE events' = Told(devices[i].pid, Notice("open", i, {}, m))
    <3> DEFINE x == Notice("open", i, {}, m)
    <3>1. x \in Event /\ x.op = "open"
      BY <1>2, <2>1, NoticeOp
    <3>2. events' = Told(devices[i].pid, x) /\ x.op # "stream"
      BY <2>4, <3>1
    <3> HIDE DEF x
    <3> QED BY <1>1, <1>4, <1>5, <2>1, <2>2, <3>1, <3>2, ToldStreams
  <2> QED BY <1>7, <2>3, <2>4
<1>8. \/ UNCHANGED <<devices, events>>
      \/ \E i \in Named(m.name) :
             /\ devices' = Hooked(i, c, fd) \/ devices' = Unhooked(Hooked(i, c, fd), i, c, fd)
             /\ UNCHANGED events \/ events' = Told(devices[i].pid, Notice("open", i, {}, m))
  BY DEF open
<1> HIDE DEF m, c, fd
<1> QED BY <1>6, <1>7, <1>8

LEMMA CloseStreams == ASSUME IInv, StreamInv, close PROVE StreamInv'
<1> DEFINE m == Head(messages)
           i == Opened(m).device
           x == Notice("close", i, {}, m)
<1>1. TypeOK /\ messages # <<>> /\ m.op = "close" /\ HasFile(m)
  BY DEF IInv, close, Receives
<1>2. m \in Packet
  BY <1>1, FirstMessage
<1>3. m.from \in Client /\ i \in DOMAIN devices /\ i \in Int /\ devices[i].pid \in Driver
  BY <1>1, <1>2, FileOfMessage
<1>4. UNCHANGED <<list, devfs_deviceCount, dead, missed>>
  BY DEF close, libVars
<1>5. \A d \in Driver : replies'[d] = replies[d]
  BY <1>1, <1>3, ClientAnswered DEF close, send_resp
<1>6. devices' = Unhooked(devices, i, m.from, m.fd) /\ events' = Told(devices[i].pid, x)
  BY DEF close
<1>7. x \in Event /\ x.op # "stream"
  BY <1>2, <1>3, NoticeOp
<1>8. SameDevices(devices')
  <2>1. devices \in Partial(Nat, Device)
    BY <1>1 DEF TypeOK
  <2> HIDE DEF i, m
  <2> QED BY <1>3, <1>6, <2>1, UnhookedOnly DEF SameDevices
<1> HIDE DEF x, i
<1> QED BY <1>1, <1>3, <1>4, <1>5, <1>6, <1>7, <1>8, ToldStreams

LEMMA DispatchStreams == ASSUME IInv, StreamInv, NoFile \/ dispatch_request PROVE StreamInv'
<1> DEFINE m == Head(messages)
<1>1. TypeOK /\ messages # <<>> /\ m.op \in {"close", "read", "stream"}
  BY DEF IInv, NoFile, dispatch_request, Receives
<1>2. m \in Packet
  BY <1>1, FirstMessage
<1>3. m.from \in Client /\ m.flags \in SUBSET Flag /\ m.for \in Tag
  BY <1>1, <1>2, ClientPacket
<1>4. UNCHANGED <<list, devfs_deviceCount, dead, missed, devices>>
  BY DEF NoFile, dispatch_request, libVars, tableVars
<1>5. SameDevices(devices')
  BY <1>4 DEF SameDevices
<1>6. ASSUME NEW status, NEW fd, send_resp(m, status, fd), UNCHANGED events PROVE StreamInv'
  <2>1. \A d \in Driver : replies'[d] = replies[d]
    BY <1>1, <1>3, <1>6, ClientAnswered DEF send_resp
  <2> QED BY <1>1, <1>4, <1>5, <1>6, <2>1, SilentStreams
<1>7. CASE NoFile
  BY <1>6, <1>7 DEF NoFile
<1>8. CASE dispatch_request
  <2> DEFINE i == Opened(m).device
             d == devices[i].pid
  <2>1. m.op = "read" /\ HasFile(m)
    BY <1>8 DEF dispatch_request, Receives
  <2>2. i \in Int /\ d \in Driver
    BY <1>2, <2>1, FileOfMessage
  <2>3. ASSUME NEW s \in Slot, UNCHANGED replies,
               events' = Told(d, [op |-> "read", fd |-> i, req |-> s, flags |-> m.flags, for |-> m.for])
        PROVE  StreamInv'
    <3> DEFINE x == [op |-> "read", fd |-> i, req |-> s, flags |-> m.flags, for |-> m.for]
    <3> HIDE DEF i
    <3>1. x \in Event /\ x.op # "stream"
      BY <1>3, <2>2 DEF Event, Events
    <3>2. events' = Told(d, x)
      BY <2>3
    <3> HIDE DEF x, d
    <3> QED BY <1>1, <1>4, <1>5, <2>2, <2>3, <3>1, <3>2, ToldStreams
  <2>4. \/ send_resp(m, "BAD_FLAGS", m.fd) /\ UNCHANGED events
        \/ send_resp(m, SendFailed(m), i) /\ UNCHANGED events
        \/ \E s \in Slot :
              /\ events' = Told(d, [op |-> "read", fd |-> i, req |-> s, flags |-> m.flags, for |-> m.for])
              /\ UNCHANGED replies
    BY <1>8 DEF dispatch_request
  <2> HIDE DEF m, i, d
  <2> QED BY <1>6, <2>3, <2>4
<1> QED BY <1>7, <1>8

LEMMA ResponseStreams ==
    ASSUME IInv, StreamInv, process_response \/ process_response_pulse PROVE StreamInv'
<1>1. TypeOK /\ UNCHANGED <<list, devfs_deviceCount, dead, missed, devices, events>>
  BY DEF IInv, process_response, process_response_pulse, libVars, tableVars
<1>2. SameDevices(devices')
  BY <1>1 DEF SameDevices
<1>3. \E s, d, for, status : PassOn(s, d, for, status)
  BY DEF process_response, process_response_pulse
<1>4. PICK s, d, for, status : PassOn(s, d, for, status)
  BY <1>3
<1>5. \A y \in Driver : replies'[y] = replies[y]
  <2>1. CASE UNCHANGED replies
    BY <2>1
  <2>2. CASE /\ s \in Slot /\ state_table[s] # Unused
             /\ replies' = Answered(replies, state_table[s].pid, [for |-> for, status |-> status, fd |-> -1])
    <3>1. state_table[s] \in Entry
      BY <1>1, <2>2 DEF TypeOK
    <3>2. state_table[s].pid \in Client
      BY <3>1 DEF Entry
    <3> QED BY <1>1, <2>2, <3>2, ClientAnswered
  <2> QED BY <1>4, <2>1, <2>2 DEF PassOn
<1> QED BY <1>1, <1>2, <1>5, SilentStreams

---------------------------------------------------------------------------
(* The driver is told exactly when the device gets its first listener or     *)
(* loses the last one.                                                     *)
LEMMA NoteSays ==
    ASSUME NEW old \in Seq(Client \X Int), NEW now \in Seq(Client \X Int), NEW f,
           \/ f # {} /\ \E e \in Client \X Int : now = Append(old, e)
           \/ f = {} /\ old # <<>>
    PROVE  /\ Note(f # {}, Len(now)) => (now # <<>> <=> f # {})
           /\ ~Note(f # {}, Len(now)) => (now # <<>> <=> old # <<>>)
<1>1. CASE f = {} /\ old # <<>>
  <2>1. Len(now) = 0 <=> now = <<>>
    OBVIOUS
  <2> QED BY <1>1, <2>1 DEF Note
<1>2. CASE f # {} /\ \E e \in Client \X Int : now = Append(old, e)
  <2>1. PICK e \in Client \X Int : now = Append(old, e)
    BY <1>2
  <2>2. Len(now) = Len(old) + 1 /\ now # <<>> /\ (Len(old) = 0 <=> old = <<>>) /\ Len(old) \in Nat
    BY <2>1
  <2>3. Len(now) = 1 <=> old = <<>>
    BY <2>2
  <2> QED BY <1>2, <2>2, <2>3 DEF Note
<1> QED BY <1>1, <1>2

LEMMA StreamsOnly ==
    ASSUME NEW dv \in Partial(Nat, Device), NEW i \in DOMAIN dv, NEW h, NEW new, new = WithStreams(dv, i, h)
    PROVE  /\ DOMAIN new = DOMAIN dv /\ new[i].pid = dv[i].pid /\ new[i].streams = h
           /\ \A j \in DOMAIN dv : j # i => new[j] = dv[j]
<1>1. dv \in [DOMAIN dv -> Device]
  BY PartialFunctions
<1>2. dv[i] \in Device
  BY <1>1
<1>3. [dv[i] EXCEPT !.streams = h].pid = dv[i].pid /\ [dv[i] EXCEPT !.streams = h].streams = h
  BY <1>2 DEF Device
<1>4. new = [dv EXCEPT ![i] = [dv[i] EXCEPT !.streams = h]]
  BY DEF WithStreams
<1> QED BY <1>1, <1>3, <1>4

(* Listeners change: the notice, if there is one, goes to the only driver   *)
(* that knows the device.                                                  *)
LEMMA ListenersChanged ==
    ASSUME TypeOK, FreshId, StreamInv, UNCHANGED <<list, devfs_deviceCount, dead, missed>>,
           \A d \in Driver : replies'[d] = replies[d],
           NEW i \in DOMAIN devices, NEW now, devices' = WithStreams(devices, i, now),
           NEW x \in Event, x.op = "stream", x.fd = i,
           \/ events' = Told(devices[i].pid, x) /\ (now # <<>> <=> x.flags # {})
           \/ events' = events /\ (now # <<>> <=> devices[i].streams # <<>>)
    PROVE  StreamInv'
<1> DEFINE y == devices[i].pid
<1>1. devices \in Partial(Nat, Device) /\ events \in [Driver -> Seq(Event)]
  BY DEF TypeOK
<1>2. y \in Driver /\ i \in Nat /\ i < devfs_deviceCount
  BY DeviceType DEF FreshId
<1>3. /\ DOMAIN devices' = DOMAIN devices /\ devices'[i].pid = y /\ devices'[i].streams = now
      /\ \A j \in DOMAIN devices : j # i => devices'[j] = devices[j]
  BY <1>1, StreamsOnly
<1>4. \A d \in Driver : \A j : /\ Granted(replies'[d], j) <=> Granted(replies[d], j)
                               /\ Knows(d, j)' <=> Knows(d, j)
  BY DEF Knows
<1>5. KnownAreOld'
  BY <1>4 DEF StreamInv, KnownAreOld
<1>6. KnownAreOwn'
  BY <1>3, <1>4 DEF StreamInv, KnownAreOwn
<1>7. GrantedAreNew'
  BY <1>3, <1>4 DEF StreamInv, GrantedAreNew
<1>8. \A d \in Driver : events[d] \in Seq(Event) /\ (events'[d] = events[d] \/ events'[d] = Append(events[d], x))
  BY <1>1 DEF Told
<1>9. NotesAreOld'
  <2> SUFFICES ASSUME NEW d \in Driver, NEW k \in DOMAIN events'[d], events'[d][k].op = "stream"
               PROVE  events'[d][k].fd < devfs_deviceCount
    BY DEF NotesAreOld
  <2>1. (k \in DOMAIN events[d] /\ events'[d][k] = events[d][k]) \/ events'[d][k] = x
    <3>1. CASE events'[d] = events[d]
      BY <3>1
    <3>2. CASE events'[d] = Append(events[d], x)
      BY <1>8, <3>2, AppendPositions
    <3> QED BY <1>8, <3>1, <3>2
  <2>2. CASE events'[d][k] = x
    BY <1>2, <2>2
  <2>3. CASE k \in DOMAIN events[d] /\ events'[d][k] = events[d][k]
    BY <2>3 DEF StreamInv, NotesAreOld
  <2> QED BY <2>1, <2>2, <2>3
<1>10. EventsAgree'
  <2> SUFFICES ASSUME NEW d \in Driver, NEW j \in DOMAIN devices, d \notin dead, j \notin missed, Knows(d, j)
               PROVE  Agrees(events'[d], j, devices'[j].streams, list[d])
    BY <1>3, <1>4 DEF EventsAgree
  <2>1. Agrees(events[d], j, devices[j].streams, list[d])
    BY DEF StreamInv, EventsAgree
  <2>2. CASE j # i
    <3>1. devices'[j].streams = devices[j].streams
      BY <1>3, <2>2
    <3>2. CASE events'[d] = events[d]
      BY <2>1, <3>1, <3>2
    <3>3. CASE events'[d] = Append(events[d], x)
      <4>1. ~(x.op = "stream" /\ x.fd = j)
        BY <2>2
      <4>2. Agrees(Append(events[d], x), j, devices[j].streams, list[d])
        BY <1>8, <2>1, <4>1, OtherAdded
      <4> QED BY <3>1, <3>3, <4>2
    <3> QED BY <1>8, <3>2, <3>3
  <2>3. CASE j = i
    <3>1. d = y
      BY <2>3 DEF StreamInv, KnownAreOwn
    <3>2. CASE events' = Told(y, x) /\ (now # <<>> <=> x.flags # {})
      <4>1. events'[d] = Append(events[d], x)
        BY <1>1, <3>1, <3>2 DEF Told
      <4>2. Agrees(Append(events[d], x), i, now, list[d])
        BY <1>8, <3>2, NoteAdded
      <4> QED BY <1>3, <2>3, <4>1, <4>2
    <3>3. CASE events' = events /\ (now # <<>> <=> devices[i].streams # <<>>)
      <4>1. Agrees(events[d], i, now, list[d])
        BY <2>1, <2>3, <3>3, AgreesAlike
      <4> QED BY <1>3, <2>3, <3>3, <4>1
    <3> QED BY <3>2, <3>3
  <2> QED BY <2>2, <2>3
<1> QED BY <1>5, <1>6, <1>7, <1>9, <1>10 DEF StreamInv

LEMMA StreamStreams == ASSUME IInv, StreamInv, stream PROVE StreamInv'
<1> DEFINE m == Head(messages)
           i == Opened(m).device
           c == m.from
           on == m.flags # {}
           old == devices[i].streams
           first == CHOOSE k \in StreamOf(i, c) : \A j \in StreamOf(i, c) : k <= j
           now == IF on THEN Append(old, <<c, m.fd>>) ELSE RemoveAt(old, first)
           x == Notice("stream", i, m.flags, m)
<1>1. TypeOK /\ FreshId /\ messages # <<>> /\ m.op = "stream" /\ HasFile(m)
  BY DEF IInv, stream, Receives
<1>2. m \in Packet
  BY <1>1, FirstMessage
<1>3. /\ c \in Client /\ m.fd \in Int /\ i \in DOMAIN devices /\ i \in Int
      /\ devices[i].pid \in Driver /\ m.flags \in SUBSET Flag
  BY <1>1, <1>2, FileOfMessage, ClientPacket
<1>4. old \in Seq(Client \X Int)
  BY <1>1, <1>3, DeviceType
<1>5. UNCHANGED <<list, devfs_deviceCount, dead, missed>>
  BY DEF stream, libVars
<1>6. \A d \in Driver : replies'[d] = replies[d]
  <2>1. \E status : send_resp(m, status, m.fd)
    BY DEF stream
  <2> QED BY <1>1, <1>3, <2>1, ClientAnswered DEF send_resp
<1>7. CASE UNCHANGED <<events, devices>>
  <2>1. SameDevices(devices')
    BY <1>7 DEF SameDevices
  <2> QED BY <1>1, <1>5, <1>6, <1>7, <2>1, SilentStreams
<1>8. CASE /\ on \/ StreamOf(i, c) # {}
           /\ devices' = [devices EXCEPT ![i].streams = now]
           /\ events' = IF Note(on, Len(now)) THEN Told(devices[i].pid, x) ELSE events
  <2>1. now \in Seq(Client \X Int)
    <3>1. CASE on
      BY <1>3, <1>4, <3>1
    <3>2. CASE ~on
      <4>1. first \in DOMAIN old
        BY <1>4, <1>8, <3>2, FirstOfProcess DEF StreamOf
      <4> HIDE DEF first, old
      <4> QED BY <1>4, <3>2, <4>1, RemoveAtKeeps
    <3> QED BY <3>1, <3>2
  <2>2. devices' = WithStreams(devices, i, now)
    BY <1>8 DEF WithStreams
  <2>3. x \in Event /\ x.op = "stream" /\ x.fd = i /\ x.flags = m.flags
    BY <1>2, <1>3, NoticeOp
  <2>4. \/ m.flags # {} /\ \E e \in Client \X Int : now = Append(old, e)
        \/ m.flags = {} /\ old # <<>>
    <3>1. CASE on
      <4>1. <<c, m.fd>> \in Client \X Int
        BY <1>3
      <4> QED BY <3>1, <4>1
    <3>2. CASE ~on
      <4>1. StreamOf(i, c) # {}
        BY <1>8, <3>2
      <4>2. DOMAIN old # {}
        BY <4>1 DEF StreamOf
      <4>3. old # <<>>
        BY <4>2
      <4> HIDE DEF now, old, m
      <4> QED BY <3>2, <4>3
    <3> QED BY <3>1, <3>2
  <2> DEFINE f == m.flags
  <2>5. /\ Note(f # {}, Len(now)) => (now # <<>> <=> f # {})
        /\ ~Note(f # {}, Len(now)) => (now # <<>> <=> old # <<>>)
    <3> HIDE DEF now, old, f
    <3> QED BY <1>4, <2>1, <2>4, NoteSays DEF f
  <2>6. \/ events' = Told(devices[i].pid, x) /\ (now # <<>> <=> x.flags # {})
        \/ events' = events /\ (now # <<>> <=> devices[i].streams # <<>>)
    <3> HIDE DEF now, x
    <3> QED BY <1>8, <2>3, <2>5
  <2> HIDE DEF now, x, i, m
  <2> QED BY <1>1, <1>3, <1>5, <1>6, <2>2, <2>3, <2>6, ListenersChanged
<1> QED BY <1>7, <1>8 DEF stream

---------------------------------------------------------------------------
(* The driver takes an event.                                              *)
LEMMA EventGone ==
    ASSUME TypeOK, StreamInv, NEW d \in Driver, TakesEvent(d), UNCHANGED devfs_deviceCount
    PROVE  /\ NotesAreOld' /\ events'[d] = Tail(events[d])
           /\ \A y \in Driver : y # d => events'[y] = events[y]
           /\ events[d] \in Seq(Event) /\ events[d] # <<>>
<1>1. events \in [Driver -> Seq(Event)]
  BY DEF TypeOK
<1>2. /\ events[d] \in Seq(Event) /\ events[d] # <<>> /\ events'[d] = Tail(events[d])
      /\ \A y \in Driver : y # d => events'[y] = events[y]
  BY <1>1 DEF TakesEvent
<1>3. ASSUME NEW y \in Driver, NEW k \in DOMAIN events'[y], events'[y][k].op = "stream"
      PROVE  events'[y][k].fd < devfs_deviceCount
  <2>1. CASE y = d
    <3>0. \A j \in DOMAIN Tail(events[d]) : j + 1 \in DOMAIN events[d] /\ Tail(events[d])[j] = events[d][j + 1]
      BY <1>2, TailPositions
    <3>1. k + 1 \in DOMAIN events[d] /\ events'[d][k] = events[d][k + 1]
      BY <1>2, <2>1, <3>0
    <3> QED BY <1>3, <2>1, <3>1 DEF StreamInv, NotesAreOld
  <2>2. CASE y # d
    BY <1>2, <1>3, <2>2 DEF StreamInv, NotesAreOld
  <2> QED BY <2>1, <2>2
<1>4. NotesAreOld'
  BY <1>3 DEF NotesAreOld
<1> QED BY <1>2, <1>4

LEMMA OtherEventStreams ==
    ASSUME TypeOK, StreamInv, NEW d \in Driver, TakesEvent(d),
           UNCHANGED <<list, devfs_deviceCount, devices, replies, dead>>, missed \subseteq missed',
           Current(d).op = "stream" => Current(d).fd \in missed'
    PROVE  StreamInv'
<1>1. /\ NotesAreOld' /\ events'[d] = Tail(events[d])
      /\ \A y \in Driver : y # d => events'[y] = events[y]
      /\ events[d] \in Seq(Event) /\ events[d] # <<>>
  BY EventGone
<1>2. ASSUME NEW y \in Driver, NEW i \in DOMAIN devices, i \notin missed',
             Agrees(events[y], i, devices[i].streams, list[y])
      PROVE  Agrees(events'[y], i, devices[i].streams, list[y])
  <2>1. CASE y = d
    <3>1. ~(Head(events[d]).op = "stream" /\ Head(events[d]).fd = i)
      BY <1>2 DEF Current
    <3> QED BY <1>1, <1>2, <2>1, <3>1, OtherTaken
  <2>2. CASE y # d
    BY <1>1, <1>2, <2>2
  <2> QED BY <2>1, <2>2
<1> QED BY <1>1, <1>2, StreamsSame

LEMMA LoopStreams == ASSUME TypeOK, StreamInv, NEW d \in Driver, devfs_loopStream(d) PROVE StreamInv'
<1> DEFINE e == Head(events[d])
           q == e.fd
<1>0. TakesEvent(d) /\ e.op = "stream" /\ q \in DOMAIN list[d]
  BY DEF devfs_loopStream, KnowsEvent, Current
<1>1. UNCHANGED <<devfs_deviceCount, devices, replies, dead, missed>>
  BY DEF devfs_loopStream, tableVars
<1>2. /\ NotesAreOld' /\ events'[d] = Tail(events[d])
      /\ \A y \in Driver : y # d => events'[y] = events[y]
      /\ events[d] \in Seq(Event) /\ events[d] # <<>>
  BY <1>0, <1>1, EventGone
<1>3. list[d] \in [DOMAIN list[d] -> BOOLEAN] /\ list \in [Driver -> Partial(Int, BOOLEAN)]
  BY PartialFunctions DEF TypeOK
<1>4. list' = [list EXCEPT ![d] = [list[d] EXCEPT ![q] = (e.flags # {})]]
  BY DEF devfs_loopStream, Current
<1>5. /\ list'[d] = [list[d] EXCEPT ![q] = (e.flags # {})]
      /\ \A y \in Driver : y # d => list'[y] = list[y]
  BY <1>3, <1>4
<1>6. /\ DOMAIN list'[d] = DOMAIN list[d] /\ list'[d][q] = (e.flags # {})
      /\ \A i \in DOMAIN list[d] : i # q => list'[d][i] = list[d][i]
  BY <1>0, <1>3, <1>5
<1>7. /\ Streaming(list'[d], q) <=> e.flags # {}
      /\ \A i : i # q => (Streaming(list'[d], i) <=> Streaming(list[d], i))
  BY <1>0, <1>6 DEF Streaming
<1>8. \A y \in Driver : DOMAIN list'[y] = DOMAIN list[y]
  BY <1>5, <1>6
<1>9. \A y \in Driver : \A i : Knows(y, i)' <=> Knows(y, i)
  BY <1>1, <1>8 DEF Knows
<1>10. KnownAreOld' /\ KnownAreOwn' /\ GrantedAreNew'
  BY <1>1, <1>8, <1>9 DEF StreamInv, KnownAreOld, KnownAreOwn, GrantedAreNew
<1>11. EventsAgree'
  <2> SUFFICES ASSUME NEW y \in Driver, NEW i \in DOMAIN devices, y \notin dead, i \notin missed, Knows(y, i)
               PROVE  Agrees(events'[y], i, devices[i].streams, list'[y])
    BY <1>1, <1>9 DEF EventsAgree
  <2>1. Agrees(events[y], i, devices[i].streams, list[y])
    BY DEF StreamInv, EventsAgree
  <2>2. CASE y # d
    BY <1>2, <1>5, <2>1, <2>2
  <2>3. CASE y = d /\ i = q
    <3>1. Head(events[d]).op = "stream" /\ Head(events[d]).fd = i
      BY <1>0, <2>3
    <3>2. Streaming(list'[d], i) <=> Head(events[d]).flags # {}
      BY <1>7, <2>3
    <3>3. Agrees(Tail(events[d]), i, devices[i].streams, list'[d])
      BY <1>2, <2>1, <2>3, <3>1, <3>2, NoteTaken
    <3> QED BY <1>2, <2>3, <3>3
  <2>4. CASE y = d /\ i # q
    <3>1. ~(Head(events[d]).op = "stream" /\ Head(events[d]).fd = i)
      BY <2>4
    <3>2. Agrees(Tail(events[d]), i, devices[i].streams, list[d])
      BY <1>2, <2>1, <2>4, <3>1, OtherTaken
    <3>3. Streaming(list'[d], i) <=> Streaming(list[d], i)
      BY <1>7, <2>4
    <3>4. Agrees(Tail(events[d]), i, devices[i].streams, list'[d])
      BY <3>2, <3>3, AgreesAlike
    <3> QED BY <1>2, <2>4, <3>4
  <2> QED BY <2>2, <2>3, <2>4
<1> QED BY <1>2, <1>10, <1>11 DEF StreamInv

LEMMA DriverLoopStreams == ASSUME IInv, StreamInv, NEW d \in Driver, DriverLoop(d) PROVE StreamInv'
<1>1. TypeOK
  BY DEF IInv
<1>2. CASE UnknownDevice(d)
  <2>1. /\ TakesEvent(d) /\ UNCHANGED <<list, devfs_deviceCount, devices, replies, dead>>
        /\ missed \subseteq missed' /\ (Current(d).op = "stream" => Current(d).fd \in missed')
    BY <1>2 DEF UnknownDevice, libVars, tableVars
  <2> QED BY <1>1, <2>1, OtherEventStreams
<1>3. CASE OpenOrClose(d) \/ HookMissing(d) \/ devfs_loopRead(d)
  <2>1. /\ TakesEvent(d) /\ UNCHANGED <<list, devfs_deviceCount, devices, replies, dead, missed>>
        /\ Current(d).op # "stream"
    BY <1>3 DEF OpenOrClose, HookMissing, devfs_loopRead, KnowsEvent, libVars, tableVars
  <2> QED BY <1>1, <2>1, OtherEventStreams
<1>4. CASE devfs_loopStream(d)
  BY <1>1, <1>4, LoopStreams
<1> QED BY <1>2, <1>3, <1>4 DEF DriverLoop

(* A driver reads the answer to register or deregister.                     *)
LEMMA ReturnStreams == ASSUME IInv, StreamInv, NEW p \in Process, Return(p) PROVE StreamInv'
<1> DEFINE a == Head(replies[p])
<1>1. TypeOK /\ UNCHANGED <<devices, devfs_deviceCount, events, dead, missed>>
  BY DEF IInv, Return, tableVars
<1>2. replies \in [Process -> Seq(Reply)] /\ list \in [Driver -> Partial(Int, BOOLEAN)] /\ Driver \subseteq Process
  BY <1>1 DEF TypeOK, Process
<1>3. /\ replies[p] \in Seq(Reply) /\ replies[p] # <<>> /\ replies'[p] = <<>>
      /\ \A d \in Driver : d # p => replies'[d] = replies[d]
  BY <1>2 DEF Return
<1>4. a \in Reply /\ a = replies[p][1] /\ 1 \in DOMAIN replies[p]
  BY <1>3
<1>5. a.fd \in Int
  BY <1>4 DEF Reply
<1>6. a.status = "OK" => Granted(replies[p], a.fd)
  BY <1>4 DEF Granted
<1>7. list' = Relisted(p, a)
  BY DEF Return
<1>8. \A d \in Driver : d # p => list'[d] = list[d]
  BY <1>2, <1>7 DEF Relisted
<1> HIDE DEF a
<1>9. p \in Driver => \A i : i \in DOMAIN list'[p] =>
          \/ list'[p][i] = list[p][i] /\ i \in DOMAIN list[p]
          \/ a.status = "OK" /\ i = a.fd /\ list'[p][i] = FALSE
  <2> SUFFICES ASSUME p \in Driver
               PROVE  \A i : i \in DOMAIN list'[p] =>
                          \/ list'[p][i] = list[p][i] /\ i \in DOMAIN list[p]
                          \/ a.status = "OK" /\ i = a.fd /\ list'[p][i] = FALSE
    OBVIOUS
  <2> DEFINE l == list[p]
             f == call[p].fd
             g == a.fd
  <2>1. CASE list'[p] = l
    BY <2>1
  <2>2. CASE a.status = "OK" /\ list'[p] = Insert(l, g, FALSE)
    <3> HIDE DEF l, g
    <3>1. \A i : i \in DOMAIN Insert(l, g, FALSE) =>
              \/ Insert(l, g, FALSE)[i] = l[i] /\ i \in DOMAIN l
              \/ i = g /\ Insert(l, g, FALSE)[i] = FALSE
      BY DEF Insert
    <3> QED BY <2>2, <3>1 DEF l, g
  <2>3. CASE list'[p] = Without(l, f)
    <3> HIDE DEF l, f
    <3>1. \A i : i \in DOMAIN Without(l, f) => Without(l, f)[i] = l[i] /\ i \in DOMAIN l
      BY DEF Without
    <3> QED BY <2>3, <3>1 DEF l
  <2> QED BY <1>2, <1>7, <2>1, <2>2, <2>3 DEF Relisted
<1>10. \A d \in Driver : \A i : Granted(replies'[d], i) => d # p /\ Granted(replies[d], i)
  BY <1>3 DEF Granted
<1>11. \A d \in Driver : \A i : Knows(d, i)' => Knows(d, i)
  BY <1>6, <1>8, <1>9, <1>10 DEF Knows
<1>12. KnownAreOld' /\ KnownAreOwn' /\ NotesAreOld'
  BY <1>1, <1>11 DEF StreamInv, KnownAreOld, KnownAreOwn, NotesAreOld
<1>13. GrantedAreNew'
  BY <1>1, <1>8, <1>10 DEF StreamInv, GrantedAreNew
<1>14. EventsAgree'
  <2> SUFFICES ASSUME NEW d \in Driver, NEW i \in DOMAIN devices, d \notin dead, i \notin missed, Knows(d, i)'
               PROVE  Agrees(events[d], i, devices[i].streams, list'[d])
    BY <1>1 DEF EventsAgree
  <2>1. Agrees(events[d], i, devices[i].streams, list[d])
    BY <1>11 DEF StreamInv, EventsAgree
  <2>2. CASE d # p
    BY <1>8, <2>1, <2>2
  <2>3. CASE d = p
    <3>1. i \in DOMAIN list'[d]
      BY <1>10, <2>3 DEF Knows
    <3>2. Streaming(list[d], i) <=> Streaming(list'[d], i)
      <4>1. CASE list'[d][i] = list[d][i] /\ i \in DOMAIN list[d]
        BY <3>1, <4>1 DEF Streaming
      <4>2. CASE i \notin DOMAIN list[d] /\ list'[d][i] = FALSE
        BY <4>2 DEF Streaming
      <4>3. i \in DOMAIN list[d] => ~(a.status = "OK" /\ i = a.fd)
        BY <1>6, <2>3 DEF StreamInv, GrantedAreNew
      <4> QED BY <1>9, <2>3, <3>1, <4>1, <4>2, <4>3
    <3> QED BY <2>1, <3>2, AgreesAlike
  <2> QED BY <2>2, <2>3
<1> QED BY <1>12, <1>13, <1>14 DEF StreamInv

LEMMA OtherStreams ==
    ASSUME TypeOK, StreamInv, UNCHANGED <<list, devices, devfs_deviceCount, events, missed>>, dead \subseteq dead',
           \A d \in Driver : replies'[d] = replies[d] \/ replies'[d] = <<>>
    PROVE  StreamInv'
<1>1. NotesAreOld'
  BY DEF StreamInv, NotesAreOld
<1>2. \A d \in Driver : \A i : Granted(replies'[d], i) => Granted(replies[d], i)
  BY DEF Granted
<1> QED BY <1>1, <1>2, StreamsSame

LEMMA StreamsKept == IInv /\ StreamInv /\ [Next]_vars => StreamInv'
<1> SUFFICES ASSUME IInv, StreamInv, [Next]_vars PROVE StreamInv'
  OBVIOUS
<1>0. TypeOK /\ Driver \subseteq Process
  BY DEF IInv, Process
<1>1. CASE Daemon
  BY <1>1, RegisterStreams, DeregisterStreams, OpenStreams, CloseStreams, DispatchStreams, ResponseStreams,
     StreamStreams DEF Daemon
<1>2. ASSUME NEW d \in Driver, DriverLoop(d) PROVE StreamInv'
  BY <1>2, DriverLoopStreams
<1>3. ASSUME Sent PROVE StreamInv'
  <2>1. UNCHANGED <<list, devices, devfs_deviceCount, events, missed, dead, replies>>
    BY <1>3 DEF Sent, tableVars
  <2> QED BY <1>0, <2>1, OtherStreams
<1>4. ASSUME NEW d \in Driver, devfs_register(d) \/ devfs_deregister(d) PROVE StreamInv'
  BY <1>3, <1>4 DEF devfs_register, devfs_deregister
<1>5. ASSUME NEW c \in Client, ClientCall(c) PROVE StreamInv'
  BY <1>3, <1>5 DEF ClientCall, devfs_open, devfs_close, devfs_read, devfs_set_streaming
<1>6. ASSUME NEW p \in Process, Return(p) PROVE StreamInv'
  BY <1>6, ReturnStreams
<1>7. ASSUME NEW p \in Process, TimeOut(p) \/ SleepOn(p) PROVE StreamInv'
  <2>1. UNCHANGED <<list, devices, devfs_deviceCount, events, missed, dead, replies>>
    BY <1>7 DEF TimeOut, SleepOn, tableVars
  <2> QED BY <1>0, <2>1, OtherStreams
<1>8. ASSUME NEW d \in Driver, Die(d) PROVE StreamInv'
  <2>1. /\ UNCHANGED <<list, devices, devfs_deviceCount, events, missed>> /\ dead \subseteq dead'
        /\ replies' = [replies EXCEPT ![d] = <<>>]
    BY <1>8 DEF Die, tableVars
  <2>2. \A y \in Driver : replies'[y] = replies[y] \/ replies'[y] = <<>>
    BY <1>0, <2>1 DEF TypeOK
  <2> QED BY <1>0, <2>1, <2>2, OtherStreams
<1>9. CASE UNCHANGED vars
  <2>1. UNCHANGED <<list, devices, devfs_deviceCount, events, missed, dead, replies>>
    BY <1>9 DEF vars, libVars, tableVars
  <2> QED BY <1>0, <2>1, OtherStreams
<1> QED BY <1>1, <1>2, <1>4, <1>5, <1>6, <1>7, <1>8, <1>9 DEF Next

LEMMA InitialStreams == Init => StreamInv
<1> SUFFICES ASSUME Init PROVE StreamInv
  OBVIOUS
<1>1. /\ \A d \in Driver : events[d] = <<>> /\ list[d] = <<>> /\ replies[d] = <<>>
      /\ devices = <<>>
  BY DEF Init, Process
<1>2. DOMAIN <<>> = {}
  OBVIOUS
<1>3. \A d \in Driver : \A i : ~Knows(d, i) /\ ~Granted(replies[d], i)
  BY <1>1, <1>2 DEF Knows, Granted
<1> QED BY <1>1, <1>2, <1>3 DEF StreamInv, KnownAreOld, KnownAreOwn, GrantedAreNew, NotesAreOld, EventsAgree

(* A driver that knows a device streams, or has been told to, exactly while  *)
(* somebody listens (files.c stream, events.c devfs_loopStream), whatever    *)
(* other events lie between the notices and however late the driver reads    *)
(* the answer that names its device, unless a notice overtook that answer.   *)
THEOREM StreamsListened == Spec => []StreamsWhileListened
<1>1. IInv /\ StreamInv /\ [Next]_vars => StreamInv'
  BY StreamsKept
<1>2. IInv /\ StreamInv => StreamsWhileListened
  <2> SUFFICES ASSUME TypeOK, StreamInv, NEW d \in Driver, NEW i \in DOMAIN list[d] \cap DOMAIN devices,
                      d \notin dead, i \notin missed
               PROVE  LET Streamed == devices[i].streams # <<>>
                      IN  /\ Notes(d, i) = {} => (Streamed <=> list[d][i])
                          /\ \A k \in Notes(d, i) :
                                 (\A j \in Notes(d, i) : j <= k) => (Streamed <=> events[d][k].flags # {})
    BY DEF IInv, StreamsWhileListened
  <2> DEFINE s == devices[i].streams
  <2>1. Agrees(events[d], i, s, list[d])
    BY DEF StreamInv, EventsAgree, Knows
  <2>2. list[d][i] \in BOOLEAN
    BY PartialFunctions DEF TypeOK
  <2>3. \A k : IsNote(events[d], k, i) <=> k \in Notes(d, i)
    BY DEF IsNote, Notes
  <2>4. Notes(d, i) \subseteq Nat
    <3>1. events[d] \in Seq(Event)
      BY DEF TypeOK
    <3> QED BY <3>1 DEF Notes
  <2>5. Notes(d, i) = {} => (s # <<>> <=> list[d][i])
    BY <2>1, <2>2, <2>3 DEF Agrees, Streaming
  <2>6. ASSUME NEW k \in Notes(d, i), \A j \in Notes(d, i) : j <= k
        PROVE  s # <<>> <=> events[d][k].flags # {}
    <3>1. LastNote(events[d], k, i) /\ k \in Nat
      BY <2>3, <2>4, <2>6 DEF LastNote
    <3> QED BY <2>1, <3>1 DEF Agrees
  <2> QED BY <2>5, <2>6
<1> QED BY Invariance, InitialStreams, <1>1, <1>2, PTL DEF Spec
=============================================================================
