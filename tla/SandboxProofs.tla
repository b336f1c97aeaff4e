---------------------------- MODULE SandboxProofs ----------------------------
(***************************************************************************)
(* Proofs about Sandbox, for every number of calls, packets, buffers and   *)
(* CPUs and every length of a buffer: no wake-up of the machine's main     *)
(* thread is lost, and the exit event that ends the sandbox comes last.    *)
(*                                                                         *)
(* The second is inductive only with an account of the whole server: what  *)
(* the calls, the threads of the requests and the lines in the pipes may   *)
(* be (ServerType, LinesKept), that every end has a reason (RestInv), and  *)
(* that nothing more is printed once the end has been told (OverKept).     *)
(***************************************************************************)
EXTENDS Sandbox, SequenceTheorems, TLAPS

-----------------------------------------------------------------------------
(* What a delivery leaves *)

LEMMA DivBounds ==
    ASSUME NEW x \in Nat, NEW b \in Nat \ {0}
    PROVE  /\ x \div b \in Nat
           /\ (x \div b) * b <= x
           /\ x < (x \div b) * b + b
BY Z3

LEMMA MultMonotone ==
    ASSUME NEW p \in Nat, NEW q \in Nat, NEW b \in Nat \ {0}, p * b < q * b + b
    PROVE  p <= q
<1>1. SUFFICES ASSUME p >= q + 1 PROVE FALSE
  OBVIOUS
<1>2. p * b >= (q + 1) * b
  BY <1>1, Z3
<1>3. (q + 1) * b = q * b + b
  BY Z3
<1> QED  BY <1>2, <1>3

\* The buffers that n units take: no more than there are when they fit, all when they fill them.
LEMMA BuffersTaken ==
    ASSUME NEW o \in Nat, NEW b \in Nat \ {0}, NEW n \in Nat, n <= o * b
    PROVE  /\ (n + b - 1) \div b \in 0..o
           /\ n = o * b => (n + b - 1) \div b = o
<1> DEFINE x == n + b - 1
<1> DEFINE q == x \div b
<1>1. x \in Nat
  OBVIOUS
<1>2. q \in Nat /\ q * b <= x /\ x < q * b + b
  BY <1>1, DivBounds
<1>3. o * b \in Nat /\ q * b \in Nat
  BY <1>2, Z3
<1> HIDE DEF q
<1>4. q <= o
  <2>1. q * b < o * b + b
    BY <1>2, <1>3
  <2> QED  BY <2>1, <1>2, MultMonotone
<1>5. ASSUME n = o * b PROVE o <= q
  <2>1. o * b < q * b + b
    BY <1>2, <1>3, <1>5
  <2> QED  BY <2>1, <1>2, MultMonotone
<1>6. q \in 0..o /\ (n = o * b => q = o)
  BY <1>2, <1>4, <1>5
<1> QED  BY <1>6 DEF q

-----------------------------------------------------------------------------
(* The invariant *)

DeviceState == [queued : Seq(Int), offered : Nat, offers : Nat, kick : BOOLEAN, got : Seq(Int)]
Kinds == {"ConsoleInput", "Wake", "RunOnMain", "BootConsole", "SpawnCpu", "CpuExited", "Terminate"}
Args == {"", "console", "vsock", "stopped", "poweroff", "panicked"}
RequestSet == [kind : Kinds, arg : Args, input : Int]

MachineType ==
    /\ requests \in Seq(RequestSet) /\ typed \in Seq(Int)
    /\ device \in [Devices -> DeviceState] /\ waking \in Nat

\* Nothing waits for the guest before there is a machine.
OffIsIdle == machine = "off" => \A d \in Devices : device[d].queued = <<>>

WakeInv == MachineType /\ OffIsIdle /\ NoLostWake

\* A delivery ends with nothing queued or no buffer left.
LEMMA DeliverLeaves ==
    ASSUME NEW d \in Devices, NEW this \in DeviceState
    PROVE  /\ Deliver(d, this) \in DeviceState
           /\ Deliver(d, this).queued = <<>> \/ Deliver(d, this).offered = 0
<1> DEFINE room == IF d = "console" THEN BufferLength ELSE 1
<1> DEFINE n == Least(Len(this.queued), this.offered * room)
<1> DEFINE taken == (n + room - 1) \div room
<1>1. room \in Nat \ {0}
  BY MachineAssumption
<1>2. this.offered * room \in Nat
  BY <1>1, Z3 DEF DeviceState
<1>3. n \in Nat /\ n <= Len(this.queued) /\ n <= this.offered * room
      /\ (n = Len(this.queued) \/ n = this.offered * room)
  BY <1>2 DEF Least, DeviceState
<1> HIDE DEF n, room
<1>4. taken \in 0..this.offered /\ (n = this.offered * room => taken = this.offered)
  BY <1>1, <1>3, BuffersTaken, Zenon DEF DeviceState
<1>5. /\ SubSeq(this.queued, n + 1, Len(this.queued)) \in Seq(Int)
      /\ n = Len(this.queued) => SubSeq(this.queued, n + 1, Len(this.queued)) = <<>>
      /\ this.got \o SubSeq(this.queued, 1, n) \in Seq(Int)
  BY <1>3 DEF DeviceState
<1> HIDE DEF taken
<1>6. Deliver(d, this) = [this EXCEPT !.queued = SubSeq(@, n + 1, Len(@)), !.offered = @ - taken,
                                      !.got = @ \o SubSeq(this.queued, 1, n)]
  BY DEF Deliver, n, room, taken
<1>7. /\ Deliver(d, this).queued = SubSeq(this.queued, n + 1, Len(this.queued))
      /\ Deliver(d, this).offered = this.offered - taken
      /\ Deliver(d, this).got = this.got \o SubSeq(this.queued, 1, n)
      /\ Deliver(d, this).offers = this.offers /\ Deliver(d, this).kick = this.kick
      /\ Deliver(d, this) = [queued |-> SubSeq(this.queued, n + 1, Len(this.queued)), offered |-> this.offered - taken,
                             offers |-> this.offers, kick |-> this.kick, got |-> this.got \o SubSeq(this.queued, 1, n)]
  BY <1>6, Zenon DEF DeviceState
<1>8. this.offered - taken \in Nat
  BY <1>4 DEF DeviceState
<1>9. Deliver(d, this) \in DeviceState
  BY <1>5, <1>7, <1>8, Zenon DEF DeviceState
<1> QED  BY <1>3, <1>4, <1>5, <1>7, <1>9, SMTT(30) DEF DeviceState

\* What is to come is still to come after another request is sent, and after another is served.
LEMMA ComingSent ==
    ASSUME requests \in Seq(RequestSet), NEW r \in RequestSet, requests' = Append(requests, r),
           NEW k, NEW a
    PROVE  Coming(k, a) \/ (r.kind = k /\ r.arg = a) => Coming(k, a)'
<1>1. /\ Len(requests') = Len(requests) + 1 /\ Len(requests) \in Nat
      /\ \A i \in 1..Len(requests) : requests'[i] = requests[i]
      /\ requests'[Len(requests) + 1] = r
  OBVIOUS
<1> QED  BY <1>1 DEF Coming

LEMMA ComingServed ==
    ASSUME requests \in Seq(RequestSet), requests # <<>>, requests' = Tail(requests), NEW k, NEW a,
           Head(requests).kind # k \/ Head(requests).arg # a
    PROVE  Coming(k, a) => Coming(k, a)'
<1> SUFFICES ASSUME Coming(k, a) PROVE Coming(k, a)'
  OBVIOUS
<1>1. PICK i \in 1..Len(requests) : requests[i].kind = k /\ requests[i].arg = a
  BY DEF Coming
<1>2. Len(requests) \in Nat /\ Head(requests) = requests[1] /\ i # 1
  BY <1>1
<1>3. /\ Len(requests') = Len(requests) - 1
      /\ \A j \in 1..Len(requests') : requests'[j] = requests[j + 1]
  BY <1>2
<1>4. i - 1 \in 1..Len(requests') /\ requests'[i - 1] = requests[i]
  BY <1>2, <1>3
<1> QED  BY <1>1, <1>4, Zenon DEF Coming

-----------------------------------------------------------------------------
(* Steps that have something in common *)

LEMMA RequestTypes ==
    /\ \A k \in Kinds, a \in Args : Request(k, a) \in RequestSet
    /\ \A x \in Int : ConsoleInput(x) \in RequestSet
BY DEF Request, ConsoleInput, RequestSet, Kinds, Args

\* A request more takes nothing away; a thread that wakes the machine leaves its Wake.
LEMMA SendKeeps ==
    ASSUME WakeInv, NEW r \in RequestSet, Send(r), UNCHANGED <<machine, device>>,
           typed' \in Seq(Int), waking' \in Nat, waking' = waking \/ (r.kind = "Wake" /\ r.arg = "")
    PROVE  WakeInv'
<1>0. requests \in Seq(RequestSet) /\ requests' = Append(requests, r)
  BY Zenon DEF WakeInv, MachineType, Send
<1>5. requests' \in Seq(RequestSet)
  BY <1>0, AppendProperties, Zenon
<1>1. MachineType'
  BY <1>5, Zenon DEF WakeInv, MachineType
<1>4. OffIsIdle'
  BY Zenon DEF WakeInv, OffIsIdle
<1>2. \A k, a : Coming(k, a) \/ (r.kind = k /\ r.arg = a) => Coming(k, a)'
  BY ComingSent, Zenon DEF WakeInv, MachineType, Send
<1>3. NoLostWake'
  BY <1>2, Zenon DEF WakeInv, NoLostWake
<1> QED  BY <1>1, <1>3, <1>4, Zenon DEF WakeInv

\* A request served that is neither a kick nor a wake.
LEMMA ServeKeeps ==
    ASSUME WakeInv, NEW kind \in Kinds \ {"RunOnMain", "Wake"}, Served(kind),
           UNCHANGED <<machine, device, waking, typed>>
    PROVE  WakeInv'
<1>1. MachineType' /\ OffIsIdle'
  BY DEF WakeInv, MachineType, OffIsIdle, Served
<1>2. /\ \A d \in Devices : Coming("RunOnMain", d) => Coming("RunOnMain", d)'
      /\ Coming("Wake", "") => Coming("Wake", "")'
  BY ComingServed, Zenon DEF WakeInv, MachineType, Served
<1>3. NoLostWake'
  BY <1>2, Zenon DEF WakeInv, NoLostWake
<1> QED  BY <1>1, <1>3 DEF WakeInv

\* A request of d served by a delivery to d.
LEMMA DeliverKeeps ==
    ASSUME WakeInv, NEW d \in Devices, NEW this \in DeviceState, requests # <<>>, requests' = Tail(requests),
           machine = "up", Head(requests).kind = "RunOnMain" => Head(requests).arg = d,
           Head(requests).kind = "Wake" => d = "vsock",
           device' = [device EXCEPT ![d] = Deliver(d, this)], UNCHANGED <<machine, waking, typed>>
    PROVE  WakeInv'
<1>1. MachineType' /\ OffIsIdle'
  BY DeliverLeaves DEF WakeInv, MachineType, OffIsIdle
<1>2. ASSUME NEW e \in Devices, e # d
      PROVE  /\ Coming("RunOnMain", e) => Coming("RunOnMain", e)'
             /\ e = "vsock" => (Coming("Wake", "") => Coming("Wake", "")')
  BY <1>2, ComingServed, Zenon DEF WakeInv, MachineType
<1>3. ASSUME NEW e \in Devices, device'[e].queued # <<>>, device'[e].offered > 0
      PROVE  \/ device'[e].kick \/ Coming("RunOnMain", e)'
             \/ e = "vsock" /\ (waking' > 0 \/ Coming("Wake", "")')
  <2>1. CASE e = d
    <3>1. device'[d] = Deliver(d, this)
      BY DEF WakeInv, MachineType
    <3>2. Deliver(d, this) \in DeviceState /\ (Deliver(d, this).queued = <<>> \/ Deliver(d, this).offered = 0)
      BY DeliverLeaves
    <3>3. device'[e].queued = <<>> \/ device'[e].offered = 0
      BY <2>1, <3>1, <3>2
    <3>4. ~(device'[e].offered > 0 /\ device'[e].offered = 0)
      OBVIOUS
    <3> QED  BY <1>3, <3>3, <3>4, Zenon
  <2>2. CASE e # d
    BY <1>2, <1>3, <2>2, Zenon DEF WakeInv, MachineType, NoLostWake
  <2> QED  BY <2>1, <2>2, Zenon
<1>4. NoLostWake'
  BY <1>3, Zenon DEF NoLostWake
<1> QED  BY <1>1, <1>4 DEF WakeInv

\* Once run has returned there is nothing to wake.
LEMMA EndKeeps ==
    ASSUME WakeInv, requests' \in Seq(RequestSet), machine' \in {"ended", "told"}, UNCHANGED <<device, waking, typed>>
    PROVE  WakeInv'
BY Zenon DEF WakeInv, MachineType, OffIsIdle, NoLostWake

LEMMA NothingKeeps ==
    ASSUME WakeInv, UNCHANGED <<machine, requests, typed, device, waking>>
    PROVE  WakeInv'
BY Zenon DEF WakeInv, MachineType, OffIsIdle, NoLostWake, Coming

-----------------------------------------------------------------------------
(* The main thread *)

LEMMA MainKeeps ==
    ASSUME WakeInv, Main
    PROVE  WakeInv'
<1>1. CASE MainInput
  <2>1. Head(requests).input \in Int /\ requests # <<>>
    <3>1. requests \in Seq(RequestSet) /\ requests # <<>>
      BY <1>1 DEF MainInput, Served, WakeInv, MachineType
    <3>2. Head(requests) \in RequestSet
      BY <3>1
    <3> QED  BY <3>1, <3>2 DEF RequestSet
  <2> DEFINE this == Input(device["console"], Head(requests).input)
  <2>2. this \in DeviceState
    <3>1. device["console"] \in DeviceState
      BY DEF WakeInv, MachineType, Devices
    <3>2. Append(device["console"].queued, Head(requests).input) \in Seq(Int)
      BY <2>1, <3>1 DEF DeviceState
    <3> QED  BY <3>1, <3>2, Zenon DEF Input, DeviceState
  <2>3. device' = [device EXCEPT !["console"] = Deliver("console", this)]
    BY <1>1 DEF MainInput
  <2> HIDE DEF this
  <2> QED  BY <1>1, <2>2, <2>3, DeliverKeeps, Zenon DEF MainInput, Served, Devices
<1>2. CASE MainPoll
  <2>1. device["vsock"] \in DeviceState
    BY DEF WakeInv, MachineType, Devices
  <2> QED  BY <1>2, <2>1, DeliverKeeps, Zenon DEF MainPoll, Served, Devices
<1>3. CASE MainNotify
  <2> DEFINE d == Head(requests).arg
  <2>1. CASE d \in Devices
    <3>1. device[d] \in DeviceState
      BY <2>1 DEF WakeInv, MachineType
    <3>2. device' = [device EXCEPT ![d] = Deliver(d, device[d])]
      BY <1>3 DEF MainNotify, Kick
    <3> QED  BY <1>3, <2>1, <3>1, <3>2, DeliverKeeps, Zenon DEF MainNotify, Served
  <2>2. CASE d \notin Devices
    <3>1. device' = device
      BY <1>3, <2>2 DEF MainNotify, WakeInv, MachineType
    <3>2. \A e \in Devices : Coming("RunOnMain", e) => Coming("RunOnMain", e)'
      BY <1>3, <2>2, ComingServed DEF MainNotify, Served, WakeInv, MachineType
    <3>3. Coming("Wake", "") => Coming("Wake", "")'
      BY <1>3, ComingServed, Zenon DEF MainNotify, Served, WakeInv, MachineType
    <3>4. MachineType' /\ OffIsIdle'
      <4>1. requests' \in Seq(RequestSet)
        BY <1>3 DEF MainNotify, Served, WakeInv, MachineType
      <4> QED  BY <1>3, <3>1, <4>1, Zenon DEF MainNotify, WakeInv, MachineType, OffIsIdle
    <3>5. NoLostWake'
      BY <1>3, <3>1, <3>2, <3>3, Zenon DEF MainNotify, WakeInv, NoLostWake
    <3> QED  BY <3>4, <3>5 DEF WakeInv
  <2> QED  BY <2>1, <2>2
<1>4. CASE MainPrint
  BY <1>4, ServeKeeps, Zenon DEF MainPrint, Served, Kinds
<1>5. CASE MainSpawn
  BY <1>5, ServeKeeps DEF MainSpawn, Served, Kinds
<1>6. CASE MainCpuExited
  BY <1>6, ServeKeeps DEF MainCpuExited, Served, Kinds
<1>7. CASE MainTerminate
  BY <1>7, EndKeeps DEF MainTerminate, Served, WakeInv, MachineType
<1>8. CASE MainFails
  BY <1>8, EndKeeps DEF MainFails, WakeInv, MachineType
<1> QED  BY <1>1, <1>2, <1>3, <1>4, <1>5, <1>6, <1>7, <1>8 DEF Main

-----------------------------------------------------------------------------
(* The other threads and the guest *)

LEMMA PushKeeps ==
    ASSUME WakeInv, NEW x \in Int, Push(x)
    PROVE  WakeInv'
<1>1. device["vsock"] \in DeviceState /\ waking \in Nat
  BY DEF WakeInv, MachineType, Devices
<1>2. [device["vsock"] EXCEPT !.queued = Append(@, x)] \in DeviceState
  BY <1>1, AppendProperties, Zenon DEF DeviceState
<1>3. device' = [device EXCEPT !["vsock"] = [device["vsock"] EXCEPT !.queued = Append(@, x)]]
  BY DEF Push
<1> DEFINE new == [device["vsock"] EXCEPT !.queued = Append(@, x)]
<1>4. device' \in [Devices -> DeviceState] /\ \A e \in Devices : e # "vsock" => device'[e] = device[e]
  <2> HIDE DEF new
  <2> QED  BY <1>2, <1>3, Zenon DEF WakeInv, MachineType
<1>5. MachineType' /\ OffIsIdle' /\ waking' > 0
  BY <1>1, <1>4 DEF Push, WakeInv, MachineType, OffIsIdle
<1>6. \A e \in Devices : Coming("RunOnMain", e) => Coming("RunOnMain", e)'
  BY DEF Push, Coming
<1>7. NoLostWake'
  BY <1>4, <1>5, <1>6, Zenon DEF Push, WakeInv, NoLostWake
<1> QED  BY <1>5, <1>7 DEF WakeInv

LEMMA OfferKeeps ==
    ASSUME WakeInv, NEW d \in Devices, GuestOffers(d)
    PROVE  WakeInv'
<1> DEFINE new == [device[d] EXCEPT !.offered = @ + 1, !.offers = @ + 1, !.kick = TRUE]
<1>1. device[d] \in DeviceState
  BY DEF WakeInv, MachineType
<1>2. new \in DeviceState /\ new.kick
  <2>1. device[d].offered + 1 \in Nat /\ device[d].offers + 1 \in Nat
    BY <1>1 DEF DeviceState
  <2>3. new \in DeviceState
    BY <1>1, <2>1, Zenon DEF DeviceState
  <2>4. new.kick = TRUE
    BY <1>1 DEF DeviceState
  <2> QED  BY <2>3, <2>4
<1>3. device' = [device EXCEPT ![d] = new]
  BY <1>1, Zenon DEF GuestOffers, WakeInv, MachineType
<1> HIDE DEF new
<1>4. /\ device' \in [Devices -> DeviceState] /\ device'[d].kick
      /\ \A e \in Devices : e # d => device'[e] = device[e]
  BY <1>2, <1>3 DEF WakeInv, MachineType
<1>5. MachineType' /\ OffIsIdle'
  BY <1>4 DEF GuestOffers, WakeInv, MachineType, OffIsIdle
<1>6. \A k, a : Coming(k, a) => Coming(k, a)'
  BY DEF GuestOffers, Coming
<1>7. NoLostWake'
  BY <1>4, <1>6, Zenon DEF GuestOffers, WakeInv, NoLostWake
<1> QED  BY <1>5, <1>7 DEF WakeInv

LEMMA KickKeeps ==
    ASSUME WakeInv, NEW d \in Devices, GuestKicks(d)
    PROVE  WakeInv'
<1> DEFINE new == [device[d] EXCEPT !.kick = FALSE]
<1> DEFINE r == Request("RunOnMain", d)
<1>1. device[d] \in DeviceState
  BY DEF WakeInv, MachineType
<1>2. new \in DeviceState
  BY <1>1, Zenon DEF DeviceState
<1>3. device' = [device EXCEPT ![d] = new]
  BY <1>1 DEF GuestKicks, WakeInv, MachineType
<1>4. r \in RequestSet /\ r.kind = "RunOnMain" /\ r.arg = d
  <2>1. "RunOnMain" \in Kinds /\ d \in Args
    BY Zenon DEF Kinds, Args, Devices
  <2> QED  BY <2>1 DEF Request, RequestSet
<1>5. requests \in Seq(RequestSet) /\ requests' = Append(requests, r)
  BY DEF GuestKicks, Send, WakeInv, MachineType
<1> HIDE DEF new, r
<1>6. device' \in [Devices -> DeviceState] /\ \A e \in Devices : e # d => device'[e] = device[e]
  BY <1>2, <1>3 DEF WakeInv, MachineType
<1>7. requests' \in Seq(RequestSet)
  BY <1>4, <1>5, AppendProperties
<1>8. MachineType' /\ OffIsIdle'
  BY <1>6, <1>7 DEF GuestKicks, WakeInv, MachineType, OffIsIdle
<1>9. \A k, a : Coming(k, a) \/ (r.kind = k /\ r.arg = a) => Coming(k, a)'
  BY <1>4, <1>5, ComingSent
<1>10. NoLostWake'
  BY <1>4, <1>6, <1>9, Zenon DEF GuestKicks, WakeInv, NoLostWake
<1> QED  BY <1>8, <1>10 DEF WakeInv

LEMMA StopKeeps ==
    ASSUME WakeInv, Stop, UNCHANGED <<machine, device, typed, waking>>
    PROVE  WakeInv'
BY RequestTypes, SendKeeps, Zenon DEF Stop, WakeInv, MachineType, Kinds, Args

LEMMA GuestKeeps ==
    ASSUME WakeInv, Guest
    PROVE  WakeInv'
<1>1. ASSUME NEW k \in Kinds, NEW a \in Args, Send(Request(k, a)), UNCHANGED <<machine, device, typed, waking>>
      PROVE  WakeInv'
  BY <1>1, RequestTypes, SendKeeps DEF WakeInv, MachineType
<1>2. CASE \E d \in Devices : GuestOffers(d) \/ GuestKicks(d)
  BY <1>2, OfferKeeps, KickKeeps
<1>3. CASE GuestPrints
  BY <1>1, <1>3, Zenon DEF GuestPrints, Kinds, Args
<1>4. CASE GuestSpawns
  BY <1>1, <1>4, Zenon DEF GuestSpawns, Kinds, Args
<1>5. CASE CpuEnds
  BY <1>1, <1>5, Zenon DEF CpuEnds, Kinds, Args
<1>6. CASE \E r \in {"poweroff", "panicked"} : GuestTerminates(r)
  BY <1>1, <1>6, Zenon DEF GuestTerminates, Kinds, Args
<1> QED  BY <1>2, <1>3, <1>4, <1>5, <1>6 DEF Guest

LEMMA MachineKeeps ==
    ASSUME WakeInv, MachineStep
    PROVE  WakeInv'
<1>1. CASE Main
  BY <1>1, MainKeeps
<1>2. CASE Tell
  BY <1>2, EndKeeps DEF Tell, WakeInv, MachineType
<1>3. CASE Forward
  <2>1. Head(typed) \in Int /\ typed' \in Seq(Int)
    BY <1>3 DEF Forward, WakeInv, MachineType
  <2>2. ConsoleInput(Head(typed)) \in RequestSet
    BY <2>1, RequestTypes
  <2> QED  BY <1>3, <2>1, <2>2, SendKeeps DEF Forward, WakeInv, MachineType
<1>4. CASE Wake
  <2>1. Request("Wake", "") \in RequestSet /\ Request("Wake", "").kind = "Wake" /\ Request("Wake", "").arg = ""
    BY DEF Request, RequestSet, Kinds, Args
  <2>2. waking > 0 /\ waking \in Nat /\ waking' = waking - 1
    BY <1>4, Zenon DEF Wake, WakeInv, MachineType
  <2>3. waking' \in Nat
    BY <2>2
  <2>4. typed' \in Seq(Int)
    BY <1>4, Zenon DEF Wake, WakeInv, MachineType
  <2> QED  BY <1>4, <2>1, <2>3, <2>4, SendKeeps, Zenon DEF Wake
<1>5. CASE Pushes
  <2>1. PICK x \in 1..load.packets : x = Len(device["vsock"].queued \o device["vsock"].got) + 1 /\ Push(x)
    BY <1>5, Zenon DEF Pushes
  <2>2. device["vsock"].queued \o device["vsock"].got \in Seq(Int)
    BY DEF WakeInv, MachineType, Devices, DeviceState
  <2>3. x \in Int
    BY <2>1, <2>2
  <2> QED  BY <2>1, <2>3, PushKeeps, Zenon
<1>6. CASE Guest
  BY <1>6, GuestKeeps
<1> QED  BY <1>1, <1>2, <1>3, <1>4, <1>5, <1>6 DEF MachineStep

-----------------------------------------------------------------------------
(* The process *)

LEMMA InitWakes == Init => WakeInv
<1> SUFFICES ASSUME Init PROVE WakeInv
  OBVIOUS
<1>1. Idle \in DeviceState /\ Idle.queued = <<>>
  BY DEF Idle, DeviceState
<1>2. device = [d \in Devices |-> Idle] /\ machine = "off" /\ requests = <<>> /\ typed = <<>> /\ waking = 0
  BY DEF Init, MachineInit
<1> HIDE DEF Init
<1>3. MachineType
  BY <1>1, <1>2 DEF MachineType
<1> QED  BY <1>1, <1>2, <1>3 DEF WakeInv, OffIsIdle, NoLostWake

LEMMA GoneKeeps ==
    ASSUME Gone
    PROVE  WakeInv'
<1>1. Idle \in DeviceState /\ Idle.queued = <<>>
  BY DEF Idle, DeviceState
<1>2. /\ device' = [d \in Devices |-> Idle] /\ machine' = "off"
      /\ requests' = <<>> /\ typed' = <<>> /\ waking' = 0
  BY DEF Gone
<1>3. MachineType'
  BY <1>1, <1>2 DEF MachineType
<1> QED  BY <1>1, <1>2, <1>3 DEF WakeInv, OffIsIdle, NoLostWake

LEMMA WorkKeeps ==
    ASSUME WakeInv, NEW i \in Ids, Work(i)
    PROVE  WakeInv'
<1>1. CASE StartBoots(i)
  BY <1>1, Zenon DEF StartBoots, Boot, WakeInv, MachineType, OffIsIdle, NoLostWake
<1>2. CASE ConsoleWrite(i)
  <2>1. CASE Type(i)
    <3>1. i \in Int
      BY SandboxAssumption DEF Ids
    <3>2. typed' \in Seq(Int)
      BY <2>1, <3>1, AppendProperties DEF Type, WakeInv, MachineType
    <3> QED  BY <2>1, <3>2, Zenon DEF Type, WakeInv, MachineType, OffIsIdle, NoLostWake, Coming
  <2>2. CASE UNCHANGED machineVars
    BY <2>2, NothingKeeps DEF machineVars
  <2> QED  BY <1>2, <2>1, <2>2 DEF ConsoleWrite
<1>3. CASE StopMethod(i)
  <2>1. CASE Stop
    BY <1>3, <2>1, StopKeeps DEF StopMethod
  <2>2. CASE UNCHANGED requests
    BY <1>3, <2>2, NothingKeeps DEF StopMethod
  <2> QED  BY <1>3, <2>1, <2>2 DEF StopMethod
<1>4. CASE StartChecks(i) \/ StartFails(i) \/ StartAgent(i) \/ StartPublishes(i) \/ Exec(i) \/ ReplyMethod(i)
  BY <1>4, NothingKeeps DEF StartChecks, StartFails, StartAgent, StartPublishes, Exec, ReplyMethod, machineVars
<1>5. CASE StartReady(i) \/ Answers(i)
  BY <1>5, NothingKeeps, Zenon DEF StartReady, Answers
<1> QED  BY <1>1, <1>2, <1>3, <1>4, <1>5 DEF Work, Start

LEMMA ServerKeeps ==
    ASSUME WakeInv, Serve
    PROVE  WakeInv'
<1>1. CASE ServeLine \/ ServeJoin \/ ServeEof
  BY <1>1, NothingKeeps DEF ServeLine, ServeJoin, ServeEof, machineVars
<1>2. CASE ServeStops
  <2>1. CASE Stop
    BY <1>2, <2>1, StopKeeps DEF ServeStops
  <2>2. CASE UNCHANGED requests
    BY <1>2, <2>2, NothingKeeps DEF ServeStops
  <2> QED  BY <1>2, <2>1, <2>2 DEF ServeStops
<1>3. CASE ServeReturns
  BY <1>3, GoneKeeps DEF ServeReturns
<1> QED  BY <1>1, <1>2, <1>3 DEF Serve

LEMMA StepWakes == WakeInv /\ [Next]_vars => WakeInv'
<1> SUFFICES ASSUME WakeInv, [Next]_vars PROVE WakeInv'
  OBVIOUS
<1>1. CASE \E method \in load.methods \union {"start"} : AppCalls(method)
  BY <1>1, NothingKeeps DEF AppCalls, machineVars
<1>2. CASE AppReplies \/ AppSeesEnd
  BY <1>2, NothingKeeps DEF AppReplies, AppSeesEnd, machineVars
<1>3. CASE AppLine \/ AppLeaves \/ GuestAsks
  BY <1>3, NothingKeeps, Zenon DEF AppLine, AppLeaves, GuestAsks
<1>4. CASE AppKills \/ ProcessExits
  BY <1>4, GoneKeeps DEF AppKills, ProcessExits
<1>5. CASE Serve
  BY <1>5, ServerKeeps
<1>6. CASE Machine
  BY <1>6, MachineKeeps DEF Machine
<1>7. CASE \E i \in Ids : Work(i)
  BY <1>7, WorkKeeps
<1>8. CASE UNCHANGED vars
  BY <1>8, NothingKeeps DEF vars, machineVars
<1> QED  BY <1>1, <1>2, <1>3, <1>4, <1>5, <1>6, <1>7, <1>8 DEF Next

\* While the machine runs, whatever waits for the guest in a device with a buffer on offer has a kick,
\* a Wake or a waking thread to come, so the main thread (machine.rs: run) never sleeps on it; however
\* many threads push, write and stop, and however the app's calls interleave with them.
THEOREM NoLostWakeHolds == Spec => []NoLostWake
<1>1. WakeInv => NoLostWake
  BY DEF WakeInv
<1> QED  BY <1>1, InitWakes, StepWakes, PTL DEF Spec

-----------------------------------------------------------------------------
(* The state has its type *)

Pcs == {"none", "start", "boot", "agent", "publish", "ready", "exec", "write", "reply", "stop", "respond", "done"}
Methods == {"none", "start", "exec", "write", "reply", "stop"}
Results == {"none", "ok", "error"}
Ends == Reasons \union {"none", "runtime-exited"}
AppSet == [here : BOOLEAN, made : Nat, pending : SUBSET Ids, method : [Ids -> Methods],
           result : [Ids -> Results], after : [Ids -> SUBSET Ids], done : Ends]
WorkerSet == [pc : Pcs, result : {"ok", "error"}]
LineSet == [event : {"", "console", "exit", "ready", "permission"}, id : Nat,
            arg : Reasons \union {"", "none", "ok", "error"}]

AppType == app \in AppSet /\ app.made <= load.calls /\ app.pending \subseteq 1..app.made

ServerType ==
    /\ load \in Loads /\ AppType /\ stdin \in Seq(Ids) /\ worker \in [Ids -> WorkerSet] /\ stdout \in Seq(LineSet)
    /\ reader \in {"read", "join", "ending", "sleep", "returned"} /\ running \in BOOLEAN /\ proc \in {"up", "gone"}
    /\ question \in {"none", "asked", "shown", "taken", "answered", "refused"}

\* An answer is of a request; an exit event has a reason.
LinesKept ==
    \A i \in 1..Len(stdout) :
        /\ stdout[i].event = "" => stdout[i].id \in Ids /\ stdout[i].arg \in {"ok", "error"}
        /\ stdout[i].event = "exit" => stdout[i].arg \in Reasons

LEMMA LoadFacts ==
    ASSUME NEW l \in Loads
    PROVE  /\ l.packets \in Nat /\ l.prints \in Nat /\ l.offers \in [Devices -> Nat]
           /\ l.calls \in 1..Calls /\ Calls \in Nat
           /\ \A method \in l.methods \union {"start", "reply"} : method \in Methods
BY MachineAssumption, SandboxAssumption DEF Methods

\* A call more: its number is new, the rest of the library's state is kept.
LEMMA CallFacts ==
    ASSUME ServerType, NEW method \in Methods, Calling(method)
    PROVE  \E id \in Ids :
               /\ id = app.made + 1 /\ id <= load.calls
               /\ app' \in AppSet /\ app'.made = id /\ app'.pending = app.pending \union {id}
               /\ app'.method = [app.method EXCEPT ![id] = method] /\ app'.result = app.result
               /\ app'.after = [app.after EXCEPT ![id] = {i \in Ids : app.result[i] = "ok"}]
               /\ app'.done = app.done /\ app'.here = app.here
               /\ stdin' = Append(stdin, id) \/ stdin' = stdin
               /\ proc = "gone" => stdin' = stdin
<1> DEFINE id == app.made + 1
<1> DEFINE ok == {i \in Ids : app.result[i] = "ok"}
<1> DEFINE new == [app EXCEPT !.made = id, !.pending = @ \union {id}, !.method[id] = method, !.after[id] = ok]
<1>1. app \in AppSet /\ load.calls \in 1..Calls /\ Calls \in Nat
  BY LoadFacts DEF ServerType, AppType
<1>2. id <= load.calls /\ app' = new /\ stdin' = IF proc = "up" THEN Append(stdin, id) ELSE stdin
  BY DEF Calling
<1>3. app.made \in Nat
  BY <1>1 DEF AppSet
<1>4. id \in Ids /\ id \in Nat
  BY <1>1, <1>2, <1>3 DEF Ids
<1>5. ok \in SUBSET Ids
  OBVIOUS
<1> HIDE DEF id, ok
<1>6. /\ new.made = id /\ new.pending = app.pending \union {id} /\ new.method = [app.method EXCEPT ![id] = method]
      /\ new.result = app.result /\ new.after = [app.after EXCEPT ![id] = ok]
      /\ new.done = app.done /\ new.here = app.here
  BY <1>1 DEF AppSet
<1>7. new \in AppSet
  <2>1. app.pending \union {id} \in SUBSET Ids /\ [app.method EXCEPT ![id] = method] \in [Ids -> Methods]
        /\ [app.after EXCEPT ![id] = ok] \in [Ids -> SUBSET Ids]
    BY <1>1, <1>4, <1>5 DEF AppSet
  <2> QED  BY <1>1, <1>4, <2>1, Zenon DEF AppSet
<1>8. stdin' = Append(stdin, id) \/ stdin' = stdin
  BY <1>2
<1>9. proc = "gone" => stdin' = stdin
  BY <1>2
<1>10. id = app.made + 1 /\ ok = {i \in Ids : app.result[i] = "ok"}
  BY DEF id, ok
<1> HIDE DEF new
<1> QED  BY <1>2, <1>4, <1>6, <1>7, <1>8, <1>9, <1>10, Zenon

\* What an answer, an exit event or the end of the process leaves of the library's state.
AppKept(new) ==
    /\ new \in AppSet /\ new.made = app.made /\ new.method = app.method /\ new.after = app.after
    /\ new.here = app.here /\ new.pending \subseteq app.pending

LEMMA FinishFacts ==
    ASSUME ServerType, NEW why \in Reasons \union {"runtime-exited"}
    PROVE  /\ AppKept(Finish(app, why))
           /\ \A x \in Ids : Finish(app, why).result[x] = "ok" => app.result[x] = "ok"
           /\ Finish(app, why).done = app.done \/ (app.done = "none" /\ Finish(app, why).done = why)
<1>1. app \in AppSet
  BY DEF ServerType, AppType
<1>2. CASE app.done # "none"
  <2>1. Finish(app, why) = app
    BY <1>2 DEF Finish
  <2> QED  BY <1>1, <2>1 DEF AppKept
<1>3. CASE app.done = "none"
  <2> DEFINE res == [i \in Ids |-> IF i \in app.pending THEN "error" ELSE app.result[i]]
  <2> DEFINE new == [app EXCEPT !.done = why, !.pending = {}, !.result = res]
  <2>1. res \in [Ids -> Results] /\ \A x \in Ids : res[x] = "ok" => app.result[x] = "ok"
    BY <1>1 DEF AppSet, Results
  <2>2. Finish(app, why) = new
    BY <1>1, <1>3 DEF Finish, AppSet
  <2> HIDE DEF res
  <2>3. /\ new.made = app.made /\ new.method = app.method /\ new.after = app.after /\ new.here = app.here
        /\ new.pending = {} /\ new.result = res /\ new.done = why
    BY <1>1 DEF AppSet
  <2>4. new \in AppSet
    BY <1>1, <2>1, Zenon DEF AppSet, Ends
  <2> HIDE DEF new
  <2> QED  BY <1>3, <2>1, <2>2, <2>3, <2>4 DEF AppKept
<1> QED  BY <1>2, <1>3

LEMMA FirstOf ==
    ASSUME NEW S, NEW s \in Seq(S), s # <<>>
    PROVE  Len(s) \in Nat /\ 1 \in 1..Len(s) /\ Head(s) = s[1] /\ s[1] \in S
<1>1. Len(s) \in Nat \ {0}
  BY EmptySeq, Zenon
<1>2. 1 \in 1..Len(s)
  BY <1>1
<1>3. s[1] \in S
  BY <1>2, ElementOfSeq, Zenon
<1> QED  BY <1>1, <1>2, <1>3

LEMMA LineFacts ==
    ASSUME ServerType, LinesKept, AppLine
    PROVE  /\ AppKept(app')
           /\ \A x \in Ids : app'.result[x] = "ok" =>
                  \/ app.result[x] = "ok"
                  \/ stdout[1].event = "" /\ stdout[1].id = x /\ stdout[1].arg = "ok"
           /\ app'.done = app.done \/ (stdout[1].event = "exit" /\ app'.done = stdout[1].arg)
           /\ stdout # <<>> /\ stdout' = Tail(stdout) /\ 1 \in 1..Len(stdout)
<1> DEFINE line == stdout[1]
<1>1. /\ stdout # <<>> /\ stdout' = Tail(stdout)
      /\ app' = CASE Head(stdout).event = "" ->
                         IF Head(stdout).id \in app.pending
                         THEN [app EXCEPT !.pending = @ \ {Head(stdout).id}, !.result[Head(stdout).id] = Head(stdout).arg]
                         ELSE app
                  [] Head(stdout).event = "exit" -> Finish(app, Head(stdout).arg)
                  [] OTHER -> app
  BY Zenon DEF AppLine
<1>2. stdout \in Seq(LineSet) /\ app \in AppSet
  BY DEF ServerType, AppType
<1>3. Head(stdout) = line /\ 1 \in 1..Len(stdout) /\ line \in LineSet
  BY <1>1, <1>2, FirstOf, Zenon
<1>4. /\ line.event = "" => line.id \in Ids /\ line.arg \in {"ok", "error"}
      /\ line.event = "exit" => line.arg \in Reasons
  BY <1>3, Zenon DEF LinesKept
<1> HIDE DEF line
<1>5. AppKept(app)
  BY <1>2 DEF AppKept
<1>6. CASE line.event = "" /\ line.id \in app.pending
  <2> DEFINE new == [app EXCEPT !.pending = @ \ {line.id}, !.result[line.id] = line.arg]
  <2>1. app' = new
    BY <1>1, <1>3, <1>6, Zenon
  <2>2. /\ new.made = app.made /\ new.method = app.method /\ new.after = app.after /\ new.here = app.here
        /\ new.pending = app.pending \ {line.id} /\ new.result = [app.result EXCEPT ![line.id] = line.arg]
        /\ new.done = app.done
    BY <1>2 DEF AppSet
  <2>3. [app.result EXCEPT ![line.id] = line.arg] \in [Ids -> Results] /\ app.pending \ {line.id} \in SUBSET Ids
    BY <1>2, <1>4, <1>6, Zenon DEF AppSet, Results
  <2>4. new \in AppSet
    BY <1>2, <2>3, Zenon DEF AppSet
  <2>5. \A x \in Ids : new.result[x] = "ok" => app.result[x] = "ok" \/ (line.id = x /\ line.arg = "ok")
    BY <1>2, <1>4, <1>6, <2>2, Zenon DEF AppSet
  <2> HIDE DEF new
  <2>6. AppKept(new)
    BY <2>2, <2>4 DEF AppKept
  <2> QED  BY <1>1, <1>3, <1>6, <2>1, <2>2, <2>5, <2>6, Zenon DEF line
<1>7. CASE line.event = "exit"
  <2>1. app' = Finish(app, line.arg)
    BY <1>1, <1>3, <1>7, Zenon
  <2>2. line.arg \in Reasons \union {"runtime-exited"}
    BY <1>4, <1>7
  <2> QED  BY <1>1, <1>3, <1>7, <2>1, <2>2, FinishFacts, Zenon DEF line
<1>8. CASE ~(line.event = "" /\ line.id \in app.pending) /\ line.event # "exit"
  <2>1. app' = app
    BY <1>1, <1>3, <1>8, Zenon
  <2> QED  BY <1>1, <1>3, <1>5, <2>1, Zenon DEF line
<1> QED  BY <1>6, <1>7, <1>8, Zenon

\* What the thread of request i does next: its own work in order, or an error that is answered.
Moves(i, new) ==
    \/ worker[i].pc \in {"start", "boot", "agent", "exec", "write", "reply"} /\ new.pc = "respond" /\ new.result = "error"
    \/ /\ new.result = worker[i].result
       /\ \/ worker[i].pc = "start" /\ new.pc = "boot"
          \/ worker[i].pc = "boot" /\ new.pc = "agent" /\ StartBoots(i)
          \/ worker[i].pc = "agent" /\ new.pc = "publish"
          \/ worker[i].pc = "publish" /\ new.pc = "ready"
          \/ worker[i].pc = "write" /\ new.pc = "respond" /\ running /\ Type(i)
          \/ worker[i].pc \in {"ready", "exec", "reply", "stop"} /\ new.pc = "respond"
          \/ worker[i].pc = "respond" /\ new.pc = "done"

LEMMA GoFacts ==
    ASSUME worker \in [Ids -> WorkerSet], NEW i \in Ids, NEW pc \in Pcs, Go(i, pc)
    PROVE  \E new \in WorkerSet : /\ worker' = [worker EXCEPT ![i] = new]
                                  /\ new.pc = pc /\ new.result = worker[i].result
<1> DEFINE new == [worker[i] EXCEPT !.pc = pc]
<1>1. worker[i] \in WorkerSet /\ worker' = [worker EXCEPT ![i] = new]
  BY DEF Go
<1>2. new \in WorkerSet /\ new.pc = pc /\ new.result = worker[i].result
  BY <1>1 DEF WorkerSet
<1> HIDE DEF new
<1> QED  BY <1>1, <1>2, Zenon

LEMMA FailFacts ==
    ASSUME worker \in [Ids -> WorkerSet], NEW i \in Ids, Fail(i)
    PROVE  \E new \in WorkerSet : /\ worker' = [worker EXCEPT ![i] = new]
                                  /\ new.pc = "respond" /\ new.result = "error"
<1> DEFINE new == [pc |-> "respond", result |-> "error"]
<1>1. worker' = [worker EXCEPT ![i] = new]
  BY DEF Fail
<1>2. new \in WorkerSet /\ new.pc = "respond" /\ new.result = "error"
  BY DEF WorkerSet, Pcs
<1> HIDE DEF new
<1> QED  BY <1>1, <1>2, Zenon

\* A step of the thread of a request.
LEMMA WorkFacts ==
    ASSUME worker \in [Ids -> WorkerSet], NEW i \in Ids, Work(i)
    PROVE  /\ proc = "up" /\ UNCHANGED <<load, app, stdin, reader, proc>>
           /\ \E new \in WorkerSet : worker' = [worker EXCEPT ![i] = new] /\ Moves(i, new)
<1>1. proc = "up" /\ UNCHANGED <<load, app, stdin, reader, proc>>
  <2>1. CASE StartChecks(i) \/ StartFails(i) \/ StartAgent(i) \/ StartPublishes(i)
    BY <2>1, Zenon DEF StartChecks, StartFails, StartAgent, StartPublishes, At, machineVars
  <2>2. CASE StartBoots(i) \/ StartReady(i) \/ StopMethod(i) \/ Answers(i)
    BY <2>2, Zenon DEF StartBoots, StartReady, StopMethod, Answers, At
  <2>3. CASE Exec(i) \/ ReplyMethod(i)
    BY <2>3, Zenon DEF Exec, ReplyMethod, At, machineVars
  <2>4. CASE ConsoleWrite(i)
    BY <2>4, Zenon DEF ConsoleWrite, At, Type, machineVars
  <2> QED  BY <2>1, <2>2, <2>3, <2>4 DEF Work, Start
<1> SUFFICES \E new \in WorkerSet : worker' = [worker EXCEPT ![i] = new] /\ Moves(i, new)
  BY <1>1, Zenon
<1>2. ASSUME Fail(i), worker[i].pc \in {"start", "boot", "agent", "exec", "write", "reply"}
      PROVE  \E new \in WorkerSet : worker' = [worker EXCEPT ![i] = new] /\ Moves(i, new)
  BY <1>2, FailFacts, Zenon DEF Moves
<1>3. ASSUME NEW pc \in Pcs, Go(i, pc)
      PROVE  \E new \in WorkerSet : /\ worker' = [worker EXCEPT ![i] = new]
                                    /\ new.pc = pc /\ new.result = worker[i].result
  BY <1>3, GoFacts
<1>4. "boot" \in Pcs /\ "agent" \in Pcs /\ "publish" \in Pcs /\ "ready" \in Pcs /\ "respond" \in Pcs /\ "done" \in Pcs
  BY DEF Pcs
<1>5. CASE StartChecks(i)
  <2>1. worker[i].pc = "start" /\ (Fail(i) \/ Go(i, "boot"))
    BY <1>5, Zenon DEF StartChecks, At
  <2> QED  BY <1>2, <1>3, <1>4, <2>1, Zenon DEF Moves
<1>6. CASE StartFails(i)
  BY <1>2, <1>6, Zenon DEF StartFails, At
<1>7. CASE StartBoots(i)
  <2>1. worker[i].pc = "boot" /\ Go(i, "agent")
    BY <1>7, Zenon DEF StartBoots, At
  <2> QED  BY <1>3, <1>4, <1>7, <2>1, Zenon DEF Moves
<1>8. CASE StartAgent(i)
  <2>1. worker[i].pc = "agent" /\ (Fail(i) \/ Go(i, "publish"))
    BY <1>8, Zenon DEF StartAgent, At
  <2> QED  BY <1>2, <1>3, <1>4, <2>1, Zenon DEF Moves
<1>9. CASE StartPublishes(i)
  <2>1. worker[i].pc = "publish" /\ Go(i, "ready")
    BY <1>9, Zenon DEF StartPublishes, At
  <2> QED  BY <1>3, <1>4, <2>1, Zenon DEF Moves
<1>10. CASE StartReady(i)
  <2>1. worker[i].pc = "ready" /\ Go(i, "respond")
    BY <1>10, Zenon DEF StartReady, At
  <2> QED  BY <1>3, <1>4, <2>1, Zenon DEF Moves
<1>11. CASE Exec(i)
  <2>1. worker[i].pc = "exec" /\ (Fail(i) \/ Go(i, "respond"))
    BY <1>11, Zenon DEF Exec, At
  <2> QED  BY <1>2, <1>3, <1>4, <2>1, Zenon DEF Moves
<1>12. CASE ConsoleWrite(i)
  <2>1. worker[i].pc = "write" /\ (Fail(i) \/ (running /\ Type(i) /\ Go(i, "respond")))
    BY <1>12, Zenon DEF ConsoleWrite, At
  <2> QED  BY <1>2, <1>3, <1>4, <2>1, Zenon DEF Moves
<1>13. CASE ReplyMethod(i)
  <2>1. worker[i].pc = "reply" /\ (Fail(i) \/ Go(i, "respond"))
    BY <1>13, Zenon DEF ReplyMethod, At
  <2> QED  BY <1>2, <1>3, <1>4, <2>1, Zenon DEF Moves
<1>14. CASE StopMethod(i)
  <2>1. worker[i].pc = "stop" /\ Go(i, "respond")
    BY <1>14, Zenon DEF StopMethod, At
  <2> QED  BY <1>3, <1>4, <2>1, Zenon DEF Moves
<1>15. CASE Answers(i)
  <2>1. worker[i].pc = "respond" /\ Go(i, "done")
    BY <1>15, Zenon DEF Answers, At
  <2> QED  BY <1>3, <1>4, <2>1, Zenon DEF Moves
<1> QED  BY <1>5, <1>6, <1>7, <1>8, <1>9, <1>10, <1>11, <1>12, <1>13, <1>14, <1>15, Zenon DEF Work, Start

\* What the process writes: a line more at the end, of these kinds.
Writes(line) ==
    \/ line.event = "console" /\ machine = "up" /\ UNCHANGED <<machine, proc>>
    \/ line.event = "exit" /\ line.arg = reason /\ machine = "ended" /\ machine' = "told" /\ UNCHANGED proc
    \/ line.event \in {"ready", "permission"} /\ UNCHANGED <<machine, proc>>
    \/ /\ line.event = "" /\ line.id \in Ids /\ worker[line.id].pc = "respond" /\ line.arg = worker[line.id].result
       /\ Go(line.id, "done") /\ UNCHANGED <<machine, proc>>

LEMMA OutFacts ==
    ASSUME Next, ~AppLine, ~AppLeaves, worker \in [Ids -> WorkerSet], reason \in Reasons \union {"none"}
    PROVE  stdout' = stdout \/ \E line \in LineSet : stdout' = Append(stdout, line) /\ Writes(line)
<1>1. ASSUME NEW name \in {"console", "ready", "permission"}
      PROVE  Event(name, "") \in LineSet /\ Event(name, "").event = name
  BY Zenon DEF Event, LineSet
<1>2. Event("exit", reason) \in LineSet /\ Event("exit", reason).event = "exit" /\ Event("exit", reason).arg = reason
  BY Zenon DEF Event, LineSet
<1>3. ASSUME NEW i \in Ids
      PROVE  /\ Reply(i, worker[i].result) \in LineSet /\ Reply(i, worker[i].result).event = ""
             /\ Reply(i, worker[i].result).id = i /\ Reply(i, worker[i].result).arg = worker[i].result
  <2>1. i \in Nat
    BY SandboxAssumption DEF Ids
  <2>2. worker[i] \in WorkerSet
    BY Zenon
  <2>3. PICK a \in {"ok", "error"} : a = worker[i].result
    BY <2>2 DEF WorkerSet
  <2>4. Reply(i, a) \in LineSet /\ Reply(i, a).event = "" /\ Reply(i, a).id = i /\ Reply(i, a).arg = a
    BY <2>1, Zenon DEF Reply, LineSet
  <2> QED  BY <2>3, <2>4, Zenon
<1>4. CASE \E method \in load.methods \union {"start"} : AppCalls(method)
  BY <1>4, Zenon DEF AppCalls, machineVars
<1>5. CASE AppReplies \/ AppSeesEnd
  BY <1>5, Zenon DEF AppReplies, AppSeesEnd, machineVars
<1>6. CASE AppKills \/ ProcessExits
  BY <1>6, Zenon DEF AppKills, ProcessExits, Gone
<1>7. CASE GuestAsks
  BY <1>1, <1>7, Zenon DEF GuestAsks, Writes
<1>8. CASE Serve
  BY <1>8, Zenon DEF Serve, ServeLine, ServeJoin, ServeEof, ServeStops, ServeReturns, Gone, machineVars
<1>9. CASE Machine
  <2>1. UNCHANGED <<worker, proc>> /\ MachineStep
    BY <1>9, Zenon DEF Machine, serverVars
  <2>2. CASE MainPrint
    BY <1>1, <2>1, <2>2, Zenon DEF MainPrint, Served, Writes
  <2>3. CASE Tell
    BY <1>2, <2>1, <2>3, Zenon DEF Tell, Writes
  <2>4. CASE Main /\ ~MainPrint
    BY <2>4, Zenon DEF Main, MainInput, MainPoll, MainNotify, MainSpawn, MainCpuExited, MainTerminate, MainFails
  <2>5. CASE Forward \/ Wake \/ Pushes
    BY <2>5, Zenon DEF Forward, Wake, Pushes, Push
  <2>6. CASE Guest
    BY <2>6, Zenon DEF Guest, GuestOffers, GuestKicks, GuestPrints, GuestSpawns, CpuEnds, GuestTerminates
  <2> QED  BY <2>1, <2>2, <2>3, <2>4, <2>5, <2>6, Zenon DEF MachineStep
<1>10. CASE \E i \in Ids : Work(i)
  <2>1. PICK i \in Ids : Work(i)
    BY <1>10
  <2>2. CASE StartReady(i)
    BY <1>1, <2>2, Zenon DEF StartReady, Writes
  <2>3. CASE Answers(i)
    <3>1. PICK line \in LineSet : /\ line = Reply(i, worker[i].result) /\ line.event = "" /\ line.id = i
                                  /\ line.arg = worker[i].result
      BY <1>3, Zenon
    <3>2. /\ worker[i].pc = "respond" /\ stdout' = Append(stdout, line) /\ Go(i, "done") /\ UNCHANGED <<machine, proc>>
      BY <2>3, <3>1, Zenon DEF Answers, At
    <3>3. Writes(line)
      BY <3>1, <3>2, Zenon DEF Writes
    <3> QED  BY <3>2, <3>3, Zenon
  <2>4. CASE ConsoleWrite(i)
    BY <2>4, Zenon DEF ConsoleWrite, Type, machineVars
  <2>5. CASE StartChecks(i) \/ StartFails(i) \/ StartAgent(i) \/ StartPublishes(i) \/ Exec(i) \/ ReplyMethod(i)
    BY <2>5, Zenon DEF StartChecks, StartFails, StartAgent, StartPublishes, Exec, ReplyMethod, machineVars
  <2>6. CASE StartBoots(i) \/ StopMethod(i)
    BY <2>6, Zenon DEF StartBoots, StopMethod
  <2> QED  BY <2>1, <2>2, <2>3, <2>4, <2>5, <2>6, Zenon DEF Work, Start
<1> QED  BY <1>4, <1>5, <1>6, <1>7, <1>8, <1>9, <1>10, Zenon DEF Next

\* The steps of the system, each kind once.
LEMMA Steps ==
    ASSUME Next, load \in Loads
    PROVE  \/ \E method \in Methods : /\ Calling(method) /\ UNCHANGED <<machineVars, reader, worker, running, proc>>
                                      /\ question' \in {question, "taken"}
           \/ AppLine \/ AppSeesEnd \/ AppLeaves \/ Gone
           \/ ServeLine \/ ServeJoin \/ ServeEof \/ ServeStops \/ GuestAsks \/ Machine
           \/ \E i \in Ids : Work(i)
<1>1. CASE \E method \in load.methods \union {"start"} : AppCalls(method)
  <2>1. PICK method \in load.methods \union {"start"} : AppCalls(method)
    BY <1>1
  <2>2. method \in Methods
    BY LoadFacts
  <2>3. Calling(method) /\ UNCHANGED <<machineVars, reader, worker, running, proc>> /\ question' \in {question, "taken"}
    BY <2>1, Zenon DEF AppCalls
  <2> QED  BY <2>2, <2>3
<1>2. CASE AppReplies
  <2>1. "reply" \in Methods
    BY DEF Methods
  <2>2. Calling("reply") /\ UNCHANGED <<machineVars, reader, worker, running, proc>> /\ question' \in {question, "taken"}
    BY <1>2, Zenon DEF AppReplies
  <2> QED  BY <2>1, <2>2
<1>3. CASE AppKills \/ ProcessExits \/ ServeReturns
  BY <1>3, Zenon DEF AppKills, ProcessExits, ServeReturns
<1> QED  BY <1>1, <1>2, <1>3, Zenon DEF Next, Serve

LEMMA AppNext ==
    ASSUME ServerType, LinesKept, Next
    PROVE  load' = load /\ AppType'
<1>0. load \in Loads /\ app \in AppSet /\ AppType /\ app.made \in Nat
  BY DEF ServerType, AppType, AppSet
<1>1. ASSUME AppKept(app'), load' = load PROVE AppType'
  BY <1>1, <1>0 DEF AppType, AppKept
<1>2. ASSUME UNCHANGED <<load, app>> PROVE AppType'
  BY <1>2, <1>0 DEF AppType
<1>3. CASE \E method \in Methods : Calling(method) /\ UNCHANGED <<machineVars, reader, worker, running, proc>>
  <2>1. PICK method \in Methods : Calling(method) /\ UNCHANGED <<machineVars, reader, worker, running, proc>>
    BY <1>3
  <2>2. load' = load
    BY <2>1, Zenon DEF machineVars
  <2>3. PICK id \in Ids : /\ id = app.made + 1 /\ id <= load.calls
                          /\ app' \in AppSet /\ app'.made = id /\ app'.pending = app.pending \union {id}
    BY <2>1, CallFacts, Zenon
  <2>4. app'.pending \subseteq 1..id
    BY <1>0, <2>3 DEF AppType
  <2> QED  BY <2>2, <2>3, <2>4 DEF AppType
<1>4. CASE AppLine
  <2>1. load' = load
    BY <1>4, Zenon DEF AppLine
  <2> QED  BY <1>1, <1>4, <2>1, LineFacts, Zenon
<1>5. CASE AppSeesEnd
  <2>1. load' = load /\ app' = Finish(app, "runtime-exited")
    BY <1>5, Zenon DEF AppSeesEnd, machineVars
  <2> QED  BY <1>1, <2>1, FinishFacts
<1>6. CASE AppLeaves
  <2> DEFINE res == [i \in Ids |-> "none"]
  <2> DEFINE aft == [i \in Ids |-> {}]
  <2> DEFINE new == [app EXCEPT !.here = FALSE, !.pending = {}, !.result = res, !.done = "none", !.after = aft]
  <2>1. load' = load /\ app' = new
    BY <1>6, Zenon DEF AppLeaves
  <2>2. res \in [Ids -> Results] /\ aft \in [Ids -> SUBSET Ids]
    BY DEF Results
  <2> HIDE DEF res, aft
  <2>3. new.made = app.made /\ new.pending = {}
    BY <1>0 DEF AppSet
  <2>4. new \in AppSet
    <3>1. PICK no \in BOOLEAN : no = FALSE
      BY Zenon
    <3>2. new = [app EXCEPT !.here = no, !.pending = {}, !.result = res, !.done = "none", !.after = aft]
      BY <3>1, Zenon
    <3> HIDE DEF new
    <3> QED  BY <1>0, <2>2, <3>2, Zenon DEF AppSet, Ends
  <2> HIDE DEF new
  <2> QED  BY <1>0, <2>1, <2>3, <2>4 DEF AppType
<1>7. CASE Gone \/ GuestAsks \/ ServeStops
  BY <1>2, <1>7, Zenon DEF Gone, GuestAsks, ServeStops
<1>8. CASE ServeLine \/ ServeJoin \/ ServeEof
  BY <1>2, <1>8, Zenon DEF ServeLine, ServeJoin, ServeEof, machineVars
<1>9. CASE Machine
  <2>1. app' = app /\ MachineStep
    BY <1>9, Zenon DEF Machine, serverVars
  <2>2. load' = load
    BY <2>1, Zenon DEF MachineStep, Main, MainInput, MainPoll, MainNotify, MainPrint, MainSpawn, MainCpuExited,
                      MainTerminate, MainFails, Tell, Forward, Wake, Pushes, Push, Guest, GuestOffers, GuestKicks,
                      GuestPrints, GuestSpawns, CpuEnds, GuestTerminates
  <2> QED  BY <1>2, <2>1, <2>2
<1>10. CASE \E i \in Ids : Work(i)
  <2>1. UNCHANGED <<load, app>>
    BY <1>10, WorkFacts DEF ServerType
  <2> QED  BY <1>2, <2>1
<1> QED  BY <1>0, <1>3, <1>4, <1>5, <1>6, <1>7, <1>8, <1>9, <1>10, Steps, Zenon

\* Requests come from the library and go to their threads.
LEMMA StdinNext ==
    ASSUME ServerType, Next
    PROVE  stdin' \in Seq(Ids)
<1>0. stdin \in Seq(Ids) /\ load \in Loads
  BY DEF ServerType
<1>1. CASE \E method \in Methods : Calling(method)
  <2>1. PICK method \in Methods : Calling(method)
    BY <1>1
  <2>2. PICK id \in Ids : stdin' = Append(stdin, id) \/ stdin' = stdin
    BY <2>1, CallFacts, Zenon
  <2> QED  BY <1>0, <2>2, AppendProperties
<1>2. CASE ServeLine
  BY <1>0, <1>2 DEF ServeLine
<1>3. CASE Gone
  BY <1>3 DEF Gone
<1>4. CASE AppLine \/ AppSeesEnd \/ AppLeaves \/ ServeJoin \/ ServeEof \/ ServeStops \/ GuestAsks \/ Machine
  BY <1>0, <1>4, Zenon DEF AppLine, AppSeesEnd, AppLeaves, ServeJoin, ServeEof, ServeStops, GuestAsks, Machine, serverVars
<1>5. CASE \E i \in Ids : Work(i)
  BY <1>0, <1>5, WorkFacts DEF ServerType
<1> QED  BY <1>0, <1>1, <1>2, <1>3, <1>4, <1>5, Steps, Zenon

\* A request is handed to its thread.
LEMMA ServeLineFacts ==
    ASSUME ServerType, ServeLine
    PROVE  /\ Len(stdin) \in Nat /\ stdin # <<>> /\ 1 \in 1..Len(stdin) /\ stdin' = Tail(stdin) /\ stdin[1] \in Ids
           /\ \E new \in WorkerSet : /\ worker' = [worker EXCEPT ![stdin[1]] = new]
                                     /\ new.pc = app.method[stdin[1]] /\ new.result = worker[stdin[1]].result
           /\ proc = "up" /\ UNCHANGED <<machineVars, app, running, proc, question>>
<1> DEFINE x == stdin[1]
<1>1. stdin \in Seq(Ids) /\ stdin # <<>> /\ stdin' = Tail(stdin)
  BY DEF ServeLine, ServerType
<1>2. Len(stdin) \in Nat /\ 1 \in 1..Len(stdin) /\ x \in Ids /\ Head(stdin) = x
  BY <1>1
<1>3. worker' = [worker EXCEPT ![x].pc = app.method[x]]
  BY <1>2 DEF ServeLine
<1> HIDE DEF x
<1>4. worker \in [Ids -> WorkerSet] /\ app.method[x] \in Pcs
  BY <1>2 DEF ServerType, AppType, AppSet, Methods, Pcs
<1>5. PICK new \in WorkerSet : /\ worker' = [worker EXCEPT ![x] = new]
                               /\ new.pc = app.method[x] /\ new.result = worker[x].result
  <2>1. PICK pc \in Pcs : pc = app.method[x]
    BY <1>4, Zenon
  <2>2. Go(x, pc)
    BY <1>3, <2>1, Zenon DEF Go
  <2>3. \E new \in WorkerSet : /\ worker' = [worker EXCEPT ![x] = new]
                               /\ new.pc = pc /\ new.result = worker[x].result
    BY <1>2, <1>4, <2>2, GoFacts
  <2> QED  BY <2>1, <2>3, Zenon
<1>6. proc = "up" /\ UNCHANGED <<machineVars, app, running, proc, question>>
  BY Zenon DEF ServeLine
<1> QED  BY <1>1, <1>2, <1>5, <1>6, Zenon DEF x

LEMMA WorkerNext ==
    ASSUME ServerType, Next
    PROVE  worker' \in [Ids -> WorkerSet]
<1>0. worker \in [Ids -> WorkerSet] /\ load \in Loads
  BY DEF ServerType
<1>1. ASSUME NEW i \in Ids, NEW new \in WorkerSet, worker' = [worker EXCEPT ![i] = new]
      PROVE  worker' \in [Ids -> WorkerSet]
  BY <1>0, <1>1
<1>2. CASE UNCHANGED worker
  BY <1>0, <1>2
<1>3. CASE ServeLine
  BY <1>1, <1>3, ServeLineFacts
<1>4. CASE Gone
  <2>1. [pc |-> "none", result |-> "ok"] \in WorkerSet
    BY DEF WorkerSet, Pcs
  <2> QED  BY <1>4, <2>1 DEF Gone
<1>5. CASE AppLine \/ AppSeesEnd \/ AppLeaves \/ ServeJoin \/ ServeEof \/ ServeStops \/ GuestAsks \/ Machine
  BY <1>2, <1>5, Zenon DEF AppLine, AppSeesEnd, AppLeaves, ServeJoin, ServeEof, ServeStops, GuestAsks, Machine, serverVars
<1>6. CASE \E i \in Ids : Work(i)
  BY <1>0, <1>1, <1>6, WorkFacts
<1> QED  BY <1>0, <1>2, <1>3, <1>4, <1>5, <1>6, Steps, Zenon

LEMMA FlagsNext ==
    ASSUME ServerType, Next
    PROVE  /\ reader' \in {"read", "join", "ending", "sleep", "returned"} /\ running' \in BOOLEAN
           /\ proc' \in {"up", "gone"} /\ question' \in {"none", "asked", "shown", "taken", "answered", "refused"}
<1>0. /\ reader \in {"read", "join", "ending", "sleep", "returned"} /\ running \in BOOLEAN
      /\ proc \in {"up", "gone"} /\ question \in {"none", "asked", "shown", "taken", "answered", "refused"}
      /\ load \in Loads /\ worker \in [Ids -> WorkerSet]
  BY DEF ServerType
<1>1. reader' \in {"read", "join", "ending", "sleep", "returned"}
  <2>1. CASE AppLine \/ AppSeesEnd \/ AppLeaves \/ GuestAsks \/ Machine
    BY <1>0, <2>1, Zenon DEF AppLine, AppSeesEnd, AppLeaves, GuestAsks, Machine, serverVars
  <2>2. CASE Gone \/ ServeLine \/ ServeJoin \/ ServeEof \/ ServeStops
    BY <2>2, Zenon DEF Gone, ServeLine, ServeJoin, ServeEof, ServeStops
  <2>3. CASE \E i \in Ids : Work(i)
    BY <1>0, <2>3, WorkFacts
  <2> QED  BY <1>0, <2>1, <2>2, <2>3, Steps, Zenon
<1>2. running' \in BOOLEAN /\ proc' \in {"up", "gone"}
  <2>1. CASE AppLine \/ AppSeesEnd \/ AppLeaves \/ GuestAsks \/ Machine
    BY <1>0, <2>1, Zenon DEF AppLine, AppSeesEnd, AppLeaves, GuestAsks, Machine, serverVars
  <2>2. CASE Gone \/ ServeLine \/ ServeJoin \/ ServeEof \/ ServeStops
    BY <1>0, <2>2, Zenon DEF Gone, ServeLine, ServeJoin, ServeEof, ServeStops
  <2>3. CASE \E i \in Ids : Work(i)
    BY <1>0, <2>3, Zenon DEF Work, Start, StartChecks, StartFails, StartBoots, StartAgent, StartPublishes, StartReady, Exec,
                            ConsoleWrite, ReplyMethod, StopMethod, Answers
  <2> QED  BY <1>0, <2>1, <2>2, <2>3, Steps, Zenon
<1>3. question' \in {"none", "asked", "shown", "taken", "answered", "refused"}
  <2>1. CASE AppLine \/ AppSeesEnd \/ AppLeaves \/ GuestAsks \/ Machine
    BY <1>0, <2>1, Zenon DEF AppLine, AppSeesEnd, AppLeaves, GuestAsks, Machine, serverVars
  <2>2. CASE Gone \/ ServeLine \/ ServeJoin \/ ServeEof \/ ServeStops
    BY <1>0, <2>2, Zenon DEF Gone, ServeLine, ServeJoin, ServeEof, ServeStops
  <2>3. CASE \E i \in Ids : Work(i)
    BY <1>0, <2>3, Zenon DEF Work, Start, StartChecks, StartFails, StartBoots, StartAgent, StartPublishes, StartReady, Exec,
                            ConsoleWrite, ReplyMethod, StopMethod, Answers
  <2>4. CASE question' \in {question, "taken"}
    BY <1>0, <2>4
  <2> QED  BY <1>0, <2>1, <2>2, <2>3, <2>4, Steps, Zenon
<1> QED  BY <1>1, <1>2, <1>3

\* What is written and read keeps its type: an exit event has the reason with which run returned.
LEMMA StdoutNext ==
    ASSUME ServerType, LinesKept, Next, reason \in Reasons \union {"none"}, machine = "ended" => reason \in Reasons
    PROVE  stdout' \in Seq(LineSet) /\ LinesKept'
<1>0. stdout \in Seq(LineSet) /\ worker \in [Ids -> WorkerSet] /\ Len(stdout) \in Nat
  BY DEF ServerType
<1>1. CASE AppLine
  <2>1. stdout # <<>> /\ stdout' = Tail(stdout)
    BY <1>1, Zenon DEF AppLine
  <2>2. /\ stdout' \in Seq(LineSet) /\ Len(stdout') = Len(stdout) - 1
        /\ \A i \in 1..Len(stdout') : stdout'[i] = stdout[i + 1] /\ i + 1 \in 1..Len(stdout)
    BY <1>0, <2>1
  <2> QED  BY <2>2, Zenon DEF LinesKept
<1>2. CASE AppLeaves
  <2>1. stdout' = <<>>
    BY <1>2, Zenon DEF AppLeaves
  <2>2. stdout' \in Seq(LineSet) /\ Len(stdout') = 0
    BY <2>1, EmptySeq, Zenon
  <2>3. ~\E i \in 1..Len(stdout') : TRUE
    BY <2>2
  <2> QED  BY <2>2, <2>3, Zenon DEF LinesKept
<1>3. CASE stdout' = stdout
  BY <1>0, <1>3, Zenon DEF LinesKept
<1>4. CASE \E line \in LineSet : stdout' = Append(stdout, line) /\ Writes(line)
  <2>1. PICK line \in LineSet : stdout' = Append(stdout, line) /\ Writes(line)
    BY <1>4
  <2>2. /\ stdout' \in Seq(LineSet) /\ Len(stdout') = Len(stdout) + 1
        /\ \A i \in 1..Len(stdout) : stdout'[i] = stdout[i]
        /\ stdout'[Len(stdout) + 1] = line
    BY <1>0, <2>1
  <2>3. line.event = "" => line.id \in Ids /\ line.arg \in {"ok", "error"}
    <3>1. \A i \in Ids : worker[i].result \in {"ok", "error"}
      BY <1>0 DEF WorkerSet
    <3>2. line.event = "" => line.id \in Ids /\ line.arg = worker[line.id].result
      BY <2>1, Zenon DEF Writes
    <3> QED  BY <3>1, <3>2, Zenon
  <2>4. line.event = "exit" => line.arg \in Reasons
    BY <2>1 DEF Writes
  <2>5. \A i \in 1..Len(stdout') : i \in 1..Len(stdout) \/ i = Len(stdout) + 1
    BY <1>0, <2>2
  <2> QED  BY <2>2, <2>3, <2>4, <2>5, Zenon DEF LinesKept
<1> QED  BY <1>0, <1>1, <1>2, <1>3, <1>4, OutFacts, Zenon

LEMMA ServerNext ==
    ASSUME ServerType, LinesKept, Next, reason \in Reasons \union {"none"}, machine = "ended" => reason \in Reasons
    PROVE  ServerType' /\ LinesKept'
<1>1. load' = load /\ load \in Loads
  BY AppNext DEF ServerType
<1>2. ServerType'
  BY <1>1, AppNext, StdinNext, WorkerNext, FlagsNext, StdoutNext, Zenon DEF ServerType
<1> QED  BY <1>2, StdoutNext

-----------------------------------------------------------------------------
(* The machine's counters, and why run returned *)

VsockQueued == Len(device["vsock"].queued) + Len(device["vsock"].got)

MachineRest ==
    /\ machine \in {"off", "up", "ended", "told"} /\ reason \in Reasons \union {"none"}
    /\ machine \in {"ended", "told"} => reason \in Reasons
    /\ cpu \in {"none", "asked", "runs", "gone"} /\ printed \in 0..load.prints
    /\ waking <= VsockQueued /\ VsockQueued <= load.packets

DevicesKept ==
    \A d \in Devices : device[d].offered <= device[d].offers /\ device[d].offers <= load.offers[d]

TerminatesKept ==
    \A i \in 1..Len(requests) : requests[i].kind = "Terminate" => requests[i].arg \in Reasons

RestInv == MachineRest /\ DevicesKept /\ TerminatesKept

\* A delivery moves what is queued, in order, and uses no more buffers than there are.
LEMMA DeliverMoves ==
    ASSUME NEW d \in Devices, NEW this \in DeviceState
    PROVE  /\ \E n \in 0..Len(this.queued) :
                  /\ Deliver(d, this).queued = SubSeq(this.queued, n + 1, Len(this.queued))
                  /\ Deliver(d, this).got = this.got \o SubSeq(this.queued, 1, n)
           /\ Deliver(d, this).offered <= this.offered /\ Deliver(d, this).offers = this.offers
<1> DEFINE room == IF d = "console" THEN BufferLength ELSE 1
<1> DEFINE n == Least(Len(this.queued), this.offered * room)
<1> DEFINE taken == (n + room - 1) \div room
<1>1. room \in Nat \ {0}
  BY MachineAssumption
<1>2. this.offered * room \in Nat
  BY <1>1, Z3 DEF DeviceState
<1>3. n \in 0..Len(this.queued) /\ n \in Nat /\ n <= this.offered * room
  BY <1>2 DEF Least, DeviceState
<1> HIDE DEF n, room
<1>4. taken \in 0..this.offered
  BY <1>1, <1>3, BuffersTaken, Zenon DEF DeviceState
<1> HIDE DEF taken
<1>5. Deliver(d, this) = [this EXCEPT !.queued = SubSeq(@, n + 1, Len(@)), !.offered = @ - taken,
                                      !.got = @ \o SubSeq(this.queued, 1, n)]
  BY DEF Deliver, n, room, taken
<1>6. /\ Deliver(d, this).queued = SubSeq(this.queued, n + 1, Len(this.queued))
      /\ Deliver(d, this).offered = this.offered - taken
      /\ Deliver(d, this).got = this.got \o SubSeq(this.queued, 1, n)
      /\ Deliver(d, this).offers = this.offers
  BY <1>5, Zenon DEF DeviceState
<1>7. Deliver(d, this).offered <= this.offered
  BY <1>4, <1>6 DEF DeviceState
<1> QED  BY <1>3, <1>6, <1>7, Zenon

\* The two parts into which a sequence is cut.
LEMMA Cut ==
    ASSUME NEW q \in Seq(Int), NEW n \in 0..Len(q)
    PROVE  /\ SubSeq(q, 1, n) \in Seq(Int) /\ Len(SubSeq(q, 1, n)) = n
           /\ SubSeq(q, n + 1, Len(q)) \in Seq(Int) /\ Len(SubSeq(q, n + 1, Len(q))) = Len(q) - n
OBVIOUS

LEMMA Appended == \A q \in Seq(Int), x \in Int : Append(q, x) \in Seq(Int) /\ Len(Append(q, x)) = Len(q) + 1
OBVIOUS

LEMMA SumIsNat == \A a, b \in Nat : a + b \in Nat
OBVIOUS

LEMMA DeliverCounts ==
    ASSUME NEW d \in Devices, NEW this \in DeviceState
    PROVE  Len(Deliver(d, this).queued) + Len(Deliver(d, this).got) = Len(this.queued) + Len(this.got)
<1>1. PICK n \in 0..Len(this.queued) :
          /\ Deliver(d, this).queued = SubSeq(this.queued, n + 1, Len(this.queued))
          /\ Deliver(d, this).got = this.got \o SubSeq(this.queued, 1, n)
  BY DeliverMoves, Zenon
<1>2. PICK q \in Seq(Int) : q = this.queued
  BY DEF DeviceState
<1>3. PICK g \in Seq(Int) : g = this.got
  BY DEF DeviceState
<1>4. Len(q) \in Nat /\ n \in Nat /\ n <= Len(q)
  BY <1>1, <1>2
<1>5. Len(SubSeq(q, n + 1, Len(q))) = Len(q) - n /\ Len(g \o SubSeq(q, 1, n)) = Len(g) + n
  <2>1. n \in 0..Len(q)
    BY <1>4
  <2>2. SubSeq(q, 1, n) \in Seq(Int) /\ Len(SubSeq(q, 1, n)) = n
    BY <2>1, Cut, Zenon
  <2>3. Len(g \o SubSeq(q, 1, n)) = Len(g) + Len(SubSeq(q, 1, n))
    BY <2>2, ConcatProperties, Zenon
  <2> QED  BY <2>1, <2>2, <2>3, Cut, Zenon
<1>6. Len(Deliver(d, this).queued) = Len(q) - n /\ Len(Deliver(d, this).got) = Len(g) + n
  BY <1>1, <1>2, <1>3, <1>5, Zenon
<1>7. Len(g) \in Nat
  BY LenProperties, Zenon
<1>8. (Len(q) - n) + (Len(g) + n) = Len(q) + Len(g)
  BY <1>4, <1>7
<1> QED  BY <1>2, <1>3, <1>6, <1>8, Zenon

\* What the host has pushed is counted.
LEMMA QueuedCount ==
    ASSUME device \in [Devices -> DeviceState]
    PROVE  VsockQueued \in Nat
<1>1. PICK this \in DeviceState : this = device["vsock"]
  BY DEF Devices
<1>2. this.queued \in Seq(Int) /\ this.got \in Seq(Int)
  BY DEF DeviceState
<1>3. Len(this.queued) \in Nat /\ Len(this.got) \in Nat
  BY <1>2, LenProperties, Zenon
<1>4. Len(this.queued) + Len(this.got) \in Nat
  BY <1>3, SumIsNat, Zenon
<1> QED  BY <1>1, <1>4, Zenon DEF VsockQueued

LEMMA TerminatesSent ==
    ASSUME requests \in Seq(RequestSet), TerminatesKept, NEW r \in RequestSet, Send(r),
           r.kind = "Terminate" => r.arg \in Reasons
    PROVE  TerminatesKept'
<1>1. /\ Len(requests') = Len(requests) + 1 /\ Len(requests) \in Nat
      /\ \A i \in 1..Len(requests) : requests'[i] = requests[i]
      /\ requests'[Len(requests) + 1] = r
  BY DEF Send
<1> QED  BY <1>1 DEF TerminatesKept

LEMMA TerminatesServed ==
    ASSUME requests \in Seq(RequestSet), TerminatesKept, requests # <<>>, requests' = Tail(requests)
    PROVE  TerminatesKept' /\ (Head(requests).kind = "Terminate" => Head(requests).arg \in Reasons)
<1>1. Len(requests) \in Nat /\ Head(requests) = requests[1] /\ 1 \in 1..Len(requests)
  OBVIOUS
<1>2. /\ Len(requests') = Len(requests) - 1
      /\ \A j \in 1..Len(requests') : requests'[j] = requests[j + 1] /\ j + 1 \in 1..Len(requests)
  BY <1>1
<1> QED  BY <1>1, <1>2 DEF TerminatesKept

\* A delivery to d, of what it has or of what it is just given.
LEMMA RestDelivers ==
    ASSUME MachineType, DevicesKept, load \in Loads, NEW d \in Devices, NEW this \in DeviceState,
           this.offered = device[d].offered, this.offers = device[d].offers,
           d = "vsock" => this = device[d],
           device' = [device EXCEPT ![d] = Deliver(d, this)], load' = load
    PROVE  DevicesKept' /\ VsockQueued' = VsockQueued
<1> DEFINE new == Deliver(d, this)
<1>1. /\ new \in DeviceState /\ new.offered <= this.offered /\ new.offers = this.offers
      /\ Len(new.queued) + Len(new.got) = Len(this.queued) + Len(this.got)
  BY DeliverLeaves, DeliverMoves, DeliverCounts, Zenon
<1>2. device' = [device EXCEPT ![d] = new] /\ device \in [Devices -> DeviceState]
  BY DEF MachineType
<1> HIDE DEF new
<1>3. device'[d] = new /\ \A e \in Devices : e # d => device'[e] = device[e]
  BY <1>2
<1>4. DevicesKept'
  <2>1. new.offered <= new.offers /\ new.offers <= load.offers[d]
    <3>1. new.offered \in Nat /\ this.offered \in Nat /\ this.offers \in Nat
      BY <1>1 DEF DeviceState
    <3>2. device[d].offered <= device[d].offers /\ device[d].offers <= load.offers[d]
      BY DEF DevicesKept
    <3> QED  BY <1>1, <3>1, <3>2
  <2> QED  BY <1>3, <2>1 DEF DevicesKept
<1>5. VsockQueued' = VsockQueued
  <2>1. CASE d = "vsock"
    BY <1>1, <1>3, <2>1, Zenon DEF VsockQueued
  <2>2. CASE d # "vsock"
    BY <1>3, <2>2, Zenon DEF VsockQueued, Devices
  <2> QED  BY <2>1, <2>2
<1> QED  BY <1>4, <1>5

LEMMA RestMain ==
    ASSUME WakeInv, RestInv, load \in Loads, Main
    PROVE  RestInv'
<1>0. /\ MachineType /\ requests \in Seq(RequestSet) /\ device \in [Devices -> DeviceState]
      /\ MachineRest /\ DevicesKept /\ TerminatesKept
  BY DEF WakeInv, MachineType, RestInv
<1>1. requests # <<>> /\ requests' = Tail(requests) /\ machine = "up"
  BY Zenon DEF Main, MainInput, MainPoll, MainNotify, MainPrint, MainSpawn, MainCpuExited, MainTerminate, MainFails, Served
<1>2. TerminatesKept' /\ (Head(requests).kind = "Terminate" => Head(requests).arg \in Reasons)
  BY <1>0, <1>1, TerminatesServed
<1>3. ASSUME UNCHANGED <<load, machine, reason, waking, cpu, printed>>, VsockQueued' = VsockQueued
      PROVE  MachineRest'
  BY <1>0, <1>3 DEF MachineRest
<1>4. CASE MainInput
  <2>1. Head(requests).input \in Int
    <3>1. Head(requests) \in RequestSet
      BY <1>0, <1>1
    <3> QED  BY <3>1 DEF RequestSet
  <2> DEFINE this == Input(device["console"], Head(requests).input)
  <2>2. this \in DeviceState /\ this.offered = device["console"].offered /\ this.offers = device["console"].offers
    <3>1. device["console"] \in DeviceState
      BY <1>0 DEF Devices
    <3>2. Append(device["console"].queued, Head(requests).input) \in Seq(Int)
      BY <2>1, <3>1 DEF DeviceState
    <3> QED  BY <3>1, <3>2, Zenon DEF Input, DeviceState
  <2>3. /\ device' = [device EXCEPT !["console"] = Deliver("console", this)]
        /\ UNCHANGED <<load, machine, reason, waking, cpu, printed>>
    BY <1>4, Zenon DEF MainInput
  <2>4. "console" \in Devices /\ "console" # "vsock"
    BY DEF Devices
  <2> HIDE DEF this
  <2>5. DevicesKept' /\ VsockQueued' = VsockQueued
    BY <1>0, <2>2, <2>3, <2>4, RestDelivers, Zenon
  <2> QED  BY <1>2, <1>3, <2>3, <2>5 DEF RestInv
<1>5. CASE MainPoll
  <2>1. "vsock" \in Devices /\ device["vsock"] \in DeviceState
    BY <1>0 DEF Devices
  <2>2. /\ device' = [device EXCEPT !["vsock"] = Deliver("vsock", device["vsock"])]
        /\ UNCHANGED <<load, machine, reason, waking, cpu, printed>>
    BY <1>5, Zenon DEF MainPoll
  <2>3. DevicesKept' /\ VsockQueued' = VsockQueued
    BY <1>0, <2>1, <2>2, RestDelivers, Zenon
  <2> QED  BY <1>2, <1>3, <2>2, <2>3 DEF RestInv
<1>6. CASE MainNotify
  <2> DEFINE d == Head(requests).arg
  <2>1. UNCHANGED <<load, machine, reason, waking, cpu, printed>>
    BY <1>6, Zenon DEF MainNotify
  <2>2. device' = [device EXCEPT ![d] = Deliver(d, device[d])]
    BY <1>6 DEF MainNotify, Kick
  <2> HIDE DEF d
  <2>3. CASE d \in Devices
    <3>1. device[d] \in DeviceState
      BY <1>0, <2>3
    <3>2. DevicesKept' /\ VsockQueued' = VsockQueued
      BY <1>0, <2>1, <2>2, <2>3, <3>1, RestDelivers, Zenon
    <3> QED  BY <1>2, <1>3, <2>1, <3>2 DEF RestInv
  <2>4. CASE d \notin Devices
    <3>1. device' = device
      BY <1>0, <2>2, <2>4
    <3>2. DevicesKept' /\ VsockQueued' = VsockQueued
      BY <1>0, <2>1, <3>1 DEF DevicesKept, VsockQueued
    <3> QED  BY <1>2, <1>3, <2>1, <3>2 DEF RestInv
  <2> QED  BY <2>3, <2>4
<1>7. ASSUME UNCHANGED <<load, device>> PROVE DevicesKept' /\ VsockQueued' = VsockQueued
  BY <1>0, <1>7 DEF DevicesKept, VsockQueued
<1>8. CASE MainPrint \/ MainCpuExited
  <2>1. UNCHANGED <<load, machine, reason, device, waking, cpu, printed>>
    BY <1>8, Zenon DEF MainPrint, MainCpuExited
  <2> QED  BY <1>2, <1>3, <1>7, <2>1 DEF RestInv
<1>9. CASE MainSpawn
  <2>1. UNCHANGED <<load, machine, reason, device, waking, printed>> /\ cpu' = "runs"
    BY <1>9, Zenon DEF MainSpawn
  <2>2. MachineRest'
    BY <1>0, <1>7, <2>1 DEF MachineRest
  <2> QED  BY <1>2, <1>7, <2>1, <2>2 DEF RestInv
<1>10. CASE MainTerminate
  <2>1. UNCHANGED <<load, device, waking, cpu, printed>> /\ machine' = "ended" /\ reason' = Head(requests).arg
        /\ Head(requests).kind = "Terminate"
    BY <1>10, Zenon DEF MainTerminate, Served
  <2>2. MachineRest'
    BY <1>0, <1>2, <1>7, <2>1 DEF MachineRest
  <2> QED  BY <1>2, <1>7, <2>1, <2>2 DEF RestInv
<1>11. CASE MainFails
  <2>1. UNCHANGED <<load, device, waking, cpu, printed>> /\ machine' = "ended" /\ reason' = "failed"
    BY <1>11, Zenon DEF MainFails
  <2>2. MachineRest'
    BY <1>0, <1>7, <2>1 DEF MachineRest, Reasons
  <2> QED  BY <1>2, <1>7, <2>1, <2>2 DEF RestInv
<1> QED  BY <1>4, <1>5, <1>6, <1>8, <1>9, <1>10, <1>11 DEF Main

\* A request is sent, and the rest of the machine is as it was but for the counters.
LEMMA RestSend ==
    ASSUME WakeInv, RestInv, NEW r \in RequestSet, Send(r), r.kind = "Terminate" => r.arg \in Reasons,
           UNCHANGED <<load, machine, reason, device>>, waking' = waking \/ waking' = waking - 1,
           cpu' \in {"none", "asked", "runs", "gone"}, printed' \in 0..load.prints
    PROVE  RestInv'
<1>0. requests \in Seq(RequestSet) /\ waking \in Nat /\ MachineRest /\ DevicesKept /\ TerminatesKept
  BY DEF WakeInv, MachineType, RestInv
<1>1. TerminatesKept'
  BY <1>0, TerminatesSent
<1>2. DevicesKept' /\ VsockQueued' = VsockQueued
  BY <1>0 DEF DevicesKept, VsockQueued
<1>3. VsockQueued \in Nat
  BY QueuedCount, Zenon DEF WakeInv, MachineType
<1>4. waking' <= VsockQueued
  BY <1>0, <1>3 DEF MachineRest
<1>5. MachineRest'
  BY <1>0, <1>2, <1>4 DEF MachineRest
<1> QED  BY <1>1, <1>2, <1>5 DEF RestInv

LEMMA RestQuiet ==
    ASSUME RestInv, UNCHANGED <<load, machine, reason, requests, device, waking, cpu, printed>>
    PROVE  RestInv'
BY Zenon DEF RestInv, MachineRest, DevicesKept, TerminatesKept, VsockQueued

LEMMA RestPush ==
    ASSUME WakeInv, RestInv, load \in Loads, Pushes
    PROVE  RestInv'
<1>0. /\ device \in [Devices -> DeviceState] /\ waking \in Nat /\ MachineRest /\ DevicesKept /\ TerminatesKept
      /\ load.packets \in Nat /\ "vsock" \in Devices /\ device["vsock"] \in DeviceState
  BY LoadFacts DEF WakeInv, MachineType, RestInv, Devices
<1>1. PICK x \in 1..load.packets : x = Len(device["vsock"].queued \o device["vsock"].got) + 1 /\ Push(x)
  BY Zenon DEF Pushes
<1>2. PICK q \in Seq(Int) : q = device["vsock"].queued
  BY <1>0 DEF DeviceState
<1>3. PICK g \in Seq(Int) : g = device["vsock"].got
  BY <1>0 DEF DeviceState
<1>4. Len(q \o g) = Len(q) + Len(g) /\ Len(q) \in Nat /\ Len(g) \in Nat /\ x \in Int
  BY <1>0, <1>1
<1>5. x = Len(q) + Len(g) + 1
  BY <1>1, <1>2, <1>3, <1>4
<1>6. PICK q2 \in Seq(Int) : q2 = Append(q, x) /\ Len(q2) = Len(q) + 1
  BY <1>4, Appended, Zenon
<1> DEFINE new == [device["vsock"] EXCEPT !.queued = q2]
<1>7. device' = [device EXCEPT !["vsock"] = new] /\ waking' = waking + 1
      /\ UNCHANGED <<load, machine, reason, requests, cpu, printed>>
  BY <1>1, <1>2, <1>6 DEF Push
<1>8. new.queued = q2 /\ new.got = g /\ new.offered = device["vsock"].offered /\ new.offers = device["vsock"].offers
  BY <1>0, <1>3 DEF DeviceState
<1> HIDE DEF new
<1>9. device'["vsock"] = new /\ \A e \in Devices : e # "vsock" => device'[e] = device[e]
  BY <1>0, <1>7
<1>10. DevicesKept'
  BY <1>0, <1>7, <1>8, <1>9 DEF DevicesKept
<1>11. VsockQueued' = VsockQueued + 1 /\ VsockQueued' = x /\ VsockQueued \in Nat
  <2>1. VsockQueued = Len(q) + Len(g)
    BY <1>2, <1>3, Zenon DEF VsockQueued
  <2>2. VsockQueued' = Len(q2) + Len(g)
    BY <1>8, <1>9, Zenon DEF VsockQueued
  <2> HIDE DEF VsockQueued
  <2> QED  BY <1>4, <1>5, <1>6, <2>1, <2>2
<1>12. waking' <= VsockQueued' /\ VsockQueued' <= load.packets
  <2>1. waking <= VsockQueued
    BY <1>0, Zenon DEF MachineRest
  <2>2. PICK w \in Nat, v \in Nat, p \in Nat : w = waking /\ v = VsockQueued /\ p = load.packets
    BY <1>0, <1>11, Zenon
  <2>3. w <= v /\ waking' = w + 1 /\ VsockQueued' = v + 1 /\ x \in 1..p /\ VsockQueued' = x
    BY <1>1, <1>7, <1>11, <2>1, <2>2, Zenon
  <2> HIDE DEF VsockQueued
  <2> QED  BY <2>2, <2>3
<1>13. MachineRest' /\ TerminatesKept'
  BY <1>0, <1>7, <1>12 DEF MachineRest, TerminatesKept
<1> QED  BY <1>10, <1>13 DEF RestInv

LEMMA RestGuest ==
    ASSUME WakeInv, RestInv, load \in Loads, Guest
    PROVE  RestInv'
<1>0. /\ device \in [Devices -> DeviceState] /\ waking \in Nat /\ MachineRest /\ DevicesKept /\ TerminatesKept
      /\ load.prints \in Nat /\ load.offers \in [Devices -> Nat]
  BY LoadFacts DEF WakeInv, MachineType, RestInv
<1>1. cpu \in {"none", "asked", "runs", "gone"} /\ printed \in 0..load.prints
  BY <1>0 DEF MachineRest
<1>2. \A k \in Kinds, a \in Args :
          Request(k, a) \in RequestSet /\ Request(k, a).kind = k /\ Request(k, a).arg = a
  BY RequestTypes, Zenon DEF Request
<1>3. /\ "BootConsole" \in Kinds /\ "SpawnCpu" \in Kinds /\ "CpuExited" \in Kinds /\ "Terminate" \in Kinds /\ "RunOnMain" \in Kinds
      /\ "" \in Args /\ "panicked" \in Args /\ "poweroff" \in Args /\ Devices \subseteq Args
      /\ "panicked" \in Reasons /\ "poweroff" \in Reasons
  BY SMTT(30) DEF Kinds, Args, Devices, Reasons
<1>4. ASSUME NEW d \in Devices, NEW new \in DeviceState, device' = [device EXCEPT ![d] = new],
             new.queued = device[d].queued, new.got = device[d].got,
             new.offered <= new.offers, new.offers <= load.offers[d], UNCHANGED <<load, machine, reason, waking, cpu, printed>>
      PROVE  DevicesKept' /\ MachineRest'
  <2>1. device'[d] = new /\ \A e \in Devices : e # d => device'[e] = device[e]
    BY <1>0, <1>4, SMTT(30)
  <2>2. DevicesKept'
    BY <1>0, <1>4, <2>1 DEF DevicesKept
  <2>3. VsockQueued' = VsockQueued
    BY <1>4, <2>1, Zenon DEF VsockQueued, Devices
  <2> QED  BY <1>0, <1>4, <2>2, <2>3, SMTT(30) DEF MachineRest
<1>5. ASSUME NEW d \in Devices, GuestOffers(d) PROVE RestInv'
  <2> DEFINE new == [device[d] EXCEPT !.offered = @ + 1, !.offers = @ + 1, !.kick = TRUE]
  <2>1. device[d] \in DeviceState /\ load.offers[d] \in Nat
    BY <1>0
  <2>2. device[d].offers < load.offers[d] /\ UNCHANGED <<load, machine, reason, waking, cpu, printed, requests>>
    BY <1>5, Zenon DEF GuestOffers
  <2>3. device' = [device EXCEPT ![d] = new]
    BY <1>0, <1>5, Zenon DEF GuestOffers
  <2>4. new \in DeviceState
    <3>1. PICK yes \in BOOLEAN : yes = TRUE
      BY Zenon
    <3>2. new = [device[d] EXCEPT !.offered = @ + 1, !.offers = @ + 1, !.kick = yes]
      BY <3>1, Zenon
    <3>3. PICK this \in DeviceState : this = device[d]
      BY <2>1, Zenon
    <3>4. PICK a \in Nat, b \in Nat : a = this.offered + 1 /\ b = this.offers + 1
      BY DEF DeviceState
    <3>5. [this EXCEPT !.offered = a, !.offers = b, !.kick = yes] \in DeviceState
      BY Zenon DEF DeviceState
    <3>6. new = [this EXCEPT !.offered = a, !.offers = b, !.kick = yes]
      BY <3>2, <3>3, <3>4, Zenon
    <3> HIDE DEF new
    <3> QED  BY <3>5, <3>6, Zenon
  <2>5. new.queued = device[d].queued /\ new.got = device[d].got
        /\ new.offered = device[d].offered + 1 /\ new.offers = device[d].offers + 1
    BY <2>1 DEF DeviceState
  <2> HIDE DEF new
  <2>6. new.offered <= new.offers /\ new.offers <= load.offers[d]
    <3>1. device[d].offered <= device[d].offers /\ device[d].offered \in Nat /\ device[d].offers \in Nat
      BY <1>0, <2>1 DEF DevicesKept, DeviceState
    <3> QED  BY <2>1, <2>2, <2>5, <3>1
  <2>7. DevicesKept' /\ MachineRest'
    BY <1>4, <2>2, <2>3, <2>4, <2>5, <2>6, Zenon
  <2>8. TerminatesKept'
    BY <1>0, <2>2 DEF TerminatesKept
  <2> QED  BY <2>7, <2>8 DEF RestInv
<1>6. ASSUME NEW d \in Devices, GuestKicks(d) PROVE RestInv'
  <2> DEFINE new == [device[d] EXCEPT !.kick = FALSE]
  <2>1. device[d] \in DeviceState
    BY <1>0
  <2>2. Send(Request("RunOnMain", d)) /\ UNCHANGED <<load, machine, reason, waking, cpu, printed>>
    BY <1>6, Zenon DEF GuestKicks
  <2>3. device' = [device EXCEPT ![d] = new]
    BY <1>0, <1>6 DEF GuestKicks
  <2>4. new \in DeviceState
    <3>1. PICK no \in BOOLEAN : no = FALSE
      BY Zenon
    <3>2. new = [device[d] EXCEPT !.kick = no]
      BY <3>1, Zenon
    <3> HIDE DEF new
    <3> QED  BY <2>1, <3>2, Zenon DEF DeviceState
  <2>5. new.queued = device[d].queued /\ new.got = device[d].got
        /\ new.offered = device[d].offered /\ new.offers = device[d].offers
    BY <2>1 DEF DeviceState
  <2> HIDE DEF new
  <2>6. new.offered <= new.offers /\ new.offers <= load.offers[d]
    BY <1>0, <2>5 DEF DevicesKept
  <2>7. DevicesKept' /\ MachineRest'
    BY <1>4, <2>2, <2>3, <2>4, <2>5, <2>6, Zenon
  <2>8. TerminatesKept'
    <3>1. Request("RunOnMain", d) \in RequestSet /\ Request("RunOnMain", d).kind = "RunOnMain"
      BY <1>2, <1>3, Zenon
    <3>2. requests \in Seq(RequestSet)
      BY DEF WakeInv, MachineType
    <3> QED  BY <1>0, <2>2, <3>1, <3>2, TerminatesSent
  <2> QED  BY <2>7, <2>8 DEF RestInv
<1>7. CASE GuestPrints
  <2>1. /\ Send(Request("BootConsole", "")) /\ UNCHANGED <<load, machine, reason, device, waking, cpu>>
        /\ printed < load.prints /\ printed' = printed + 1
    BY <1>7, Zenon DEF GuestPrints
  <2>2. Request("BootConsole", "") \in RequestSet /\ Request("BootConsole", "").kind = "BootConsole"
    BY <1>2, <1>3, Zenon
  <2>3. printed' \in 0..load.prints
    <3>1. PICK p \in Nat : p = load.prints
      BY <1>0, Zenon
    <3>2. printed \in 0..p /\ printed < p /\ printed' = printed + 1
      BY <1>1, <2>1, <3>1, Zenon
    <3>3. printed' \in 0..p
      BY <3>2
    <3> QED  BY <3>1, <3>3, Zenon
  <2>4. "BootConsole" # "Terminate"
    OBVIOUS
  <2> QED  BY <1>1, <2>1, <2>2, <2>3, <2>4, RestSend, Zenon
<1>8. CASE GuestSpawns
  <2>1. Send(Request("SpawnCpu", "")) /\ UNCHANGED <<load, machine, reason, device, waking, printed>> /\ cpu' = "asked"
    BY <1>8, Zenon DEF GuestSpawns
  <2>2. Request("SpawnCpu", "") \in RequestSet /\ Request("SpawnCpu", "").kind = "SpawnCpu" /\ "SpawnCpu" # "Terminate"
    BY <1>2, <1>3, Zenon
  <2> QED  BY <1>1, <2>1, <2>2, RestSend, Zenon
<1>9. CASE CpuEnds
  <2>1. /\ UNCHANGED <<load, machine, reason, device, waking, printed>> /\ cpu' = "gone"
        /\ Send(Request("CpuExited", "")) \/ Send(Request("Terminate", "panicked"))
    BY <1>9, Zenon DEF CpuEnds
  <2>2. Request("CpuExited", "") \in RequestSet /\ Request("CpuExited", "").kind = "CpuExited" /\ "CpuExited" # "Terminate"
        /\ Request("Terminate", "panicked") \in RequestSet /\ Request("Terminate", "panicked").arg \in Reasons
    <3>1. Request("CpuExited", "") \in RequestSet /\ Request("CpuExited", "").kind = "CpuExited" /\ "CpuExited" # "Terminate"
      BY <1>2, <1>3, Zenon
    <3>2. Request("Terminate", "panicked") \in RequestSet /\ Request("Terminate", "panicked").arg = "panicked"
      BY <1>2, <1>3, Zenon
    <3> QED  BY <1>3, <3>1, <3>2, Zenon
  <2> QED  BY <1>1, <2>1, <2>2, RestSend, Zenon
<1>10. CASE \E r \in {"poweroff", "panicked"} : GuestTerminates(r)
  <2>1. PICK r \in {"poweroff", "panicked"} : GuestTerminates(r)
    BY <1>10
  <2>2. Send(Request("Terminate", r)) /\ UNCHANGED <<load, machine, reason, device, waking, cpu, printed>>
    BY <2>1, Zenon DEF GuestTerminates
  <2>3. Request("Terminate", r) \in RequestSet /\ Request("Terminate", r).arg \in Reasons
    <3>1. r \in Args /\ r \in Reasons
      BY <1>3, <2>1, Zenon
    <3>2. Request("Terminate", r) \in RequestSet /\ Request("Terminate", r).arg = r
      BY <1>2, <1>3, <3>1, Zenon
    <3> QED  BY <3>1, <3>2, Zenon
  <2> QED  BY <1>1, <2>2, <2>3, RestSend
<1> QED  BY <1>5, <1>6, <1>7, <1>8, <1>9, <1>10 DEF Guest

LEMMA RestStop ==
    ASSUME WakeInv, RestInv, Stop, UNCHANGED <<load, machine, reason, device, waking, cpu, printed>>
    PROVE  RestInv'
<1>1. Request("Terminate", "stopped") \in RequestSet /\ Request("Terminate", "stopped").arg \in Reasons
  BY RequestTypes, Zenon DEF Request, Kinds, Args, Reasons
<1>2. cpu' \in {"none", "asked", "runs", "gone"} /\ printed' \in 0..load.prints
  BY DEF RestInv, MachineRest
<1> QED  BY <1>1, <1>2, RestSend DEF Stop

LEMMA RestMachine ==
    ASSUME WakeInv, RestInv, load \in Loads, MachineStep
    PROVE  RestInv'
<1>0. cpu \in {"none", "asked", "runs", "gone"} /\ printed \in 0..load.prints
  BY DEF RestInv, MachineRest
<1>1. CASE Main
  BY <1>1, RestMain
<1>2. CASE Tell
  <2>1. machine = "ended" /\ machine' = "told" /\ UNCHANGED <<load, reason, requests, device, waking, cpu, printed>>
    BY <1>2, Zenon DEF Tell
  <2> QED  BY <2>1, Zenon DEF RestInv, MachineRest, DevicesKept, TerminatesKept, VsockQueued
<1>3. CASE Forward
  <2>1. Send(ConsoleInput(Head(typed))) /\ UNCHANGED <<load, machine, reason, device, waking, cpu, printed>>
    BY <1>3, Zenon DEF Forward
  <2>2. Head(typed) \in Int
    BY <1>3 DEF Forward, WakeInv, MachineType
  <2>3. ConsoleInput(Head(typed)) \in RequestSet /\ ConsoleInput(Head(typed)).kind # "Terminate"
    BY <2>2, RequestTypes, Zenon DEF ConsoleInput
  <2> QED  BY <1>0, <2>1, <2>3, RestSend
<1>4. CASE Wake
  <2>1. Send(Request("Wake", "")) /\ UNCHANGED <<load, machine, reason, device, cpu, printed>> /\ waking' = waking - 1
    BY <1>4, Zenon DEF Wake
  <2>2. Request("Wake", "") \in RequestSet /\ Request("Wake", "").kind # "Terminate"
    BY RequestTypes, Zenon DEF Request, Kinds, Args
  <2> QED  BY <1>0, <2>1, <2>2, RestSend, Zenon
<1>5. CASE Pushes
  BY <1>5, RestPush
<1>6. CASE Guest
  BY <1>6, RestGuest
<1> QED  BY <1>1, <1>2, <1>3, <1>4, <1>5, <1>6 DEF MachineStep

LEMMA RestIdle ==
    ASSUME load \in Loads, load' = load, machine' = "off", reason' = "none", requests' = <<>>,
           device' = [d \in Devices |-> Idle], waking' = 0, cpu' = "none", printed' = 0
    PROVE  RestInv'
<1>1. /\ Idle.offered = 0 /\ Idle.offers = 0 /\ Len(Idle.queued) = 0 /\ Len(Idle.got) = 0
      /\ "vsock" \in Devices
  BY DEF Idle, Devices
<1>2. load.packets \in Nat /\ load.prints \in Nat /\ load.offers \in [Devices -> Nat]
  BY LoadFacts
<1>3. \A d \in Devices : device'[d] = Idle
  OBVIOUS
<1>4. VsockQueued' = 0
  <2>1. VsockQueued' = 0 + 0
    BY <1>1, <1>3, Zenon DEF VsockQueued
  <2> QED  BY <2>1
<1>5. MachineRest'
  BY <1>2, <1>4 DEF MachineRest
<1>6. DevicesKept' /\ TerminatesKept'
  BY <1>1, <1>2, <1>3 DEF DevicesKept, TerminatesKept
<1> QED  BY <1>5, <1>6 DEF RestInv

LEMMA RestNext ==
    ASSUME ServerType, WakeInv, RestInv, Next
    PROVE  RestInv'
<1>0. load \in Loads /\ worker \in [Ids -> WorkerSet]
  BY DEF ServerType
<1>1. ASSUME UNCHANGED machineVars PROVE RestInv'
  BY <1>1, RestQuiet DEF machineVars
<1>2. CASE AppLine \/ AppLeaves \/ GuestAsks
  BY <1>2, RestQuiet, Zenon DEF AppLine, AppLeaves, GuestAsks
<1>3. CASE AppSeesEnd \/ ServeLine \/ ServeJoin \/ ServeEof
  BY <1>1, <1>3, Zenon DEF AppSeesEnd, ServeLine, ServeJoin, ServeEof
<1>4. CASE Gone
  BY <1>0, <1>4, RestIdle, Zenon DEF Gone
<1>5. CASE ServeStops
  <2>1. (Stop \/ requests' = requests) /\ UNCHANGED <<load, machine, reason, device, waking, cpu, printed>>
    BY <1>5, Zenon DEF ServeStops
  <2> QED  BY <2>1, RestStop, RestQuiet
<1>6. CASE Machine
  BY <1>0, <1>6, RestMachine, Zenon DEF Machine
<1>7. CASE \E i \in Ids : Work(i)
  <2>1. PICK i \in Ids : Work(i)
    BY <1>7
  <2>2. CASE StartBoots(i)
    <3>1. machine' = "up" /\ UNCHANGED <<load, reason, requests, device, waking, cpu, printed>>
      BY <2>2, Zenon DEF StartBoots, Boot
    <3> QED  BY <3>1, Zenon DEF RestInv, MachineRest, DevicesKept, TerminatesKept, VsockQueued
  <2>3. CASE StopMethod(i)
    <3>1. (Stop \/ requests' = requests) /\ UNCHANGED <<load, machine, reason, device, waking, cpu, printed>>
      BY <2>3, Zenon DEF StopMethod
    <3> QED  BY <3>1, RestStop, RestQuiet
  <2>4. CASE ConsoleWrite(i)
    BY <1>1, <2>4, RestQuiet, Zenon DEF ConsoleWrite, Type
  <2>5. CASE StartReady(i) \/ Answers(i)
    BY <2>5, RestQuiet, Zenon DEF StartReady, Answers
  <2>6. CASE StartChecks(i) \/ StartFails(i) \/ StartAgent(i) \/ StartPublishes(i) \/ Exec(i) \/ ReplyMethod(i)
    BY <1>1, <2>6, Zenon DEF StartChecks, StartFails, StartAgent, StartPublishes, Exec, ReplyMethod
  <2> QED  BY <2>1, <2>2, <2>3, <2>4, <2>5, <2>6, Zenon DEF Work, Start
<1> QED  BY <1>0, <1>1, <1>2, <1>3, <1>4, <1>5, <1>6, <1>7, Steps, Zenon

-----------------------------------------------------------------------------
(* The exit event is the machine's last word *)

\* The machine's thread has written the exit event, or the process is gone.
Over == machine = "told" \/ proc = "gone"

OverKept ==
    /\ proc = "gone" => machine = "off"
    /\ \A i \in 1..Len(stdout) :
           stdout[i].event = "exit" =>
               Over /\ \A j \in 1..Len(stdout) : j > i => stdout[j].event \notin {"console", "exit"}
    /\ app.done \in Reasons => Over /\ \A i \in 1..Len(stdout) : stdout[i].event \notin {"console", "exit"}

SandboxInv == WakeInv /\ ServerType /\ LinesKept /\ RestInv /\ OverKept

\* Which steps change what the machine is doing.
LEMMA MachineMoves ==
    ASSUME ServerType, Next
    PROVE  \/ UNCHANGED <<machine, proc>>
           \/ machine \in {"off", "up", "ended"} /\ machine' # "off" /\ proc = "up" /\ proc' = proc
           \/ proc' = "gone" /\ machine' = "off"
<1>0. load \in Loads /\ worker \in [Ids -> WorkerSet]
  BY DEF ServerType
<1>1. CASE AppLine \/ AppLeaves \/ GuestAsks \/ ServeStops
  BY <1>1, Zenon DEF AppLine, AppLeaves, GuestAsks, ServeStops
<1>2. CASE AppSeesEnd \/ ServeLine \/ ServeJoin \/ ServeEof \/ UNCHANGED <<machineVars, reader, worker, running, proc>>
  BY <1>2, Zenon DEF AppSeesEnd, ServeLine, ServeJoin, ServeEof, machineVars
<1>3. CASE Gone
  BY <1>3, Zenon DEF Gone
<1>4. CASE Machine
  <2>1. MachineStep /\ proc = "up" /\ proc' = proc
    BY <1>4, Zenon DEF Machine, serverVars
  <2>2. CASE Main
    BY <2>1, <2>2, Zenon DEF Main, MainInput, MainPoll, MainNotify, MainPrint, MainSpawn, MainCpuExited, MainTerminate,
                             MainFails, Served
  <2>3. CASE Tell
    BY <2>1, <2>3, Zenon DEF Tell
  <2>4. CASE Forward \/ Wake \/ Pushes \/ Guest
    BY <2>1, <2>4, Zenon DEF Forward, Wake, Pushes, Push, Guest, GuestOffers, GuestKicks, GuestPrints, GuestSpawns,
                             CpuEnds, GuestTerminates
  <2> QED  BY <2>1, <2>2, <2>3, <2>4, Zenon DEF MachineStep
<1>5. CASE \E i \in Ids : Work(i)
  <2>1. PICK i \in Ids : Work(i)
    BY <1>5
  <2>2. proc = "up" /\ proc' = proc
    BY <1>0, <2>1, WorkFacts
  <2>3. CASE StartBoots(i)
    BY <2>2, <2>3, Zenon DEF StartBoots, Boot
  <2>4. CASE StopMethod(i) \/ StartReady(i) \/ Answers(i)
    BY <2>2, <2>4, Zenon DEF StopMethod, StartReady, Answers
  <2>5. CASE StartChecks(i) \/ StartFails(i) \/ StartAgent(i) \/ StartPublishes(i) \/ Exec(i) \/ ReplyMethod(i) \/ ConsoleWrite(i)
    BY <2>2, <2>5, Zenon DEF StartChecks, StartFails, StartAgent, StartPublishes, Exec, ReplyMethod, ConsoleWrite, Type,
                            machineVars
  <2> QED  BY <2>1, <2>3, <2>4, <2>5, Zenon DEF Work, Start
<1> QED  BY <1>0, <1>1, <1>2, <1>3, <1>4, <1>5, Steps, Zenon

\* What the library has been told of the end, it has been told by a line.
LEMMA DoneMoves ==
    ASSUME ServerType, LinesKept, Next, app'.done \in Reasons, app.done \notin Reasons
    PROVE  AppLine /\ stdout[1].event = "exit"
<1>0. load \in Loads /\ worker \in [Ids -> WorkerSet]
  BY DEF ServerType
<1>1. ASSUME app'.done = app.done \/ app'.done \in {"none", "runtime-exited"} PROVE FALSE
  BY <1>1, SMTT(30) DEF Reasons
<1>2. CASE \E method \in Methods : Calling(method)
  BY <1>1, <1>2, CallFacts, Zenon
<1>3. CASE AppLine
  BY <1>1, <1>3, LineFacts, Zenon
<1>4. CASE AppSeesEnd
  <2>1. app' = Finish(app, "runtime-exited")
    BY <1>4, Zenon DEF AppSeesEnd
  <2> QED  BY <1>1, <2>1, FinishFacts
<1>5. CASE AppLeaves
  <2>1. app'.done = "none"
    BY <1>5 DEF AppLeaves, ServerType, AppType, AppSet
  <2> QED  BY <1>1, <2>1
<1>6. CASE Gone \/ ServeLine \/ ServeJoin \/ ServeEof \/ ServeStops \/ GuestAsks \/ Machine
  <2>1. app' = app
    BY <1>6, Zenon DEF Gone, ServeLine, ServeJoin, ServeEof, ServeStops, GuestAsks, Machine, serverVars
  <2> QED  BY <1>1, <2>1
<1>7. CASE \E i \in Ids : Work(i)
  BY <1>0, <1>1, <1>7, WorkFacts
<1> QED  BY <1>0, <1>2, <1>3, <1>4, <1>5, <1>6, <1>7, Steps, Zenon

LEMMA OverNext ==
    ASSUME SandboxInv, Next
    PROVE  OverKept'
<1>0. /\ ServerType /\ LinesKept /\ OverKept /\ stdout \in Seq(LineSet) /\ worker \in [Ids -> WorkerSet] /\ Len(stdout) \in Nat
      /\ reason \in Reasons \union {"none"} /\ proc \in {"up", "gone"}
  BY DEF SandboxInv, ServerType, RestInv, MachineRest
<1>1. (Over => Over') /\ (proc' = "gone" => machine' = "off")
  BY <1>0, MachineMoves DEF OverKept, Over
<1>2. ASSUME app'.done \in Reasons, ~AppLine
      PROVE  app.done \in Reasons
  BY <1>0, <1>2, DoneMoves
<1>3. CASE AppLine
  <2>1. stdout # <<>> /\ stdout' = Tail(stdout) /\ 1 \in 1..Len(stdout)
    BY <1>0, <1>3, LineFacts, Zenon
  <2>2. /\ Len(stdout') = Len(stdout) - 1
        /\ \A i \in 1..Len(stdout') : stdout'[i] = stdout[i + 1] /\ i + 1 \in 1..Len(stdout) /\ i + 1 > 1
    BY <1>0, <2>1
  <2>3. \A i, j \in 1..Len(stdout') : j > i => j + 1 > i + 1
    BY <1>0, <2>2
  <2>4. \A i \in 1..Len(stdout') :
           stdout'[i].event = "exit" =>
               Over' /\ \A j \in 1..Len(stdout') : j > i => stdout'[j].event \notin {"console", "exit"}
    BY <1>0, <1>1, <2>2, <2>3, Zenon DEF OverKept
  <2>5. ASSUME app'.done \in Reasons
        PROVE  Over' /\ \A i \in 1..Len(stdout') : stdout'[i].event \notin {"console", "exit"}
    <3>1. CASE app.done \in Reasons
      BY <1>0, <1>1, <2>2, <3>1, Zenon DEF OverKept
    <3>2. CASE app.done \notin Reasons
      <4>1. stdout[1].event = "exit"
        BY <1>0, <2>5, <3>2, DoneMoves
      <4> QED  BY <1>0, <1>1, <2>1, <2>2, <4>1, Zenon DEF OverKept
    <3> QED  BY <3>1, <3>2
  <2> QED  BY <1>1, <2>4, <2>5 DEF OverKept
<1>4. CASE AppLeaves
  <2>1. stdout' = <<>> /\ app'.done = "none"
    BY <1>0, <1>4 DEF AppLeaves, ServerType, AppType, AppSet
  <2>2. "none" \notin Reasons
    BY DEF Reasons
  <2> QED  BY <1>1, <2>1, <2>2 DEF OverKept
<1>5. CASE ~AppLine /\ stdout' = stdout
  BY <1>0, <1>1, <1>2, <1>5, Zenon DEF OverKept
<1>6. CASE ~AppLine /\ \E line \in LineSet : stdout' = Append(stdout, line) /\ Writes(line)
  <2>1. PICK line \in LineSet : stdout' = Append(stdout, line) /\ Writes(line)
    BY <1>6
  <2>2. /\ Len(stdout') = Len(stdout) + 1 /\ stdout'[Len(stdout) + 1] = line
        /\ \A i \in 1..Len(stdout) : stdout'[i] = stdout[i]
    BY <1>0, <2>1, SMTT(30)
  <2>3. Over => line.event \notin {"console", "exit"}
    BY <1>0, <2>1, Zenon DEF OverKept, Over, Writes
  <2>4. line.event = "exit" => Over'
    BY <2>1 DEF Over, Writes
  <2>5. \A i \in 1..Len(stdout') : i \in 1..Len(stdout) \/ i = Len(stdout) + 1
    BY <1>0, <2>2
  <2>6. \A i \in 1..Len(stdout') : ~(i > Len(stdout) + 1) /\ ~(i > i)
    BY <1>0, <2>2
  <2>7. ASSUME NEW i \in 1..Len(stdout'), stdout'[i].event = "exit"
        PROVE  Over' /\ \A j \in 1..Len(stdout') : j > i => stdout'[j].event \notin {"console", "exit"}
    <3>1. CASE i \in 1..Len(stdout)
      <4>1. stdout[i].event = "exit"
        BY <2>2, <2>7, <3>1
      <4>2. Over /\ \A j \in 1..Len(stdout) : j > i => stdout[j].event \notin {"console", "exit"}
        BY <1>0, <3>1, <4>1 DEF OverKept
      <4> QED  BY <1>1, <2>2, <2>3, <2>5, <4>2
    <3>2. CASE i = Len(stdout) + 1
      BY <2>2, <2>4, <2>6, <2>7, <3>2
    <3> QED  BY <2>5, <3>1, <3>2
  <2>8. ASSUME app'.done \in Reasons
        PROVE  Over' /\ \A i \in 1..Len(stdout') : stdout'[i].event \notin {"console", "exit"}
    <3>1. Over /\ \A i \in 1..Len(stdout) : stdout[i].event \notin {"console", "exit"}
      BY <1>0, <1>2, <1>6, <2>8 DEF OverKept
    <3> QED  BY <1>1, <2>2, <2>3, <2>5, <3>1
  <2> QED  BY <1>1, <2>7, <2>8 DEF OverKept
<1> QED  BY <1>0, <1>3, <1>4, <1>5, <1>6, OutFacts, Zenon

LEMMA SandboxInit == Init => SandboxInv
<1> SUFFICES ASSUME Init PROVE SandboxInv
  OBVIOUS
<1>1. /\ load \in Loads /\ machine = "off" /\ reason = "none" /\ requests = <<>> /\ stdout = <<>>
      /\ device = [d \in Devices |-> Idle] /\ waking = 0 /\ cpu = "none" /\ printed = 0
      /\ app = [here |-> TRUE, made |-> 0, pending |-> {}, method |-> [i \in Ids |-> "none"],
                result |-> [i \in Ids |-> "none"], after |-> [i \in Ids |-> {}], done |-> "none"]
      /\ stdin = <<>> /\ reader = "read" /\ worker = [i \in Ids |-> [pc |-> "none", result |-> "ok"]]
      /\ running = FALSE /\ proc = "up" /\ question = "none"
  BY Zenon DEF Init, MachineInit
<1>2. WakeInv
  BY InitWakes
<1> HIDE DEF Init
<1>3. AppType
  <2> DEFINE met == [i \in Ids |-> "none"]
  <2> DEFINE aft == [i \in Ids |-> {}]
  <2>1. met \in [Ids -> Methods] /\ met \in [Ids -> Results] /\ aft \in [Ids -> SUBSET Ids] /\ {} \in SUBSET Ids
        /\ "none" \in Ends /\ 0 \in Nat
    BY SMTT(30) DEF Methods, Results, Ends
  <2>2. app = [here |-> TRUE, made |-> 0, pending |-> {}, method |-> met, result |-> met, after |-> aft, done |-> "none"]
    BY <1>1, SMTT(30)
  <2> HIDE DEF met, aft
  <2>3. app \in AppSet
    <3>1. PICK yes \in BOOLEAN : yes = TRUE
      BY Zenon
    <3>2. app = [here |-> yes, made |-> 0, pending |-> {}, method |-> met, result |-> met, after |-> aft, done |-> "none"]
      BY <2>2, <3>1, Zenon
    <3> QED  BY <2>1, <3>2 DEF AppSet
  <2>4. app.made = 0 /\ app.pending = {}
    BY <2>2, SMTT(30)
  <2>5. load.calls \in 1..Calls /\ Calls \in Nat
    BY <1>1, LoadFacts
  <2> QED  BY <2>3, <2>4, <2>5 DEF AppType
<1>4. ServerType
  <2>1. [pc |-> "none", result |-> "ok"] \in WorkerSet
    BY DEF WorkerSet, Pcs
  <2>2. worker \in [Ids -> WorkerSet]
    BY <1>1, <2>1
  <2>3. stdin \in Seq(Ids) /\ stdout \in Seq(LineSet)
    BY <1>1, EmptySeq, Zenon
  <2>4. running \in BOOLEAN
    BY <1>1, Zenon
  <2> QED  BY <1>1, <1>3, <2>2, <2>3, <2>4, Zenon DEF ServerType
<1>5. LinesKept
  <2>1. Len(stdout) = 0
    BY <1>1, EmptySeq, Zenon
  <2>2. ~\E i \in 1..Len(stdout) : TRUE
    BY <2>1
  <2> QED  BY <2>2, Zenon DEF LinesKept
<1>6. app.done = "none" /\ "none" \notin Reasons
  BY <1>1 DEF Reasons
<1>7. OverKept
  BY <1>1, <1>6 DEF OverKept
<1>8. RestInv
  <2>1. /\ Idle.offered = 0 /\ Idle.offers = 0 /\ Len(Idle.queued) = 0 /\ Len(Idle.got) = 0
        /\ "vsock" \in Devices
    BY SMTT(30) DEF Idle, Devices
  <2>2. load.packets \in Nat /\ load.prints \in Nat /\ load.offers \in [Devices -> Nat]
    BY <1>1, LoadFacts, Zenon
  <2>3. \A d \in Devices : device[d] = Idle
    BY <1>1
  <2>4. VsockQueued = 0
    <3>1. VsockQueued = 0 + 0
      BY <2>1, <2>3, Zenon DEF VsockQueued
    <3> QED  BY <3>1
  <2>5. MachineRest
    BY <1>1, <2>2, <2>4, SMTT(30) DEF MachineRest
  <2>6. DevicesKept /\ TerminatesKept
    BY <1>1, <2>1, <2>2, <2>3 DEF DevicesKept, TerminatesKept
  <2> QED  BY <2>5, <2>6 DEF RestInv
<1> QED  BY <1>2, <1>4, <1>5, <1>7, <1>8 DEF SandboxInv

LEMMA SandboxNext == SandboxInv /\ [Next]_vars => SandboxInv'
<1> SUFFICES ASSUME SandboxInv, [Next]_vars PROVE SandboxInv'
  OBVIOUS
<1>1. WakeInv'
  BY StepWakes DEF SandboxInv
<1>2. CASE Next
  <2>1. ServerType /\ LinesKept /\ WakeInv /\ RestInv /\ reason \in Reasons \union {"none"} /\ (machine = "ended" => reason \in Reasons)
    BY DEF SandboxInv, RestInv, MachineRest
  <2>2. ServerType' /\ LinesKept'
    BY <1>2, <2>1, ServerNext
  <2>3. RestInv'
    BY <1>2, <2>1, RestNext
  <2>4. OverKept'
    BY <1>2, OverNext
  <2> QED  BY <1>1, <2>2, <2>3, <2>4 DEF SandboxInv
<1>3. CASE UNCHANGED vars
  <2>1. UNCHANGED <<machineVars, app, stdin, reader, worker, running, proc, question>>
    BY <1>3, Zenon DEF vars, serverVars
  <2>2. RestInv'
    BY <2>1, RestQuiet, SMTT(30) DEF SandboxInv, machineVars
  <2>3. ServerType'
    BY <2>1, SMTT(30) DEF SandboxInv, ServerType, AppType, machineVars
  <2>4. LinesKept' /\ OverKept'
    BY <2>1, Zenon DEF SandboxInv, LinesKept, OverKept, Over, machineVars
  <2> QED  BY <1>1, <2>2, <2>3, <2>4 DEF SandboxInv
<1> QED  BY <1>2, <1>3

\* However the app's calls, its leaving, the machine's end and the end of the process interleave: when
\* the library has learnt from the exit event (machine.rs, the thread of protocol.rs: start) how the
\* sandbox ended and has closed its streams, neither console output nor a second exit event is on its way.
THEOREM ExitIsLastHolds == Spec => []ExitIsLast
<1>1. SandboxInv => ExitIsLast
  <2> SUFFICES ASSUME SandboxInv PROVE ExitIsLast
    OBVIOUS
  <2>1. /\ ServerType /\ MachineRest /\ DevicesKept /\ OverKept /\ waking \in Nat /\ device \in [Devices -> DeviceState]
        /\ load.packets \in Nat /\ load.prints \in Nat /\ load.offers \in [Devices -> Nat] /\ load.calls \in Nat
    <3>1. load \in Loads
      BY DEF SandboxInv, ServerType
    <3>2. load.calls \in 1..Calls /\ Calls \in Nat
      BY <3>1, LoadFacts
    <3> QED  BY <3>1, <3>2, LoadFacts DEF SandboxInv, RestInv, WakeInv, MachineType
  <2>2. waking \in 0..load.packets
    <3>1. VsockQueued \in Nat
      BY <2>1, QueuedCount, Zenon
    <3> QED  BY <2>1, <3>1 DEF MachineRest
  <2>3. \A d \in Devices : device[d].offered \in 0..device[d].offers /\ device[d].offers \in 0..load.offers[d]
    <3>1. \A d \in Devices : device[d].offered \in Nat /\ device[d].offers \in Nat /\ load.offers[d] \in Nat
      BY <2>1, SMTT(30) DEF DeviceState
    <3> QED  BY <2>1, <3>1 DEF DevicesKept
  <2>4. app.pending \subseteq 1..app.made /\ app.made \in 0..load.calls /\ app.done \in Ends
    BY <2>1 DEF ServerType, AppType, AppSet
  <2>5. TypeOK
    BY <2>1, <2>2, <2>3, <2>4, Zenon DEF TypeOK, MachineRest, ServerType, Ends
  <2> QED  BY <2>1, <2>5, Zenon DEF ExitIsLast, OverKept
<1> QED  BY <1>1, SandboxInit, SandboxNext, PTL DEF Spec
==============================================================================
