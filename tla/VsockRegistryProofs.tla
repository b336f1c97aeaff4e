------------------------ MODULE VsockRegistryProofs ------------------------
(***************************************************************************)
(* Proofs about VsockRegistry, for any number of callers, guests, ports    *)
(* and resets.                                                             *)
(*                                                                         *)
(* The inductive invariant says who may hold which key: an entry of the    *)
(* registry is filed under the key of its own connection's address, and    *)
(* the connection the main thread is busy with has the address of the      *)
(* packet it handles.                                                      *)
(***************************************************************************)
EXTENDS VsockRegistry, WellFoundedInduction, TLAPS

ConnSet == [a : Addresses \union {Nowhere}, connected : BOOLEAN, closed : BOOLEAN]
PcSet == {"held", "idle", "request", "wait", "forget", "rst", "failed", "open", "shutdown", "done"}
DevSet == [step : {"idle", "RESPONSE", "SHUTDOWN", "RST", "forget", "clear"},
           packet : Packets \union {Idle.packet}, c : Conns \union {None}]
GuestSet == {None, "new", "requesting", "established", "closing", "shut"}

\* The addresses a connection may have, and the key connect and accept file it under.
Own(c, a) ==
    \/ c \in Ports /\ a = Address(c, Agent)
    \/ c \in Callers /\ \E p \in Ports : a = Address(p, Agent)
    \/ c \in Guests /\ a = GuestAddress(c)
Key(c, a) == IF c \in Guests THEN Pair(a) ELSE Local(a)
----------------------------------------------------------------------------
(* Addresses and keys *)

LEMMA Kinds ==
    /\ Proxy \notin Ports /\ 0 \in Ports
    /\ \A c \in Conns : \/ c \in Ports /\ c \notin Callers /\ c \notin Guests
                        \/ c \notin Ports /\ c \in Callers /\ c \notin Guests
                        \/ c \notin Ports /\ c \notin Callers /\ c \in Guests
    /\ Ports \subseteq Conns /\ Callers \subseteq Conns /\ Guests \subseteq Conns
<1>1. Proxy \notin Ports /\ 0 \in Ports
  BY PortsAssumption DEF Ports
<1>2. Guests \intersect Callers = {} /\ (Guests \union Callers) \intersect Ports = {}
  BY PortsAssumption DEF Ports
<1> QED  BY <1>1, <1>2, Zenon DEF Conns

LEMMA Parts ==
    /\ \A p, q : Address(p, q).local = p /\ Address(p, q).peer = q
    /\ \A p \in Ports : Address(p, Agent) \in Addresses /\ Address(p, Agent) # Nowhere
    /\ \A g \in Guests : GuestAddress(g) \in Addresses /\ GuestAddress(g) # Nowhere
    /\ \A a \in Addresses : \/ a.local \in Ports /\ a = Address(a.local, Agent)
                            \/ a.local = Proxy /\ a.peer \in Guests /\ a = GuestAddress(a.peer)
<1>1. \A p, q : Address(p, q).local = p /\ Address(p, q).peer = q
  BY DEF Address
<1>2. \A p \in Ports : Address(p, Agent) # Nowhere
  BY PortsAssumption DEF Address, Nowhere
<1>3. \A g \in Guests : GuestAddress(g) # Nowhere
  BY Kinds DEF GuestAddress, Address, Nowhere
<1>4. \A p \in Ports : Address(p, Agent) \in Addresses
  BY Zenon DEF Addresses
<1>5. \A g \in Guests : GuestAddress(g) \in Addresses
  BY Zenon DEF Addresses
<1>6. ASSUME NEW a \in Addresses
      PROVE  \/ a.local \in Ports /\ a = Address(a.local, Agent)
             \/ a.local = Proxy /\ a.peer \in Guests /\ a = GuestAddress(a.peer)
  <2>1. (\E p \in Ports : a = Address(p, Agent)) \/ \E g \in Guests : a = Address(Proxy, g)
    BY Zenon DEF Addresses, GuestAddress
  <2> QED  BY <1>1, <2>1, Zenon DEF GuestAddress
<1> QED  BY <1>1, <1>2, <1>3, <1>4, <1>5, <1>6, Zenon

LEMMA Keys ==
    /\ \A a, b : Local(a) = Local(b) => a.local = b.local
    /\ \A a, b : Pair(a) = Pair(b) => a.local = b.local /\ a.peer = b.peer
    /\ \A a, b : Local(a) # Pair(b)
    /\ \A a : Local(a) = <<a.local>>
    /\ \A p, q : <<p>> = <<q>> => p = q
  BY DEF Local, Pair

LEMMA OwnFacts ==
    ASSUME NEW c \in Conns, NEW a, Own(c, a)
    PROVE  /\ a \in Addresses /\ a # Nowhere
           /\ c \in Guests => a.local = Proxy /\ a.peer = c /\ a = GuestAddress(c) /\ Key(c, a) = Pair(a)
           /\ c \notin Guests => a.local \in Ports /\ a = Address(a.local, Agent) /\ Key(c, a) = Local(a)
           /\ c \in Ports => a.local = c
<1>1. CASE c \in Guests
  <2>1. a = GuestAddress(c) /\ c \notin Ports
    BY <1>1, Kinds, Zenon DEF Own
  <2>2. a.local = Proxy /\ a.peer = c
    BY <2>1, Parts, Zenon DEF GuestAddress
  <2>3. a \in Addresses /\ a # Nowhere
    BY <1>1, <2>1, Parts, Zenon
  <2> QED  BY <1>1, <2>1, <2>2, <2>3, Zenon DEF Key
<1>2. CASE c \notin Guests
  <2>1. PICK p \in Ports : a = Address(p, Agent) /\ (c \in Ports => p = c)
    BY <1>2, Kinds, Zenon DEF Own
  <2>2. a.local = p
    BY <2>1, Parts, Zenon
  <2>3. a \in Addresses /\ a # Nowhere
    BY <2>1, Parts, Zenon
  <2> QED  BY <1>2, <2>1, <2>2, <2>3, Zenon DEF Key
<1> QED  BY <1>1, <1>2, Zenon

\* Connections of one key have one address, and a guest's address is nobody else's.
LEMMA OneKey ==
    ASSUME NEW c \in Conns, NEW e \in Conns, NEW a, NEW b, Own(c, a), Own(e, b)
    PROVE  /\ Key(c, a) = Key(e, b) <=> a = b
           /\ a = b /\ (c \in Guests \/ (c \in Ports /\ e \in Ports)) => c = e
           /\ a = b => (c \in Guests <=> e \in Guests)
<1>1. /\ c \in Guests => a.local = Proxy /\ a.peer = c /\ a = GuestAddress(c) /\ Key(c, a) = Pair(a)
      /\ c \notin Guests => a.local \in Ports /\ a = Address(a.local, Agent) /\ Key(c, a) = Local(a)
      /\ c \in Ports => a.local = c
  BY OwnFacts, Zenon
<1>2. /\ e \in Guests => b.local = Proxy /\ b.peer = e /\ b = GuestAddress(e) /\ Key(e, b) = Pair(b)
      /\ e \notin Guests => b.local \in Ports /\ b = Address(b.local, Agent) /\ Key(e, b) = Local(b)
      /\ e \in Ports => b.local = e
  BY OwnFacts, Zenon
<1>3. c \in Guests /\ e \in Guests /\ Pair(a) = Pair(b) => a = b
  <2> SUFFICES ASSUME c \in Guests, e \in Guests, Pair(a) = Pair(b) PROVE a = b
    OBVIOUS
  <2>1. a.peer = b.peer
    BY Keys, Zenon
  <2> QED  BY <1>1, <1>2, <2>1, Zenon
<1>4. c \notin Guests /\ e \notin Guests /\ Local(a) = Local(b) => a = b
  <2> SUFFICES ASSUME c \notin Guests, e \notin Guests, Local(a) = Local(b) PROVE a = b
    OBVIOUS
  <2>1. a.local = b.local
    BY Keys, Zenon
  <2> QED  BY <1>1, <1>2, <2>1, Zenon
<1>5. a = b => (c \in Guests <=> e \in Guests)
  BY <1>1, <1>2, Kinds, Zenon
<1>6. Key(c, a) = Key(e, b) => a = b
  <2>1. Local(a) # Pair(b) /\ Pair(a) # Local(b)
    BY Keys, Zenon
  <2> QED  BY <1>1, <1>2, <1>3, <1>4, <2>1, Zenon
<1>7. a = b => Key(c, a) = Key(e, b)
  BY <1>1, <1>2, <1>5, Zenon
<1>8. a = b /\ c \in Guests => c = e
  BY <1>1, <1>2, <1>5, Zenon
<1>9. a = b /\ c \in Ports /\ e \in Ports => c = e
  BY <1>1, <1>2, Zenon
<1> QED  BY <1>5, <1>6, <1>7, <1>8, <1>9, Zenon
----------------------------------------------------------------------------
(* The registry *)

LEMMA InsertedFacts ==
    ASSUME NEW k, NEW c, registry' = Inserted(k, c)
    PROVE  /\ DOMAIN registry' = DOMAIN registry \union {k} /\ registry'[k] = c
           /\ \A x \in DOMAIN registry : x # k => registry'[x] = registry[x]
  BY DEF Inserted

LEMMA RemovedFacts ==
    ASSUME NEW ks, registry' = Removed(ks)
    PROVE  /\ DOMAIN registry' = DOMAIN registry \ ks
           /\ \A x \in DOMAIN registry \ ks : registry'[x] = registry[x]
  BY DEF Removed, Restrict

LEMMA MinFacts ==
    ASSUME Free # {} PROVE Min(Free) \in Free
<1>1. Free \subseteq Nat
  BY PortsAssumption DEF Free, Ports
<1>2. PICK n \in Free : \A m \in Free : ~(<<m, n>> \in OpToRel(<, Nat))
  BY <1>1, NatLessThanWellFounded, WFMin, Zenon
<1>3. \A m \in Nat : m < n => <<m, n>> \in OpToRel(<, Nat)
  <2> SUFFICES ASSUME NEW m \in Nat, m < n PROVE <<m, n>> \in {ss \in Nat \X Nat : ss[1] < ss[2]}
    BY DEF OpToRel
  <2> QED  BY <1>1, <1>2
<1>4. \A m \in Free : ~(m < n)
  BY <1>1, <1>2, <1>3, Zenon
<1>5. n \in Nat /\ \A m \in Nat : ~(m < n) => n <= m
  <2>1. n \in Nat
    BY <1>1, <1>2, Zenon
  <2> QED  BY <2>1
<1>6. \A m \in Free : n <= m
  BY <1>1, <1>4, <1>5, Zenon
<1> QED  BY <1>6, Zenon DEF Min
----------------------------------------------------------------------------
(* The inductive invariant *)

\* TypeOK without the registry, whose keys follow from KeysKept.
Types ==
    /\ nextPort \in Ports /\ listeners \subseteq {Proxy}
    /\ conn \in [Conns -> ConnSet] /\ pc \in [Conns -> PcSet] /\ dev \in DevSet
    /\ outbox \in Seq(Packets) /\ toHost \in Seq(Packets)
    /\ guest \in [Addresses -> GuestSet]
    /\ accepted \subseteq Addresses /\ resets \in 0..MaxResets

\* Where the users of a connection can be: a session is only held, and nobody connects for a guest.
Places ==
    /\ \A s \in Ports : pc[s] \in {"idle", "held"}
    /\ \A g \in Guests : pc[g] \in {"idle", "open", "shutdown", "done"}
    /\ \A c \in Callers : pc[c] # "held"

Addressed == \A c \in Conns : pc[c] \notin {"idle", "failed"} => Own(c, conn[c].a)

\* An entry is filed under the key of its connection's own address.
KeysKept ==
    \A k \in DOMAIN registry :
        /\ registry[k] \in Conns /\ pc[registry[k]] # "idle"
        /\ Own(registry[k], conn[registry[k]].a) /\ k = Key(registry[k], conn[registry[k]].a)

\* The main thread has found a connection and is not through with it.
Busy == dev.step \in {"RESPONSE", "SHUTDOWN", "RST", "forget"}

\* The connection it has found has the packet's address.
DevKept ==
    /\ Busy => /\ dev.c \in Conns /\ pc[dev.c] # "idle"
               /\ Own(dev.c, conn[dev.c].a) /\ conn[dev.c].a = dev.packet.a
    /\ dev.step = "RESPONSE" => dev.packet.a \in accepted

\* The guest answers only what it accepted, and connects only from its own ports.
GuestKept ==
    /\ \A a \in Addresses : guest[a] = "new" => a.local = Proxy
    /\ \A i \in 1..Len(toHost) : /\ toHost[i].op = "RESPONSE" => toHost[i].a \in accepted
                                 /\ toHost[i].op = "REQUEST" => toHost[i].a.local = Proxy

\* A caller goes on with a connection only once it is connected, and a guest has accepted that.
CallsKept ==
    \A c \in Callers : /\ conn[c].connected => conn[c].a \in accepted
                       /\ pc[c] \in {"open", "shutdown", "done"} => conn[c].connected

BaseInv == Types /\ Places /\ Addressed /\ KeysKept /\ DevKept /\ GuestKept /\ CallsKept

LEMMA BaseType == BaseInv => TypeOK
<1> SUFFICES ASSUME BaseInv PROVE TypeOK
  OBVIOUS
<1>1. ASSUME NEW k \in DOMAIN registry
      PROVE  registry[k] \in Conns /\ k \in {Local(a) : a \in Addresses} \union {Pair(a) : a \in Addresses}
  <2>1. PICK c \in Conns : c = registry[k] /\ Own(c, conn[c].a) /\ k = Key(c, conn[c].a)
    BY Zenon DEF BaseInv, KeysKept
  <2>2. conn[c].a \in Addresses /\ (k = Pair(conn[c].a) \/ k = Local(conn[c].a))
    BY <2>1, OwnFacts, Zenon
  <2> QED  BY <2>1, <2>2, Zenon
<1>2. Types
  BY Zenon DEF BaseInv
<1> QED  BY <1>1, <1>2, Zenon DEF TypeOK, Types, ConnSet, PcSet, DevSet, GuestSet
----------------------------------------------------------------------------
(* What an action does to each part of the state *)

LEMMA PcFacts ==
    ASSUME pc \in [Conns -> PcSet], NEW c \in Conns, NEW place \in PcSet, Goto(c, place)
    PROVE  /\ pc' \in [Conns -> PcSet] /\ pc'[c] = place
           /\ \A x \in Conns : x # c => pc'[x] = pc[x]
  BY DEF Goto

LEMMA ClosedFacts ==
    ASSUME conn \in [Conns -> ConnSet], NEW c \in Conns, conn' = [conn EXCEPT ![c].closed = TRUE]
    PROVE  /\ conn' \in [Conns -> ConnSet] /\ conn'[c].closed
           /\ \A x \in Conns : /\ conn'[x].a = conn[x].a /\ (conn'[x].connected <=> conn[x].connected)
                               /\ conn[x].closed => conn'[x].closed
                               /\ x # c => conn'[x] = conn[x]
<1> DEFINE new == [conn[c] EXCEPT !.closed = TRUE]
<1>1. conn[c] \in ConnSet /\ conn' = [conn EXCEPT ![c] = new]
  BY Zenon
<1>2. new \in ConnSet /\ new.a = conn[c].a /\ new.connected = conn[c].connected /\ new.closed = TRUE
  BY <1>1 DEF ConnSet
<1> HIDE DEF new
<1>3. conn' \in [Conns -> ConnSet] /\ conn'[c] = new /\ \A x \in Conns : x # c => conn'[x] = conn[x]
  BY <1>1, <1>2
<1> QED  BY <1>2, <1>3, Zenon

LEMMA ConnectedFacts ==
    ASSUME conn \in [Conns -> ConnSet], NEW c \in Conns, conn' = [conn EXCEPT ![c].connected = TRUE]
    PROVE  /\ conn' \in [Conns -> ConnSet]
           /\ \A x \in Conns : /\ conn'[x].a = conn[x].a /\ (conn'[x].closed <=> conn[x].closed)
                               /\ conn[x].connected => conn'[x].connected
                               /\ x # c => conn'[x] = conn[x]
<1> DEFINE new == [conn[c] EXCEPT !.connected = TRUE]
<1>1. conn[c] \in ConnSet /\ conn' = [conn EXCEPT ![c] = new]
  BY Zenon
<1>2. new \in ConnSet /\ new.a = conn[c].a /\ new.closed = conn[c].closed /\ new.connected = TRUE
  BY <1>1 DEF ConnSet
<1> HIDE DEF new
<1>3. conn' \in [Conns -> ConnSet] /\ conn'[c] = new /\ \A x \in Conns : x # c => conn'[x] = conn[x]
  BY <1>1, <1>2
<1> QED  BY <1>2, <1>3, Zenon

LEMMA OpenedFacts ==
    ASSUME conn \in [Conns -> ConnSet], NEW c \in Conns, NEW a \in Addresses, NEW yes \in BOOLEAN,
           conn' = [conn EXCEPT ![c] = Connection(a, yes)]
    PROVE  /\ conn' \in [Conns -> ConnSet] /\ conn'[c].a = a /\ conn'[c].connected = yes /\ conn'[c].closed = FALSE
           /\ \A x \in Conns : x # c => conn'[x] = conn[x]
<1> DEFINE new == Connection(a, yes)
<1>1. new \in ConnSet /\ new.a = a /\ new.connected = yes /\ new.closed = FALSE
  BY DEF ConnSet, Connection
<1> HIDE DEF new
<1>2. conn' = [conn EXCEPT ![c] = new]
  BY Zenon DEF new
<1>3. conn' \in [Conns -> ConnSet] /\ conn'[c] = new /\ \A x \in Conns : x # c => conn'[x] = conn[x]
  BY <1>1, <1>2
<1> QED  BY <1>1, <1>3, Zenon

LEMMA PacketFacts ==
    /\ \A a \in Addresses : \A op \in {"REQUEST", "RESPONSE", "SHUTDOWN", "RST"} :
           Packet(a, op) \in Packets /\ Packet(a, op).a = a /\ Packet(a, op).op = op
    /\ \A m \in Packets : m.a \in Addresses /\ m.op \in {"REQUEST", "RESPONSE", "SHUTDOWN", "RST"}
    /\ Idle.step = "idle" /\ Idle \in DevSet
    /\ Idle.packet = Packet(Nowhere, "RST")
  BY DEF Packet, Packets, Idle, DevSet

LEMMA Queue ==
    ASSUME NEW q \in Seq(Packets), NEW m \in Packets
    PROVE  /\ Append(q, m) \in Seq(Packets) /\ Len(Append(q, m)) = Len(q) + 1
           /\ \A i \in 1..Len(Append(q, m)) : (i \in 1..Len(q) /\ Append(q, m)[i] = q[i]) \/ Append(q, m)[i] = m
  OBVIOUS

LEMMA Dequeue ==
    ASSUME NEW q \in Seq(Packets), q # <<>>
    PROVE  /\ Tail(q) \in Seq(Packets) /\ Head(q) \in Packets /\ Head(q) = q[1] /\ 1 \in 1..Len(q)
           /\ \A i \in 1..Len(Tail(q)) : i + 1 \in 1..Len(q) /\ Tail(q)[i] = q[i + 1]
  OBVIOUS

\* No connection gets another address, no key another connection; a user goes from one place to the
\* next that connect and close give.
Edge(c) ==
    \/ c \in Callers /\ pc[c] = "idle" /\ pc'[c] = "failed"
    \/ pc[c] = "request" /\ pc'[c] = "wait"
    \/ pc[c] = "wait" /\ pc'[c] \in {"failed", "forget"}
    \/ pc[c] = "wait" /\ pc'[c] = "open" /\ conn[c].connected
    \/ pc[c] = "forget" /\ pc'[c] = "rst"
    \/ pc[c] = "rst" /\ pc'[c] = "failed"
    \/ pc[c] = "open" /\ pc'[c] \in {"shutdown", "done"}
    \/ pc[c] = "shutdown" /\ pc'[c] = "done"
Stays ==
    /\ \A k \in DOMAIN registry' : k \in DOMAIN registry /\ registry'[k] = registry[k]
    /\ \A c \in Conns : /\ conn'[c].a = conn[c].a
                        /\ conn[c].connected => conn'[c].connected
                        /\ conn[c].closed => conn'[c].closed
                        /\ conn'[c].connected => conn[c].connected \/ conn[c].a \in accepted
    /\ \A c \in Conns : pc'[c] = pc[c] \/ Edge(c)
    /\ accepted \subseteq accepted'

\* A connection gets its address and its key: connect for a caller, accept for a guest.
Opens(c, a) ==
    /\ c \in Conns /\ Own(c, a) /\ Key(c, a) \notin DOMAIN registry
    /\ registry' = Inserted(Key(c, a), c)
    /\ \A x \in Conns : x # c => conn'[x] = conn[x] /\ pc'[x] = pc[x]
    /\ conn'[c].a = a /\ ~conn'[c].closed /\ pc'[c] # "idle"
    /\ \/ c \in Callers /\ pc[c] = "idle" /\ pc'[c] = "request" /\ ~conn'[c].connected
       \/ c \in Guests /\ pc'[c] = "open" /\ ~Busy
    /\ accepted' = accepted /\ dev' = dev

LEMMA StaysFacts ==
    ASSUME Types, Places, Addressed, KeysKept, CallsKept, Stays
    PROVE  Places' /\ Addressed' /\ KeysKept' /\ CallsKept'
<1>1. Places'
  <2>1. \A c \in Conns : pc'[c] = pc[c] \/ Edge(c)
    BY Zenon DEF Stays
  <2>2. ASSUME NEW c \in Ports PROVE pc'[c] \in {"idle", "held"}
    BY <2>1, <2>2, Kinds DEF Places, Edge
  <2>3. ASSUME NEW c \in Guests PROVE pc'[c] \in {"idle", "open", "shutdown", "done"}
    BY <2>1, <2>3, Kinds DEF Places, Edge
  <2>4. ASSUME NEW c \in Callers PROVE pc'[c] # "held"
    BY <2>1, <2>4, Kinds DEF Places, Edge
  <2> QED  BY <2>2, <2>3, <2>4, Zenon DEF Places
<1>2. \A c \in Conns : /\ pc[c] # "idle" => pc'[c] # "idle"
                       /\ pc'[c] \notin {"idle", "failed"} => pc[c] \notin {"idle", "failed"}
                       /\ pc'[c] \in {"open", "shutdown", "done"} => pc[c] \in {"open", "shutdown", "done"} \/ conn[c].connected
  BY DEF Stays, Edge
<1>3. Addressed'
  BY <1>2, Zenon DEF Addressed, Stays
<1>4. KeysKept'
  <2> SUFFICES ASSUME NEW k \in DOMAIN registry'
               PROVE  /\ registry'[k] \in Conns /\ pc'[registry'[k]] # "idle"
                      /\ Own(registry'[k], conn'[registry'[k]].a) /\ k = Key(registry'[k], conn'[registry'[k]].a)
    BY Zenon DEF KeysKept
  <2>1. PICK c \in Conns : /\ registry'[k] = c /\ pc[c] # "idle" /\ Own(c, conn[c].a) /\ k = Key(c, conn[c].a)
    BY Zenon DEF KeysKept, Stays
  <2>2. conn'[c].a = conn[c].a
    BY <2>1, Zenon DEF Stays
  <2> QED  BY <1>2, <2>1, <2>2, Zenon
<1>5. CallsKept'
  <2> SUFFICES ASSUME NEW c \in Callers
               PROVE  /\ conn'[c].connected => conn'[c].a \in accepted'
                      /\ pc'[c] \in {"open", "shutdown", "done"} => conn'[c].connected
    BY Zenon DEF CallsKept
  <2>1. c \in Conns
    BY Kinds, Zenon
  <2>2. pc'[c] \in {"open", "shutdown", "done"} => conn[c].connected
    BY <1>2, <2>1, Zenon DEF CallsKept
  <2> QED  BY <2>1, <2>2, Zenon DEF CallsKept, Stays
<1> QED  BY <1>1, <1>3, <1>4, <1>5, Zenon

LEMMA OpensFacts ==
    ASSUME Types, Places, Addressed, KeysKept, DevKept, CallsKept, NEW c, NEW a, Opens(c, a)
    PROVE  /\ Places' /\ Addressed' /\ KeysKept' /\ DevKept' /\ CallsKept'
           /\ \A k \in DOMAIN registry : registry[k] # c
           /\ Busy => dev.c # c
<1>1. /\ c \in Conns /\ Own(c, a) /\ Key(c, a) \notin DOMAIN registry
      /\ \A x \in Conns : x # c => conn'[x] = conn[x] /\ pc'[x] = pc[x]
      /\ conn'[c].a = a /\ pc'[c] # "idle"
      /\ \/ c \in Callers /\ pc[c] = "idle" /\ pc'[c] = "request" /\ ~conn'[c].connected
         \/ c \in Guests /\ pc'[c] = "open" /\ ~Busy
      /\ accepted' = accepted /\ dev' = dev
  BY Zenon DEF Opens
<1>2. /\ DOMAIN registry' = DOMAIN registry \union {Key(c, a)} /\ registry'[Key(c, a)] = c
      /\ \A x \in DOMAIN registry : x # Key(c, a) => registry'[x] = registry[x]
  BY InsertedFacts, Zenon DEF Opens
<1>3. ASSUME NEW k \in DOMAIN registry, registry[k] = c PROVE FALSE
  <2>1. pc[c] # "idle" /\ Own(c, conn[c].a) /\ k = Key(c, conn[c].a)
    BY <1>3, Zenon DEF KeysKept
  <2>2. c \in Guests
    BY <1>1, <2>1, Zenon
  <2>3. conn[c].a = GuestAddress(c) /\ a = GuestAddress(c)
    BY <1>1, <2>1, <2>2, OwnFacts, Zenon
  <2> QED  BY <1>1, <1>3, <2>1, <2>3, Zenon
<1>4. Busy => dev.c # c
  BY <1>1, Zenon DEF DevKept
<1>5. Places'
  <2>1. ASSUME NEW s \in Ports PROVE pc'[s] \in {"idle", "held"}
    BY <1>1, <2>1, Kinds, Zenon DEF Places
  <2>2. ASSUME NEW g \in Guests PROVE pc'[g] \in {"idle", "open", "shutdown", "done"}
    BY <1>1, <2>2, Kinds, Zenon DEF Places
  <2>3. ASSUME NEW e \in Callers PROVE pc'[e] # "held"
    <3>1. CASE e = c
      BY <1>1, <3>1, Kinds
    <3>2. CASE e # c
      BY <1>1, <3>2, Kinds, Zenon DEF Places
    <3> QED  BY <3>1, <3>2, Zenon
  <2> QED  BY <2>1, <2>2, <2>3, Zenon DEF Places
<1>6. Addressed'
  BY <1>1, Zenon DEF Addressed
<1>7. KeysKept'
  <2> SUFFICES ASSUME NEW k \in DOMAIN registry'
               PROVE  /\ registry'[k] \in Conns /\ pc'[registry'[k]] # "idle"
                      /\ Own(registry'[k], conn'[registry'[k]].a) /\ k = Key(registry'[k], conn'[registry'[k]].a)
    BY Zenon DEF KeysKept
  <2>1. CASE k = Key(c, a)
    BY <1>1, <1>2, <2>1, Zenon
  <2>2. CASE k # Key(c, a)
    <3>1. k \in DOMAIN registry /\ registry'[k] = registry[k]
      BY <1>2, <2>2, Zenon
    <3>2. PICK e \in Conns : e = registry[k] /\ e # c
      BY <1>3, <3>1, Zenon DEF KeysKept
    <3>3. pc[e] # "idle" /\ Own(e, conn[e].a) /\ k = Key(e, conn[e].a)
      BY <3>1, <3>2, Zenon DEF KeysKept
    <3>4. conn'[e] = conn[e] /\ pc'[e] = pc[e]
      BY <1>1, <3>2, Zenon
    <3> QED  BY <3>1, <3>2, <3>3, <3>4, Zenon
  <2> QED  BY <2>1, <2>2, Zenon
<1>8. DevKept'
  <2>1. Busy' <=> Busy
    BY <1>1, Zenon DEF Busy
  <2>2. Busy => conn'[dev.c] = conn[dev.c] /\ pc'[dev.c] = pc[dev.c]
    BY <1>1, <1>4, Zenon DEF DevKept
  <2> QED  BY <1>1, <2>1, <2>2, Zenon DEF DevKept
<1>9. CallsKept'
  <2> SUFFICES ASSUME NEW e \in Callers
               PROVE  /\ conn'[e].connected => conn'[e].a \in accepted'
                      /\ pc'[e] \in {"open", "shutdown", "done"} => conn'[e].connected
    BY Zenon DEF CallsKept
  <2>1. CASE e = c
    BY <1>1, <2>1, Kinds
  <2>2. CASE e # c
    BY <1>1, <2>2, Kinds, Zenon DEF CallsKept
  <2> QED  BY <2>1, <2>2, Zenon
<1> QED  BY <1>3, <1>4, <1>5, <1>6, <1>7, <1>8, <1>9, Zenon

\* The main thread starts nothing, or goes on with the connection and the packet it has.
DevStays ==
    \/ dev' = dev \/ ~Busy'
    \/ /\ Busy /\ dev'.c = dev.c /\ dev'.packet = dev.packet /\ dev'.step # "RESPONSE"
       /\ dev'.step = "forget" => conn'[dev.c].closed

LEMMA DevStaysFacts ==
    ASSUME DevKept, Stays, DevStays
    PROVE  DevKept'
<1>1. CASE ~Busy'
  BY <1>1 DEF DevKept, Busy
<1>2. ASSUME Busy, dev'.c = dev.c, dev'.packet = dev.packet, dev'.step = "RESPONSE" => dev.step = "RESPONSE"
      PROVE  DevKept'
  <2>1. dev.c \in Conns /\ pc[dev.c] # "idle" /\ Own(dev.c, conn[dev.c].a) /\ conn[dev.c].a = dev.packet.a
    BY <1>2, Zenon DEF DevKept
  <2>2. conn'[dev.c].a = conn[dev.c].a /\ (pc'[dev.c] = pc[dev.c] \/ Edge(dev.c))
    BY <2>1, Zenon DEF Stays
  <2>3. pc'[dev.c] # "idle"
    BY <2>1, <2>2 DEF Edge
  <2>4. dev.step = "RESPONSE" => dev.packet.a \in accepted'
    BY Zenon DEF DevKept, Stays
  <2> QED  BY <1>2, <2>1, <2>2, <2>3, <2>4, Zenon DEF DevKept
<1>3. CASE dev' = dev
  BY <1>1, <1>2, <1>3, Zenon DEF Busy
<1>4. CASE Busy /\ dev'.c = dev.c /\ dev'.packet = dev.packet /\ dev'.step # "RESPONSE"
  BY <1>2, <1>4, Zenon
<1> QED  BY <1>1, <1>3, <1>4, Zenon DEF DevStays

\* What most actions are shown to be.
Quiet == Types' /\ Stays /\ DevStays /\ GuestKept'

LEMMA QuietKeeps ==
    ASSUME BaseInv, Quiet PROVE BaseInv'
<1>1. Types /\ Places /\ Addressed /\ KeysKept /\ CallsKept /\ DevKept /\ Stays /\ DevStays
  BY Zenon DEF BaseInv, Quiet
<1>2. Places' /\ Addressed' /\ KeysKept' /\ CallsKept'
  BY <1>1, StaysFacts, Zenon
<1>3. DevKept'
  BY <1>1, DevStaysFacts, Zenon
<1> QED  BY <1>2, <1>3, Zenon DEF BaseInv, Quiet
----------------------------------------------------------------------------
(* Host threads *)

LEMMA MoveQuiet ==
    ASSUME BaseInv, NEW c \in Conns, NEW place \in PcSet, Goto(c, place), Edge(c), outbox' \in Seq(Packets),
           UNCHANGED <<registry, nextPort, listeners, conn, dev, toHost, guest, accepted, resets>>
    PROVE  Quiet
<1>1. Types /\ GuestKept
  BY Zenon DEF BaseInv
<1>2. pc' \in [Conns -> PcSet] /\ \A x \in Conns : x # c => pc'[x] = pc[x]
  BY <1>1, PcFacts, Zenon DEF Types
<1>3. Types'
  BY <1>1, <1>2, Zenon DEF Types
<1>4. Stays
  BY <1>2, Zenon DEF Stays
<1>5. GuestKept'
  BY <1>1, Zenon DEF GuestKept
<1> QED  BY <1>3, <1>4, <1>5, Zenon DEF Quiet, DevStays

LEMMA SendFacts ==
    ASSUME BaseInv, NEW a \in Addresses, NEW op \in {"REQUEST", "RESPONSE", "SHUTDOWN", "RST"}, Send(a, op)
    PROVE  outbox' \in Seq(Packets)
<1>1. outbox \in Seq(Packets) /\ Packet(a, op) \in Packets
  BY PacketFacts, Zenon DEF BaseInv, Types
<1> QED  BY <1>1, Queue, Zenon DEF Send

LEMMA PlaceOf ==
    ASSUME BaseInv, NEW c \in Conns
    PROVE  /\ pc[c] \in PcSet
           /\ pc[c] \in {"request", "wait", "forget", "rst"} => c \in Callers
           /\ pc[c] \notin {"idle", "failed"} => Own(c, conn[c].a) /\ conn[c].a \in Addresses
<1>1. Types /\ Places /\ Addressed
  BY Zenon DEF BaseInv
<1>2. pc[c] \in PcSet
  BY <1>1, Zenon DEF Types
<1>3. pc[c] \in {"request", "wait", "forget", "rst"} => c \in Callers
  BY <1>1, Kinds DEF Places
<1>4. pc[c] \notin {"idle", "failed"} => Own(c, conn[c].a)
  BY <1>1, Zenon DEF Addressed
<1> QED  BY <1>2, <1>3, <1>4, OwnFacts, Zenon

LEMMA SendRequestQuiet ==
    ASSUME BaseInv, NEW c \in Conns, SendRequest(c) PROVE Quiet
<1>1. PICK place \in PcSet : place = "wait"
  BY DEF PcSet
<1>2. PICK op \in {"REQUEST", "RESPONSE", "SHUTDOWN", "RST"} : op = "REQUEST"
  OBVIOUS
<1>3. /\ pc[c] = "request" /\ Send(conn[c].a, op) /\ Goto(c, place)
      /\ UNCHANGED <<registry, nextPort, listeners, conn, dev, toHost, guest, accepted, resets>>
  BY <1>1, <1>2, Zenon DEF SendRequest
<1>4. conn[c].a \in Addresses
  BY <1>3, PlaceOf
<1>5. outbox' \in Seq(Packets)
  BY <1>3, <1>4, SendFacts
<1>6. pc \in [Conns -> PcSet]
  BY Zenon DEF BaseInv, Types
<1>7. pc'[c] = place
  BY <1>3, <1>6, PcFacts
<1>8. Edge(c)
  BY <1>1, <1>3, <1>7, Zenon DEF Edge
<1> QED  BY <1>3, <1>5, <1>8, MoveQuiet

LEMMA WakeQuiet ==
    ASSUME BaseInv, NEW c \in Conns, Wake(c) PROVE Quiet
<1>1. PICK place \in PcSet : place = Result(c)
  BY DEF PcSet, Result
<1>2. /\ pc[c] = "wait" /\ Goto(c, place) /\ outbox' = outbox
      /\ UNCHANGED <<registry, nextPort, listeners, conn, dev, toHost, guest, accepted, resets>>
  BY <1>1, Zenon DEF Wake
<1>3. pc \in [Conns -> PcSet] /\ outbox' \in Seq(Packets)
  BY <1>2, Zenon DEF BaseInv, Types
<1>4. pc'[c] = place
  BY <1>2, <1>3, PcFacts
<1>5. (place = "open" /\ conn[c].connected) \/ place = "failed"
  BY <1>1, Zenon DEF Result
<1>6. Edge(c)
  BY <1>2, <1>4, <1>5, Zenon DEF Edge
<1> QED  BY <1>2, <1>3, <1>6, MoveQuiet

LEMMA TimeOutQuiet ==
    ASSUME BaseInv, NEW c \in Conns, TimeOut(c) PROVE Quiet
<1>1. PICK place \in PcSet : place = "forget"
  BY DEF PcSet
<1>2. /\ pc[c] = "wait" /\ Goto(c, place) /\ outbox' = outbox
      /\ UNCHANGED <<registry, nextPort, listeners, conn, dev, toHost, guest, accepted, resets>>
  BY <1>1, Zenon DEF TimeOut
<1>3. pc \in [Conns -> PcSet] /\ outbox' \in Seq(Packets)
  BY <1>2, Zenon DEF BaseInv, Types
<1>4. pc'[c] = place
  BY <1>2, <1>3, PcFacts
<1>5. Edge(c)
  BY <1>1, <1>2, <1>4, Zenon DEF Edge
<1> QED  BY <1>2, <1>3, <1>5, MoveQuiet

LEMMA AbandonQuiet ==
    ASSUME BaseInv, NEW c \in Conns, Abandon(c) PROVE Quiet
<1>1. PICK place \in PcSet : place = "failed"
  BY DEF PcSet
<1>2. PICK op \in {"REQUEST", "RESPONSE", "SHUTDOWN", "RST"} : op = "RST"
  OBVIOUS
<1>3. /\ pc[c] = "rst" /\ Send(conn[c].a, op) /\ Goto(c, place)
      /\ UNCHANGED <<registry, nextPort, listeners, conn, dev, toHost, guest, accepted, resets>>
  BY <1>1, <1>2, Zenon DEF Abandon, SendRst
<1>4. conn[c].a \in Addresses
  BY <1>3, PlaceOf
<1>5. outbox' \in Seq(Packets)
  BY <1>3, <1>4, SendFacts
<1>6. pc \in [Conns -> PcSet]
  BY Zenon DEF BaseInv, Types
<1>7. pc'[c] = place
  BY <1>3, <1>6, PcFacts
<1>8. Edge(c)
  BY <1>1, <1>3, <1>7, Zenon DEF Edge
<1> QED  BY <1>3, <1>5, <1>8, MoveQuiet

LEMMA SendShutdownQuiet ==
    ASSUME BaseInv, NEW c \in Conns, SendShutdown(c) PROVE Quiet
<1>1. PICK place \in PcSet : place = "done"
  BY DEF PcSet
<1>2. PICK op \in {"REQUEST", "RESPONSE", "SHUTDOWN", "RST"} : op = "SHUTDOWN"
  OBVIOUS
<1>3. /\ pc[c] = "shutdown" /\ Send(conn[c].a, op) /\ Goto(c, place)
      /\ UNCHANGED <<registry, nextPort, listeners, conn, dev, toHost, guest, accepted, resets>>
  BY <1>1, <1>2, Zenon DEF SendShutdown
<1>4. conn[c].a \in Addresses
  BY <1>3, PlaceOf
<1>5. outbox' \in Seq(Packets)
  BY <1>3, <1>4, SendFacts
<1>6. pc \in [Conns -> PcSet]
  BY Zenon DEF BaseInv, Types
<1>7. pc'[c] = place
  BY <1>3, <1>6, PcFacts
<1>8. Edge(c)
  BY <1>1, <1>3, <1>7, Zenon DEF Edge
<1> QED  BY <1>3, <1>5, <1>8, MoveQuiet

\* A port is tried once, and the first free one is taken.
LEMMA AllocateSteps ==
    ASSUME BaseInv, NEW c \in Callers, Allocate(c)
    PROVE  Quiet \/ (Types' /\ GuestKept' /\ \E a : Opens(c, a))
<1>0. Types /\ GuestKept /\ c \in Conns /\ c \notin Guests
  BY Kinds, Zenon DEF BaseInv
<1>1. CASE Free = {}
  <2>1. PICK place \in PcSet : place = "failed"
    BY DEF PcSet
  <2>2. /\ pc[c] = "idle" /\ Goto(c, place) /\ outbox' = outbox
        /\ UNCHANGED <<registry, nextPort, listeners, conn, dev, toHost, guest, accepted, resets>>
    BY <1>1, <2>1, Zenon DEF Allocate
  <2>3. pc \in [Conns -> PcSet] /\ outbox' \in Seq(Packets)
    BY <1>0, <2>2, Zenon DEF Types
  <2>4. pc'[c] = place
    BY <1>0, <2>2, <2>3, PcFacts
  <2>5. Edge(c)
    BY <2>1, <2>2, <2>4, Zenon DEF Edge
  <2> QED  BY <1>0, <2>2, <2>3, <2>5, MoveQuiet
<1>2. CASE Free # {}
  <2>1. PICK i \in Ports : i = Min(Free) /\ ~InUse(Tried(i))
    BY <1>2, MinFacts, Zenon DEF Free
  <2>2. Tried(i) \in Ports /\ Tried(i + 1) \in Ports
    BY <1>0, PortsAssumption DEF Tried, Ports, Types
  <2>3. PICK a : a = Address(Tried(i), Agent)
    OBVIOUS
  <2>4. PICK no \in BOOLEAN : no = FALSE
    BY Zenon
  <2>5. PICK place \in PcSet : place = "request"
    BY DEF PcSet
  <2>6. /\ pc[c] = "idle" /\ Goto(c, place) /\ conn' = [conn EXCEPT ![c] = Connection(a, no)]
        /\ registry' = Inserted(Local(a), c) /\ nextPort' = Tried(i + 1)
        /\ UNCHANGED <<listeners, dev, outbox, toHost, guest, accepted, resets>>
    BY <1>2, <2>1, <2>3, <2>4, <2>5, Zenon DEF Allocate
  <2>7. Own(c, a) /\ a \in Addresses /\ Key(c, a) = Local(a) /\ Local(a) = <<Tried(i)>>
    <3>1. Own(c, a)
      BY <2>2, <2>3, Zenon DEF Own
    <3>2. a.local = Tried(i)
      BY <2>3, Parts, Zenon
    <3> QED  BY <1>0, <3>1, <3>2, OwnFacts, Keys, Zenon
  <2>8. Key(c, a) \notin DOMAIN registry
    BY <2>1, <2>7, Zenon DEF InUse
  <2>9. conn' \in [Conns -> ConnSet] /\ conn'[c].a = a /\ conn'[c].connected = no /\ conn'[c].closed = FALSE
        /\ \A x \in Conns : x # c => conn'[x] = conn[x]
    <3>1. conn \in [Conns -> ConnSet]
      BY <1>0, Zenon DEF Types
    <3> QED  BY <1>0, <2>6, <2>7, <3>1, OpenedFacts
  <2>10. pc' \in [Conns -> PcSet] /\ pc'[c] = place /\ \A x \in Conns : x # c => pc'[x] = pc[x]
    <3>1. pc \in [Conns -> PcSet]
      BY <1>0, Zenon DEF Types
    <3> QED  BY <1>0, <2>6, <3>1, PcFacts
  <2>11. Types' /\ GuestKept'
    BY <1>0, <2>2, <2>6, <2>9, <2>10, Zenon DEF Types, GuestKept
  <2>12. pc'[c] = "request" /\ pc'[c] # "idle"
    BY <2>5, <2>10
  <2>13. ~conn'[c].connected /\ ~conn'[c].closed
    BY <2>4, <2>9, Zenon
  <2>14. Opens(c, a)
    BY <1>0, <2>6, <2>7, <2>8, <2>9, <2>10, <2>12, <2>13, Zenon DEF Opens
  <2> QED  BY <2>11, <2>14, Zenon
<1> QED  BY <1>1, <1>2, Zenon

LEMMA ForgetQuiet ==
    ASSUME BaseInv, NEW c \in Conns, Forget(c) PROVE Quiet
<1>1. Types /\ GuestKept
  BY Zenon DEF BaseInv
<1>2. PICK place \in PcSet : place = "rst"
  BY DEF PcSet
<1>3. /\ pc[c] = "forget" /\ registry' = Removed({Local(conn[c].a)}) /\ Goto(c, place)
      /\ UNCHANGED <<nextPort, listeners, conn, dev, outbox, toHost, guest, accepted, resets>>
  BY <1>2, Zenon DEF Forget
<1>4. pc' \in [Conns -> PcSet] /\ pc'[c] = place /\ \A x \in Conns : x # c => pc'[x] = pc[x]
  <2>1. pc \in [Conns -> PcSet]
    BY <1>1, Zenon DEF Types
  <2> QED  BY <1>3, <2>1, PcFacts
<1>5. Types' /\ GuestKept'
  BY <1>1, <1>3, <1>4, Zenon DEF Types, GuestKept
<1>6. \A k \in DOMAIN registry' : k \in DOMAIN registry /\ registry'[k] = registry[k]
  BY <1>3, RemovedFacts, Zenon
<1>7. Edge(c)
  BY <1>2, <1>3, <1>4, Zenon DEF Edge
<1>8. Stays
  BY <1>3, <1>4, <1>6, <1>7, Zenon DEF Stays
<1> QED  BY <1>3, <1>5, <1>8, Zenon DEF Quiet, DevStays

LEMMA CloseQuiet ==
    ASSUME BaseInv, NEW c \in Conns, Close(c) PROVE Quiet
<1>1. Types /\ GuestKept
  BY Zenon DEF BaseInv
<1>2. PICK place \in PcSet : place = IF conn[c].closed THEN "done" ELSE "shutdown"
  BY DEF PcSet
<1>3. /\ pc[c] = "open" /\ conn' = [conn EXCEPT ![c].closed = TRUE] /\ Goto(c, place)
      /\ UNCHANGED <<registry, nextPort, listeners, dev, outbox, toHost, guest, accepted, resets>>
  BY <1>2, Zenon DEF Close
<1>4. pc' \in [Conns -> PcSet] /\ pc'[c] = place /\ \A x \in Conns : x # c => pc'[x] = pc[x]
  <2>1. pc \in [Conns -> PcSet]
    BY <1>1, Zenon DEF Types
  <2> QED  BY <1>3, <2>1, PcFacts
<1>5. /\ conn' \in [Conns -> ConnSet]
      /\ \A x \in Conns : /\ conn'[x].a = conn[x].a /\ (conn'[x].connected <=> conn[x].connected)
                          /\ conn[x].closed => conn'[x].closed
  <2>1. conn \in [Conns -> ConnSet]
    BY <1>1, Zenon DEF Types
  <2> QED  BY <1>3, <2>1, ClosedFacts, Zenon
<1>6. Types' /\ GuestKept'
  BY <1>1, <1>3, <1>4, <1>5, Zenon DEF Types, GuestKept
<1>7. place = "done" \/ place = "shutdown"
  BY <1>2, Zenon
<1>8. Edge(c)
  BY <1>3, <1>4, <1>7, Zenon DEF Edge
<1>9. Stays
  BY <1>3, <1>4, <1>5, <1>8, Zenon DEF Stays
<1> QED  BY <1>3, <1>6, <1>9, Zenon DEF Quiet, DevStays

LEMMA ListenQuiet ==
    ASSUME BaseInv, Listen PROVE Quiet
<1>1. Types /\ GuestKept
  BY Zenon DEF BaseInv
<1>2. /\ listeners' = listeners \union {Proxy}
      /\ UNCHANGED <<registry, nextPort, conn, pc, dev, outbox, toHost, guest, accepted, resets>>
  BY Zenon DEF Listen
<1>3. Types' /\ GuestKept'
  BY <1>1, <1>2, Zenon DEF Types, GuestKept
<1>4. Stays
  BY <1>2, Zenon DEF Stays
<1> QED  BY <1>2, <1>3, <1>4, Zenon DEF Quiet, DevStays
----------------------------------------------------------------------------
(* The main thread *)

\* An entry under one of an address's keys is a connection of that address.
LEMMA EntryFacts ==
    ASSUME KeysKept, NEW a \in Addresses, NEW k \in DOMAIN registry, k = Pair(a) \/ k = Local(a)
    PROVE  /\ registry[k] \in Conns /\ pc[registry[k]] # "idle"
           /\ Own(registry[k], conn[registry[k]].a) /\ conn[registry[k]].a = a /\ k = Key(registry[k], a)
<1>1. PICK c \in Conns : c = registry[k] /\ pc[c] # "idle" /\ Own(c, conn[c].a) /\ k = Key(c, conn[c].a)
  BY Zenon DEF KeysKept
<1>2. PICK b : b = conn[c].a
  OBVIOUS
<1>3. /\ c \in Guests => b.local = Proxy /\ b.peer = c /\ b = GuestAddress(c) /\ k = Pair(b)
      /\ c \notin Guests => b.local \in Ports /\ b = Address(b.local, Agent) /\ k = Local(b)
  BY <1>1, <1>2, OwnFacts, Zenon
<1>4. \/ a.local \in Ports /\ a = Address(a.local, Agent)
      \/ a.local = Proxy /\ a.peer \in Guests /\ a = GuestAddress(a.peer)
  BY Parts, Zenon
<1>5. Local(a) # Pair(b) /\ Pair(a) # Local(b)
  BY Keys, Zenon
<1>6. CASE c \in Guests
  <2>1. Pair(a) = Pair(b)
    BY <1>3, <1>5, <1>6, Zenon
  <2>2. a.local = b.local /\ a.peer = b.peer
    BY <2>1, Keys, Zenon
  <2>3. a = b
    BY <1>3, <1>4, <1>6, <2>2, Kinds, Zenon
  <2> QED  BY <1>1, <1>2, <2>3, Zenon
<1>7. CASE c \notin Guests
  <2>1. Local(a) = Local(b)
    BY <1>3, <1>5, <1>7, Zenon
  <2>2. a.local = b.local
    BY <2>1, Keys, Zenon
  <2>3. a = b
    BY <1>3, <1>4, <1>7, <2>2, Kinds, Zenon
  <2> QED  BY <1>1, <1>2, <2>3, Zenon
<1> QED  BY <1>6, <1>7, Zenon

\* So handle finds the connection of the packet's address, if any.
LEMMA LookupFacts ==
    ASSUME KeysKept, NEW a \in Addresses, Lookup(a) # None
    PROVE  /\ Lookup(a) \in Conns /\ pc[Lookup(a)] # "idle"
           /\ Own(Lookup(a), conn[Lookup(a)].a) /\ conn[Lookup(a)].a = a
           /\ Key(Lookup(a), a) \in DOMAIN registry /\ registry[Key(Lookup(a), a)] = Lookup(a)
<1>1. PICK k \in DOMAIN registry : (k = Pair(a) \/ k = Local(a)) /\ Lookup(a) = registry[k]
  BY Zenon DEF Lookup
<1>2. /\ registry[k] \in Conns /\ pc[registry[k]] # "idle"
      /\ Own(registry[k], conn[registry[k]].a) /\ conn[registry[k]].a = a /\ k = Key(registry[k], a)
  BY <1>1, EntryFacts
<1> QED  BY <1>1, <1>2, Zenon

\* The packet it takes is off the queue; what is left is as it was.
LEMMA TakeFacts ==
    ASSUME BaseInv, Take
    PROVE  /\ dev = Idle /\ ~Busy /\ Head(toHost) \in Packets /\ toHost' \in Seq(Packets) /\ GuestKept'
           /\ Head(toHost).op = "RESPONSE" => Head(toHost).a \in accepted
           /\ Head(toHost).op = "REQUEST" => Head(toHost).a.local = Proxy
           /\ UNCHANGED <<nextPort, listeners, guest, accepted, resets>>
<1>1. GuestKept /\ toHost \in Seq(Packets)
  BY Zenon DEF BaseInv, Types
<1>2. dev = Idle /\ toHost # <<>> /\ toHost' = Tail(toHost) /\ UNCHANGED <<nextPort, listeners, guest, accepted, resets>>
  BY Zenon DEF Take
<1>3. /\ Tail(toHost) \in Seq(Packets) /\ Head(toHost) \in Packets /\ Head(toHost) = toHost[1] /\ 1 \in 1..Len(toHost)
      /\ \A i \in 1..Len(Tail(toHost)) : i + 1 \in 1..Len(toHost) /\ Tail(toHost)[i] = toHost[i + 1]
  BY <1>1, <1>2, Dequeue, Zenon
<1>4. /\ Head(toHost).op = "RESPONSE" => Head(toHost).a \in accepted
      /\ Head(toHost).op = "REQUEST" => Head(toHost).a.local = Proxy
  BY <1>1, <1>3, Zenon DEF GuestKept
<1>5. GuestKept'
  BY <1>1, <1>2, <1>3, Zenon DEF GuestKept
<1>6. ~Busy
  BY <1>2, PacketFacts DEF Busy
<1> QED  BY <1>2, <1>3, <1>4, <1>5, <1>6, Zenon

LEMMA TakeSteps ==
    ASSUME BaseInv, Take
    PROVE  /\ Types' /\ GuestKept'
           /\ \/ Stays /\ ~Busy' /\ UNCHANGED <<registry, conn, pc>>
              \/ /\ Stays /\ UNCHANGED <<registry, conn, pc>>
                 /\ dev'.c \in Conns /\ pc[dev'.c] # "idle" /\ Own(dev'.c, conn[dev'.c].a) /\ conn[dev'.c].a = dev'.packet.a
                 /\ dev'.step # "forget" /\ (dev'.step = "RESPONSE" => dev'.packet.a \in accepted)
                 /\ Key(dev'.c, conn[dev'.c].a) \in DOMAIN registry /\ registry[Key(dev'.c, conn[dev'.c].a)] = dev'.c
              \/ \E g \in Guests : \E a : Opens(g, a)
<1>0. Types /\ KeysKept
  BY Zenon DEF BaseInv
<1>1. PICK m \in Packets : m = Head(toHost)
  BY TakeFacts, Zenon
<1>2. m.a \in Addresses /\ m.op \in {"REQUEST", "RESPONSE", "SHUTDOWN", "RST"}
  BY PacketFacts, Zenon
<1>3. /\ dev = Idle /\ ~Busy /\ toHost' \in Seq(Packets) /\ GuestKept'
      /\ (m.op = "RESPONSE" => m.a \in accepted) /\ (m.op = "REQUEST" => m.a.local = Proxy)
      /\ UNCHANGED <<nextPort, listeners, guest, accepted, resets>>
  BY <1>1, TakeFacts, Zenon
<1>4. /\ m.op = "REQUEST" => Accept(m.a) /\ UNCHANGED dev
      /\ m.op # "REQUEST" => /\ dev' = IF Lookup(m.a) = None THEN Idle ELSE [step |-> m.op, packet |-> m, c |-> Lookup(m.a)]
                             /\ UNCHANGED <<registry, conn, pc, outbox>>
  BY <1>1, Zenon DEF Take
<1>5. UNCHANGED <<registry, conn, pc>> => Stays
  BY <1>3, Zenon DEF Stays
<1>6. CASE m.op = "REQUEST" /\ m.a.local \in listeners /\ Pair(m.a) \notin DOMAIN registry
  <2>1. PICK a \in Addresses : a = m.a /\ a.local = Proxy /\ Pair(a) \notin DOMAIN registry
    BY <1>2, <1>3, <1>6, Zenon
  <2>2. a.local \notin Ports
    BY <2>1, Kinds, Zenon
  <2>3. PICK g \in Guests : g = a.peer /\ a = GuestAddress(g)
    BY <2>1, <2>2, Parts, Zenon
  <2>4. PICK yes \in BOOLEAN : yes = TRUE
    BY Zenon
  <2>5. PICK place \in PcSet : place = "open"
    BY DEF PcSet
  <2>6. PICK op \in {"REQUEST", "RESPONSE", "SHUTDOWN", "RST"} : op = "RESPONSE"
    OBVIOUS
  <2>7. Accept(a) /\ dev' = dev /\ a.local \in listeners
    BY <1>4, <1>6, <2>1, Zenon
  <2>8. /\ registry' = Inserted(Pair(a), g) /\ conn' = [conn EXCEPT ![g] = Connection(a, yes)]
        /\ Send(a, op) /\ Goto(g, place)
    BY <2>1, <2>3, <2>4, <2>5, <2>6, <2>7, Zenon DEF Accept
  <2>9. g \in Conns /\ Own(g, a) /\ Key(g, a) = Pair(a)
    <3>1. g \in Conns /\ Own(g, a)
      BY <2>3, Kinds, Zenon DEF Own
    <3> QED  BY <2>3, <3>1, OwnFacts, Zenon
  <2>10. conn' \in [Conns -> ConnSet] /\ conn'[g].a = a /\ conn'[g].closed = FALSE
         /\ \A x \in Conns : x # g => conn'[x] = conn[x]
    <3>1. conn \in [Conns -> ConnSet]
      BY <1>0, Zenon DEF Types
    <3> QED  BY <2>8, <2>9, <3>1, OpenedFacts
  <2>11. pc' \in [Conns -> PcSet] /\ pc'[g] = place /\ \A x \in Conns : x # g => pc'[x] = pc[x]
    <3>1. pc \in [Conns -> PcSet]
      BY <1>0, Zenon DEF Types
    <3> QED  BY <2>8, <2>9, <3>1, PcFacts
  <2>12. outbox' \in Seq(Packets)
    BY <2>8, SendFacts
  <2>13. Types'
    BY <1>0, <1>3, <2>7, <2>10, <2>11, <2>12, Zenon DEF Types
  <2>14. pc'[g] = "open" /\ pc'[g] # "idle"
    BY <2>5, <2>11
  <2>15. Opens(g, a)
    BY <1>3, <2>1, <2>3, <2>7, <2>8, <2>9, <2>10, <2>11, <2>14, Zenon DEF Opens
  <2> QED  BY <1>3, <2>13, <2>15, Zenon
<1>7. CASE m.op = "REQUEST" /\ ~(m.a.local \in listeners /\ Pair(m.a) \notin DOMAIN registry)
  <2>1. outbox' = Append(outbox, Packet(m.a, "RST")) /\ UNCHANGED <<registry, conn, pc, dev>>
    BY <1>4, <1>7, Zenon DEF Accept, Refusal
  <2>2. Packet(m.a, "RST") \in Packets
    BY <1>2, PacketFacts, Zenon
  <2>3. outbox' \in Seq(Packets)
    BY <1>0, <2>1, <2>2, Queue, Zenon DEF Types
  <2>4. Types'
    BY <1>0, <1>3, <2>1, <2>3, Zenon DEF Types
  <2>5. ~Busy'
    BY <1>3, <2>1, Zenon DEF Busy
  <2> QED  BY <1>3, <1>5, <2>1, <2>4, <2>5, Zenon
<1>8. CASE m.op # "REQUEST" /\ Lookup(m.a) = None
  <2>1. dev' = Idle /\ UNCHANGED <<registry, conn, pc, outbox>>
    BY <1>4, <1>8, Zenon
  <2>2. Types'
    BY <1>0, <1>3, <2>1, PacketFacts, Zenon DEF Types
  <2>3. ~Busy'
    BY <1>3, <2>1, Zenon DEF Busy
  <2> QED  BY <1>3, <1>5, <2>1, <2>2, <2>3, Zenon
<1>9. CASE m.op # "REQUEST" /\ Lookup(m.a) # None
  <2>1. PICK c \in Conns : c = Lookup(m.a)
    BY <1>0, <1>2, <1>9, LookupFacts, Zenon
  <2>2. /\ pc[c] # "idle" /\ Own(c, conn[c].a) /\ conn[c].a = m.a
        /\ Key(c, m.a) \in DOMAIN registry /\ registry[Key(c, m.a)] = c
    BY <1>0, <1>2, <1>9, <2>1, LookupFacts, Zenon
  <2>3. dev' = [step |-> m.op, packet |-> m, c |-> c] /\ UNCHANGED <<registry, conn, pc, outbox>>
    BY <1>4, <1>9, <2>1, Zenon
  <2>4. dev'.c = c /\ dev'.packet = m /\ dev'.step = m.op /\ dev'.step # "forget" /\ dev' \in DevSet
    BY <1>2, <1>9, <2>3 DEF DevSet
  <2>5. Types'
    BY <1>0, <1>3, <2>3, <2>4, Zenon DEF Types
  <2> QED  BY <1>3, <1>5, <2>2, <2>3, <2>4, <2>5, Zenon
<1> QED  BY <1>6, <1>7, <1>8, <1>9, Zenon

LEMMA DevFields ==
    ASSUME NEW d \in DevSet
    PROVE  /\ d.step \in {"idle", "RESPONSE", "SHUTDOWN", "RST", "forget", "clear"}
           /\ \A step \in {"idle", "RESPONSE", "SHUTDOWN", "RST", "forget", "clear"} :
                  /\ [d EXCEPT !.step = step] \in DevSet /\ [d EXCEPT !.step = step].step = step
                  /\ [d EXCEPT !.step = step].c = d.c /\ [d EXCEPT !.step = step].packet = d.packet
  BY DEF DevSet

LEMMA ResponseQuiet ==
    ASSUME BaseInv, Response PROVE Quiet
<1>1. Types /\ GuestKept /\ DevKept
  BY Zenon DEF BaseInv
<1>2. /\ dev.step = "RESPONSE" /\ conn' = [conn EXCEPT ![dev.c].connected = TRUE] /\ dev' = Idle
      /\ UNCHANGED <<registry, nextPort, listeners, pc, outbox, toHost, guest, accepted, resets>>
  BY Zenon DEF Response
<1>3. dev.c \in Conns /\ conn[dev.c].a \in accepted
  <2>1. Busy
    BY <1>2 DEF Busy
  <2> QED  BY <1>1, <1>2, <2>1, Zenon DEF DevKept
<1>4. /\ conn' \in [Conns -> ConnSet]
      /\ \A x \in Conns : /\ conn'[x].a = conn[x].a /\ (conn'[x].closed <=> conn[x].closed)
                          /\ conn[x].connected => conn'[x].connected
                          /\ x # dev.c => conn'[x] = conn[x]
  <2>1. conn \in [Conns -> ConnSet]
    BY <1>1, Zenon DEF Types
  <2> QED  BY <1>2, <1>3, <2>1, ConnectedFacts, Zenon
<1>5. Types' /\ GuestKept'
  BY <1>1, <1>2, <1>4, PacketFacts, Zenon DEF Types, GuestKept
<1>6. Stays
  BY <1>2, <1>3, <1>4, Zenon DEF Stays
<1>7. ~Busy'
  BY <1>2, PacketFacts DEF Busy
<1> QED  BY <1>5, <1>6, <1>7, Zenon DEF Quiet, DevStays

LEMMA AnswerShutdownQuiet ==
    ASSUME BaseInv, AnswerShutdown PROVE Quiet
<1>1. Types /\ GuestKept /\ DevKept
  BY Zenon DEF BaseInv
<1>2. PICK op \in {"REQUEST", "RESPONSE", "SHUTDOWN", "RST"} : op = "RST"
  OBVIOUS
<1>3. /\ dev.step = "SHUTDOWN" /\ Send(conn[dev.c].a, op) /\ dev' = [dev EXCEPT !.step = "RST"]
      /\ UNCHANGED <<registry, nextPort, listeners, conn, pc, toHost, guest, accepted, resets>>
  BY <1>2, Zenon DEF AnswerShutdown, SendRst
<1>4. Busy
  BY <1>3 DEF Busy
<1>5. conn[dev.c].a \in Addresses
  <2>1. dev.c \in Conns /\ Own(dev.c, conn[dev.c].a)
    BY <1>1, <1>4, Zenon DEF DevKept
  <2> QED  BY <2>1, OwnFacts, Zenon
<1>6. outbox' \in Seq(Packets)
  BY <1>3, <1>5, SendFacts
<1>7. /\ dev' \in DevSet /\ dev'.c = dev.c /\ dev'.packet = dev.packet
      /\ dev'.step # "RESPONSE" /\ dev'.step # "forget"
  BY <1>1, <1>3, DevFields DEF Types
<1>8. Types' /\ GuestKept'
  BY <1>1, <1>3, <1>6, <1>7, Zenon DEF Types, GuestKept
<1>9. Stays
  BY <1>3, Zenon DEF Stays
<1> QED  BY <1>4, <1>7, <1>8, <1>9, Zenon DEF Quiet, DevStays

LEMMA CloseFromPeerFacts ==
    ASSUME BaseInv, CloseFromPeer
    PROVE  Quiet /\ Busy /\ dev'.c = dev.c /\ conn'[dev.c].closed /\ UNCHANGED <<registry, pc>>
<1>1. Types /\ GuestKept /\ DevKept
  BY Zenon DEF BaseInv
<1>2. /\ dev.step = "RST" /\ conn' = [conn EXCEPT ![dev.c].closed = TRUE] /\ dev' = [dev EXCEPT !.step = "forget"]
      /\ UNCHANGED <<registry, nextPort, listeners, pc, outbox, toHost, guest, accepted, resets>>
  BY Zenon DEF CloseFromPeer
<1>3. Busy
  BY <1>2 DEF Busy
<1>4. dev.c \in Conns
  BY <1>1, <1>3, Zenon DEF DevKept
<1>5. /\ conn' \in [Conns -> ConnSet] /\ conn'[dev.c].closed
      /\ \A x \in Conns : /\ conn'[x].a = conn[x].a /\ (conn'[x].connected <=> conn[x].connected)
                          /\ conn[x].closed => conn'[x].closed
  <2>1. conn \in [Conns -> ConnSet]
    BY <1>1, Zenon DEF Types
  <2> QED  BY <1>2, <1>4, <2>1, ClosedFacts, Zenon
<1>6. dev' \in DevSet /\ dev'.c = dev.c /\ dev'.packet = dev.packet /\ dev'.step # "RESPONSE"
  BY <1>1, <1>2, DevFields DEF Types
<1>7. Types' /\ GuestKept'
  BY <1>1, <1>2, <1>5, <1>6, Zenon DEF Types, GuestKept
<1>8. Stays
  BY <1>2, <1>5, Zenon DEF Stays
<1> QED  BY <1>2, <1>3, <1>5, <1>6, <1>7, <1>8, Zenon DEF Quiet, DevStays

LEMMA ForgetEndedQuiet ==
    ASSUME BaseInv, ForgetEnded PROVE Quiet /\ ~Busy'
<1>1. Types /\ GuestKept
  BY Zenon DEF BaseInv
<1>2. /\ registry' = Removed(Ended(dev.packet.a)) /\ dev' = Idle
      /\ UNCHANGED <<nextPort, listeners, conn, pc, outbox, toHost, guest, accepted, resets>>
  BY Zenon DEF ForgetEnded
<1>3. \A k \in DOMAIN registry' : k \in DOMAIN registry /\ registry'[k] = registry[k]
  BY <1>2, RemovedFacts, Zenon
<1>4. Types' /\ GuestKept'
  BY <1>1, <1>2, PacketFacts, Zenon DEF Types, GuestKept
<1>5. Stays
  BY <1>2, <1>3, Zenon DEF Stays
<1>6. ~Busy'
  BY <1>2, PacketFacts DEF Busy
<1> QED  BY <1>4, <1>5, <1>6, Zenon DEF Quiet, DevStays

LEMMA NoPacket ==
    ASSUME NEW q, q = <<>> PROVE q \in Seq(Packets) /\ ~\E i \in 1..Len(q) : TRUE
  OBVIOUS

LEMMA ResetFacts ==
    ASSUME BaseInv, Reset
    PROVE  /\ Quiet /\ ~Busy' /\ pc' = pc /\ DOMAIN registry' = {}
           /\ \A c \in Conns : conn'[c].a = conn[c].a /\ (conn'[c].closed <=> conn[c].closed \/ ResetCloses(c))
<1>1. Types /\ GuestKept
  BY Zenon DEF BaseInv
<1>2. /\ resets < MaxResets /\ resets' = resets + 1
      /\ conn' = [c \in Conns |-> [conn[c] EXCEPT !.closed = @ \/ ResetCloses(c)]]
      /\ registry' = <<>> /\ toHost' = <<>>
      /\ guest' = [a \in Addresses |-> IF guest[a] = "new" THEN "new" ELSE None]
      /\ dev' = [Idle EXCEPT !.step = "clear"]
      /\ UNCHANGED <<nextPort, listeners, pc, outbox, accepted>>
  BY Zenon DEF Reset
<1>3. resets' \in 0..MaxResets
  BY <1>1, <1>2, PortsAssumption DEF Types
<1>4. DOMAIN registry' = {}
  BY <1>2
<1>5. /\ conn' \in [Conns -> ConnSet]
      /\ \A c \in Conns : /\ conn'[c].a = conn[c].a /\ (conn'[c].connected <=> conn[c].connected)
                          /\ (conn'[c].closed <=> conn[c].closed \/ ResetCloses(c))
  <2>1. ASSUME NEW c \in Conns
        PROVE  /\ conn'[c] \in ConnSet /\ conn'[c].a = conn[c].a /\ (conn'[c].connected <=> conn[c].connected)
               /\ (conn'[c].closed <=> conn[c].closed \/ ResetCloses(c))
    <3>1. PICK closed \in BOOLEAN : closed = (conn[c].closed \/ ResetCloses(c))
      BY Zenon
    <3>2. conn'[c] = [conn[c] EXCEPT !.closed = closed] /\ conn[c] \in ConnSet
      BY <1>1, <1>2, <3>1, Zenon DEF Types
    <3>3. /\ conn'[c] \in ConnSet /\ conn'[c].a = conn[c].a /\ conn'[c].connected = conn[c].connected
          /\ conn'[c].closed = closed
      BY <3>2 DEF ConnSet
    <3> QED  BY <3>1, <3>3, Zenon
  <2> QED  BY <1>2, <2>1, Zenon
<1>6. guest' \in [Addresses -> GuestSet] /\ \A a \in Addresses : guest'[a] = "new" => guest[a] = "new"
  BY <1>1, <1>2, PortsAssumption DEF Types, GuestSet
<1>7. dev' \in DevSet /\ ~Busy'
  BY <1>2, PacketFacts, DevFields DEF Busy
<1>8. toHost' \in Seq(Packets) /\ ~\E i \in 1..Len(toHost') : TRUE
  BY <1>2, NoPacket, Zenon
<1>9. Types'
  BY <1>1, <1>2, <1>3, <1>5, <1>6, <1>7, <1>8, Zenon DEF Types
<1>10. GuestKept'
  BY <1>1, <1>6, <1>8, Zenon DEF GuestKept
<1>11. Stays
  BY <1>2, <1>4, <1>5, Zenon DEF Stays
<1> QED  BY <1>2, <1>4, <1>5, <1>7, <1>9, <1>10, <1>11, Zenon DEF Quiet, DevStays

LEMMA ClearOutboxQuiet ==
    ASSUME BaseInv, ClearOutbox PROVE Quiet /\ ~Busy'
<1>1. Types /\ GuestKept
  BY Zenon DEF BaseInv
<1>2. /\ outbox' = <<>> /\ dev' = Idle
      /\ UNCHANGED <<registry, nextPort, listeners, conn, pc, toHost, guest, accepted, resets>>
  BY Zenon DEF ClearOutbox
<1>3. Types' /\ GuestKept'
  BY <1>1, <1>2, NoPacket, PacketFacts, Zenon DEF Types, GuestKept
<1>4. Stays
  BY <1>2, Zenon DEF Stays
<1>5. ~Busy'
  BY <1>2, PacketFacts DEF Busy
<1> QED  BY <1>3, <1>4, <1>5, Zenon DEF Quiet, DevStays
----------------------------------------------------------------------------
(* The guest *)

SocketsKept == guest' \in [Addresses -> GuestSet] /\ \A a \in Addresses : guest'[a] = "new" => guest[a] = "new"
SaysTrue ==
    /\ toHost' \in Seq(Packets)
    /\ \A i \in 1..Len(toHost') : /\ toHost'[i].op = "RESPONSE" => toHost'[i].a \in accepted'
                                  /\ toHost'[i].op = "REQUEST" => toHost'[i].a.local = Proxy

LEMMA GuestStepQuiet ==
    ASSUME BaseInv, HostStill, outbox' \in Seq(Packets), SocketsKept, SaysTrue,
           accepted \subseteq accepted', accepted' \subseteq Addresses
    PROVE  Quiet
<1>1. Types /\ GuestKept
  BY Zenon DEF BaseInv
<1>2. Types'
  BY <1>1, Zenon DEF Types, HostStill, SocketsKept, SaysTrue
<1>3. GuestKept'
  BY <1>1, Zenon DEF GuestKept, SocketsKept, SaysTrue
<1>4. Stays
  BY Zenon DEF HostStill, Stays
<1> QED  BY <1>2, <1>3, <1>4, Zenon DEF Quiet, DevStays, HostStill

LEMMA SocketFacts ==
    ASSUME BaseInv, NEW a \in Addresses, NEW state \in GuestSet, state # "new", Socket(a, state)
    PROVE  SocketsKept
<1>1. guest \in [Addresses -> GuestSet]
  BY Zenon DEF BaseInv, Types
<1> QED  BY <1>1 DEF Socket, SocketsKept

LEMMA ReplyFacts ==
    ASSUME BaseInv, NEW a \in Addresses, NEW op \in {"REQUEST", "RESPONSE", "SHUTDOWN", "RST"}, Reply(a, op),
           op = "RESPONSE" => a \in accepted', op = "REQUEST" => a.local = Proxy, accepted \subseteq accepted'
    PROVE  SaysTrue
<1>1. toHost \in Seq(Packets) /\ GuestKept
  BY Zenon DEF BaseInv, Types
<1>2. PICK m \in Packets : m.a = a /\ m.op = op /\ toHost' = Append(toHost, m)
  <2>1. Packet(a, op) \in Packets /\ Packet(a, op).a = a /\ Packet(a, op).op = op
    BY PacketFacts
  <2> QED  BY <2>1, Zenon DEF Reply
<1>3. /\ Append(toHost, m) \in Seq(Packets)
      /\ \A i \in 1..Len(Append(toHost, m)) : (i \in 1..Len(toHost) /\ Append(toHost, m)[i] = toHost[i]) \/ Append(toHost, m)[i] = m
  BY <1>1, Queue, Zenon
<1>4. /\ toHost' \in Seq(Packets)
      /\ \A i \in 1..Len(toHost') : (i \in 1..Len(toHost) /\ toHost'[i] = toHost[i]) \/ toHost'[i] = m
  BY <1>2, <1>3, Zenon
<1>5. \A i \in 1..Len(toHost) : /\ toHost[i].op = "RESPONSE" => toHost[i].a \in accepted'
                                /\ toHost[i].op = "REQUEST" => toHost[i].a.local = Proxy
  BY <1>1, Zenon DEF GuestKept
<1>6. (m.op = "RESPONSE" => m.a \in accepted') /\ (m.op = "REQUEST" => m.a.local = Proxy)
  BY <1>2, Zenon
<1> QED  BY <1>4, <1>5, <1>6, Zenon DEF SaysTrue

LEMMA StillFacts ==
    ASSUME BaseInv
    PROVE  /\ UNCHANGED guest => SocketsKept
           /\ UNCHANGED toHost /\ accepted \subseteq accepted' => SaysTrue
           /\ UNCHANGED outbox => outbox' \in Seq(Packets)
           /\ accepted \subseteq Addresses
  BY Zenon DEF BaseInv, Types, GuestKept, SocketsKept, SaysTrue

LEMMA States ==
    \A state \in {None, "requesting", "established", "closing", "shut"} : state \in GuestSet /\ state # "new"
  BY PortsAssumption DEF GuestSet

\* A step of one socket: it may change its state and send a packet.
LEMMA SocketStep ==
    ASSUME BaseInv, NEW a \in Addresses, HostStill, UNCHANGED <<outbox, accepted>>,
           NEW state \in {None, "requesting", "established", "closing", "shut"}, Socket(a, state),
           NEW op \in {"REQUEST", "SHUTDOWN", "RST"}, Reply(a, op) \/ UNCHANGED toHost, op = "REQUEST" => a.local = Proxy
    PROVE  Quiet
<1>1. state \in GuestSet /\ state # "new"
  BY States, Zenon
<1>2. SocketsKept
  BY <1>1, SocketFacts
<1>3. op \in {"REQUEST", "RESPONSE", "SHUTDOWN", "RST"} /\ op # "RESPONSE"
  OBVIOUS
<1>4. accepted \subseteq accepted' /\ accepted' \subseteq Addresses /\ outbox' \in Seq(Packets)
  BY StillFacts, Zenon
<1>5. CASE Reply(a, op)
  <2>1. SaysTrue
    BY <1>3, <1>4, <1>5, ReplyFacts, Zenon
  <2> QED  BY <1>2, <1>4, <2>1, GuestStepQuiet, Zenon
<1>6. CASE UNCHANGED toHost
  <2>1. SaysTrue
    BY <1>4, <1>6, StillFacts, Zenon
  <2> QED  BY <1>2, <1>4, <2>1, GuestStepQuiet, Zenon
<1> QED  BY <1>5, <1>6, Zenon

LEMMA GuestConnectQuiet ==
    ASSUME BaseInv, NEW a \in Addresses, GuestConnect(a) PROVE Quiet
<1>1. PICK state \in {None, "requesting", "established", "closing", "shut"} : state = "requesting"
  OBVIOUS
<1>2. PICK op \in {"REQUEST", "SHUTDOWN", "RST"} : op = "REQUEST"
  OBVIOUS
<1>3. Socket(a, state) /\ Reply(a, op) /\ HostStill /\ UNCHANGED <<outbox, accepted>> /\ guest[a] = "new"
  BY <1>1, <1>2, Zenon DEF GuestConnect
<1>4. a.local = Proxy
  BY <1>3, Zenon DEF BaseInv, GuestKept
<1> QED  BY <1>3, <1>4, SocketStep

LEMMA GuestGivesUpQuiet ==
    ASSUME BaseInv, NEW a \in Addresses, GuestGivesUp(a) PROVE Quiet
<1>1. PICK state \in {None, "requesting", "established", "closing", "shut"} : state = None
  OBVIOUS
<1>2. PICK op \in {"REQUEST", "SHUTDOWN", "RST"} : op = "RST"
  OBVIOUS
<1>3. Socket(a, state) /\ UNCHANGED toHost /\ HostStill /\ UNCHANGED <<outbox, accepted>>
  BY <1>1, <1>2, Zenon DEF GuestGivesUp
<1>4. op # "REQUEST"
  BY <1>2
<1> QED  BY <1>3, <1>4, SocketStep

LEMMA GuestCloseQuiet ==
    ASSUME BaseInv, NEW a \in Addresses, GuestClose(a) PROVE Quiet
<1>1. PICK state \in {None, "requesting", "established", "closing", "shut"} : state = "closing"
  OBVIOUS
<1>2. PICK op \in {"REQUEST", "SHUTDOWN", "RST"} : op = "SHUTDOWN"
  OBVIOUS
<1>3. Socket(a, state) /\ Reply(a, op) /\ HostStill /\ UNCHANGED <<outbox, accepted>>
  BY <1>1, <1>2, Zenon DEF GuestClose
<1>4. op # "REQUEST"
  BY <1>2
<1> QED  BY <1>3, <1>4, SocketStep

LEMMA GuestAnswersQuiet ==
    ASSUME BaseInv, NEW a \in Addresses, GuestAnswers(a) PROVE Quiet
<1>1. PICK state \in {None, "requesting", "established", "closing", "shut"} : state = None
  OBVIOUS
<1>2. PICK op \in {"REQUEST", "SHUTDOWN", "RST"} : op = "RST"
  OBVIOUS
<1>3. Socket(a, state) /\ Reply(a, op) /\ HostStill /\ UNCHANGED <<outbox, accepted>>
  BY <1>1, <1>2, Zenon DEF GuestAnswers
<1>4. op # "REQUEST"
  BY <1>2
<1> QED  BY <1>3, <1>4, SocketStep

LEMMA GuestCloseTimeoutQuiet ==
    ASSUME BaseInv, NEW a \in Addresses, GuestCloseTimeout(a) PROVE Quiet
<1>1. PICK state \in {None, "requesting", "established", "closing", "shut"} : state = None
  OBVIOUS
<1>2. PICK op \in {"REQUEST", "SHUTDOWN", "RST"} : op = "RST"
  OBVIOUS
<1>3. Socket(a, state) /\ Reply(a, op) /\ HostStill /\ UNCHANGED <<outbox, accepted>>
  BY <1>1, <1>2, Zenon DEF GuestCloseTimeout
<1>4. op # "REQUEST"
  BY <1>2
<1> QED  BY <1>3, <1>4, SocketStep

LEMMA GuestReceiveQuiet ==
    ASSUME BaseInv, GuestReceive PROVE Quiet
<1>0. outbox \in Seq(Packets) /\ outbox # <<>> /\ outbox' = Tail(outbox) /\ HostStill
  BY Zenon DEF GuestReceive, BaseInv, Types
<1>1. Head(outbox) \in Packets /\ outbox' \in Seq(Packets)
  BY <1>0, Dequeue, Zenon
<1>2. PICK a \in Addresses : a = Head(outbox).a
  BY <1>1, PacketFacts, Zenon
<1>3. /\ {None, "requesting", "established", "closing", "shut"} \subseteq GuestSet
      /\ \A state \in {None, "requesting", "established", "closing", "shut"} : state # "new"
  BY States, Zenon
<1>4. \/ Socket(a, "established") /\ Reply(a, "RESPONSE") /\ accepted' = accepted \union {a}
      \/ Reply(a, "RST") /\ UNCHANGED <<guest, accepted>>
      \/ (Socket(a, "established") \/ Socket(a, "shut") \/ Socket(a, None) \/ UNCHANGED guest) /\ UNCHANGED <<toHost, accepted>>
  BY <1>2, Zenon DEF GuestReceive
<1>5. accepted \subseteq Addresses
  BY StillFacts, Zenon
<1>6. \A state \in {None, "requesting", "established", "closing", "shut"} : Socket(a, state) => SocketsKept
  BY <1>3, SocketFacts
<1>7. CASE Socket(a, "established") /\ Reply(a, "RESPONSE") /\ accepted' = accepted \union {a}
  <2>1. SocketsKept
    BY <1>6, <1>7, Zenon
  <2>2. accepted \subseteq accepted' /\ accepted' \subseteq Addresses /\ a \in accepted'
    BY <1>5, <1>7, Zenon
  <2>3. PICK op \in {"REQUEST", "RESPONSE", "SHUTDOWN", "RST"} : op = "RESPONSE" /\ op # "REQUEST"
    OBVIOUS
  <2>4. Reply(a, op)
    BY <1>7, <2>3, Zenon
  <2>5. SaysTrue
    BY <2>2, <2>3, <2>4, ReplyFacts
  <2> QED  BY <1>0, <1>1, <2>1, <2>2, <2>5, GuestStepQuiet, Zenon
<1>8. CASE Reply(a, "RST") /\ UNCHANGED <<guest, accepted>>
  <2>1. SocketsKept /\ accepted \subseteq accepted' /\ accepted' \subseteq Addresses
    BY <1>5, <1>8, StillFacts, Zenon
  <2>2. PICK op \in {"REQUEST", "RESPONSE", "SHUTDOWN", "RST"} : op = "RST" /\ op # "REQUEST" /\ op # "RESPONSE"
    OBVIOUS
  <2>3. Reply(a, op)
    BY <1>8, <2>2, Zenon
  <2>4. SaysTrue
    BY <2>1, <2>2, <2>3, ReplyFacts
  <2> QED  BY <1>0, <1>1, <2>1, <2>4, GuestStepQuiet, Zenon
<1>9. CASE (Socket(a, "established") \/ Socket(a, "shut") \/ Socket(a, None) \/ UNCHANGED guest) /\ UNCHANGED <<toHost, accepted>>
  <2>1. SocketsKept
    BY <1>6, <1>9, StillFacts, Zenon
  <2>2. SaysTrue /\ accepted \subseteq accepted' /\ accepted' \subseteq Addresses
    BY <1>5, <1>9, StillFacts, Zenon
  <2> QED  BY <1>0, <1>1, <2>1, <2>2, GuestStepQuiet, Zenon
<1> QED  BY <1>4, <1>7, <1>8, <1>9, Zenon
----------------------------------------------------------------------------
(* connect returns only what the guest accepted *)

LEMMA BaseInit == Init => BaseInv
<1> SUFFICES ASSUME Init PROVE BaseInv
  OBVIOUS
<1>1. PICK sessions \in SUBSET Ports :
        /\ registry = [k \in {<<p>> : p \in sessions} |-> k[1]]
        /\ nextPort \in Ports /\ listeners = {}
        /\ conn = [c \in Conns |-> IF c \in sessions THEN Connection(Address(c, Agent), TRUE)
                                                     ELSE Connection(Nowhere, FALSE)]
        /\ pc = [c \in Conns |-> IF c \in sessions THEN "held" ELSE "idle"]
        /\ dev = Idle /\ outbox = <<>> /\ toHost = <<>> /\ resets = 0
        /\ accepted = {Address(p, Agent) : p \in sessions}
        /\ guest = [a \in Addresses |-> CASE a \in accepted -> "established"
                                          [] a.local = Proxy -> "new"
                                          [] OTHER -> None]
  BY Zenon DEF Init
<1>2. ASSUME NEW c \in sessions
      PROVE  /\ c \in Ports /\ c \in Conns /\ c \notin Callers /\ c \notin Guests
             /\ conn[c] \in ConnSet /\ conn[c].a = Address(c, Agent) /\ Own(c, conn[c].a) /\ pc[c] = "held" /\ pc[c] \in PcSet
             /\ <<c>> = Key(c, conn[c].a)
  <2>1. c \in Ports /\ c \in Conns /\ c \notin Callers /\ c \notin Guests
    BY <1>2, Kinds, Zenon
  <2>2. conn[c] = Connection(Address(c, Agent), TRUE) /\ pc[c] = "held"
    BY <1>1, <1>2, <2>1, Zenon
  <2>3. Address(c, Agent) \in Addresses
    BY <2>1, Parts, Zenon
  <2>4. conn[c] \in ConnSet /\ conn[c].a = Address(c, Agent) /\ pc[c] \in PcSet
    BY <2>2, <2>3 DEF ConnSet, Connection, PcSet
  <2>5. Own(c, conn[c].a)
    BY <2>1, <2>4, Zenon DEF Own
  <2>6. Key(c, conn[c].a) = Local(conn[c].a) /\ conn[c].a.local = c
    BY <2>1, <2>5, OwnFacts, Zenon
  <2>7. <<c>> = Key(c, conn[c].a)
    BY <2>6, Keys, Zenon
  <2> QED  BY <2>1, <2>2, <2>4, <2>5, <2>7, Zenon
<1>3. ASSUME NEW c \in Conns, c \notin sessions
      PROVE  conn[c] \in ConnSet /\ conn[c].a = Nowhere /\ ~conn[c].connected /\ pc[c] = "idle" /\ pc[c] \in PcSet
  <2>1. conn[c] = Connection(Nowhere, FALSE) /\ pc[c] = "idle"
    BY <1>1, <1>3, Zenon
  <2>2. conn[c] \in ConnSet /\ conn[c].a = Nowhere /\ conn[c].connected = FALSE /\ pc[c] \in PcSet
    BY <2>1 DEF ConnSet, Connection, PcSet
  <2> QED  BY <2>1, <2>2, Zenon
<1>4. DOMAIN registry = {<<p>> : p \in sessions} /\ \A p \in sessions : registry[<<p>>] = p
  BY <1>1
<1>5. KeysKept
  <2> SUFFICES ASSUME NEW k \in DOMAIN registry
               PROVE  /\ registry[k] \in Conns /\ pc[registry[k]] # "idle"
                      /\ Own(registry[k], conn[registry[k]].a) /\ k = Key(registry[k], conn[registry[k]].a)
    BY Zenon DEF KeysKept
  <2>1. PICK p \in sessions : k = <<p>>
    BY <1>4, Zenon
  <2>2. registry[k] = p
    BY <1>4, <2>1, Zenon
  <2>3. p \in Conns /\ Own(p, conn[p].a) /\ pc[p] = "held" /\ k = Key(p, conn[p].a)
    BY <1>2, <2>1, Zenon
  <2>4. pc[p] # "idle"
    BY <2>3
  <2> QED  BY <2>2, <2>3, <2>4, Zenon
<1>6. conn \in [Conns -> ConnSet] /\ pc \in [Conns -> PcSet]
  BY <1>1, <1>2, <1>3, Zenon
<1>7. /\ guest \in [Addresses -> GuestSet]
      /\ \A a \in Addresses : guest[a] = "new" => a.local = Proxy
  BY <1>1, PortsAssumption DEF GuestSet
<1>8. accepted \subseteq Addresses /\ resets \in 0..MaxResets
  <2>1. ASSUME NEW a \in accepted PROVE a \in Addresses
    <3>1. PICK p \in sessions : a = Address(p, Agent)
      BY <1>1, <2>1, Zenon
    <3>2. p \in Ports
      BY Zenon
    <3> QED  BY <3>1, <3>2, Parts, Zenon
  <2> QED  BY <1>1, <2>1, PortsAssumption
<1>9. outbox \in Seq(Packets) /\ toHost \in Seq(Packets) /\ ~\E i \in 1..Len(toHost) : TRUE
  BY <1>1, NoPacket, Zenon
<1>10. Types
  BY <1>1, <1>6, <1>7, <1>8, <1>9, PacketFacts, Zenon DEF Types
<1>11. Places /\ Addressed
  BY <1>2, <1>3, Kinds DEF Places, Addressed
<1>12. DevKept
  BY <1>1, PacketFacts DEF DevKept, Busy
<1>13. GuestKept
  BY <1>7, <1>9, Zenon DEF GuestKept
<1>14. CallsKept
  <2>1. ASSUME NEW c \in Callers PROVE c \in Conns /\ c \notin sessions
    BY <1>2, <2>1, Kinds, Zenon
  <2>2. ASSUME NEW c \in Callers PROVE ~conn[c].connected /\ pc[c] \notin {"open", "shutdown", "done"}
    BY <1>3, <2>1, <2>2
  <2> QED  BY <2>2, Zenon DEF CallsKept
<1> QED  BY <1>5, <1>10, <1>11, <1>12, <1>13, <1>14, Zenon DEF BaseInv

LEMMA BaseNext ==
    ASSUME BaseInv, [Next]_vars PROVE BaseInv'
<1>1. ASSUME NEW c \in Callers, Allocate(c) PROVE BaseInv'
  <2>1. CASE Quiet
    BY <2>1, QuietKeeps
  <2>2. ASSUME Types', GuestKept', NEW a, Opens(c, a) PROVE BaseInv'
    <3>1. Places' /\ Addressed' /\ KeysKept' /\ DevKept' /\ CallsKept'
      BY <2>2, OpensFacts DEF BaseInv
    <3> QED  BY <2>2, <3>1, Zenon DEF BaseInv
  <2> QED  BY <1>1, <2>1, <2>2, AllocateSteps
<1>2. CASE Listen
  BY <1>2, ListenQuiet, QuietKeeps
<1>3. ASSUME NEW c \in Conns, HostStep(c) \/ TimeOut(c) \/ Close(c) PROVE BaseInv'
  <2>1. Quiet
    BY <1>3, SendRequestQuiet, WakeQuiet, ForgetQuiet, AbandonQuiet, SendShutdownQuiet, TimeOutQuiet, CloseQuiet
       DEF HostStep
  <2> QED  BY <2>1, QuietKeeps
<1>4. CASE Take
  <2>1. Types' /\ GuestKept'
    BY <1>4, TakeSteps, Zenon
  <2>2. ASSUME Stays PROVE Places' /\ Addressed' /\ KeysKept' /\ CallsKept'
    BY <2>2, StaysFacts DEF BaseInv
  <2>3. CASE Stays /\ ~Busy'
    <3>1. DevKept'
      BY <2>3, DevStaysFacts DEF BaseInv, DevStays
    <3> QED  BY <2>1, <2>2, <2>3, <3>1, Zenon DEF BaseInv
  <2>4. CASE /\ Stays /\ UNCHANGED <<registry, conn, pc>>
             /\ dev'.c \in Conns /\ pc[dev'.c] # "idle" /\ Own(dev'.c, conn[dev'.c].a) /\ conn[dev'.c].a = dev'.packet.a
             /\ dev'.step = "RESPONSE" => dev'.packet.a \in accepted
    <3>1. accepted \subseteq accepted'
      BY <2>4, Zenon DEF Stays
    <3>2. DevKept'
      BY <2>4, <3>1, Zenon DEF DevKept
    <3> QED  BY <2>1, <2>2, <2>4, <3>2, Zenon DEF BaseInv
  <2>5. ASSUME NEW g \in Guests, NEW a, Opens(g, a) PROVE BaseInv'
    <3>1. Places' /\ Addressed' /\ KeysKept' /\ DevKept' /\ CallsKept'
      BY <2>5, OpensFacts DEF BaseInv
    <3> QED  BY <2>1, <3>1, Zenon DEF BaseInv
  <2> QED  BY <1>4, <2>3, <2>4, <2>5, TakeSteps, Zenon
<1>5. CASE Response \/ AnswerShutdown \/ CloseFromPeer \/ ForgetEnded \/ ClearOutbox \/ Reset
  <2>1. Quiet
    BY <1>5, ResponseQuiet, AnswerShutdownQuiet, CloseFromPeerFacts, ForgetEndedQuiet, ClearOutboxQuiet, ResetFacts, Zenon
  <2> QED  BY <2>1, QuietKeeps
<1>6. ASSUME NEW a \in Addresses,
             GuestConnect(a) \/ GuestGivesUp(a) \/ GuestClose(a) \/ GuestAnswers(a) \/ GuestCloseTimeout(a)
      PROVE  BaseInv'
  <2>1. Quiet
    BY <1>6, GuestConnectQuiet, GuestGivesUpQuiet, GuestCloseQuiet, GuestAnswersQuiet, GuestCloseTimeoutQuiet
  <2> QED  BY <2>1, QuietKeeps
<1>7. CASE GuestReceive
  BY <1>7, GuestReceiveQuiet, QuietKeeps
<1>8. CASE UNCHANGED vars
  <2>1. Types /\ GuestKept
    BY Zenon DEF BaseInv
  <2>2. Types' /\ GuestKept'
    BY <1>8, <2>1, Zenon DEF vars, Types, GuestKept
  <2>3. Stays /\ DevStays
    BY <1>8, Zenon DEF vars, Stays, DevStays
  <2> QED  BY <2>2, <2>3, QuietKeeps, Zenon DEF Quiet
<1> QED  BY <1>1, <1>2, <1>3, <1>4, <1>5, <1>6, <1>7, <1>8, Zenon DEF Next, DeviceStep

\* connect returns a stream only for a connection that the guest has accepted (Vsock::connect, handle),
\* for any number of callers, guests, ports and resets: a RESPONSE is handled for the connection of
\* its own address, whatever was forgotten, refused or reset meanwhile.
THEOREM ConnectTruthfulHolds == Spec => []ConnectTruthful
<1>1. BaseInv => ConnectTruthful
  BY Zenon DEF BaseInv, CallsKept, ConnectTruthful
<1>2. BaseInv /\ [Next]_vars => BaseInv'
  BY BaseNext
<1> QED  BY BaseInit, <1>1, <1>2, PTL DEF Spec
----------------------------------------------------------------------------
(* The guest's packets find every open connection *)

\* next_port does not come round to a port while the thread that had it is still at work on it.
PortsOnce == \A c, e \in Callers : c # e /\ conn[c].a = conn[e].a => conn[c].a = Nowhere

Live(c) == pc[c] \in {"held", "request", "wait", "open"} /\ ~conn[c].closed

Held == \A c \in Conns : Live(c) => Key(c, conn[c].a) \in DOMAIN registry /\ registry[Key(c, conn[c].a)] = c

\* While a session has its port no caller gets it.
SessionsKept ==
    \A s \in Ports : <<s>> \in DOMAIN registry /\ registry[<<s>>] = s =>
                         \A e \in Callers : conn[e].a # Address(s, Agent)

\* The main thread forgets a session only by its own packet.
DevHolds == Busy /\ dev.c \in Ports => <<dev.c>> \in DOMAIN registry /\ registry[<<dev.c>>] = dev.c
ForgetClosed == dev.step = "forget" => conn[dev.c].closed

ReachInv == Held /\ SessionsKept /\ DevHolds /\ ForgetClosed

LEMMA ReachFacts == BaseInv /\ ReachInv => Reachable
<1> SUFFICES ASSUME BaseInv, ReachInv, NEW c \in Conns, Live(c) PROVE Lookup(conn[c].a) = c
  BY BaseType, Zenon DEF Reachable, Live
<1>1. pc[c] \notin {"idle", "failed"}
  BY DEF Live
<1>2. Own(c, conn[c].a) /\ conn[c].a \in Addresses
  BY <1>1, PlaceOf, Zenon
<1>3. PICK a \in Addresses : a = conn[c].a
  BY <1>2, Zenon
<1>4. Key(c, a) \in DOMAIN registry /\ registry[Key(c, a)] = c
  BY <1>3, Zenon DEF ReachInv, Held
<1>5. CASE Pair(a) \in DOMAIN registry
  <2>1. Own(registry[Pair(a)], a) /\ Pair(a) = Key(registry[Pair(a)], a) /\ registry[Pair(a)] \in Conns
    BY <1>5, EntryFacts DEF BaseInv
  <2>2. Key(c, a) = Key(registry[Pair(a)], a)
    BY <1>2, <1>3, <2>1, OneKey
  <2>3. registry[Pair(a)] = c
    BY <1>4, <2>1, <2>2, Zenon
  <2> QED  BY <1>3, <1>5, <2>3, Zenon DEF Lookup
<1>6. CASE Pair(a) \notin DOMAIN registry
  <2>1. Key(c, a) = Local(a)
    BY <1>4, <1>6, Zenon DEF Key
  <2> QED  BY <1>3, <1>4, <1>6, <2>1, Zenon DEF Lookup
<1> QED  BY <1>5, <1>6, Zenon

\* What is taken out of the registry is over, and not the session the main thread is busy with.
Keeps ==
    \A c \in Conns : \A k \in DOMAIN registry :
        registry[k] = c /\ k \notin DOMAIN registry' => ~Live(c)' /\ ~(Busy' /\ dev'.c = c /\ c \in Ports)

LEMMA ReachQuiet ==
    ASSUME BaseInv, ReachInv, Stays, DevStays, Keeps
    PROVE  ReachInv'
<1>1. /\ \A k \in DOMAIN registry' : k \in DOMAIN registry /\ registry'[k] = registry[k]
      /\ \A c \in Conns : conn'[c].a = conn[c].a /\ (conn[c].closed => conn'[c].closed)
      /\ \A c \in Conns : pc'[c] = pc[c] \/ Edge(c)
  BY Zenon DEF Stays
<1>2. ASSUME NEW c \in Conns, Live(c)' PROVE Live(c)
  <2>1. pc'[c] \in {"held", "request", "wait", "open"} /\ ~conn'[c].closed
    BY <1>2, Zenon DEF Live
  <2>2. pc[c] \in {"held", "request", "wait", "open"}
    BY <1>1, <2>1 DEF Edge
  <2> QED  BY <1>1, <2>1, <2>2, Zenon DEF Live
<1>3. ASSUME NEW c \in Conns, Live(c)'
      PROVE  Key(c, conn'[c].a) \in DOMAIN registry' /\ registry'[Key(c, conn'[c].a)] = c
  <2>1. PICK k : k = Key(c, conn[c].a) /\ k = Key(c, conn'[c].a)
    BY <1>1, Zenon
  <2>2. k \in DOMAIN registry /\ registry[k] = c
    BY <1>2, <1>3, <2>1, Zenon DEF ReachInv, Held
  <2>3. k \in DOMAIN registry'
    BY <1>3, <2>2, Zenon DEF Keeps
  <2> QED  BY <1>1, <2>1, <2>2, <2>3, Zenon
<1>4. Held'
  BY <1>3, Zenon DEF Held
<1>5. SessionsKept'
  <2> SUFFICES ASSUME NEW s \in Ports, <<s>> \in DOMAIN registry', registry'[<<s>>] = s, NEW e \in Callers
               PROVE  conn'[e].a # Address(s, Agent)
    BY Zenon DEF SessionsKept
  <2>1. <<s>> \in DOMAIN registry /\ registry[<<s>>] = s
    BY <1>1, Zenon
  <2>2. conn'[e].a = conn[e].a
    BY <1>1, Kinds, Zenon
  <2> QED  BY <2>1, <2>2, Zenon DEF ReachInv, SessionsKept
<1>6. Busy' => Busy /\ dev'.c = dev.c
  BY Zenon DEF DevStays, Busy
<1>7. DevHolds'
  <2> SUFFICES ASSUME Busy', dev'.c \in Ports
               PROVE  <<dev'.c>> \in DOMAIN registry' /\ registry'[<<dev'.c>>] = dev'.c
    BY Zenon DEF DevHolds
  <2>1. PICK s \in Ports : s = dev'.c /\ s = dev.c
    BY <1>6, Zenon
  <2>2. <<s>> \in DOMAIN registry /\ registry[<<s>>] = s
    BY <1>6, <2>1, Zenon DEF ReachInv, DevHolds
  <2>3. <<s>> \in DOMAIN registry'
    BY <2>1, <2>2, Kinds, Zenon DEF Keeps
  <2> QED  BY <1>1, <2>1, <2>2, <2>3, Zenon
<1>8. ForgetClosed'
  <2> SUFFICES ASSUME dev'.step = "forget" PROVE conn'[dev'.c].closed
    BY Zenon DEF ForgetClosed
  <2>1. Busy'
    BY DEF Busy
  <2>2. dev.c \in Conns
    BY <1>6, <2>1, Zenon DEF BaseInv, DevKept
  <2>3. dev' = dev => conn[dev.c].closed
    BY Zenon DEF ReachInv, ForgetClosed
  <2> QED  BY <1>1, <2>1, <2>2, <2>3, Zenon DEF DevStays
<1> QED  BY <1>4, <1>5, <1>7, <1>8, Zenon DEF ReachInv

LEMMA ReachOpens ==
    ASSUME BaseInv, ReachInv, NEW c, NEW a, Opens(c, a)
    PROVE  ReachInv'
<1>1. /\ c \in Conns /\ Own(c, a) /\ Key(c, a) \notin DOMAIN registry
      /\ \A x \in Conns : x # c => conn'[x] = conn[x] /\ pc'[x] = pc[x]
      /\ conn'[c].a = a /\ c \in Callers \union Guests /\ dev' = dev
  BY Zenon DEF Opens
<1>2. /\ DOMAIN registry' = DOMAIN registry \union {Key(c, a)} /\ registry'[Key(c, a)] = c
      /\ \A x \in DOMAIN registry : x # Key(c, a) => registry'[x] = registry[x]
  BY InsertedFacts, Zenon DEF Opens
<1>3. Busy => dev.c # c
  BY OpensFacts DEF BaseInv
<1>4. c \notin Ports
  BY <1>1, Kinds, Zenon
<1>5. Held'
  <2> SUFFICES ASSUME NEW e \in Conns, Live(e)'
               PROVE  Key(e, conn'[e].a) \in DOMAIN registry' /\ registry'[Key(e, conn'[e].a)] = e
    BY Zenon DEF Held
  <2>1. CASE e = c
    BY <1>1, <1>2, <2>1, Zenon
  <2>2. CASE e # c
    <3>1. conn'[e] = conn[e] /\ Live(e)
      BY <1>1, <2>2, Zenon DEF Live
    <3>2. Key(e, conn[e].a) \in DOMAIN registry /\ registry[Key(e, conn[e].a)] = e
      BY <3>1, Zenon DEF ReachInv, Held
    <3> QED  BY <1>1, <1>2, <3>1, <3>2, Zenon
  <2> QED  BY <2>1, <2>2, Zenon
<1>6. SessionsKept'
  <2> SUFFICES ASSUME NEW s \in Ports, <<s>> \in DOMAIN registry', registry'[<<s>>] = s, NEW e \in Callers
               PROVE  conn'[e].a # Address(s, Agent)
    BY Zenon DEF SessionsKept
  <2>1. <<s>> # Key(c, a)
    BY <1>2, <1>4, Zenon
  <2>2. <<s>> \in DOMAIN registry /\ registry[<<s>>] = s
    BY <1>2, <2>1, Zenon
  <2>3. CASE e # c
    <3>1. conn'[e] = conn[e]
      BY <1>1, <2>3, Kinds, Zenon
    <3> QED  BY <2>2, <3>1, Zenon DEF ReachInv, SessionsKept
  <2>4. CASE e = c
    <3>1. Key(c, a) = Local(a)
      BY <1>1, <2>4, Kinds, OwnFacts, Zenon
    <3>2. Local(Address(s, Agent)) = <<s>>
      BY DEF Local, Address
    <3>3. a # Address(s, Agent)
      BY <2>1, <3>1, <3>2, Zenon
    <3> QED  BY <1>1, <2>4, <3>3, Zenon
  <2> QED  BY <2>3, <2>4, Zenon
<1>7. DevHolds'
  <2> SUFFICES ASSUME Busy, dev.c \in Ports
               PROVE  <<dev.c>> \in DOMAIN registry' /\ registry'[<<dev.c>>] = dev.c
    BY <1>1, Zenon DEF DevHolds, Busy
  <2>1. <<dev.c>> \in DOMAIN registry /\ registry[<<dev.c>>] = dev.c
    BY Zenon DEF ReachInv, DevHolds
  <2> QED  BY <1>1, <1>2, <2>1, Zenon
<1>8. ForgetClosed'
  <2> SUFFICES ASSUME dev.step = "forget" PROVE conn'[dev.c].closed
    BY <1>1, Zenon DEF ForgetClosed
  <2>1. Busy
    BY DEF Busy
  <2>2. dev.c \in Conns
    BY <2>1, Zenon DEF BaseInv, DevKept
  <2>3. conn'[dev.c] = conn[dev.c]
    BY <1>1, <1>3, <2>1, <2>2, Zenon
  <2> QED  BY <2>3, Zenon DEF ReachInv, ForgetClosed
<1> QED  BY <1>5, <1>6, <1>7, <1>8, Zenon DEF ReachInv

LEMMA SameKeeps ==
    ASSUME UNCHANGED registry PROVE Keeps
  BY Zenon DEF Keeps

\* Two connections of one address are one, or a caller's and a session's.
LEMMA SameAddress ==
    ASSUME BaseInv, PortsOnce, NEW c \in Conns, NEW e \in Conns, Own(c, conn[c].a), Own(e, conn[e].a), conn[c].a = conn[e].a
    PROVE  \/ c = e
           \/ c \in Callers /\ e \in Ports /\ conn[c].a = Address(e, Agent) /\ Key(c, conn[c].a) = <<e>>
           \/ c \in Ports /\ e \in Callers /\ conn[e].a = Address(c, Agent) /\ Key(e, conn[e].a) = <<c>>
<1>1. /\ (c \in Guests <=> e \in Guests) /\ (c \in Guests \/ (c \in Ports /\ e \in Ports) => c = e)
      /\ Key(c, conn[c].a) = Key(e, conn[e].a)
  BY OneKey
<1>2. conn[c].a # Nowhere
  BY OwnFacts, Zenon
<1>3. c \in Callers /\ e \in Callers => c = e
  BY <1>2, Zenon DEF PortsOnce
<1>4. ASSUME NEW x \in Ports, NEW b, Own(x, b) PROVE b = Address(x, Agent) /\ Key(x, b) = <<x>>
  <2>1. x \in Conns /\ x \notin Guests /\ x \notin Callers
    BY <1>4, Kinds, Zenon
  <2>2. b = Address(x, Agent)
    BY <1>4, <2>1, Zenon DEF Own
  <2>3. Key(x, b) = Local(b) /\ Local(b) = <<x>>
    BY <2>1, <2>2 DEF Key, Local, Address
  <2> QED  BY <2>2, <2>3, Zenon
<1>5. c \in Ports => conn[c].a = Address(c, Agent) /\ Key(c, conn[c].a) = <<c>>
  BY <1>4, Zenon
<1>6. e \in Ports => conn[e].a = Address(e, Agent) /\ Key(e, conn[e].a) = <<e>>
  BY <1>4, Zenon
<1>7. (c \in Ports \/ c \in Callers \/ c \in Guests) /\ (e \in Ports \/ e \in Callers \/ e \in Guests)
  BY Kinds, Zenon
<1>8. c \in Guests \/ e \in Guests => c = e
  BY <1>1
<1>9. c \in Callers /\ e \in Ports => conn[c].a = Address(e, Agent) /\ Key(c, conn[c].a) = <<e>>
  BY <1>1, <1>6, Zenon
<1>10. c \in Ports /\ e \in Callers => conn[e].a = Address(c, Agent) /\ Key(e, conn[e].a) = <<c>>
  BY <1>1, <1>5, Zenon
<1>11. c \in Ports /\ e \in Ports => c = e
  BY <1>1, Zenon
<1> QED  BY <1>3, <1>7, <1>8, <1>9, <1>10, <1>11, Zenon

LEMMA ForgetKeeps ==
    ASSUME BaseInv, ReachInv, PortsOnce, NEW c \in Conns, Forget(c) PROVE Keeps
<1>1. /\ pc[c] = "forget" /\ registry' = Removed({Local(conn[c].a)}) /\ Goto(c, "rst") /\ UNCHANGED <<conn, dev>>
  BY Zenon DEF Forget
<1>2. c \in Callers /\ Own(c, conn[c].a) /\ conn[c].a \in Addresses
  BY <1>1, PlaceOf
<1>3. c \notin Ports /\ Key(c, conn[c].a) = Local(conn[c].a)
  BY <1>2, Kinds, OwnFacts, Zenon
<1>4. ASSUME NEW e \in Conns, NEW k \in DOMAIN registry, registry[k] = e, k \notin DOMAIN registry'
      PROVE  e = c
  <2>1. k = Local(conn[c].a)
    <3>1. DOMAIN registry' = DOMAIN registry \ {Local(conn[c].a)}
      BY <1>1, RemovedFacts
    <3> QED  BY <1>4, <3>1, Zenon
  <2>2. Own(e, conn[e].a) /\ conn[e].a = conn[c].a
    BY <1>2, <1>4, <2>1, EntryFacts DEF BaseInv
  <2>3. c = e \/ (e \in Ports /\ conn[c].a = Address(e, Agent) /\ k = <<e>>)
    <3>1. \/ c = e
          \/ c \in Callers /\ e \in Ports /\ conn[c].a = Address(e, Agent) /\ Key(c, conn[c].a) = <<e>>
          \/ c \in Ports /\ e \in Callers /\ conn[e].a = Address(c, Agent) /\ Key(e, conn[e].a) = <<c>>
      BY <1>2, <2>2, SameAddress
    <3>2. Key(c, conn[c].a) = k
      BY <1>3, <2>1, Zenon
    <3> QED  BY <1>3, <3>1, <3>2, Zenon
  <2>4. ~(e \in Ports /\ conn[c].a = Address(e, Agent) /\ k = <<e>>)
    BY <1>2, <1>4, Zenon DEF ReachInv, SessionsKept
  <2> QED  BY <2>3, <2>4, Zenon
<1>5. ~Live(c)'
  <2>1. pc \in [Conns -> PcSet]
    BY Zenon DEF BaseInv, Types
  <2>2. pc'[c] = "rst"
    BY <1>1, <2>1 DEF Goto
  <2> QED  BY <2>2 DEF Live
<1> QED  BY <1>3, <1>4, <1>5, Zenon DEF Keeps

LEMMA ForgetEndedKeeps ==
    ASSUME BaseInv, ReachInv, PortsOnce, ForgetEnded PROVE Keeps
<1>1. /\ dev.step = "forget" /\ registry' = Removed(Ended(dev.packet.a)) /\ UNCHANGED <<conn, pc>>
  BY Zenon DEF ForgetEnded
<1>2. Busy
  BY <1>1 DEF Busy
<1>3. PICK c \in Conns : c = dev.c /\ Own(c, conn[c].a) /\ conn[c].a = dev.packet.a /\ conn[c].closed
  BY <1>1, <1>2, Zenon DEF BaseInv, DevKept, ReachInv, ForgetClosed
<1>4. conn[c].a \in Addresses
  BY <1>3, OwnFacts, Zenon
<1>5. ASSUME NEW e \in Conns, NEW k \in DOMAIN registry, registry[k] = e, k \notin DOMAIN registry'
      PROVE  e = c
  <2>1. k = Pair(conn[c].a) \/ k = Local(conn[c].a)
    <3>1. DOMAIN registry' = DOMAIN registry \ Ended(dev.packet.a)
      BY <1>1, RemovedFacts
    <3> QED  BY <1>3, <1>5, <3>1, Zenon DEF Ended
  <2>2. Own(e, conn[e].a) /\ conn[e].a = conn[c].a /\ k = Key(e, conn[e].a)
    BY <1>4, <1>5, <2>1, EntryFacts DEF BaseInv
  <2>3. \/ c = e
        \/ c \in Callers /\ e \in Ports /\ conn[c].a = Address(e, Agent) /\ Key(c, conn[c].a) = <<e>>
        \/ c \in Ports /\ e \in Callers /\ conn[e].a = Address(c, Agent) /\ Key(e, conn[e].a) = <<c>>
    BY <1>3, <2>2, SameAddress
  <2>4. Key(c, conn[c].a) = k
    BY <1>3, <2>2, OneKey
  <2>5. CASE c \in Callers /\ e \in Ports /\ conn[c].a = Address(e, Agent) /\ Key(c, conn[c].a) = <<e>>
    BY <1>5, <2>4, <2>5, Zenon DEF ReachInv, SessionsKept
  <2>6. CASE c \in Ports /\ e \in Callers /\ conn[e].a = Address(c, Agent) /\ Key(e, conn[e].a) = <<c>>
    BY <1>2, <1>3, <1>5, <2>2, <2>6, Zenon DEF ReachInv, DevHolds
  <2> QED  BY <2>3, <2>5, <2>6, Zenon
<1>6. ~Live(c)'
  BY <1>1, <1>3, Zenon DEF Live
<1>7. ~Busy'
  BY ForgetEndedQuiet, Zenon
<1> QED  BY <1>5, <1>6, <1>7, Zenon DEF Keeps

LEMMA ResetKeeps ==
    ASSUME BaseInv, Reset PROVE Keeps
<1>1. /\ ~Busy' /\ DOMAIN registry' = {}
      /\ \A c \in Conns : conn'[c].closed <=> conn[c].closed \/ ResetCloses(c)
  BY ResetFacts, Zenon
<1>2. ASSUME NEW c \in Conns, NEW k \in DOMAIN registry, registry[k] = c PROVE ~Live(c)'
  BY <1>1, <1>2, Zenon DEF ResetCloses, Live
<1> QED  BY <1>1, <1>2, Zenon DEF Keeps

LEMMA ReachInit == Init => ReachInv
<1> SUFFICES ASSUME Init PROVE ReachInv
  OBVIOUS
<1>1. PICK sessions \in SUBSET Ports :
        /\ registry = [k \in {<<p>> : p \in sessions} |-> k[1]]
        /\ conn = [c \in Conns |-> IF c \in sessions THEN Connection(Address(c, Agent), TRUE)
                                                     ELSE Connection(Nowhere, FALSE)]
        /\ pc = [c \in Conns |-> IF c \in sessions THEN "held" ELSE "idle"]
        /\ dev = Idle
  BY Zenon DEF Init
<1>2. DOMAIN registry = {<<p>> : p \in sessions} /\ \A p \in sessions : registry[<<p>>] = p
  BY <1>1
<1>3. ASSUME NEW c \in Conns, Live(c) PROVE Key(c, conn[c].a) \in DOMAIN registry /\ registry[Key(c, conn[c].a)] = c
  <2>1. c \in sessions
    BY <1>1, <1>3 DEF Live
  <2>2. c \in Ports /\ c \notin Guests
    BY <2>1, Kinds, Zenon
  <2>3. conn[c] = Connection(Address(c, Agent), TRUE)
    BY <1>1, <2>1, Zenon
  <2>4. Key(c, conn[c].a) = <<c>>
    BY <2>2, <2>3 DEF Key, Local, Address, Connection
  <2> QED  BY <1>2, <2>1, <2>4, Zenon
<1>4. ASSUME NEW s \in Ports, NEW e \in Callers PROVE conn[e].a # Address(s, Agent)
  <2>1. e \in Conns /\ e \notin sessions
    BY <1>4, Kinds, Zenon
  <2>2. conn[e] = Connection(Nowhere, FALSE)
    BY <1>1, <2>1, Zenon
  <2>3. conn[e].a = Nowhere
    BY <2>2 DEF Connection
  <2> QED  BY <1>4, <2>3, Parts, Zenon
<1>5. DevHolds /\ ForgetClosed
  BY <1>1, PacketFacts DEF DevHolds, ForgetClosed, Busy
<1> QED  BY <1>3, <1>4, <1>5, Zenon DEF ReachInv, Held, SessionsKept

LEMMA ReachNext ==
    ASSUME BaseInv, ReachInv, PortsOnce, [Next]_vars PROVE ReachInv'
<1>0. ASSUME Quiet, Keeps PROVE ReachInv'
  BY <1>0, ReachQuiet DEF Quiet
<1>1. ASSUME NEW c \in Callers, Allocate(c) PROVE ReachInv'
  <2>1. CASE \E a : Opens(c, a)
    BY <2>1, ReachOpens
  <2>2. CASE Quiet /\ ~\E a : Opens(c, a)
    <3>1. CASE Free = {}
      <4>1. UNCHANGED registry
        BY <1>1, <3>1, Zenon DEF Allocate
      <4> QED  BY <1>0, <2>2, <4>1, SameKeeps
    <3>2. CASE Free # {}
      <4>1. PICK k : registry' = Inserted(k, c)
        BY <1>1, <3>2, Zenon DEF Allocate
      <4>2. DOMAIN registry' = DOMAIN registry \union {k}
        BY <4>1, InsertedFacts
      <4>3. Keeps
        BY <4>2, Zenon DEF Keeps
      <4> QED  BY <1>0, <2>2, <4>3
    <3> QED  BY <3>1, <3>2, Zenon
  <2> QED  BY <1>1, <2>1, <2>2, AllocateSteps
<1>2. CASE Listen
  <2>1. UNCHANGED registry
    BY <1>2, Zenon DEF Listen
  <2> QED  BY <1>0, <1>2, <2>1, ListenQuiet, SameKeeps
<1>3. ASSUME NEW c \in Conns, HostStep(c) \/ TimeOut(c) \/ Close(c) PROVE ReachInv'
  <2>1. Quiet
    BY <1>3, SendRequestQuiet, WakeQuiet, ForgetQuiet, AbandonQuiet, SendShutdownQuiet, TimeOutQuiet, CloseQuiet
       DEF HostStep
  <2>2. CASE Forget(c)
    BY <1>0, <2>1, <2>2, ForgetKeeps
  <2>3. CASE ~Forget(c)
    <3>1. UNCHANGED registry
      BY <1>3, <2>3, Zenon DEF HostStep, SendRequest, Wake, Abandon, SendShutdown, TimeOut, Close
    <3> QED  BY <1>0, <2>1, <3>1, SameKeeps
  <2> QED  BY <2>2, <2>3, Zenon
<1>4. CASE Take
  <2>1. CASE Stays /\ ~Busy' /\ UNCHANGED <<registry, conn, pc>>
    BY <2>1, ReachQuiet, SameKeeps DEF DevStays
  <2>2. CASE /\ Stays /\ UNCHANGED <<registry, conn, pc>>
             /\ dev'.c \in Conns /\ Own(dev'.c, conn[dev'.c].a) /\ dev'.step # "forget"
             /\ Key(dev'.c, conn[dev'.c].a) \in DOMAIN registry /\ registry[Key(dev'.c, conn[dev'.c].a)] = dev'.c
    <3>1. Held' /\ SessionsKept'
      BY <2>2, Zenon DEF ReachInv, Held, SessionsKept, Live
    <3>2. ForgetClosed'
      BY <2>2, Zenon DEF ForgetClosed
    <3>3. dev'.c \in Ports => Key(dev'.c, conn[dev'.c].a) = <<dev'.c>>
      <4> SUFFICES ASSUME NEW c \in Ports, NEW a, Own(c, a), c \in Conns PROVE Key(c, a) = <<c>>
        BY <2>2, Zenon
      <4>1. c \notin Guests /\ c \notin Callers
        BY Kinds, Zenon
      <4>2. a = Address(c, Agent)
        BY <4>1, Zenon DEF Own
      <4> QED  BY <4>1, <4>2 DEF Key, Local, Address
    <3>4. DevHolds'
      BY <2>2, <3>3, Zenon DEF DevHolds
    <3> QED  BY <3>1, <3>2, <3>4, Zenon DEF ReachInv
  <2>3. ASSUME NEW g \in Guests, NEW a, Opens(g, a) PROVE ReachInv'
    BY <2>3, ReachOpens
  <2> QED  BY <1>4, <2>1, <2>2, <2>3, TakeSteps, Zenon
<1>5. CASE Response \/ AnswerShutdown \/ CloseFromPeer \/ ClearOutbox
  <2>1. Quiet
    BY <1>5, ResponseQuiet, AnswerShutdownQuiet, CloseFromPeerFacts, ClearOutboxQuiet, Zenon
  <2>2. UNCHANGED registry
    BY <1>5, Zenon DEF Response, AnswerShutdown, CloseFromPeer, ClearOutbox
  <2> QED  BY <1>0, <2>1, <2>2, SameKeeps
<1>6. CASE ForgetEnded
  BY <1>0, <1>6, ForgetEndedQuiet, ForgetEndedKeeps
<1>7. CASE Reset
  BY <1>0, <1>7, ResetFacts, ResetKeeps
<1>8. ASSUME NEW a \in Addresses,
             GuestConnect(a) \/ GuestGivesUp(a) \/ GuestClose(a) \/ GuestAnswers(a) \/ GuestCloseTimeout(a)
      PROVE  ReachInv'
  <2>1. Quiet
    BY <1>8, GuestConnectQuiet, GuestGivesUpQuiet, GuestCloseQuiet, GuestAnswersQuiet, GuestCloseTimeoutQuiet
  <2>2. UNCHANGED registry
    BY <1>8, Zenon DEF GuestConnect, GuestGivesUp, GuestClose, GuestAnswers, GuestCloseTimeout, HostStill
  <2> QED  BY <1>0, <2>1, <2>2, SameKeeps
<1>9. CASE GuestReceive
  <2>1. UNCHANGED registry
    BY <1>9, Zenon DEF GuestReceive, HostStill
  <2> QED  BY <1>0, <1>9, <2>1, GuestReceiveQuiet, SameKeeps
<1>10. CASE UNCHANGED vars
  <2>1. Stays /\ DevStays /\ UNCHANGED registry
    BY <1>10, Zenon DEF vars, Stays, DevStays
  <2> QED  BY <2>1, ReachQuiet, SameKeeps
<1> QED  BY <1>1, <1>2, <1>3, <1>4, <1>5, <1>6, <1>7, <1>8, <1>9, <1>10, Zenon DEF Next, DeviceStep

\* A connection that is open or being opened is found by the guest's packets (connect, handle, reset),
\* for any number of callers, guests and ports, as long as a port does not come round to a second caller
\* while the first is still at work on it: the main thread forgets an ended connection by its address in
\* a critical section of its own, and would then take away the new owner's entry.
THEOREM ReachableHolds == Spec /\ []PortsOnce => []Reachable
<1>1. BaseInv /\ ReachInv /\ PortsOnce /\ [Next]_vars => BaseInv' /\ ReachInv'
  BY BaseNext, ReachNext
<1>2. Init => BaseInv /\ ReachInv
  BY BaseInit, ReachInit
<1> QED  BY <1>1, <1>2, ReachFacts, PTL DEF Spec

\* With one caller at a time the ports are its own, and every open connection is found.
COROLLARY ReachableAlone ==
    ASSUME \A c, e \in Callers : c = e
    PROVE  Spec => []Reachable
<1>1. PortsOnce
  BY Zenon DEF PortsOnce
<1> QED  BY <1>1, ReachableHolds, PTL
============================================================================
