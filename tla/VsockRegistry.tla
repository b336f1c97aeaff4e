--------------------------- MODULE VsockRegistry ---------------------------
(***************************************************************************)
(* Opening, accepting, finding and ending vsock connections                *)
(* (engine/src/vsock.rs: Vsock, Registry, VsockStream::close).  The bytes   *)
(* a connection carries are VsockStream's subject and are left out here.    *)
(*                                                                         *)
(* Three parties interleave: host threads inside Vsock::connect and         *)
(* VsockStream::close, the machine's main thread inside the device, and the *)
(* guest's kernel (external).  A host step is one critical section of the   *)
(* code, so what happens between two locks of one function is visible.      *)
(*                                                                         *)
(* Sessions are connections opened so long ago that next_port has come      *)
(* round to their ports again; they stay open.  With one caller a port is   *)
(* handed out at most once in a behaviour: going through the 16384 ports    *)
(* takes far longer than any packet is under way.                           *)
(***************************************************************************)
EXTENDS Naturals, Sequences, FiniteSets, FiniteSetsExt, Functions

CONSTANTS Callers,      \* host threads that call connect once each
          Guests,       \* guest ports that connect to the host once each
          NPorts,       \* the local ports are 0 .. NPorts-1 (49152..65535)
          Agent,        \* the guest port that Callers connect to
          Proxy,        \* the host port that Guests connect to
          MaxResets,    \* bound: device resets
          None

ASSUME PortsAssumption ==
    /\ NPorts \in Nat \ {0} /\ Proxy \notin 0..(NPorts - 1) /\ Agent # 0
    /\ Guests \intersect Callers = {} /\ (Guests \union Callers) \intersect 0..(NPorts - 1) = {}
    /\ MaxResets \in Nat /\ None # "new"

VARIABLES
    registry,   \* Registry.connections: a partial function from keys to connections
    nextPort,   \* Registry.next_port
    listeners,  \* the keys of Registry.listeners
    conn,       \* conn[c]: the address, and ConnectionState.connected and closed
    pc,         \* pc[c]: where the host thread that uses c is
    dev,        \* what the main thread is doing in the device, and for whom
    outbox,     \* Outbox.packets and the guest's receive queue
    toHost,     \* the guest's transmit queue
    guest,      \* guest[a]: the guest's socket for address a
    accepted,   \* history: the addresses whose REQUEST the guest has accepted
    resets

vars == <<registry, nextPort, listeners, conn, pc, dev, outbox, toHost, guest, accepted, resets>>

Ports == 0..(NPorts - 1)
\* A session is named by its port.
Conns == Ports \union Callers \union Guests

Address(local, peer) == [local |-> local, peer |-> peer]
GuestAddress(g) == Address(Proxy, g)
Addresses == {Address(p, Agent) : p \in Ports} \union {GuestAddress(g) : g \in Guests}
Nowhere == Address(0, 0)

\* enum Key
Local(a) == <<a.local>>
Pair(a) == <<a.local, a.peer>>

Packets == [a : Addresses, op : {"REQUEST", "RESPONSE", "SHUTDOWN", "RST"}]
Packet(a, op) == [a |-> a, op |-> op]

Connection(a, connected) == [a |-> a, connected |-> connected, closed |-> FALSE]
Idle == [step |-> "idle", packet |-> Packet(Nowhere, "RST"), c |-> None]

Inserted(k, c) == [x \in DOMAIN registry \union {k} |-> IF x = k THEN c ELSE registry[x]]
Removed(keys) == Restrict(registry, DOMAIN registry \ keys)

Init ==
    \E sessions \in SUBSET Ports :
        /\ registry = [k \in {<<p>> : p \in sessions} |-> k[1]]
        /\ nextPort \in Ports /\ listeners = {}
        /\ conn = [c \in Conns |-> IF c \in sessions THEN Connection(Address(c, Agent), TRUE)
                                                     ELSE Connection(Nowhere, FALSE)]
        /\ pc = [c \in Conns |-> IF c \in sessions THEN "held" ELSE "idle"]
        /\ dev = Idle /\ outbox = <<>> /\ toHost = <<>> /\ resets = 0
        /\ accepted = {Address(p, Agent) : p \in sessions}
        /\ guest = [a \in Addresses |-> CASE a \in accepted -> "established"
                                          [] a.local = Proxy -> "new"
                                          [] OTHER -> None]

\* The registry's lock is free: reset holds it while it clears the outbox.
Unlocked == dev.step # "clear"
----------------------------------------------------------------------------
(* Host threads: Vsock::connect and VsockStream::close *)

Send(a, op) == outbox' = Append(outbox, Packet(a, op))
Goto(c, place) == pc' = [pc EXCEPT ![c] = place]

\* Mutant: takes the next port whether or not a connection has it.
InUseNever(p) == FALSE

InUse(p) == <<p>> \in DOMAIN registry

\* The ports in the order the loop tries them: `if port == 65535 { 49152 } else { port + 1 }`.
Tried(i) == (nextPort + i) % NPorts
Free == {i \in Ports : ~InUse(Tried(i))}

Allocate(c) ==
    /\ pc[c] = "idle" /\ Unlocked
    /\ IF Free = {}
         THEN Goto(c, "failed") /\ UNCHANGED <<registry, nextPort, conn>>
         ELSE LET a == Address(Tried(Min(Free)), Agent) IN
              /\ conn' = [conn EXCEPT ![c] = Connection(a, FALSE)]
              /\ registry' = Inserted(Local(a), c)
              /\ nextPort' = Tried(Min(Free) + 1)
              /\ Goto(c, "request")
    /\ UNCHANGED <<listeners, dev, outbox, toHost, guest, accepted, resets>>

SendRequest(c) ==
    /\ pc[c] = "request"
    /\ Send(conn[c].a, "REQUEST") /\ Goto(c, "wait")
    /\ UNCHANGED <<registry, nextPort, listeners, conn, dev, toHost, guest, accepted, resets>>

\* Mutant: a connection that ended while it was awaited is returned like any other.
ResultAny(c) == "open"

Result(c) == IF conn[c].connected THEN "open" ELSE "failed"

\* The loop ends, and the last test of connect.
Wake(c) ==
    /\ pc[c] = "wait" /\ (conn[c].connected \/ conn[c].closed)
    /\ Goto(c, Result(c))
    /\ UNCHANGED <<registry, nextPort, listeners, conn, dev, outbox, toHost, guest, accepted, resets>>

TimeOut(c) ==
    /\ pc[c] = "wait" /\ ~conn[c].connected /\ ~conn[c].closed
    /\ Goto(c, "forget")
    /\ UNCHANGED <<registry, nextPort, listeners, conn, dev, outbox, toHost, guest, accepted, resets>>

Forget(c) ==
    /\ pc[c] = "forget" /\ Unlocked
    /\ registry' = Removed({Local(conn[c].a)}) /\ Goto(c, "rst")
    /\ UNCHANGED <<nextPort, listeners, conn, dev, outbox, toHost, guest, accepted, resets>>

SendRst(a) == Send(a, "RST")

Abandon(c) ==
    /\ pc[c] = "rst"
    /\ SendRst(conn[c].a) /\ Goto(c, "failed")
    /\ UNCHANGED <<registry, nextPort, listeners, conn, dev, toHost, guest, accepted, resets>>

Close(c) ==
    /\ pc[c] = "open"
    /\ conn' = [conn EXCEPT ![c].closed = TRUE]
    /\ Goto(c, IF conn[c].closed THEN "done" ELSE "shutdown")
    /\ UNCHANGED <<registry, nextPort, listeners, dev, outbox, toHost, guest, accepted, resets>>

SendShutdown(c) ==
    /\ pc[c] = "shutdown"
    /\ Send(conn[c].a, "SHUTDOWN") /\ Goto(c, "done")
    /\ UNCHANGED <<registry, nextPort, listeners, conn, dev, toHost, guest, accepted, resets>>

\* Vsock::listen; a second listener of the port is turned away.
Listen ==
    /\ Unlocked /\ Proxy \notin listeners
    /\ listeners' = listeners \union {Proxy}
    /\ UNCHANGED <<registry, nextPort, conn, pc, dev, outbox, toHost, guest, accepted, resets>>
----------------------------------------------------------------------------
(* The main thread: Vsock::handle, accept and reset *)

\* Mutant: a refused guest is not told.
RefusalSilent(a) == outbox

Refusal(a) == Append(outbox, Packet(a, "RST"))

\* accept.  The guest of this address is the only one to use the key.
Accept(a) ==
    IF a.local \in listeners /\ Pair(a) \notin DOMAIN registry
      THEN /\ registry' = Inserted(Pair(a), a.peer)
           /\ conn' = [conn EXCEPT ![a.peer] = Connection(a, TRUE)]
           /\ Send(a, "RESPONSE") /\ Goto(a.peer, "open")
      ELSE outbox' = Refusal(a) /\ UNCHANGED <<registry, conn, pc>>

Lookup(a) ==
    CASE Pair(a) \in DOMAIN registry -> registry[Pair(a)]
      [] Pair(a) \notin DOMAIN registry /\ Local(a) \in DOMAIN registry -> registry[Local(a)]
      [] OTHER -> None

\* The start of handle: a REQUEST is accepted or refused, a packet of a connection found, another
\* one ignored.
Take ==
    /\ dev = Idle /\ toHost # <<>>
    /\ toHost' = Tail(toHost)
    /\ LET m == Head(toHost) IN
       IF m.op = "REQUEST"
         THEN Accept(m.a) /\ UNCHANGED dev
         ELSE /\ dev' = IF Lookup(m.a) = None THEN Idle
                        ELSE [step |-> m.op, packet |-> m, c |-> Lookup(m.a)]
              /\ UNCHANGED <<registry, conn, pc, outbox>>
    /\ UNCHANGED <<nextPort, listeners, guest, accepted, resets>>

Response ==
    /\ dev.step = "RESPONSE"
    /\ conn' = [conn EXCEPT ![dev.c].connected = TRUE]
    /\ dev' = Idle
    /\ UNCHANGED <<registry, nextPort, listeners, pc, outbox, toHost, guest, accepted, resets>>

AnswerShutdown ==
    /\ dev.step = "SHUTDOWN"
    /\ SendRst(conn[dev.c].a) /\ dev' = [dev EXCEPT !.step = "RST"]
    /\ UNCHANGED <<registry, nextPort, listeners, conn, pc, toHost, guest, accepted, resets>>

CloseFromPeer ==
    /\ dev.step = "RST"
    /\ conn' = [conn EXCEPT ![dev.c].closed = TRUE] /\ dev' = [dev EXCEPT !.step = "forget"]
    /\ UNCHANGED <<registry, nextPort, listeners, pc, outbox, toHost, guest, accepted, resets>>

\* Mutant: only a connection the guest opened is forgotten.
EndedPair(a) == {Pair(a)}

Ended(a) == {Pair(a), Local(a)}

ForgetEnded ==
    /\ dev.step = "forget"
    /\ registry' = Removed(Ended(dev.packet.a)) /\ dev' = Idle
    /\ UNCHANGED <<nextPort, listeners, conn, pc, outbox, toHost, guest, accepted, resets>>

\* The connections a reset closes.
ResetCloses(c) == \E k \in DOMAIN registry : registry[k] = c

\* Connected::reset and Vsock::reset up to the outbox; the guest's sockets and queues go too.
Reset ==
    /\ dev = Idle /\ resets < MaxResets
    /\ resets' = resets + 1
    /\ conn' = [c \in Conns |-> [conn[c] EXCEPT !.closed = @ \/ ResetCloses(c)]]
    /\ registry' = <<>> /\ toHost' = <<>>
    /\ guest' = [a \in Addresses |-> IF guest[a] = "new" THEN "new" ELSE None]
    /\ dev' = [Idle EXCEPT !.step = "clear"]
    /\ UNCHANGED <<nextPort, listeners, pc, outbox, accepted>>

ClearOutbox ==
    /\ dev.step = "clear"
    /\ outbox' = <<>> /\ dev' = Idle
    /\ UNCHANGED <<registry, nextPort, listeners, conn, pc, toHost, guest, accepted, resets>>
----------------------------------------------------------------------------
(* The guest's kernel (external) *)

Reply(a, op) == toHost' = Append(toHost, Packet(a, op))
Socket(a, state) == guest' = [guest EXCEPT ![a] = state]
HostStill == UNCHANGED <<registry, nextPort, listeners, conn, pc, dev, resets>>

GuestConnect(a) ==
    /\ guest[a] = "new" /\ Unlocked
    /\ Socket(a, "requesting") /\ Reply(a, "REQUEST")
    /\ HostStill /\ UNCHANGED <<outbox, accepted>>

GuestGivesUp(a) ==
    /\ guest[a] = "requesting" /\ Unlocked
    /\ Socket(a, None)
    /\ HostStill /\ UNCHANGED <<outbox, toHost, accepted>>

GuestClose(a) ==
    /\ guest[a] = "established" /\ Unlocked
    /\ \A s \in Ports : conn[s].closed \/ conn[s].a # a
    /\ Socket(a, "closing") /\ Reply(a, "SHUTDOWN")
    /\ HostStill /\ UNCHANGED <<outbox, accepted>>

\* Linux answers a SHUTDOWN once the program has read everything or closes its socket.
GuestAnswers(a) ==
    /\ guest[a] = "shut" /\ Unlocked
    /\ Socket(a, None) /\ Reply(a, "RST")
    /\ HostStill /\ UNCHANGED <<outbox, accepted>>

\* A close that nobody answers is over after VSOCK_CLOSE_TIMEOUT, eight seconds: no packet is under
\* way for so long.
GuestCloseTimeout(a) ==
    /\ guest[a] = "closing" /\ Unlocked
    /\ dev.packet.a # a
    /\ \A i \in DOMAIN outbox : outbox[i].a # a
    /\ \A i \in DOMAIN toHost : toHost[i].a # a
    /\ Socket(a, None) /\ Reply(a, "RST")
    /\ HostStill /\ UNCHANGED <<outbox, accepted>>

\* A REQUEST is accepted or refused; anything but a RST for a socket that is not there gets a RST.
GuestReceive ==
    /\ outbox # <<>> /\ Unlocked
    /\ outbox' = Tail(outbox)
    /\ LET m == Head(outbox)
           a == m.a IN
       \/ /\ m.op = "REQUEST" /\ guest[a] = None
          /\ Socket(a, "established") /\ Reply(a, "RESPONSE") /\ accepted' = accepted \union {a}
       \/ /\ m.op = "REQUEST" /\ guest[a] = None
          /\ Reply(a, "RST") /\ UNCHANGED <<guest, accepted>>
       \/ /\ m.op = "RESPONSE" /\ guest[a] = "requesting"
          /\ Socket(a, "established") /\ UNCHANGED <<toHost, accepted>>
       \/ /\ m.op = "SHUTDOWN" /\ guest[a] = "established"
          /\ Socket(a, "shut") /\ UNCHANGED <<toHost, accepted>>
       \/ /\ m.op = "SHUTDOWN" /\ guest[a] = "closing"
          /\ UNCHANGED <<guest, toHost, accepted>>
       \/ /\ m.op \in {"RESPONSE", "SHUTDOWN"} /\ guest[a] = None
          /\ Reply(a, "RST") /\ UNCHANGED <<guest, accepted>>
       \/ /\ m.op = "RST"
          /\ Socket(a, None) /\ UNCHANGED <<toHost, accepted>>
    /\ HostStill
----------------------------------------------------------------------------
HostStep(c) ==
    \/ SendRequest(c) \/ Wake(c) \/ Forget(c) \/ Abandon(c) \/ SendShutdown(c)
DeviceStep ==
    Take \/ Response \/ AnswerShutdown \/ CloseFromPeer \/ ForgetEnded \/ ClearOutbox

Next ==
    \/ \E c \in Callers : Allocate(c)
    \/ Listen
    \/ \E c \in Conns : HostStep(c) \/ TimeOut(c) \/ Close(c)
    \/ DeviceStep \/ Reset
    \/ \E a \in Addresses : 
           GuestConnect(a) \/ GuestGivesUp(a) \/ GuestClose(a) \/ GuestAnswers(a) \/ GuestCloseTimeout(a)
    \/ GuestReceive

Spec == Init /\ [][Next]_vars

\* Threads that are not waiting go on, the main thread handles what the guest sends, and the guest
\* takes its packets.  Nobody has to time out, connect or close.
FairSpec ==
    /\ Spec
    /\ \A c \in Conns : WF_vars(HostStep(c))
    /\ WF_vars(DeviceStep) /\ WF_vars(GuestReceive)
    /\ \A a \in Addresses : WF_vars(GuestAnswers(a)) /\ WF_vars(GuestCloseTimeout(a))
----------------------------------------------------------------------------
\* Every variable keeps its type: next_port stays in its range and the registry holds only the keys of
\* addresses that exist (Vsock::connect, Registry).
TypeOK ==
    /\ DOMAIN registry \subseteq {Local(a) : a \in Addresses} \union {Pair(a) : a \in Addresses}
    /\ \A k \in DOMAIN registry : registry[k] \in Conns
    /\ nextPort \in Ports /\ listeners \subseteq {Proxy}
    /\ conn \in [Conns -> [a : Addresses \union {Nowhere}, connected : BOOLEAN, closed : BOOLEAN]]
    /\ pc \in [Conns -> {"held", "idle", "request", "wait", "forget", "rst", "failed", "open",
                          "shutdown", "done"}]
    /\ dev \in [step : {"idle", "RESPONSE", "SHUTDOWN", "RST", "forget", "clear"},
                packet : Packets \union {Idle.packet}, c : Conns \union {None}]
    /\ outbox \in Seq(Packets) /\ toHost \in Seq(Packets)
    /\ guest \in [Addresses -> {None, "new", "requesting", "established", "closing", "shut"}]
    /\ accepted \subseteq Addresses /\ resets \in 0..MaxResets

\* A connection the host is opening or using and that has not ended is found by the guest's packets:
\* neither the ports of new connections, nor what other connections forget, nor a reset takes its
\* entry away and leaves it open (connect, handle, reset).
Reachable ==
    /\ TypeOK
    /\ \A c \in Conns :
        pc[c] \in {"held", "request", "wait", "open"} /\ ~conn[c].closed =>
            Lookup(conn[c].a) = c

\* connect returns a stream only for a connection that the guest has accepted, whatever RST, SHUTDOWN,
\* late RESPONSE or reset crosses it.
ConnectTruthful == \A c \in Callers : pc[c] \in {"open", "shutdown", "done"} => conn[c].a \in accepted

\* Every connection that has ended leaves the registry, so its port can be used again: a closed
\* connection waits for the guest's RST, one the guest ends is forgotten with it, and one that a
\* reset ends goes at once (handle, close, reset).
KeysForgotten ==
    \A c \in Conns : conn[c].closed ~> \A k \in DOMAIN registry : registry[k] # c

\* The guest's end of a connection does not outlive the host's: "Refuse now instead of leaving the
\* guest waiting", a guest program that connects is answered even when its own timeout never comes; a
\* connect that timed out is followed by a RST, a close by a SHUTDOWN, and neither is lost to what the
\* guest sends meanwhile, unless a device reset empties the outbox.
GuestEnds ==
    /\ \A g \in Guests : guest[GuestAddress(g)] = "requesting" ~> guest[GuestAddress(g)] # "requesting"
    /\ \A c \in Callers \union Guests :
        pc[c] \in {"failed", "done"} ~> resets > 0 \/ \A a \in Addresses : conn[c].a = a => guest[a] = None
============================================================================
