------------------------------ MODULE TcpProxy ------------------------------
(***************************************************************************)
(* The TCP side of engine/src/net.rs: a connection the guest opens is       *)
(* terminated in the stack and carried over a socket of the host.           *)
(*                                                                         *)
(* The model follows one key (guest port, address, port), which the guest   *)
(* may use again after a connection has ended.  The main thread receives    *)
(* the guest's segments; every SYN that passes has its own threads: one     *)
(* that asks the app, one that connects, a writer and a reader.  Each       *)
(* critical section is a step, and so is each frame that is queued for the  *)
(* guest after it.  A unit of data is one segment (MAX_SEGMENT).            *)
(* Sequence numbers wrap at Space as u32 does at 2^32.                      *)
(*                                                                         *)
(* The guest's TCP and the server behind the host's socket are external.    *)
(***************************************************************************)
EXTENDS Integers, Sequences, SequencesExt, FiniteSetsExt

CONSTANTS
    Space,          \* sequence numbers, 2^32
    Initials,       \* the initial sequence numbers of either side
    Buffer,         \* the guest's receive buffer
    Asks,           \* data the guest sends on a connection
    Replies,        \* data the server sends on a connection
    Gateway,        \* whether the address is the gateway's
    Connections,    \* bound: connections the guest opens with this key
    MaxIds,         \* bound: SYNs the stack takes up
    Links           \* what the policy says (decisions: subset of {"allow", "ask", "refuse"}), whether
                    \* the server may end its stream before the guest has (halfClose), and bounds: the
                    \* segments the guest's TCP sends again (resends), the connections it aborts (aborts)

ASSUME TcpAssumption ==
    /\ Space \in Nat /\ Initials \subseteq 0..(Space - 1) /\ Initials # {}
    /\ Buffer \in Nat \ {0} /\ Asks \in Nat /\ Replies \in Nat
    /\ \A l \in Links : /\ l.decisions \subseteq {"allow", "ask", "refuse"} /\ l.halfClose \in BOOLEAN
                       /\ (Gateway => "ask" \notin l.decisions) /\ l.resends \in Nat /\ l.aborts \in Nat
    /\ Gateway \in BOOLEAN /\ Connections \in Nat /\ MaxIds \in Nat
    /\ Asks + Replies + Buffer + 2 < Space

VARIABLES
    link,       \* one of Links, for the whole behaviour
    conn,       \* Stack.connections at the key
    nextId,     \* Stack.next_id
    main,       \* the main thread: what it flushes, or the frames it still has to queue
    task,       \* task[i]: the asking and connecting threads of the i-th SYN
    writer,     \* writer[i]: its writer thread and channel
    reader,     \* reader[i]: its reader thread
    sock,       \* sock[i]: its socket and the server behind it
    pending,    \* Stack.pending and the guest's receive queue
    tx,         \* the guest's transmit queue
    guest,      \* the guest's socket
    resent, aborted,
    stray       \* history: a segment of a connection the guest has open found no connection

vars == <<link, conn, nextId, main, task, writer, reader, sock, pending, tx, guest, resent, aborted, stray>>

Ids == 1..MaxIds

Plus(a, b) == (a + b) % Space
Minus(a, b) == (a - b) % Space

Segment(flags, seq, ack, win, data) ==
    [flags |-> flags, seq |-> seq, ack |-> ack, win |-> win, data |-> data]

\* The stack has no connection at the key.
Nobody == [id |-> 0, send_next |-> 0, send_unacked |-> 0, receive_next |-> 0, peer_window |-> 0,
           outgoing |-> <<>>, to_host |-> 0, socket |-> 0, established |-> FALSE,
           host_closed |-> FALSE, fin_sent |-> FALSE, guest_finished |-> FALSE]

MainIdle == [pc |-> "idle", acknowledge |-> FALSE, frames |-> <<>>]
TaskOff == [pc |-> "off", frame |-> Segment({}, 0, 0, 0, <<>>)]
ReaderOff == [pc |-> "off", data |-> <<>>, frames |-> <<>>, last |-> FALSE]
NoSocket == [up |-> FALSE, down |-> FALSE, wshut |-> FALSE, in |-> <<>>, sent |-> 0, fin |-> FALSE, out |-> <<>>]
Closed == [state |-> "closed", n |-> 0, iss |-> 0, nxt |-> 0, una |-> 0, rcv |-> 0, data |-> 0, fin |-> FALSE,
           got |-> <<>>, unread |-> 0, held |-> {}, eof |-> FALSE, active |-> FALSE]

Init ==
    /\ link \in Links /\ conn = Nobody /\ nextId = 0 /\ main = MainIdle
    /\ task = [i \in Ids |-> TaskOff] /\ writer = [i \in Ids |-> [on |-> FALSE, queue |-> <<>>]]
    /\ reader = [i \in Ids |-> ReaderOff] /\ sock = [i \in Ids |-> NoSocket]
    /\ pending = <<>> /\ tx = <<>> /\ guest = Closed
    /\ resent = 0 /\ aborted = 0 /\ stray = FALSE

Send(frame) == pending' = Append(pending, frame)
-----------------------------------------------------------------------------
(* flush *)

InFlight(c) == Minus(c.send_next, c.send_unacked)

\* Mutant: forgets what is under way.
SendableAll(c) == Min({c.peer_window, Len(c.outgoing)})

Sendable(c) == Min({Max({c.peer_window - InFlight(c), 0}), Len(c.outgoing)})

DataFrames(c) ==
    [k \in 1..Sendable(c) |->
        Segment({"ACK"}, Plus(c.send_next, k - 1), c.receive_next, 0, <<c.outgoing[k]>>)]

\* Mutant: what is sent stays in the queue.
DrainedNot(c) == [c EXCEPT !.send_next = Plus(@, Sendable(c))]

Drained(c) ==
    [c EXCEPT !.send_next = Plus(@, Sendable(c)),
              !.outgoing = SubSeq(@, Sendable(c) + 1, Len(@))]

FinDue(c) == c.host_closed /\ c.outgoing = <<>> /\ ~c.fin_sent

Flushed(c) ==
    IF ~c.established THEN c
    ELSE IF FinDue(Drained(c)) THEN [Drained(c) EXCEPT !.send_next = Plus(@, 1), !.fin_sent = TRUE]
    ELSE Drained(c)

Frames(c, acknowledge) ==
    LET d == Drained(c)
        end(flags) == Segment(flags, d.send_next, d.receive_next, 0, <<>>) IN
    IF ~c.established THEN <<>>
    ELSE DataFrames(c) \o
         (IF FinDue(d) THEN <<end({"ACK", "FIN"})>>
          ELSE IF acknowledge /\ DataFrames(c) = <<>> THEN <<end({"ACK"})>> ELSE <<>>)

\* Mutant: does not wait for the guest to take the FIN.
FinishedEarly(c) == c.established /\ c.fin_sent /\ c.guest_finished

Finished(c) == c.established /\ c.fin_sent /\ c.guest_finished /\ c.send_unacked = c.send_next

\* close_socket: the sender goes with the connection, the socket is shut both ways.
ShutSocket(c) == IF c.socket = 0 THEN sock ELSE [sock EXCEPT ![c.socket].down = TRUE]

Flush ==
    IF Finished(Flushed(conn))
      THEN conn' = Nobody /\ sock' = ShutSocket(conn)
      ELSE conn' = Flushed(conn) /\ UNCHANGED sock
-----------------------------------------------------------------------------
(* The main thread: receive_tcp and open *)

Has(s, flag) == flag \in s.flags

\* What refuse sends.
Refusal(s) == Segment({"RST", "ACK"}, 0, Plus(s.seq, 1), 0, <<>>)

\* open, with the answer of decide.
Open(s) ==
    /\ nextId < MaxIds
    /\ nextId' = nextId + 1
    /\ \E decision \in link.decisions :
        \/ /\ decision = "refuse"
           /\ Send(Refusal(s))
           /\ UNCHANGED <<conn, task>>
        \/ /\ decision # "refuse" /\ conn # Nobody   \* "a repeat of a SYN we are already working on"
           /\ UNCHANGED <<conn, task, pending>>
        \/ /\ decision # "refuse" /\ conn = Nobody
           /\ \E initial \in Initials :
                conn' = [Nobody EXCEPT !.id = nextId + 1, !.send_next = initial, !.send_unacked = initial,
                                       !.receive_next = Plus(s.seq, 1), !.peer_window = Max({s.win, 1})]
           /\ task' = [task EXCEPT ![nextId + 1] =
                            [pc |-> IF decision = "ask" THEN "asking" ELSE "connecting", frame |-> Refusal(s)]]
           /\ UNCHANGED pending
    /\ UNCHANGED <<main, writer, sock, stray>>

\* A segment of no connection.
Unknown(s) ==
    /\ IF ~Has(s, "RST") /\ Gateway
         THEN Send(Segment({"RST"}, s.ack, 0, 0, <<>>)) ELSE UNCHANGED pending
    /\ stray' = (stray \/ ~Has(s, "RST"))
    /\ UNCHANGED <<conn, nextId, main, task, writer, sock>>

ResetByGuest ==
    /\ conn' = Nobody /\ sock' = ShutSocket(conn)
    /\ UNCHANGED <<nextId, main, task, writer, pending, stray>>

Acked(c, s) ==
    IF Has(s, "ACK") /\ Minus(s.ack, c.send_unacked) \in 1..InFlight(c) THEN s.ack ELSE c.send_unacked

Continues(c, s) == s.data # <<>> /\ s.seq = c.receive_next

AfterSegment(s) == [pc |-> "flush", acknowledge |-> s.data # <<>> \/ Has(s, "FIN"), frames |-> <<>>]

\* The connection and its channel after a segment; the FIN may come with the data before it.
Receive(s) ==
    LET next == IF Continues(conn, s) THEN Plus(conn.receive_next, Len(s.data)) ELSE conn.receive_next
        fin == Has(s, "FIN") /\ Plus(s.seq, Len(s.data)) = next IN
    /\ conn' = [conn EXCEPT !.peer_window = s.win,
                            !.send_unacked = Acked(conn, s),
                            !.receive_next = IF fin THEN Plus(next, 1) ELSE next,
                            !.guest_finished = @ \/ fin,
                            !.to_host = IF fin THEN 0 ELSE @]
    /\ writer' = IF Continues(conn, s) /\ conn.to_host # 0
                   THEN [writer EXCEPT ![conn.to_host].queue = @ \o s.data] ELSE writer
    /\ main' = AfterSegment(s)
    /\ UNCHANGED <<nextId, task, sock, pending, stray>>

ReceiveTcp ==
    /\ main.pc = "idle" /\ tx # <<>>
    /\ tx' = Tail(tx)
    /\ LET s == Head(tx) IN
        CASE Has(s, "SYN") -> Open(s)
          [] ~Has(s, "SYN") /\ conn = Nobody -> Unknown(s)
          [] ~Has(s, "SYN") /\ conn # Nobody /\ Has(s, "RST") -> ResetByGuest
          [] OTHER -> Receive(s)
    /\ UNCHANGED <<link, reader, guest, resent, aborted>>

MainFlush ==
    /\ main.pc = "flush"
    /\ Flush
    /\ LET frames == Frames(conn, main.acknowledge) IN
        main' = IF frames = <<>> THEN MainIdle ELSE [main EXCEPT !.pc = "push", !.frames = frames]
    /\ UNCHANGED <<link, nextId, task, writer, reader, pending, tx, guest, resent, aborted, stray>>

MainPush ==
    /\ main.pc = "push"
    /\ Send(Head(main.frames))
    /\ main' = IF Len(main.frames) = 1 THEN MainIdle ELSE [main EXCEPT !.frames = Tail(@)]
    /\ UNCHANGED <<link, conn, nextId, task, writer, reader, sock, tx, guest, resent, aborted, stray>>
-----------------------------------------------------------------------------
(* The threads of a SYN *)

Rest == UNCHANGED <<link, nextId, main, tx, guest, resent, aborted, stray>>

\* The app's answer.  Its frame is the refusal of the SYN that asked.
Allowed(i) ==
    /\ task[i].pc = "asking"
    /\ task' = [task EXCEPT ![i].pc = "connecting"]
    /\ UNCHANGED <<conn, writer, reader, sock, pending>> /\ Rest

Denied(i) ==
    /\ task[i].pc = "asking"
    /\ conn' = Nobody
    /\ task' = [task EXCEPT ![i].pc = "push"]
    /\ UNCHANGED <<writer, reader, sock, pending>> /\ Rest

\* The socket is there.  The SYN-ACK is queued after the lock; it carries the sequence number before
\* it counts itself.
Connected(i) ==
    /\ task[i].pc = "connecting"
    /\ IF conn = Nobody
         THEN task' = [task EXCEPT ![i] = TaskOff] /\ UNCHANGED <<conn, sock>>
         ELSE /\ conn' = [conn EXCEPT !.socket = i, !.established = TRUE, !.to_host = i,
                                      !.send_next = Plus(@, 1), !.send_unacked = conn.send_next]
              /\ sock' = [sock EXCEPT ![i].up = TRUE]
              /\ task' = [task EXCEPT ![i] =
                    [pc |-> "start", frame |-> Segment({"SYN", "ACK"}, conn.send_next, conn.receive_next, 0, <<>>)]]
    /\ UNCHANGED <<writer, reader, pending>> /\ Rest

ConnectFails(i) ==
    /\ task[i].pc = "connecting"
    /\ conn' = Nobody
    /\ task' = [task EXCEPT ![i] =
            IF conn = Nobody THEN TaskOff
            ELSE [pc |-> "push", frame |-> Segment({"RST", "ACK"}, conn.send_next, conn.receive_next, 0, <<>>)]]
    /\ UNCHANGED <<writer, reader, sock, pending>> /\ Rest

TaskPush(i) ==
    /\ task[i].pc \in {"push", "start"}
    /\ Send(task[i].frame)
    /\ task' = [task EXCEPT ![i] = TaskOff]
    /\ IF task[i].pc = "start"
         THEN /\ writer' = [writer EXCEPT ![i].on = TRUE]
              /\ reader' = [reader EXCEPT ![i].pc = "read"]
         ELSE UNCHANGED <<writer, reader>>
    /\ UNCHANGED <<conn, sock>> /\ Rest

\* Mutant: the socket's sending side is shut when the guest has finished, whatever is still queued.
WriterDoneAtOnce(i) == conn.to_host # i

\* The channel has ended: its sender is gone and what it sent is taken.
WriterDone(i) == conn.to_host # i /\ writer[i].queue = <<>>

WriterWrites(i) ==
    /\ writer[i].on /\ writer[i].queue # <<>>
    /\ IF sock[i].down
         THEN /\ writer' = [writer EXCEPT ![i] = [on |-> FALSE, queue |-> <<>>]]
              /\ sock' = [sock EXCEPT ![i].wshut = TRUE]
         ELSE /\ writer' = [writer EXCEPT ![i].queue = Tail(@)]
              /\ sock' = [sock EXCEPT ![i].out = Append(@, Head(writer[i].queue))]
    /\ UNCHANGED <<conn, task, reader, pending>> /\ Rest

WriterEnds(i) ==
    /\ writer[i].on /\ WriterDone(i)
    /\ writer' = [writer EXCEPT ![i].on = FALSE]
    /\ sock' = [sock EXCEPT ![i].wshut = TRUE]
    /\ UNCHANGED <<conn, task, reader, pending>> /\ Rest

ReaderReads(i) ==
    /\ reader[i].pc = "read" /\ sock[i].in # <<>>
    /\ reader' = [reader EXCEPT ![i].pc = "got", ![i].data = sock[i].in]
    /\ sock' = [sock EXCEPT ![i].in = <<>>]
    /\ UNCHANGED <<conn, task, writer, pending>> /\ Rest

\* read returns 0 or an error.
ReaderEnds(i) ==
    /\ reader[i].pc = "read"
    /\ sock[i].down \/ (sock[i].fin /\ sock[i].in = <<>>)
    /\ reader' = [reader EXCEPT ![i].pc = "end"]
    /\ UNCHANGED <<conn, task, writer, sock, pending>> /\ Rest

ReaderHands(i) ==
    /\ reader[i].pc = "got"
    /\ IF conn = Nobody
         THEN reader' = [reader EXCEPT ![i].pc = "end", ![i].data = <<>>] /\ UNCHANGED conn
         ELSE /\ conn' = [conn EXCEPT !.outgoing = @ \o reader[i].data]
              /\ reader' = [reader EXCEPT ![i].pc = "flush", ![i].data = <<>>]
    /\ UNCHANGED <<task, writer, sock, pending>> /\ Rest

HostCloses(i) ==
    /\ reader[i].pc = "end"
    /\ conn' = IF conn = Nobody THEN Nobody ELSE [conn EXCEPT !.host_closed = TRUE]
    /\ reader' = [reader EXCEPT ![i].pc = "flush", ![i].last = TRUE]
    /\ UNCHANGED <<task, writer, sock, pending>> /\ Rest

After(r) == IF r.last THEN ReaderOff ELSE [r EXCEPT !.pc = "read", !.frames = <<>>]

ReaderFlush(i) ==
    /\ reader[i].pc = "flush"
    /\ Flush
    /\ LET frames == Frames(conn, FALSE) IN
        reader' = [reader EXCEPT ![i] =
            IF frames = <<>> THEN After(@) ELSE [@ EXCEPT !.pc = "push", !.frames = frames]]
    /\ UNCHANGED <<task, writer, pending>> /\ Rest

ReaderPush(i) ==
    /\ reader[i].pc = "push"
    /\ Send(Head(reader[i].frames))
    /\ reader' = [reader EXCEPT ![i] = IF Len(@.frames) = 1 THEN After(@) ELSE [@ EXCEPT !.frames = Tail(@)]]
    /\ UNCHANGED <<conn, task, writer, sock>> /\ Rest
-----------------------------------------------------------------------------
(* The server behind socket i *)

External == UNCHANGED <<link, conn, nextId, main, task, writer, reader, pending, stray>>

ServerSends(i) ==
    /\ sock[i].up /\ ~sock[i].down /\ ~sock[i].fin /\ sock[i].sent < Replies
    /\ sock' = [sock EXCEPT ![i].sent = @ + 1, ![i].in = Append(@, <<i, sock[i].sent + 1>>)]
    /\ External /\ UNCHANGED <<tx, guest, resent, aborted>>

ServerEnds(i) ==
    /\ sock[i].up /\ ~sock[i].fin /\ (link.halfClose \/ sock[i].wshut \/ sock[i].down)
    /\ sock' = [sock EXCEPT ![i].fin = TRUE]
    /\ External /\ UNCHANGED <<tx, guest, resent, aborted>>
-----------------------------------------------------------------------------
(* The guest's TCP.  Its segments reach the stack in order and none is lost. *)

Window(g) == Buffer - g.unread
Ack(g) == Segment({"ACK"}, g.nxt, g.rcv, Window(g), <<>>)
Reset(s) == Segment({"RST"}, s.ack, 0, 0, <<>>)
Sends(segments) == tx' = tx \o segments

GuestOpens ==
    /\ guest.state = "closed" /\ guest.n < Connections
    /\ \E iss \in Initials :
        /\ guest' = [Closed EXCEPT !.state = "syn", !.n = guest.n + 1, !.iss = iss, !.nxt = Plus(iss, 1), !.una = iss]
        /\ Sends(<<Segment({"SYN"}, iss, 0, Buffer, <<>>)>>)
    /\ External /\ UNCHANGED <<sock, resent, aborted>>

\* The units sent so far; the last may carry the FIN.
GuestSends ==
    /\ guest.state = "open" /\ ~guest.fin /\ guest.data < Asks
    /\ \E fin \in BOOLEAN :
        /\ guest' = [guest EXCEPT !.data = @ + 1, !.nxt = Plus(@, IF fin THEN 2 ELSE 1), !.fin = fin]
        /\ Sends(<<Segment(IF fin THEN {"ACK", "FIN"} ELSE {"ACK"}, guest.nxt, guest.rcv, Window(guest),
                            <<<<guest.n, guest.data + 1>>>>)>>)
    /\ External /\ UNCHANGED <<sock, resent, aborted>>

GuestFinishes ==
    /\ guest.state = "open" /\ ~guest.fin
    /\ guest' = [guest EXCEPT !.fin = TRUE, !.nxt = Plus(@, 1)]
    /\ Sends(<<[Ack(guest) EXCEPT !.flags = {"ACK", "FIN"}]>>)
    /\ External /\ UNCHANGED <<sock, resent, aborted>>

\* The first segment that is not acknowledged goes out again.
GuestResends ==
    /\ resent < link.resends /\ resent' = resent + 1
    /\ guest.state \in {"syn", "open"} /\ guest.una # guest.nxt
    /\ LET k == Minus(guest.una, guest.iss) IN
        Sends(<<IF guest.state = "syn" THEN Segment({"SYN"}, guest.iss, 0, Buffer, <<>>)
                ELSE IF k <= guest.data
                  THEN Segment({"ACK"}, guest.una, guest.rcv, Window(guest), <<<<guest.n, k>>>>)
                  ELSE Segment({"ACK", "FIN"}, guest.una, guest.rcv, Window(guest), <<>>)>>)
    /\ External /\ UNCHANGED <<sock, guest, aborted>>

GuestAborts ==
    /\ guest.state \in {"syn", "open"} /\ aborted < link.aborts
    /\ aborted' = aborted + 1
    /\ guest' = [Closed EXCEPT !.n = guest.n]
    /\ Sends(IF guest.state = "open" THEN <<Segment({"RST"}, guest.nxt, 0, 0, <<>>)>> ELSE <<>>)
    /\ External /\ UNCHANGED <<sock, resent>>

\* The program reads; a window that was closed is announced again.
GuestReads ==
    /\ guest.state = "open" /\ guest.unread > 0
    /\ guest' = [guest EXCEPT !.unread = 0]
    /\ Sends(IF Window(guest) = 0 /\ ~guest.eof THEN <<Ack(guest')>> ELSE <<>>)
    /\ External /\ UNCHANGED <<sock, resent, aborted>>

\* A segment of an open connection: what continues the stream is taken, with what was held behind
\* it; what lies further on is held; data that lies outside the window is dropped.
Taken(g, s) ==
    LET fits == Minus(s.seq, g.rcv) < Window(g) \/ (s.data = <<>> /\ Minus(s.seq, g.rcv) <= Window(g))
        held == g.held \union (IF fits /\ (s.data # <<>> \/ Has(s, "FIN")) THEN {s} ELSE {})
        at(k) == {h \in held : h.seq = Plus(g.rcv, k) /\ h.data # <<>>}
        count == Max({n \in 0..Window(g) : \A k \in 0..(n - 1) : at(k) # {}})
        next == Plus(g.rcv, count)
        eof == \E h \in held : Has(h, "FIN") /\ h.seq = next IN
    [g EXCEPT !.una = IF Minus(s.ack, @) <= Minus(g.nxt, @) THEN s.ack ELSE @,
              !.got = @ \o [k \in 1..count |-> (CHOOSE h \in at(k - 1) : TRUE).data[1]],
              !.unread = @ + count,
              !.rcv = IF eof THEN Plus(next, 1) ELSE next,
              !.held = {h \in held : Minus(h.seq, next) \in 0..Buffer /\ (h.data = <<>> \/ h.seq # next) /\ ~eof},
              !.eof = @ \/ eof,
              !.active = @ \/ (eof /\ g.fin)]

\* Both streams have ended.  The side that ended first lingers.
Settled(g) ==
    IF g.fin /\ g.una = g.nxt /\ g.eof
      THEN [g EXCEPT !.state = IF g.active THEN "timewait" ELSE "closed", !.una = 0, !.held = {}]
      ELSE g

GuestReceives ==
    /\ pending # <<>>
    /\ pending' = Tail(pending)
    /\ LET s == Head(pending) IN
        CASE guest.state = "closed" ->
                guest' = guest /\ Sends(IF Has(s, "RST") THEN <<>> ELSE <<Reset(s)>>)
          [] guest.state = "timewait" ->
                guest' = guest /\ Sends(<<>>)
          [] guest.state = "syn" /\ s.ack # guest.nxt ->
                guest' = guest /\ Sends(IF Has(s, "RST") THEN <<>> ELSE <<Reset(s)>>)
          [] guest.state = "syn" /\ s.ack = guest.nxt ->
                IF Has(s, "RST") THEN guest' = [Closed EXCEPT !.n = guest.n] /\ Sends(<<>>)
                ELSE IF Has(s, "SYN")
                  THEN /\ guest' = [guest EXCEPT !.state = "open", !.una = guest.nxt, !.rcv = Plus(s.seq, 1)]
                       /\ Sends(<<Ack(guest')>>)
                ELSE guest' = guest /\ Sends(<<>>)
          [] guest.state = "open" /\ (Has(s, "RST") \/ Has(s, "SYN")) ->
                IF Has(s, "RST") /\ s.seq = guest.rcv
                  THEN guest' = [Closed EXCEPT !.n = guest.n] /\ Sends(<<>>)
                  ELSE guest' = guest /\ Sends(<<Ack(guest)>>)
          [] OTHER ->
                /\ guest' = Settled(Taken(guest, s))
                /\ Sends(IF s.data # <<>> \/ Has(s, "FIN") THEN <<Ack(Taken(guest, s))>> ELSE <<>>)
    /\ UNCHANGED <<link, conn, nextId, main, task, writer, reader, sock, resent, aborted, stray>>

\* TIME_WAIT outlasts every segment and thread of the connection.
GuestForgets ==
    /\ guest.state = "timewait" /\ pending = <<>> /\ tx = <<>>
    /\ \A i \in Ids : reader[i] = ReaderOff /\ ~writer[i].on /\ task[i].pc = "off"
    /\ guest' = [guest EXCEPT !.state = "closed"]
    /\ External /\ UNCHANGED <<sock, tx, resent, aborted>>
-----------------------------------------------------------------------------
Thread(i) ==
    \/ Allowed(i) \/ Denied(i) \/ Connected(i) \/ ConnectFails(i) \/ TaskPush(i)
    \/ WriterWrites(i) \/ WriterEnds(i)
    \/ ReaderReads(i) \/ ReaderEnds(i) \/ ReaderHands(i) \/ HostCloses(i) \/ ReaderFlush(i) \/ ReaderPush(i)

Guest ==
    \/ GuestOpens \/ GuestSends \/ GuestFinishes \/ GuestResends \/ GuestAborts
    \/ GuestReads \/ GuestReceives \/ GuestForgets

Next ==
    \/ ReceiveTcp \/ MainFlush \/ MainPush
    \/ \E i \in Ids : Thread(i) \/ ServerSends(i) \/ ServerEnds(i)
    \/ Guest

Spec == Init /\ [][Next]_vars

\* What goes on by itself: the stack's threads, the guest's TCP and program taking what arrives, and
\* either side ending its stream.
Runs ==
    \/ ReceiveTcp \/ MainFlush \/ MainPush \/ GuestReceives \/ GuestReads \/ GuestFinishes
    \/ \E i \in Ids : Thread(i) \/ ServerEnds(i)

-----------------------------------------------------------------------------
\* What the server has sent on socket i, and what the guest sends on its n-th connection.
ServerData(i) == [k \in 1..sock[i].sent |-> <<i, k>>]
GuestData(n) == [k \in 1..Asks |-> <<n, k>>]

\* The state of the stack, its threads and the two outside parties has its type.
TypeOK ==
    /\ conn.id \in 0..MaxIds /\ conn.socket \in 0..MaxIds /\ conn.to_host \in 0..MaxIds
    /\ {conn.send_next, conn.send_unacked, conn.receive_next} \subseteq 0..(Space - 1)
    /\ conn.peer_window \in 0..Max({Buffer, 1})
    /\ conn.to_host # 0 => conn.established
    /\ nextId \in 0..MaxIds
    /\ main.pc \in {"idle", "flush", "push"} /\ (main.pc = "push" <=> main.frames # <<>>)
    /\ \A i \in Ids :
        /\ task[i].pc \in {"off", "asking", "connecting", "push", "start"}
        /\ reader[i].pc \in {"off", "read", "got", "end", "flush", "push"}
        /\ reader[i].pc = "push" <=> reader[i].frames # <<>>
        /\ sock[i].sent \in 0..Replies /\ Len(sock[i].in) <= sock[i].sent
    /\ guest.state \in {"closed", "syn", "open", "timewait"} /\ guest.n \in 0..Connections
    /\ guest.unread \in 0..Buffer /\ guest.data \in 0..Asks /\ Len(guest.got) <= Replies * MaxIds

\* What the guest reads on a connection is what one server sent, in order, with nothing missing or
\* repeated, whichever of the main thread and the reader flushes and in whatever order the frames are
\* queued after the lock is released (read_from_host, flush); it sees the end only after everything
\* the server sent before it ended (the FIN waits for outgoing to empty).  What reaches a server is what
\* the guest sent on one connection, each unit once, although the guest may send a segment again
\* (receive_tcp: only data that continues is taken).
SameStream ==
    /\ TypeOK
    /\ \E i \in Ids : IsPrefix(guest.got, ServerData(i))
    /\ guest.eof => \E i \in Ids : sock[i].fin /\ guest.got = ServerData(i)
    /\ \A i \in Ids : \E n \in 1..Max({Connections, 1}) : IsPrefix(sock[i].out \o writer[i].queue, GuestData(n))

\* No data is under way that the guest has no room for: the window is what the guest said last, less
\* what is sent and not acknowledged (sendable).  There is no retransmission to repair an overrun.
WindowRespected ==
    guest.state = "open" =>
        \A k \in DOMAIN pending :
            LET s == pending[k] IN
            s.data # <<>> /\ Minus(s.seq, guest.rcv) < Space \div 2 => Minus(s.seq, guest.rcv) < Window(guest)

\* The app allows the connection, the guest's segments all arrive and the server ends after it has.
Steady == link.decisions = {"allow"} /\ link.resends = 0 /\ ~link.halfClose

\* "The guest's own connections never get here: the stack forgets one only after it has told the
\* guest (a reset, or both FINs)" (receive_tcp): no segment but a reset finds no connection.
NeverStray == Steady => ~stray

\* A connection that was made and that the guest does not abort carries everything: when nothing is
\* left to run, the guest has read all the server sent and then its end, and the server all the guest
\* sent and then its end, although the stack never sends a frame again ("the stack needs no
\* retransmission of its own").  Aborted or not, the stack has then forgotten it and its threads are gone.
GetsAll ==
    Steady /\ ~ENABLED Runs =>
        /\ conn = Nobody /\ \A i \in Ids : reader[i] = ReaderOff /\ ~writer[i].on
        /\ \A i \in Ids : sock[i].up /\ aborted = 0 =>
            /\ guest.eof /\ sock[i].fin /\ guest.got = ServerData(i)
            /\ sock[i].wshut /\ sock[i].out = SubSeq(GuestData(guest.n), 1, guest.data)
=============================================================================
