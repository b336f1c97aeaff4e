----------------------------- MODULE VsockStream ----------------------------
(***************************************************************************)
(* One established vsock connection: ConnectionState and VsockStream of    *)
(* engine/src/vsock.rs, the outbox the host's threads share, the device's  *)
(* notify and poll on the machine's main thread, and a guest driver        *)
(* (external: the Linux virtio-vsock transport) at the other end.          *)
(*                                                                         *)
(* Every lock section is one action.  Where the code drops the             *)
(* connection's lock before it pushes a packet to the outbox (read,        *)
(* write_all, close, CREDIT_REQUEST), the push is an action of its own.    *)
(* A condition variable wait is a pc of its own that only a notify_all, or *)
(* the deadline, ends.                                                     *)
(*                                                                         *)
(* A byte is its position in its direction's stream.  The u32 counters are *)
(* kept unwrapped and the wrap is applied where the code subtracts them:   *)
(* (a % m - b % m) % m = (a - b) % m.  The guest's buf_alloc is the same   *)
(* in every packet, so peer_buf_alloc is the constant GUEST_BUF_ALLOC.     *)
(***************************************************************************)
EXTENDS Integers, Sequences

CONSTANTS
    Readers, Writers,   \* the host threads that read from and write to this stream
    BUF_ALLOC,          \* the window the host grants the guest
    GUEST_BUF_ALLOC,    \* the window the guest grants the host
    MAX_PAYLOAD,        \* the most bytes of one OP_RW packet
    WRAP,               \* what the byte counters wrap at: 2^32
    RxBuffers,          \* receive buffers the guest's driver offers
    HostBytes,          \* bound: bytes the host's threads write
    GuestBytes,         \* bound: bytes the guest's program writes
    CreditRequests,     \* bound: CREDIT_REQUESTs of the guest
    Events              \* which of "deadline", "close", "shutdown", "rst", "reset" may happen

ASSUME WindowAssumption ==
    /\ BUF_ALLOC \in Nat /\ BUF_ALLOC >= 4
    /\ GUEST_BUF_ALLOC \in Nat \ {0}
    /\ MAX_PAYLOAD \in Nat \ {0}
    /\ WRAP \in Nat /\ WRAP > BUF_ALLOC /\ WRAP > GUEST_BUF_ALLOC

ASSUME BoundAssumption ==
    /\ RxBuffers \in Nat \ {0}
    /\ HostBytes \in Nat /\ GuestBytes \in Nat /\ CreditRequests \in Nat
    /\ Events \subseteq {"deadline", "close", "shutdown", "rst", "reset"}

VARIABLES
    incoming, closed, error,    \* ConnectionState
    bytes_read, credited, bytes_written, peer_fwd_cnt, deadline,
    registered,     \* the registry still finds the connection
    outbox,         \* Outbox.packets
    pc, left, hand, \* per host thread: where it is, what a write_all has left to
                    \*   send, and what it carries from the unlock to the push
    main,           \* what the main thread's handle() has still to do
    rx, tx,         \* the virtqueues, as packets the guest has not taken yet
                    \*   and packets the device has not taken yet
    guest,          \* the guest driver and its program
    hostGot, guestGot,  \* history: the bytes each side's user has been handed
    results,        \* history: how each thread's last read ended
    endedBy         \* history: what first ended the connection

connVars == <<incoming, closed, error, bytes_read, credited, bytes_written,
              peer_fwd_cnt, deadline, registered, endedBy>>
threadVars == <<pc, left, hand, results, hostGot>>
vars == <<connVars, outbox, threadVars, main, rx, tx, guest, guestGot>>

Threads == Readers \union Writers

Least(a, b) == IF a < b THEN a ELSE b

\* u32 wrapping_sub and saturating_sub.
WrappingSub(a, b) == (a - b) % WRAP
SaturatingSub(a, b) == IF a > b THEN a - b ELSE 0

Packet(op, bytes, fwd) == [op |-> op, bytes |-> bytes, fwd_cnt |-> fwd]
Positions(from, n) == [i \in 1..n |-> from + i]

\* Mutant: only the readers are woken.
WokenReaders(p) == [t \in Threads |-> IF p[t] = "wait_read" THEN "read" ELSE p[t]]

\* signal.notify_all(): every waiting thread goes back to the head of its loop.
Woken(p) == [t \in Threads |->
    CASE p[t] = "wait_read" -> "read"
      [] p[t] = "wait_write" -> "write"
      [] OTHER -> p[t]]

EndedBy(who) == endedBy' = IF endedBy = "nobody" THEN who ELSE endedBy

NoHand == [n |-> 0, fwd |-> 0]

Init ==
    /\ incoming = <<>> /\ closed = FALSE /\ error = FALSE
    /\ bytes_read = 0 /\ credited = 0 /\ bytes_written = 0 /\ peer_fwd_cnt = 0
    /\ deadline = "none"
    /\ registered = TRUE
    /\ outbox = <<>>
    /\ pc = [t \in Threads |-> "idle"]
    /\ left = [t \in Threads |-> 0]
    /\ hand = [t \in Threads |-> NoHand]
    /\ main = [step |-> "idle", fwd |-> 0]
    /\ rx = <<>> /\ tx = <<>>
    /\ guest = [open |-> TRUE, sent |-> 0, peer_fwd |-> 0, buffer |-> <<>>,
                consumed |-> 0, asked |-> 0]
    /\ hostGot = <<>> /\ guestGot = <<>>
    /\ results = [t \in Threads |-> "none"] /\ endedBy = "nobody"

\* Mutant: what has arrived is reported as read.
FwdCntArrived == bytes_read + Len(incoming)

\* The fwd_cnt of a packet: what the stream's user has been handed, never what has only arrived.
FwdCnt == bytes_read

-----------------------------------------------------------------------------
(* VsockStream::read *)

BeginRead(t) ==
    /\ t \in Readers /\ pc[t] = "idle"
    /\ pc' = [pc EXCEPT ![t] = "read"]
    /\ UNCHANGED <<connVars, outbox, left, hand, results, hostGot, main, rx, tx, guest, guestGot>>

\* A read tells the guest of its progress once this much was consumed since the last time.
CreditDue(read, told) == WrappingSub(read, told) >= BUF_ALLOC \div 4

\* What a read of `take` bytes leaves buffered.
Remaining(take) == SubSeq(incoming, take + 1, Len(incoming))

\* Something has arrived: take some of it, and decide under the lock whether to tell the guest.
ReadTake(t) ==
    /\ pc[t] = "read" /\ incoming # <<>>
    /\ \E take \in 1..Len(incoming) :
        LET read == bytes_read + take
            credit == CreditDue(read, credited)
        IN  /\ incoming' = Remaining(take)
            /\ hostGot' = hostGot \o SubSeq(incoming, 1, take)
            /\ bytes_read' = read
            /\ credited' = IF credit THEN read ELSE credited
            /\ pc' = [pc EXCEPT ![t] = IF credit THEN "credit" ELSE "idle"]
            /\ hand' = [hand EXCEPT ![t] = IF credit THEN [n |-> 0, fwd |-> read] ELSE NoHand]
    /\ results' = [results EXCEPT ![t] = "data"]
    /\ UNCHANGED <<closed, error, bytes_written, peer_fwd_cnt, deadline, registered, endedBy,
                   outbox, left, main, rx, tx, guest, guestGot>>

\* Mutant: the end is reported before what is buffered.
ReadEndEarly(t) ==
    /\ pc[t] = "read" /\ closed
    /\ results' = [results EXCEPT ![t] = IF error THEN "error" ELSE "eof"]
    /\ pc' = [pc EXCEPT ![t] = "idle"]
    /\ UNCHANGED <<connVars, outbox, left, hand, hostGot, main, rx, tx, guest, guestGot>>

\* Nothing is left and the peer is gone: end of file, or the reason it ended.
ReadEnd(t) ==
    /\ pc[t] = "read" /\ incoming = <<>> /\ closed
    /\ results' = [results EXCEPT ![t] = IF error THEN "error" ELSE "eof"]
    /\ pc' = [pc EXCEPT ![t] = "idle"]
    /\ UNCHANGED <<connVars, outbox, left, hand, hostGot, main, rx, tx, guest, guestGot>>

ReadTimeout(t) ==
    /\ pc[t] = "read" /\ incoming = <<>> /\ ~closed /\ deadline = "passed"
    /\ results' = [results EXCEPT ![t] = "timeout"]
    /\ pc' = [pc EXCEPT ![t] = "idle"]
    /\ UNCHANGED <<connVars, outbox, left, hand, hostGot, main, rx, tx, guest, guestGot>>

ReadWait(t) ==
    /\ pc[t] = "read" /\ incoming = <<>> /\ ~closed /\ deadline # "passed"
    /\ pc' = [pc EXCEPT ![t] = "wait_read"]
    /\ UNCHANGED <<connVars, outbox, left, hand, results, hostGot, main, rx, tx, guest, guestGot>>

\* After the unlock: the CREDIT_UPDATE, with the count that was current under the lock.
PushCredit(t) ==
    /\ pc[t] = "credit"
    /\ outbox' = Append(outbox, Packet("CREDIT_UPDATE", <<>>, hand[t].fwd))
    /\ pc' = [pc EXCEPT ![t] = "idle"]
    /\ hand' = [hand EXCEPT ![t] = NoHand]
    /\ UNCHANGED <<connVars, left, results, hostGot, main, rx, tx, guest, guestGot>>

\* set_deadline, by the thread that reads (agent.rs), and the moment passing.  Only a thread
\* that waits with a deadline is woken by it.
SetDeadline ==
    /\ "deadline" \in Events /\ deadline = "none"
    /\ \E t \in Readers : pc[t] = "idle"
    /\ \A t \in Readers : pc[t] # "wait_read"
    /\ deadline' = "ahead"
    /\ UNCHANGED <<incoming, closed, error, bytes_read, credited, bytes_written, peer_fwd_cnt,
                   registered, endedBy, outbox, threadVars, main, rx, tx, guest, guestGot>>

DeadlinePasses ==
    /\ deadline = "ahead"
    /\ deadline' = "passed"
    /\ pc' = [t \in Threads |-> IF pc[t] = "wait_read" THEN "read" ELSE pc[t]]
    /\ UNCHANGED <<incoming, closed, error, bytes_read, credited, bytes_written, peer_fwd_cnt,
                   registered, endedBy, outbox, left, hand, results, hostGot, main, rx, tx, guest, guestGot>>

-----------------------------------------------------------------------------
(* VsockStream::write_all *)

BeginWrite(t) ==
    /\ t \in Writers /\ pc[t] = "idle" /\ ~\E u \in Threads : left[u] > 0
    /\ \E n \in 1..(HostBytes - bytes_written) : left' = [left EXCEPT ![t] = n]
    /\ pc' = [pc EXCEPT ![t] = "write"]
    /\ UNCHANGED <<connVars, outbox, hand, results, hostGot, main, rx, tx, guest, guestGot>>

\* Mutant: the whole window, whatever is already in flight.
AvailableAll == GUEST_BUF_ALLOC

\* The credit the guest's last packet left us.
Available == SaturatingSub(GUEST_BUF_ALLOC, WrappingSub(bytes_written, peer_fwd_cnt))

\* How much the next packet carries.
Take(t) == Least(Least(Available, MAX_PAYLOAD), left[t])

\* Reserve the bytes under the lock, with the read count that goes out in the packet.
Reserve(t) ==
    /\ pc[t] = "write" /\ ~closed /\ Available > 0
    /\ bytes_written' = bytes_written + Take(t)
    /\ hand' = [hand EXCEPT ![t] = [n |-> Take(t), fwd |-> FwdCnt]]
    /\ pc' = [pc EXCEPT ![t] = "push"]
    /\ UNCHANGED <<incoming, closed, error, bytes_read, credited, peer_fwd_cnt, deadline, registered, endedBy,
                   outbox, left, results, hostGot, main, rx, tx, guest, guestGot>>

WriteWait(t) ==
    /\ pc[t] = "write" /\ ~closed /\ Available = 0
    /\ pc' = [pc EXCEPT ![t] = "wait_write"]
    /\ UNCHANGED <<connVars, outbox, left, hand, results, hostGot, main, rx, tx, guest, guestGot>>

WriteFails(t) ==
    /\ pc[t] = "write" /\ closed
    /\ pc' = [pc EXCEPT ![t] = "idle"]
    /\ left' = [left EXCEPT ![t] = 0]
    /\ UNCHANGED <<connVars, outbox, hand, results, hostGot, main, rx, tx, guest, guestGot>>

\* After the unlock: the OP_RW packet.
PushData(t) ==
    /\ pc[t] = "push"
    /\ LET n == hand[t].n
       IN  /\ outbox' = Append(outbox, Packet("RW", Positions(bytes_written - n, n), hand[t].fwd))
           /\ left' = [left EXCEPT ![t] = @ - n]
           /\ pc' = [pc EXCEPT ![t] = IF left[t] = n THEN "idle" ELSE "write"]
    /\ hand' = [hand EXCEPT ![t] = NoHand]
    /\ UNCHANGED <<connVars, results, hostGot, main, rx, tx, guest, guestGot>>

-----------------------------------------------------------------------------
(* VsockStream::close, also its Drop *)

Close(t) ==
    /\ "close" \in Events /\ pc[t] = "idle" /\ ~closed
    /\ closed' = TRUE /\ EndedBy("host")
    /\ pc' = [Woken(pc) EXCEPT ![t] = "shutdown"]
    /\ hand' = [hand EXCEPT ![t] = [n |-> 0, fwd |-> FwdCnt]]
    /\ UNCHANGED <<incoming, error, bytes_read, credited, bytes_written, peer_fwd_cnt, deadline,
                   registered, outbox, left, results, hostGot, main, rx, tx, guest, guestGot>>

PushShutdown(t) ==
    /\ pc[t] = "shutdown"
    /\ outbox' = Append(outbox, Packet("SHUTDOWN", <<>>, hand[t].fwd))
    /\ pc' = [pc EXCEPT ![t] = "idle"]
    /\ hand' = [hand EXCEPT ![t] = NoHand]
    /\ UNCHANGED <<connVars, left, results, hostGot, main, rx, tx, guest, guestGot>>

-----------------------------------------------------------------------------
(* The device on the machine's main thread: notify, poll and reset *)

\* handle(): update_credit, then what the operation asks.
Handle ==
    /\ main.step = "idle" /\ tx # <<>>
    /\ tx' = Tail(tx)
    /\ LET p == Head(tx)
           found == registered
       IN  /\ peer_fwd_cnt' = IF found THEN p.fwd_cnt ELSE peer_fwd_cnt
           /\ incoming' = IF found /\ p.op = "RW" THEN incoming \o p.bytes ELSE incoming
           /\ pc' = IF found THEN Woken(pc) ELSE pc
           /\ main' = CASE found /\ p.op = "CREDIT_REQUEST" -> [step |-> "answer", fwd |-> FwdCnt]
                        [] found /\ p.op \in {"SHUTDOWN", "RST"} -> [step |-> "end", fwd |-> 0]
                        [] OTHER -> main
           /\ outbox' = IF found /\ p.op = "SHUTDOWN"
                        THEN Append(outbox, Packet("RST", <<>>, 0)) ELSE outbox
    /\ UNCHANGED <<closed, error, bytes_read, credited, bytes_written, deadline, registered, endedBy,
                   left, hand, results, hostGot, rx, guest, guestGot>>

\* CREDIT_REQUEST: the answer goes out after the connection's lock is dropped.
AnswerCredit ==
    /\ main.step = "answer"
    /\ outbox' = Append(outbox, Packet("CREDIT_UPDATE", <<>>, main.fwd))
    /\ main' = [step |-> "idle", fwd |-> 0]
    /\ UNCHANGED <<connVars, threadVars, rx, tx, guest, guestGot>>

\* SHUTDOWN or RST: close_from_peer (orderly: it was connected), then forget.
EndFromPeer ==
    /\ main.step = "end"
    /\ closed' = TRUE /\ EndedBy("guest")
    /\ registered' = FALSE
    /\ pc' = Woken(pc)
    /\ main' = [step |-> "idle", fwd |-> 0]
    /\ UNCHANGED <<incoming, error, bytes_read, credited, bytes_written, peer_fwd_cnt, deadline,
                   outbox, left, hand, results, hostGot, rx, tx, guest, guestGot>>

\* Mutant: a copy is put back, and the packet has not been taken out.
RequeueCopy(p, q) == <<p, p>> \o q

\* Where a packet goes that found no receive buffer: back to the front.
Requeue(p, q) == <<p>> \o q

\* poll: the oldest packet goes into a receive buffer, if the guest offers one.
Poll ==
    /\ main.step = "idle" /\ outbox # <<>>
    /\ IF Len(rx) < RxBuffers
       THEN rx' = Append(rx, Head(outbox)) /\ outbox' = Tail(outbox)
       ELSE rx' = rx /\ outbox' = Requeue(Head(outbox), Tail(outbox))
    /\ UNCHANGED <<connVars, threadVars, main, tx, guest, guestGot>>

\* reset: every connection ends with an error, and nothing queued survives.  The driver that
\* resets the device drops its own end.
Reset ==
    /\ "reset" \in Events /\ registered /\ main.step = "idle"
    /\ closed' = TRUE /\ error' = TRUE /\ registered' = FALSE /\ EndedBy("reset")
    /\ pc' = Woken(pc)
    /\ outbox' = <<>> /\ rx' = <<>> /\ tx' = <<>>
    /\ guest' = [guest EXCEPT !.open = FALSE, !.buffer = <<>>]
    /\ UNCHANGED <<incoming, bytes_read, credited, bytes_written, peer_fwd_cnt, deadline,
                   left, hand, results, hostGot, main, guestGot>>

-----------------------------------------------------------------------------
(* The guest (external): the driver's receive path and the program's socket calls *)

GuestPacket(op, bytes) == Packet(op, bytes, guest.consumed)

\* The driver takes the next packet: every packet carries the host's read count.
GuestReceive ==
    /\ rx # <<>>
    /\ rx' = Tail(rx)
    /\ LET p == Head(rx)
       IN  IF ~guest.open THEN UNCHANGED <<guest, tx>>
           ELSE /\ guest' = [guest EXCEPT
                      !.peer_fwd = p.fwd_cnt,
                      !.buffer = @ \o p.bytes,
                      !.open = p.op \notin {"SHUTDOWN", "RST"}]
                /\ tx' = IF p.op = "SHUTDOWN" THEN Append(tx, GuestPacket("RST", <<>>)) ELSE tx
    /\ UNCHANGED <<connVars, outbox, threadVars, main, guestGot>>

\* The program reads everything there is; the driver then tells the host.
GuestConsume ==
    /\ guest.open /\ guest.buffer # <<>>
    /\ guest' = [guest EXCEPT !.consumed = @ + Len(guest.buffer), !.buffer = <<>>]
    /\ guestGot' = guestGot \o guest.buffer
    /\ tx' = Append(tx, Packet("CREDIT_UPDATE", <<>>, guest'.consumed))
    /\ UNCHANGED <<connVars, outbox, threadVars, main, rx>>

GuestCredit == SaturatingSub(BUF_ALLOC, WrappingSub(guest.sent, guest.peer_fwd))

GuestSend ==
    /\ guest.open
    /\ \E n \in 1..Least(GuestCredit, GuestBytes - guest.sent) :
        /\ guest' = [guest EXCEPT !.sent = @ + n]
        /\ tx' = Append(tx, GuestPacket("RW", Positions(guest.sent, n)))
    /\ UNCHANGED <<connVars, outbox, threadVars, main, rx, guestGot>>

GuestAsk ==
    /\ guest.open /\ guest.asked < CreditRequests
    /\ guest' = [guest EXCEPT !.asked = @ + 1]
    /\ tx' = Append(tx, GuestPacket("CREDIT_REQUEST", <<>>))
    /\ UNCHANGED <<connVars, outbox, threadVars, main, rx, guestGot>>

\* The program closes its socket (SHUTDOWN), or the kernel resets it (RST).
GuestEnd ==
    /\ guest.open
    /\ \E op \in {"SHUTDOWN", "RST"} :
        /\ (IF op = "RST" THEN "rst" ELSE "shutdown") \in Events
        /\ tx' = Append(tx, GuestPacket(op, <<>>))
    /\ guest' = [guest EXCEPT !.open = FALSE]
    /\ UNCHANGED <<connVars, outbox, threadVars, main, rx, guestGot>>

-----------------------------------------------------------------------------
Thread(t) ==
    \/ ReadTake(t) \/ ReadEnd(t) \/ ReadTimeout(t) \/ ReadWait(t) \/ PushCredit(t)
    \/ Reserve(t) \/ WriteWait(t) \/ WriteFails(t) \/ PushData(t) \/ PushShutdown(t)

Device == Handle \/ AnswerCredit \/ EndFromPeer \/ Poll

Guest == GuestReceive \/ GuestConsume

Next ==
    \/ \E t \in Threads : Thread(t) \/ BeginRead(t) \/ BeginWrite(t) \/ Close(t)
    \/ Device \/ Reset \/ SetDeadline \/ DeadlinePasses
    \/ Guest \/ GuestSend \/ GuestAsk \/ GuestEnd

Spec == Init /\ [][Next]_vars

\* Threads are scheduled, the main thread serves every kick and wake, and the guest's driver and
\* program keep taking what arrives.  Nothing says that anyone starts a call, closes or resets.
Fairness ==
    /\ \A t \in Threads : WF_vars(Thread(t))
    /\ WF_vars(Handle) /\ WF_vars(AnswerCredit) /\ WF_vars(EndFromPeer) /\ WF_vars(Poll)
    /\ WF_vars(GuestReceive) /\ WF_vars(GuestConsume)

FairSpec == Spec /\ Fairness

-----------------------------------------------------------------------------
(* Properties *)

Packets == [op : {"RW", "CREDIT_UPDATE", "CREDIT_REQUEST", "SHUTDOWN", "RST"},
            bytes : Seq(Nat), fwd_cnt : Nat]

Steps == {"idle", "read", "wait_read", "credit", "write", "wait_write", "push", "shutdown"}

Hands == [n : Nat, fwd : Nat]

ConnType ==
    /\ incoming \in Seq(Nat) /\ closed \in BOOLEAN /\ error \in BOOLEAN
    /\ bytes_read \in Nat /\ credited \in Nat /\ bytes_written \in Nat /\ peer_fwd_cnt \in Nat
    /\ deadline \in {"none", "ahead", "passed"}
    /\ registered \in BOOLEAN
    /\ endedBy \in {"nobody", "host", "guest", "reset"}

ThreadType ==
    /\ pc \in [Threads -> Steps]
    /\ left \in [Threads -> Nat]
    /\ hand \in [Threads -> Hands]
    /\ results \in [Threads -> {"none", "data", "eof", "error", "timeout"}]
    /\ hostGot \in Seq(Nat)

QueueType ==
    /\ outbox \in Seq(Packets) /\ rx \in Seq(Packets) /\ tx \in Seq(Packets)
    /\ main \in [step : {"idle", "answer", "end"}, fwd : Nat]

GuestType ==
    /\ guest \in [open : BOOLEAN, sent : Nat, peer_fwd : Nat, buffer : Seq(Nat),
                  consumed : Nat, asked : Nat]
    /\ guestGot \in Seq(Nat)

\* Every variable keeps its type; in particular no counter and no remaining length goes below 0.
TypeOK == ConnType /\ ThreadType /\ QueueType /\ GuestType

\* write_all never has more bytes outstanding (in the outbox, in a receive buffer or in the
\* guest's socket) than the window the guest granted, across counter wrap and stale credit.
GuestWindow == bytes_written - guest.consumed <= GUEST_BUF_ALLOC

\* What the guest may send before the host reads again always fits the window the host
\* advertised, so `incoming` never grows past BUF_ALLOC however the credit packets interleave.
HostWindow == guest.sent - bytes_read <= BUF_ALLOC

\* A read that reports the end of the stream (the guest closed it, nothing reset it) has handed
\* out every byte the guest sent before: closing never cuts off buffered data.
EofAfterAllData ==
    endedBy = "guest" /\ ~error /\ (\E t \in Threads : results[t] = "eof") => Len(hostGot) = guest.sent

\* Both directions implement the abstract stream.
HostToGuest == INSTANCE ByteStream WITH
    written <- Positions(0, bytes_written), received <- guestGot
GuestToHost == INSTANCE ByteStream WITH
    written <- Positions(0, guest.sent), received <- hostGot

\* The bytes either side writes reach the other in order, once, with none missing before them.
Streams == HostToGuest!Spec /\ GuestToHost!Spec

\* No call outlives the connection: close, close_from_peer and reset wake everyone who waits; and a
\* write_all ends, whatever window it has to wait for, while the guest's program reads.
CallsEnd ==
    \A t \in Threads : /\ (closed /\ pc[t] # "idle") ~> (pc[t] = "idle")
                       /\ (pc[t] = "write") ~> (pc[t] = "idle")
=============================================================================
