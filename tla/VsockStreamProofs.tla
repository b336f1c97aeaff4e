------------------------- MODULE VsockStreamProofs --------------------------
(***************************************************************************)
(* Proofs about VsockStream, for every set of threads and every value of   *)
(* the windows, the payload limit and the counters' modulus: the types,    *)
(* the window the guest grants, that both directions implement the         *)
(* abstract byte stream, that an end of file comes after all data, and,    *)
(* while no count in use is a whole wrap old, the window the host grants.  *)
(*                                                                         *)
(* The guest's window is not inductive.  What write_all computes from      *)
(* peer_fwd_cnt is right only if that count is never ahead of the bytes    *)
(* written (or the wrapping subtraction wraps) and never behind by more    *)
(* than the window.  The first needs that the guest consumes only bytes    *)
(* that were sent, hence an account of all bytes under way (Links); the    *)
(* second that the counts the guest sent arrive in the order it sent them  *)
(* (FwdOrder).                                                             *)
(*                                                                         *)
(* The same account for the bytes under way to the host (UpLinks) says     *)
(* which bytes each packet holds, and that makes the stream's order and    *)
(* completeness inductive.                                                 *)
(***************************************************************************)
EXTENDS VsockStream, SequenceTheorems, TLAPS

-----------------------------------------------------------------------------
(* The types, with what write_all's loop keeps true of its locals *)

\* A thread that carries reserved bytes to the outbox reserved them for the write it is in.
WriterOK ==
    /\ \A t \in Threads : pc[t] \in {"write", "wait_write", "push"} => left[t] > 0
    /\ \A t \in Threads : pc[t] = "push" =>
          hand[t].n > 0 /\ hand[t].n <= left[t] /\ hand[t].n <= bytes_written
    /\ \A t, u \in Threads : left[t] > 0 /\ left[u] > 0 => t = u

\* wrapping_sub of two u32 counters is a u32.
LEMMA WrappingSubType ==
    ASSUME NEW a \in Int, NEW b \in Int
    PROVE  WrappingSub(a, b) \in 0..(WRAP - 1)
  BY WindowAssumption DEF WrappingSub

\* While the counters are less than a wrap apart, wrapping_sub is their distance.
LEMMA WrappingSubExact ==
    ASSUME NEW a \in Int, NEW b \in Int, 0 <= a - b, a - b < WRAP
    PROVE  WrappingSub(a, b) = a - b
  BY WindowAssumption DEF WrappingSub

\* What write_all finds available is a natural number, at most the guest's window.
LEMMA AvailableType ==
    ASSUME TypeOK
    PROVE  Available \in Nat /\ Available <= GUEST_BUF_ALLOC
  <1>0. bytes_written \in Int /\ peer_fwd_cnt \in Int
    BY DEF TypeOK, ConnType
  <1>1. WrappingSub(bytes_written, peer_fwd_cnt) \in 0..(WRAP - 1)
    BY <1>0, WrappingSubType
  <1>2. QED
    BY <1>1, WindowAssumption DEF Available, SaturatingSub

\* A packet takes at least one byte, no more than there is credit or data for.
LEMMA TakeType ==
    ASSUME TypeOK, NEW t \in Threads, Available > 0, left[t] > 0
    PROVE  Take(t) \in Nat /\ Take(t) > 0 /\ Take(t) <= Available /\ Take(t) <= left[t]
  <1>1. Available \in Nat /\ left[t] \in Nat /\ MAX_PAYLOAD \in Nat \ {0}
    BY AvailableType, WindowAssumption DEF TypeOK, ThreadType
  <1>2. QED
    BY <1>1 DEF Take, Least

\* notify_all moves waiting threads only, each to the head of its own loop.
LEMMA WokenType ==
    ASSUME TypeOK
    PROVE  /\ Woken(pc) \in [Threads -> Steps]
           /\ \A t \in Threads : Woken(pc)[t] \in {"write", "wait_write", "push"}
                                    => pc[t] \in {"write", "wait_write", "push"}
           /\ \A t \in Threads : Woken(pc)[t] = "push" <=> pc[t] = "push"
  BY DEF Woken, TypeOK, ThreadType, Steps

\* Positions are sequences of naturals of the length asked for.
LEMMA PositionsType ==
    ASSUME NEW from \in Nat, NEW n \in Nat
    PROVE  Positions(from, n) \in Seq(Nat) /\ Len(Positions(from, n)) = n
  BY DEF Positions


LEMMA PacketFields == \A p \in Packets : p.bytes \in Seq(Nat) /\ p.fwd_cnt \in Nat
  BY DEF Packets

LEMMA HandType ==
    /\ \A n, fwd \in Nat : [n |-> n, fwd |-> fwd] \in Hands
    /\ NoHand \in Hands
    /\ \A h \in Hands : h.n \in Nat /\ h.fwd \in Nat
  BY DEF Hands, NoHand

\* Init establishes the types.
LEMMA TypeInit == Init => TypeOK /\ WriterOK
  <1> SUFFICES ASSUME Init PROVE TypeOK /\ WriterOK
    OBVIOUS
  <1>0. <<>> \in Seq(Nat) /\ <<>> \in Seq(Packets)
    BY EmptySeq
  <1>1. ConnType
    <2>1. incoming \in Seq(Nat)
      BY <1>0 DEF Init
    <2>2. QED BY <2>1, Zenon DEF Init, ConnType
  <1>2. ThreadType
    BY <1>0, HandType DEF Init, ThreadType, Steps
  <1>3. QueueType
    BY DEF Init, QueueType
  <1>4. GuestType
    BY DEF Init, GuestType
  <1>5. WriterOK
    BY DEF Init, WriterOK
  <1>6. QED
    BY <1>1, <1>2, <1>3, <1>4, <1>5 DEF TypeOK

\* A group of variables that does not change keeps its types.
LEMMA Unchanged ==
    ASSUME TypeOK
    PROVE  /\ UNCHANGED connVars => ConnType'
           /\ UNCHANGED threadVars => ThreadType'
           /\ UNCHANGED <<outbox, rx, tx, main>> => QueueType'
           /\ UNCHANGED <<guest, guestGot>> => GuestType'
  BY Zenon DEF TypeOK, ConnType, ThreadType, QueueType, GuestType, connVars, threadVars

\* Each constructor of a packet yields a packet.
LEMMA PacketType ==
    ASSUME NEW op \in {"RW", "CREDIT_UPDATE", "CREDIT_REQUEST", "SHUTDOWN", "RST"},
           NEW bytes \in Seq(Nat), NEW fwd \in Nat
    PROVE  Packet(op, bytes, fwd) \in Packets
  BY DEF Packet, Packets

\* Every step of a host thread's read keeps the types.
LEMMA TypeRead ==
    ASSUME TypeOK, WriterOK, NEW t \in Threads,
           ReadTake(t) \/ ReadEnd(t) \/ ReadTimeout(t) \/ ReadWait(t) \/ PushCredit(t) \/ BeginRead(t)
    PROVE  TypeOK' /\ WriterOK'
  <1> USE Unchanged
  <1>1. CASE ReadTake(t)
    <2>1. PICK take \in 1..Len(incoming) :
            /\ incoming' = Remaining(take)
            /\ hostGot' = hostGot \o SubSeq(incoming, 1, take)
            /\ bytes_read' = bytes_read + take
            /\ credited' \in {bytes_read + take, credited}
            /\ \E p \in {"credit", "idle"} : pc' = [pc EXCEPT ![t] = p]
            /\ \/ hand' = [hand EXCEPT ![t] = [n |-> 0, fwd |-> bytes_read + take]]
               \/ hand' = [hand EXCEPT ![t] = NoHand]
      BY <1>1, Zenon DEF ReadTake
    <2>2. incoming' \in Seq(Nat) /\ hostGot' \in Seq(Nat)
      <3>1. incoming \in Seq(Nat) /\ hostGot \in Seq(Nat)
        BY DEF TypeOK, ConnType, ThreadType
      <3>2. \A i \in 1..Len(incoming) : incoming[i] \in Nat
        BY <3>1
      <3>3. SubSeq(incoming, take + 1, Len(incoming)) \in Seq(Nat) /\ SubSeq(incoming, 1, take) \in Seq(Nat)
        BY <3>1, <3>2, SubSeqProperties
      <3>4. QED BY <2>1, <3>1, <3>3, ConcatProperties, Zenon DEF Remaining
    <2>3. ConnType'
      BY <1>1, <2>1, <2>2, SMTT(30) DEF ReadTake, TypeOK, ConnType
    <2>4. ThreadType'
      <3>1. pc' \in [Threads -> Steps]
        BY <2>1 DEF TypeOK, ThreadType, Steps
      <3>2. hand' \in [Threads -> Hands]
        <4>1. bytes_read + take \in Nat
          BY DEF TypeOK, ConnType
        <4>2. [n |-> 0, fwd |-> bytes_read + take] \in Hands /\ NoHand \in Hands
          BY <4>1, HandType
        <4>3. QED BY <2>1, <4>2, Zenon DEF TypeOK, ThreadType
      <3>3. QED BY <1>1, <2>2, <3>1, <3>2, Zenon DEF ReadTake, TypeOK, ThreadType
    <2>5. QueueType' /\ GuestType'
      BY <1>1 DEF ReadTake
    <2>6. WriterOK'
      BY <1>1, <2>1, SMTT(30) DEF ReadTake, TypeOK, ThreadType, WriterOK
    <2>7. QED BY <2>3, <2>4, <2>5, <2>6 DEF TypeOK
  <1>2. CASE ReadEnd(t) \/ ReadTimeout(t) \/ ReadWait(t) \/ BeginRead(t)
    <2>1. ConnType' /\ QueueType' /\ GuestType'
      BY <1>2, Zenon DEF ReadEnd, ReadTimeout, ReadWait, BeginRead
    <2>2. ThreadType'
      BY <1>2, Zenon DEF ReadEnd, ReadTimeout, ReadWait, BeginRead, TypeOK, ThreadType, Steps
    <2>3. WriterOK'
      BY <1>2 DEF ReadEnd, ReadTimeout, ReadWait, BeginRead, TypeOK, ThreadType, WriterOK, connVars
    <2>4. QED BY <2>1, <2>2, <2>3 DEF TypeOK
  <1>3. CASE PushCredit(t)
    <2>1. ConnType' /\ GuestType'
      BY <1>3 DEF PushCredit
    <2>2. Packet("CREDIT_UPDATE", <<>>, hand[t].fwd) \in Packets
      <3>1. hand[t].fwd \in Nat
        BY HandType DEF TypeOK, ThreadType
      <3>2. QED BY <3>1, EmptySeq, PacketType, Zenon
    <2>3. QueueType'
      BY <1>3, <2>2 DEF PushCredit, TypeOK, QueueType
    <2>4. ThreadType' /\ WriterOK'
      BY <1>3, HandType DEF PushCredit, TypeOK, ThreadType, Steps, WriterOK, connVars
    <2>5. QED BY <2>1, <2>3, <2>4 DEF TypeOK
  <1>4. QED BY <1>1, <1>2, <1>3

\* Every step of a host thread's write_all keeps the types.
LEMMA TypeWrite ==
    ASSUME TypeOK, WriterOK, NEW t \in Threads,
           BeginWrite(t) \/ Reserve(t) \/ WriteWait(t) \/ WriteFails(t) \/ PushData(t)
    PROVE  TypeOK' /\ WriterOK'
  <1> USE Unchanged
  <1>1. CASE BeginWrite(t)
    <2>1. PICK n \in 1..(HostBytes - bytes_written) : left' = [left EXCEPT ![t] = n]
      BY <1>1, Zenon DEF BeginWrite
    <2>2. n \in Nat /\ n > 0
      BY BoundAssumption DEF TypeOK, ConnType
    <2>3. ThreadType' /\ WriterOK'
      BY <1>1, <2>1, <2>2 DEF BeginWrite, TypeOK, ThreadType, Steps, WriterOK, connVars
    <2>4. QED BY <1>1, <2>3 DEF BeginWrite, TypeOK
  <1>2. CASE Reserve(t)
    <2>1. left[t] > 0 /\ Available > 0
      BY <1>2 DEF Reserve, WriterOK
    <2>2. Take(t) \in Nat /\ Take(t) > 0 /\ Take(t) <= left[t]
      BY <2>1, TakeType, Zenon
    <2>3. /\ bytes_written' = bytes_written + Take(t)
          /\ hand' = [hand EXCEPT ![t] = [n |-> Take(t), fwd |-> FwdCnt]]
          /\ pc' = [pc EXCEPT ![t] = "push"]
          /\ left' = left
      BY <1>2 DEF Reserve
    <2>4. bytes_written \in Nat /\ FwdCnt \in Nat
      BY DEF TypeOK, ConnType, FwdCnt
    <2>5. bytes_written' \in Nat
      BY <2>2, <2>3, <2>4, SMTT(30)
    <2>6. ConnType'
      BY <1>2, <2>5 DEF Reserve, TypeOK, ConnType
    <2>7. hand' \in [Threads -> Hands]
      <3>1. [n |-> Take(t), fwd |-> FwdCnt] \in Hands
        BY <2>2, <2>4, HandType, Zenon
      <3>2. QED BY <2>3, <3>1 DEF TypeOK, ThreadType
    <2>8. ThreadType'
      BY <1>2, <2>3, <2>7, Zenon DEF Reserve, TypeOK, ThreadType, Steps
    <2>9. WriterOK'
      <3>1. hand'[t].n = Take(t) /\ \A u \in Threads : u # t => hand'[u] = hand[u] /\ pc'[u] = pc[u]
        BY <2>3, Zenon DEF TypeOK, ThreadType
      <3>2. \A u \in Threads : u # t => pc[u] # "push"
        BY <2>1 DEF WriterOK
      <3>3. QED BY <2>1, <2>2, <2>3, <2>4, <3>1, <3>2, SMTT(30) DEF WriterOK
    <2>10. QED BY <1>2, <2>6, <2>8, <2>9 DEF Reserve, TypeOK
  <1>3. CASE WriteWait(t)
    <2>1. ThreadType'
      BY <1>3, Zenon DEF WriteWait, TypeOK, ThreadType, Steps
    <2>2. WriterOK'
      BY <1>3 DEF WriteWait, TypeOK, ThreadType, WriterOK, connVars
    <2>3. QED BY <1>3, <2>1, <2>2 DEF WriteWait, TypeOK
  <1>4. CASE WriteFails(t)
    <2>1. ThreadType'
      BY <1>4, Zenon DEF WriteFails, TypeOK, ThreadType, Steps
    <2>2. WriterOK'
      BY <1>4 DEF WriteFails, TypeOK, ThreadType, WriterOK, connVars
    <2>3. QED BY <1>4, <2>1, <2>2, Zenon DEF WriteFails, TypeOK
  <1>5. CASE PushData(t)
    <2>1. /\ hand[t].n \in Nat /\ hand[t].fwd \in Nat
          /\ bytes_written \in Nat /\ left[t] \in Nat
      BY HandType DEF TypeOK, ThreadType, ConnType
    <2>2. hand[t].n > 0 /\ hand[t].n <= left[t] /\ hand[t].n <= bytes_written
      BY <1>5, Zenon DEF PushData, WriterOK
    <2>3. Packet("RW", Positions(bytes_written - hand[t].n, hand[t].n), hand[t].fwd) \in Packets
      <3>1. bytes_written - hand[t].n \in Nat
        BY <2>1, <2>2
      <3>2. Positions(bytes_written - hand[t].n, hand[t].n) \in Seq(Nat)
        BY <2>1, <3>1, PositionsType, Zenon
      <3>3. QED BY <2>1, <3>2, PacketType, Zenon
    <2>4. QueueType'
      BY <1>5, <2>3 DEF PushData, TypeOK, QueueType
    <2>5. left[t] - hand[t].n \in Nat
      BY <2>1, <2>2
    <2>6. /\ pc' = [pc EXCEPT ![t] = IF left[t] = hand[t].n THEN "idle" ELSE "write"]
          /\ left' = [left EXCEPT ![t] = left[t] - hand[t].n]
          /\ hand' = [hand EXCEPT ![t] = NoHand]
          /\ UNCHANGED <<results, hostGot, bytes_written>>
      BY <1>5, Zenon DEF PushData, connVars
    <2>7. ThreadType'
      BY <2>5, <2>6, HandType, Zenon DEF TypeOK, ThreadType, Steps
    <2>8. WriterOK'
      <3>1. \A u \in Threads : u # t => left[u] = 0
        BY <2>1, <2>2, SMTT(30) DEF WriterOK, TypeOK, ThreadType
      <3>2. QED BY <2>1, <2>2, <2>6, <3>1, SMTT(30) DEF WriterOK, TypeOK, ThreadType
    <2>9. QED BY <1>5, <2>4, <2>7, <2>8, Zenon DEF PushData, TypeOK
  <1>6. QED BY <1>1, <1>2, <1>3, <1>4, <1>5

\* Setting a deadline, its passing, and close keep the types.
LEMMA TypeEvents ==
    ASSUME TypeOK, WriterOK,
           SetDeadline \/ DeadlinePasses \/ \E t \in Threads : Close(t) \/ PushShutdown(t)
    PROVE  TypeOK' /\ WriterOK'
  <1> USE Unchanged
  <1>1. CASE SetDeadline
    <2>1. ConnType'
      BY <1>1, Zenon DEF SetDeadline, TypeOK, ConnType
    <2>2. WriterOK'
      BY <1>1 DEF SetDeadline, WriterOK, threadVars
    <2>3. QED BY <1>1, <2>1, <2>2, Zenon DEF SetDeadline, TypeOK
  <1>2. CASE DeadlinePasses
    <2>1. ConnType'
      BY <1>2, Zenon DEF DeadlinePasses, TypeOK, ConnType
    <2>2. ThreadType' /\ WriterOK'
      BY <1>2, Zenon DEF DeadlinePasses, TypeOK, ThreadType, Steps, WriterOK
    <2>3. QED BY <1>2, <2>1, <2>2, Zenon DEF DeadlinePasses, TypeOK
  <1>3. ASSUME NEW t \in Threads, Close(t) PROVE TypeOK' /\ WriterOK'
    <2>1. ConnType'
      BY <1>3 DEF Close, TypeOK, ConnType, EndedBy
    <2>2. FwdCnt \in Nat
      BY Zenon DEF FwdCnt, TypeOK, ConnType
    <2>3. hand' \in [Threads -> Hands]
      <3>1. [n |-> 0, fwd |-> FwdCnt] \in Hands
        BY <2>2, HandType, Zenon
      <3>2. QED BY <1>3, <3>1 DEF Close, TypeOK, ThreadType
    <2>4. ThreadType'
      BY <1>3, <2>3, WokenType, Zenon DEF Close, TypeOK, ThreadType, Steps
    <2>5. \A u \in Threads : u # t => hand'[u] = hand[u] /\ pc'[u] = Woken(pc)[u]
      BY <1>3, WokenType, Zenon DEF Close, TypeOK, ThreadType
    <2>6. pc'[t] = "shutdown" /\ UNCHANGED <<left, bytes_written>>
      BY <1>3, WokenType, Zenon DEF Close
    <2>7. WriterOK'
      BY <2>5, <2>6, WokenType DEF WriterOK
    <2>8. QED BY <1>3, <2>1, <2>4, <2>7, Zenon DEF Close, TypeOK
  <1>4. ASSUME NEW t \in Threads, PushShutdown(t) PROVE TypeOK' /\ WriterOK'
    <2>1. Packet("SHUTDOWN", <<>>, hand[t].fwd) \in Packets
      <3>1. hand[t].fwd \in Nat
        BY HandType DEF TypeOK, ThreadType
      <3>2. QED BY <3>1, EmptySeq, PacketType, Zenon
    <2>2. QueueType'
      BY <1>4, <2>1 DEF PushShutdown, TypeOK, QueueType
    <2>3. ThreadType' /\ WriterOK'
      BY <1>4, HandType DEF PushShutdown, TypeOK, ThreadType, Steps, WriterOK, connVars
    <2>4. QED BY <1>4, <2>2, <2>3, Zenon DEF PushShutdown, TypeOK
  <1>5. QED BY <1>1, <1>2, <1>3, <1>4

\* Every step of the device on the main thread keeps the types.
LEMMA TypeDevice ==
    ASSUME TypeOK, WriterOK, Device \/ Reset
    PROVE  TypeOK' /\ WriterOK'
  <1> USE Unchanged
  <1>0. /\ incoming \in Seq(Nat) /\ bytes_read \in Nat
        /\ outbox \in Seq(Packets) /\ rx \in Seq(Packets) /\ tx \in Seq(Packets)
    BY DEF TypeOK, ConnType, QueueType
  <1>1. CASE Handle
    <2>1. tx # <<>> /\ tx' = Tail(tx)
      BY <1>1 DEF Handle
    <2>2. Head(tx) \in Packets /\ Tail(tx) \in Seq(Packets)
      BY <1>0, <2>1, HeadTailProperties
    <2>3. Head(tx).fwd_cnt \in Nat /\ Head(tx).bytes \in Seq(Nat)
      BY <2>2 DEF Packets
    <2>4. peer_fwd_cnt' \in Nat /\ incoming' \in Seq(Nat)
      <3>1. incoming \o Head(tx).bytes \in Seq(Nat)
        BY <1>0, <2>3, ConcatProperties
      <3>2. QED BY <1>0, <1>1, <2>3, <3>1 DEF Handle, TypeOK, ConnType
    <2>5. ConnType'
      BY <1>1, <2>4 DEF Handle, TypeOK, ConnType
    <2>6. pc' \in {pc, Woken(pc)} /\ UNCHANGED <<left, hand, results, hostGot, bytes_written>>
      BY <1>1, Zenon DEF Handle
    <2>7. ThreadType'
      BY <2>6, WokenType, Zenon DEF TypeOK, ThreadType
    <2>8. WriterOK'
      BY <2>6, WokenType DEF WriterOK
    <2>9. outbox' \in Seq(Packets)
      <3>1. Packet("RST", <<>>, 0) \in Packets
        BY EmptySeq, PacketType, Zenon
      <3>2. QED BY <1>0, <1>1, <3>1 DEF Handle
    <2>10. main' \in [step : {"idle", "answer", "end"}, fwd : Nat]
      <3>1. [step |-> "answer", fwd |-> FwdCnt] \in [step : {"idle", "answer", "end"}, fwd : Nat]
        BY <1>0 DEF FwdCnt
      <3>2. [step |-> "end", fwd |-> 0] \in [step : {"idle", "answer", "end"}, fwd : Nat]
        OBVIOUS
      <3>3. main \in [step : {"idle", "answer", "end"}, fwd : Nat]
        BY DEF TypeOK, QueueType
      <3>4. main' \in {[step |-> "answer", fwd |-> FwdCnt], [step |-> "end", fwd |-> 0], main}
        BY <1>1 DEF Handle
      <3>5. QED BY <3>1, <3>2, <3>3, <3>4
    <2>11. QueueType'
      BY <1>0, <1>1, <2>1, <2>2, <2>9, <2>10 DEF Handle, QueueType
    <2>12. QED BY <1>1, <2>5, <2>7, <2>8, <2>11 DEF Handle, TypeOK
  <1>2. CASE AnswerCredit
    <2>1. main.fwd \in Nat
      BY DEF TypeOK, QueueType
    <2>2. Packet("CREDIT_UPDATE", <<>>, main.fwd) \in Packets
      BY <2>1, EmptySeq, PacketType, Zenon
    <2>3. outbox' \in Seq(Packets)
      BY <1>0, <1>2, <2>2 DEF AnswerCredit
    <2>4. QueueType'
      BY <1>2, <2>3 DEF AnswerCredit, TypeOK, QueueType
    <2>5. WriterOK'
      BY <1>2 DEF AnswerCredit, WriterOK, threadVars, connVars
    <2>6. QED BY <1>2, <2>4, <2>5 DEF AnswerCredit, TypeOK
  <1>3. CASE EndFromPeer
    <2>1. ConnType'
      BY <1>3, Zenon DEF EndFromPeer, TypeOK, ConnType, EndedBy
    <2>2. ThreadType'
      BY <1>3, WokenType DEF EndFromPeer, TypeOK, ThreadType
    <2>3. WriterOK'
      BY <1>3, WokenType DEF EndFromPeer, WriterOK
    <2>4. QueueType'
      BY <1>3 DEF EndFromPeer, TypeOK, QueueType
    <2>5. QED BY <1>3, <2>1, <2>2, <2>3, <2>4, Zenon DEF EndFromPeer, TypeOK
  <1>4. CASE Poll
    <2>1. Head(outbox) \in Packets /\ Tail(outbox) \in Seq(Packets)
      BY <1>0, <1>4, HeadTailProperties DEF Poll
    <2>2. Append(rx, Head(outbox)) \in Seq(Packets) /\ Requeue(Head(outbox), Tail(outbox)) \in Seq(Packets)
      <3>1. <<Head(outbox)>> \in Seq(Packets)
        BY <2>1
      <3>2. QED BY <1>0, <2>1, <3>1, ConcatProperties DEF Requeue
    <2>3. outbox' \in Seq(Packets) /\ rx' \in Seq(Packets)
      BY <1>0, <1>4, <2>1, <2>2, Zenon DEF Poll
    <2>4. QueueType'
      BY <1>4, <2>3 DEF Poll, TypeOK, QueueType
    <2>5. WriterOK'
      BY <1>4 DEF Poll, WriterOK, threadVars, connVars
    <2>6. QED BY <1>4, <2>4, <2>5 DEF Poll, TypeOK
  <1>5. CASE Reset
    <2>1. ConnType'
      BY <1>5, Zenon DEF Reset, TypeOK, ConnType, EndedBy
    <2>2. ThreadType'
      BY <1>5, WokenType DEF Reset, TypeOK, ThreadType
    <2>3. WriterOK'
      BY <1>5, WokenType DEF Reset, WriterOK
    <2>4. QueueType'
      BY <1>5, EmptySeq DEF Reset, TypeOK, QueueType
    <2>5. GuestType'
      BY <1>5, EmptySeq, Zenon DEF Reset, TypeOK, GuestType
    <2>6. QED BY <2>1, <2>2, <2>3, <2>4, <2>5 DEF TypeOK
  <1>6. QED BY <1>1, <1>2, <1>3, <1>4, <1>5, Zenon DEF Device

\* Every step of the guest keeps the types.
LEMMA TypeGuest ==
    ASSUME TypeOK, WriterOK, Guest \/ GuestSend \/ GuestAsk \/ GuestEnd
    PROVE  TypeOK' /\ WriterOK'
  <1> USE Unchanged
  <1> DEFINE Guests == [open : BOOLEAN, sent : Nat, peer_fwd : Nat, buffer : Seq(Nat),
                        consumed : Nat, asked : Nat]
  <1>0. /\ guest \in Guests /\ guest.consumed \in Nat /\ guest.sent \in Nat
        /\ guest.buffer \in Seq(Nat) /\ guestGot \in Seq(Nat)
        /\ outbox \in Seq(Packets) /\ rx \in Seq(Packets) /\ tx \in Seq(Packets)
        /\ <<>> \in Seq(Nat)
    BY EmptySeq, Zenon DEF TypeOK, GuestType, QueueType
  <1>1. \A op \in {"RW", "CREDIT_UPDATE", "CREDIT_REQUEST", "SHUTDOWN", "RST"}, bytes \in Seq(Nat) :
          GuestPacket(op, bytes) \in Packets
    BY <1>0, PacketType, Zenon DEF GuestPacket
  <1>2. /\ UNCHANGED <<connVars, outbox, threadVars, main>>
    BY Zenon DEF Guest, GuestReceive, GuestConsume, GuestSend, GuestAsk, GuestEnd
  <1>3. ConnType' /\ ThreadType' /\ WriterOK'
    BY <1>2 DEF WriterOK, connVars, threadVars
  <1>4. rx' \in Seq(Packets) /\ tx' \in Seq(Packets)
    <2>1. CASE GuestReceive
      <3>1. Tail(rx) \in Seq(Packets) /\ rx' = Tail(rx)
        BY <1>0, <2>1, HeadTailProperties DEF GuestReceive
      <3>2. GuestPacket("RST", <<>>) \in Packets
        BY <1>0, <1>1, Zenon
      <3>3. tx' = tx \/ tx' = Append(tx, GuestPacket("RST", <<>>))
        BY <2>1 DEF GuestReceive
      <3>4. Append(tx, GuestPacket("RST", <<>>)) \in Seq(Packets)
        BY <1>0, <3>2
      <3>5. tx' \in Seq(Packets)
        BY <1>0, <3>3, <3>4, Zenon
      <3>6. QED BY <3>1, <3>5
    <2>2. CASE GuestConsume
      <3>1. guest'.consumed \in Nat
        BY <1>0, <2>2, SMTT(30) DEF GuestConsume
      <3>2. Packet("CREDIT_UPDATE", <<>>, guest'.consumed) \in Packets
        BY <1>0, <3>1, PacketType, Zenon
      <3>3. QED BY <1>0, <2>2, <3>2 DEF GuestConsume
    <2>3. CASE GuestSend
      <3>1. PICK n \in 1..Least(GuestCredit, GuestBytes - guest.sent) :
              tx' = Append(tx, GuestPacket("RW", Positions(guest.sent, n)))
        BY <2>3 DEF GuestSend
      <3>2. Positions(guest.sent, n) \in Seq(Nat)
        BY <1>0, PositionsType, SMTT(30)
      <3>3. QED BY <1>0, <1>1, <2>3, <3>1, <3>2, SMTT(30) DEF GuestSend
    <2>4. CASE GuestAsk
      <3>1. GuestPacket("CREDIT_REQUEST", <<>>) \in Packets
        BY <1>0, <1>1, Zenon
      <3>2. QED BY <1>0, <2>4, <3>1 DEF GuestAsk
    <2>5. CASE GuestEnd
      <3>1. \A op \in {"SHUTDOWN", "RST"} : GuestPacket(op, <<>>) \in Packets
        BY <1>0, <1>1, Zenon
      <3>2. rx' = rx /\ \E op \in {"SHUTDOWN", "RST"} : tx' = Append(tx, GuestPacket(op, <<>>))
        BY <2>5 DEF GuestEnd
      <3>3. QED BY <1>0, <3>1, <3>2
    <2>6. QED BY <2>1, <2>2, <2>3, <2>4, <2>5 DEF Guest
  <1>5. QueueType'
    BY <1>2, <1>4 DEF TypeOK, QueueType
  <1>6. guest' \in Guests /\ guestGot' \in Seq(Nat)
    <2>1. CASE GuestReceive
      <3>1. rx # <<>> /\ guestGot' = guestGot
        BY <2>1 DEF GuestReceive
      <3>2. Head(rx).bytes \in Seq(Nat) /\ Head(rx).fwd_cnt \in Nat
        BY <1>0, <3>1, HeadTailProperties, PacketFields, Zenon
      <3>3. guest.buffer \o Head(rx).bytes \in Seq(Nat)
        BY <1>0, <3>2, ConcatProperties, Zenon
      <3>4. \/ guest' = guest
            \/ \E b \in BOOLEAN : guest' = [guest EXCEPT !.peer_fwd = Head(rx).fwd_cnt,
                                               !.buffer = guest.buffer \o Head(rx).bytes, !.open = b]
        BY <2>1, Zenon DEF GuestReceive
      <3>5. QED BY <1>0, <3>1, <3>2, <3>3, <3>4, Zenon
    <2>2. CASE GuestConsume
      <3>1. guest.consumed + Len(guest.buffer) \in Nat
        BY <1>0
      <3>2. guestGot \o guest.buffer \in Seq(Nat)
        BY <1>0, ConcatProperties
      <3>3. QED BY <1>0, <2>2, <3>1, <3>2, Zenon DEF GuestConsume
    <2>3. CASE GuestSend
      <3>1. PICK n \in 1..Least(GuestCredit, GuestBytes - guest.sent) :
              guest' = [guest EXCEPT !.sent = guest.sent + n]
        BY <2>3 DEF GuestSend
      <3>2. guest.sent + n \in Nat
        BY <1>0
      <3>3. QED BY <1>0, <2>3, <3>1, <3>2, Zenon DEF GuestSend
    <2>4. CASE GuestAsk
      <3>1. guest.asked + 1 \in Nat /\ guestGot' = guestGot
        BY <1>0, <2>4 DEF GuestAsk
      <3>2. guest' = [guest EXCEPT !.asked = guest.asked + 1]
        BY <2>4 DEF GuestAsk
      <3>3. QED BY <1>0, <3>1, <3>2, Zenon
    <2>5. CASE GuestEnd
      BY <1>0, <2>5, Zenon DEF GuestEnd
    <2>6. QED BY <2>1, <2>2, <2>3, <2>4, <2>5 DEF Guest
  <1>7. GuestType'
    BY <1>6 DEF GuestType
  <1>8. QED BY <1>3, <1>5, <1>7 DEF TypeOK

LEMMA TypeNext == TypeOK /\ WriterOK /\ [Next]_vars => TypeOK' /\ WriterOK'
  <1> SUFFICES ASSUME TypeOK, WriterOK, [Next]_vars PROVE TypeOK' /\ WriterOK'
    OBVIOUS
  <1>1. ASSUME NEW t \in Threads, Thread(t) \/ BeginRead(t) \/ BeginWrite(t) \/ Close(t)
        PROVE  TypeOK' /\ WriterOK'
    BY <1>1, TypeRead, TypeWrite, TypeEvents DEF Thread
  <1>2. CASE Device \/ Reset
    BY <1>2, TypeDevice
  <1>3. CASE SetDeadline \/ DeadlinePasses
    BY <1>3, TypeEvents
  <1>4. CASE Guest \/ GuestSend \/ GuestAsk \/ GuestEnd
    BY <1>4, TypeGuest
  <1>5. CASE UNCHANGED vars
    <2>1. WriterOK'
      BY <1>5 DEF WriterOK, vars, threadVars, connVars
    <2>2. QED BY <1>5, <2>1, Unchanged, Zenon DEF vars, TypeOK
  <1>6. QED BY <1>1, <1>2, <1>3, <1>4, <1>5 DEF Next

\* For every instance the variables keep their types: in particular `left - n` after a push and
\* the counters never leave the naturals, so no subtraction of write_all underflows.
THEOREM TypeCorrect == Spec => []TypeOK
  <1>1. Init => TypeOK /\ WriterOK
    BY TypeInit
  <1>2. TypeOK /\ WriterOK /\ [Next]_vars => TypeOK' /\ WriterOK'
    BY TypeNext
  <1>3. QED BY <1>1, <1>2, PTL DEF Spec

-----------------------------------------------------------------------------
(* The bytes under way to the guest *)

InFlight == Len(rx) + Len(outbox)

\* The i-th packet the guest will take.
Down(i) == IF i <= Len(rx) THEN rx[i] ELSE outbox[i - Len(rx)]

\* The bytes of s come right after stream position n.
Follows(s, n) == \A j \in 1..Len(s) : s[j] = n + j

\* f[i] is the stream position before the i-th packet under way, whose bytes go on from there.
Links(f) ==
    /\ f \in [1..(InFlight + 1) -> Nat]
    /\ f[1] = guest.consumed + Len(guest.buffer)
    /\ Follows(guest.buffer, guest.consumed)
    /\ \A i \in 1..InFlight : f[i + 1] = f[i] + Len(Down(i).bytes)
    /\ \A i \in 1..InFlight : Follows(Down(i).bytes, f[i])
    /\ \A i, j \in 1..(InFlight + 1) : i <= j => f[i] <= f[j]

\* n bytes are all that were written, except what a thread has reserved and not pushed yet.
AllSent(n) ==
    /\ \A t \in Threads : pc[t] = "push" => n = bytes_written - hand[t].n
    /\ (\A t \in Threads : pc[t] # "push") => n = bytes_written

Accounted == guest.open => \E f, n : Links(f) /\ n = f[InFlight + 1] /\ AllSent(n)

\* The counts the guest has sent arrive in order, none ahead of what it has consumed.
FwdOrder ==
    /\ peer_fwd_cnt <= guest.consumed
    /\ \A i \in 1..Len(tx) : peer_fwd_cnt <= tx[i].fwd_cnt /\ tx[i].fwd_cnt <= guest.consumed
    /\ \A i, j \in 1..Len(tx) : i <= j => tx[i].fwd_cnt <= tx[j].fwd_cnt

WindowInv ==
    /\ TypeOK /\ WriterOK
    /\ Accounted
    /\ FwdOrder
    /\ guest.consumed <= bytes_written
    /\ bytes_written - peer_fwd_cnt <= GUEST_BUF_ALLOC

\* The threads that carry reserved bytes, what they carry and the count of bytes written stay.
SamePush ==
    /\ \A t \in Threads : pc'[t] = "push" <=> pc[t] = "push"
    /\ \A t \in Threads : pc[t] = "push" => hand'[t] = hand[t]
    /\ bytes_written' = bytes_written

LEMMA Numbers ==
    ASSUME TypeOK
    PROVE  /\ bytes_written \in Nat /\ peer_fwd_cnt \in Nat
           /\ guest.consumed \in Nat /\ guest.buffer \in Seq(Nat) /\ Len(guest.buffer) \in Nat
           /\ rx \in Seq(Packets) /\ outbox \in Seq(Packets) /\ tx \in Seq(Packets)
           /\ Len(rx) \in Nat /\ Len(outbox) \in Nat /\ Len(tx) \in Nat
           /\ InFlight \in Nat
  <1>1. rx \in Seq(Packets) /\ outbox \in Seq(Packets) /\ tx \in Seq(Packets)
    BY DEF TypeOK, QueueType
  <1>2. guest.consumed \in Nat /\ guest.buffer \in Seq(Nat)
    BY DEF TypeOK, GuestType
  <1>3. bytes_written \in Nat /\ peer_fwd_cnt \in Nat
    BY DEF TypeOK, ConnType
  <1>4. QED BY <1>1, <1>2, <1>3, LenProperties DEF InFlight

LEMMA DownType ==
    ASSUME TypeOK, NEW i \in 1..InFlight
    PROVE  Down(i) \in Packets /\ Down(i).bytes \in Seq(Nat) /\ Len(Down(i).bytes) \in Nat
  <1>1. Down(i) \in Packets
    <2>1. CASE i <= Len(rx)
      BY <2>1, Numbers, ElementOfSeq, SMTT(30) DEF Down, InFlight
    <2>2. CASE i > Len(rx)
      <3>1. i - Len(rx) \in 1..Len(outbox)
        BY <2>2, Numbers DEF InFlight
      <3>2. outbox[i - Len(rx)] \in Packets
        BY <3>1, Numbers, ElementOfSeq, Zenon
      <3>3. QED BY <2>2, <3>2, Numbers DEF Down
    <2>3. QED BY <2>1, <2>2, Numbers, SMTT(30)
  <1>2. QED BY <1>1, PacketFields, LenProperties

\* Bytes that are accounted for were written.
LEMMA ConsumedIsWritten ==
    ASSUME TypeOK, WriterOK, NEW f, NEW n, Links(f), n = f[InFlight + 1], AllSent(n)
    PROVE  guest.consumed + Len(guest.buffer) <= bytes_written
  <1>1. f[1] <= f[InFlight + 1]
    BY Numbers, SMTT(30) DEF Links
  <1>2. f[InFlight + 1] <= bytes_written
    <2>1. CASE \E t \in Threads : pc[t] = "push"
      <3>1. PICK t \in Threads : pc[t] = "push"
        BY <2>1
      <3>2. hand[t].n \in Nat
        BY HandType, Zenon DEF TypeOK, ThreadType
      <3>3. QED BY <3>1, <3>2, Numbers, SMTT(30) DEF AllSent
    <2>2. CASE \A t \in Threads : pc[t] # "push"
      BY <2>2, Numbers, SMTT(30) DEF AllSent
    <2>3. QED BY <2>1, <2>2
  <1>3. f[InFlight + 1] \in Nat
    BY Numbers, SMTT(30) DEF Links
  <1>4. QED BY <1>1, <1>2, <1>3, Numbers, SMTT(30) DEF Links

\* A packet pushed to the outbox extends the account at its end.
LEMMA LinksAppend ==
    ASSUME TypeOK, TypeOK', NEW f, Links(f), NEW p \in Packets, Follows(p.bytes, f[InFlight + 1]),
           outbox' = Append(outbox, p), rx' = rx, guest' = guest
    PROVE  \E g : Links(g)' /\ g[InFlight' + 1] = f[InFlight + 1] + Len(p.bytes)
  <1>a. PICK n : n = InFlight
    OBVIOUS
  <1> DEFINE G == [i \in 1..(n + 2) |-> IF i <= n + 1 THEN f[i] ELSE f[n + 1] + Len(p.bytes)]
  <1>b. PICK g : g = G
    BY Zenon
  <1>1. n \in Nat /\ f[n + 1] \in Nat /\ Len(p.bytes) \in Nat
    BY <1>a, Numbers, PacketFields, LenProperties, SMTT(30) DEF Links
  <1>2. InFlight' = n + 1
    <2>1. Len(outbox') = Len(outbox) + 1
      BY Numbers, SMTT(30)
    <2>2. QED BY <1>a, <2>1, Numbers, SMTT(30) DEF InFlight
  <1>3. \A i \in 1..n : Down(i)' = Down(i)
    <2> TAKE i \in 1..n
    <2>1. CASE i <= Len(rx)
      BY <2>1, Zenon DEF Down
    <2>2. CASE i > Len(rx)
      <3>1. i - Len(rx) \in 1..Len(outbox)
        BY <1>a, <2>2, Numbers, SMTT(30) DEF InFlight
      <3>2. outbox'[i - Len(rx)] = outbox[i - Len(rx)]
        BY <3>1, Numbers, SMTT(30)
      <3>3. QED BY <2>2, <3>2, Numbers, Zenon DEF Down
    <2>3. QED BY <1>a, <2>1, <2>2, Numbers
  <1>4. Down(n + 1)' = p
    <2>1. n + 1 > Len(rx) /\ n + 1 - Len(rx) = Len(outbox) + 1
      BY <1>a, Numbers DEF InFlight
    <2>2. outbox'[Len(outbox) + 1] = p
      BY Numbers, SMTT(30)
    <2>3. QED BY <1>1, <2>1, <2>2, Numbers, SMTT(30) DEF Down
  <1>5. g \in [1..(n + 2) -> Nat]
    BY <1>a, <1>b, <1>1, SMTT(30) DEF Links
  <1>6. g[1] = guest'.consumed + Len(guest'.buffer)
    BY <1>a, <1>b, <1>1 DEF Links
  <1>7. \A i \in 1..(n + 1) : g[i + 1] = g[i] + Len(Down(i)'.bytes)
    <2> TAKE i \in 1..(n + 1)
    <2>1. CASE i <= n
      <3>1. g[i + 1] = f[i + 1] /\ g[i] = f[i]
        BY <1>b, <1>1, <2>1, SMTT(30)
      <3>2. f[i + 1] = f[i] + Len(Down(i).bytes)
        BY <1>a, <1>1, <2>1, SMTT(30) DEF Links
      <3>3. QED BY <1>1, <1>3, <2>1, <3>1, <3>2, SMTT(30)
    <2>2. CASE i = n + 1
      BY <1>b, <1>1, <1>4, <2>2, SMTT(30)
    <2>3. QED BY <1>1, <2>1, <2>2
  <1>8. \A i, j \in 1..(n + 2) : i <= j => g[i] <= g[j]
    <2> SUFFICES ASSUME NEW i \in 1..(n + 2), NEW j \in 1..(n + 2), i <= j PROVE g[i] <= g[j]
      BY Zenon
    <2>1. CASE j <= n + 1
      <3>1. \A x, y \in 1..(n + 1) : x <= y => f[x] <= f[y]
        BY <1>a, Zenon DEF Links
      <3>2. i \in 1..(n + 1) /\ j \in 1..(n + 1)
        BY <1>1, <2>1, SMTT(30)
      <3>3. g[i] = f[i] /\ g[j] = f[j]
        BY <1>b, <1>1, <3>2, SMTT(30)
      <3>4. QED BY <3>1, <3>2, <3>3, Zenon
    <2>2. CASE i <= n + 1 /\ j = n + 2
      <3>1. f[i] <= f[n + 1] /\ f[i] \in Nat
        BY <1>a, <1>1, <2>2, SMTT(30) DEF Links
      <3>2. QED BY <1>b, <1>1, <2>2, <3>1, SMTT(30)
    <2>3. CASE i = n + 2 /\ j = n + 2
      BY <1>b, <1>1, <2>3, SMTT(30)
    <2>4. QED BY <1>1, <2>1, <2>2, <2>3, SMTT(30)
  <1>c. \A i \in 1..(n + 1) : Follows(Down(i)'.bytes, g[i])
    <2> TAKE i \in 1..(n + 1)
    <2>1. CASE i <= n
      <3>1. g[i] = f[i] /\ Down(i)' = Down(i) /\ i \in 1..InFlight
        BY <1>a, <1>b, <1>1, <1>3, <2>1, SMTT(30)
      <3>2. QED BY <3>1, Zenon DEF Links
    <2>2. CASE i = n + 1
      <3>1. g[i] = f[n + 1] /\ Down(i)' = p
        BY <1>b, <1>1, <1>4, <2>2, SMTT(30)
      <3>2. QED BY <1>a, <3>1, Zenon
    <2>3. QED BY <1>1, <2>1, <2>2
  <1>d. Follows(guest'.buffer, guest'.consumed)
    BY Zenon DEF Links
  <1>9. Links(g)'
    BY <1>1, <1>2, <1>5, <1>6, <1>7, <1>8, <1>c, <1>d, SMTT(30) DEF Links, Follows
  <1>10. g[InFlight' + 1] = f[InFlight + 1] + Len(p.bytes)
    BY <1>a, <1>b, <1>1, <1>2
  <1>11. QED BY <1>9, <1>10

\* poll moves the account's packets from the outbox to the receive buffers and changes none.
LEMMA LinksPoll ==
    ASSUME TypeOK, NEW f, Links(f), Poll
    PROVE  Links(f)' /\ InFlight' = InFlight
  <1>1. guest' = guest /\ outbox # <<>> /\ Len(outbox) > 0
    BY Numbers, SMTT(30) DEF Poll
  <1>2. CASE rx' = Append(rx, Head(outbox)) /\ outbox' = Tail(outbox)
    <2>1. Len(rx') = Len(rx) + 1 /\ Len(outbox') = Len(outbox) - 1
      BY <1>1, <1>2, Numbers, HeadTailProperties
    <2>2. InFlight' = InFlight
      BY <2>1, Numbers DEF InFlight
    <2>3. \A i \in 1..InFlight : Down(i)' = Down(i)
      <3> TAKE i \in 1..InFlight
      <3>1. CASE i <= Len(rx)
        <4>1. rx'[i] = rx[i]
          BY <1>2, <3>1, Numbers, SMTT(30)
        <4>2. QED BY <2>1, <3>1, <4>1, Numbers, SMTT(30) DEF Down
      <3>2. CASE i = Len(rx) + 1
        <4>1. rx'[i] = outbox[1]
          BY <1>1, <1>2, <3>2, Numbers, SMTT(30)
        <4>2. QED BY <2>1, <3>2, <4>1, Numbers, SMTT(30) DEF Down
      <3>3. CASE i > Len(rx) + 1
        <4>1. i - Len(rx) - 1 \in 1..Len(Tail(outbox))
          BY <1>2, <2>1, <3>3, Numbers, SMTT(30) DEF InFlight
        <4>2. Tail(outbox)[i - Len(rx) - 1] = outbox[i - Len(rx) - 1 + 1]
          BY <1>1, <4>1, Numbers, HeadTailProperties, Zenon
        <4>3. outbox'[i - Len(rx')] = outbox[i - Len(rx)]
          <5>1. i - Len(rx') = i - Len(rx) - 1 /\ i - Len(rx) - 1 + 1 = i - Len(rx)
            BY <2>1, Numbers
          <5>2. QED BY <1>2, <4>2, <5>1, Zenon
        <4>4. QED BY <2>1, <3>3, <4>3, Numbers, SMTT(30) DEF Down
      <3>4. QED BY <3>1, <3>2, <3>3, Numbers
    <2>4. QED BY <1>1, <2>2, <2>3 DEF Links, Follows
  <1>3. CASE rx' = rx /\ outbox' = Requeue(Head(outbox), Tail(outbox))
    <2>1. outbox' = outbox
      BY <1>1, <1>3, Numbers, SMTT(30) DEF Requeue
    <2>2. InFlight' = InFlight /\ \A i \in 1..InFlight : Down(i)' = Down(i)
      BY <1>3, <2>1 DEF InFlight, Down
    <2>3. QED BY <1>1, <2>2 DEF Links, Follows
  <1>4. QED BY <1>2, <1>3 DEF Poll

LEMMA PositionsFollow ==
    ASSUME NEW from \in Nat, NEW n \in Nat
    PROVE  Follows(Positions(from, n), from)
  BY PositionsType DEF Follows, Positions

\* Bytes that go on where others end make one run with them.
LEMMA FollowsConcat ==
    ASSUME NEW p \in Seq(Nat), NEW q \in Seq(Nat), NEW n \in Nat, Follows(p, n), Follows(q, n + Len(p))
    PROVE  Follows(p \o q, n)
  <1>r. PICK r : r = p \o q
    BY Zenon
  <1>1. Len(p) \in Nat /\ Len(q) \in Nat
    BY LenProperties
  <1>2. /\ Len(r) = Len(p) + Len(q)
        /\ \A i \in 1..(Len(p) + Len(q)) : r[i] = IF i <= Len(p) THEN p[i] ELSE q[i - Len(p)]
    BY <1>r, ConcatProperties, Zenon
  <1>3. \A i \in 1..(Len(p) + Len(q)) : r[i] = n + i
    <2> TAKE i \in 1..(Len(p) + Len(q))
    <2>1. CASE i <= Len(p)
      BY <1>1, <1>2, <2>1 DEF Follows
    <2>2. CASE i > Len(p)
      <3>1. i - Len(p) \in 1..Len(q) /\ r[i] = q[i - Len(p)]
        BY <1>1, <1>2, <2>2, SMTT(30)
      <3>2. r[i] = (n + Len(p)) + (i - Len(p))
        BY <3>1 DEF Follows
      <3>3. QED BY <1>1, <3>2
    <2>3. QED BY <1>1, <2>1, <2>2
  <1>4. Follows(r, n)
    BY <1>2, <1>3, Zenon DEF Follows
  <1>5. QED BY <1>r, <1>4

\* What was handed out and what follows it are all the positions up to the new end.
LEMMA PositionsConcat ==
    ASSUME NEW n \in Nat, NEW q \in Seq(Nat), Follows(q, n)
    PROVE  Positions(0, n) \o q = Positions(0, n + Len(q))
  <1>p. PICK p \in Seq(Nat) : p = Positions(0, n) /\ Len(p) = n /\ \A i \in 1..n : p[i] = i
    <2>1. Positions(0, n) \in Seq(Nat) /\ Len(Positions(0, n)) = n
      BY PositionsType
    <2>2. \A i \in 1..n : Positions(0, n)[i] = i
      BY DEF Positions
    <2>3. QED BY <2>1, <2>2
  <1>z. PICK z \in Seq(Nat) : /\ z = Positions(0, n + Len(q)) /\ Len(z) = n + Len(q)
                              /\ \A i \in 1..(n + Len(q)) : z[i] = i
    <2>1. Len(q) \in Nat
      BY LenProperties
    <2>2. n + Len(q) \in Nat
      BY <2>1
    <2>3. /\ Positions(0, n + Len(q)) \in Seq(Nat) /\ Len(Positions(0, n + Len(q))) = n + Len(q)
      BY <2>2, PositionsType
    <2>4. \A i \in 1..(n + Len(q)) : Positions(0, n + Len(q))[i] = i
      BY <2>2 DEF Positions
    <2>5. QED BY <2>3, <2>4
  <1>r. PICK r : r = p \o q
    BY Zenon
  <1>1. Len(q) \in Nat
    BY LenProperties
  <1>2. r \in Seq(Nat)
    BY <1>r, ConcatProperties
  <1>3. Len(r) = n + Len(q)
    BY <1>p, <1>r, ConcatProperties, Zenon
  <1>4. Follows(p, 0)
    BY <1>p DEF Follows
  <1>5. Follows(r, 0)
    <2>1. 0 + Len(p) = n
      BY <1>p
    <2>2. QED BY <1>r, <1>4, <2>1, FollowsConcat
  <1>6. \A i \in 1..(n + Len(q)) : r[i] = i
    BY <1>1, <1>3, <1>5 DEF Follows
  <1>7. r = z
    BY <1>2, <1>3, <1>6, <1>z, SeqEqual, Zenon
  <1>8. QED BY <1>p, <1>r, <1>z, <1>7, Zenon

LEMMA PlusAssociative == \A a, b, c \in Nat : (a + b) + c = a + (b + c)
  OBVIOUS

LEMMA PlusMoves == \A a, b, c \in Nat : (a + b) + (c - b) = a + c
  OBVIOUS

LEMMA LeqTransitive == \A a, b, c \in Nat : a <= b /\ b <= c => a <= c
  OBVIOUS

\* The guest takes the first packet: the account goes on at the second.
LEMMA LinksReceive ==
    ASSUME TypeOK, NEW f, Links(f), rx # <<>>,
           rx' = Tail(rx), outbox' = outbox, guest'.consumed = guest.consumed,
           guest'.buffer = guest.buffer \o Head(rx).bytes
    PROVE  \E g : Links(g)' /\ g[InFlight' + 1] = f[InFlight + 1]
  <1>a. PICK n : n = InFlight
    OBVIOUS
  <1> DEFINE G == [i \in 1..n |-> f[i + 1]]
  <1>b. PICK g : g = G
    BY Zenon
  <1>1. Len(rx) > 0 /\ Len(rx') = Len(rx) - 1
    BY Numbers, HeadTailProperties
  <1>2. n \in Nat /\ n > 0 /\ InFlight' = n - 1
    BY <1>a, <1>1, Numbers DEF InFlight
  <1>3. \A i \in 1..(n - 1) : Down(i)' = Down(i + 1)
    <2> TAKE i \in 1..(n - 1)
    <2>1. CASE i + 1 <= Len(rx)
      <3>1. rx'[i] = rx[i + 1]
        BY <1>1, <2>1, Numbers, HeadTailProperties, SMTT(30)
      <3>2. QED BY <1>1, <1>2, <2>1, <3>1, Numbers, SMTT(30) DEF Down
    <2>2. CASE i + 1 > Len(rx)
      <3>1. i - Len(rx') = i + 1 - Len(rx)
        BY <1>1, <1>2, Numbers, SMTT(30)
      <3>2. QED BY <1>1, <1>2, <2>2, <3>1, Numbers, SMTT(30) DEF Down
    <2>3. QED BY <1>2, <2>1, <2>2, Numbers
  <1>4. Down(1) = Head(rx)
    BY <1>1, Numbers DEF Down
  <1>5. f[2] = guest'.consumed + Len(guest'.buffer)
    <2>1. f[2] = f[1] + Len(Head(rx).bytes)
      BY <1>a, <1>2, <1>4, SMTT(30) DEF Links
    <2>2. Head(rx).bytes \in Seq(Nat) /\ Len(Head(rx).bytes) \in Nat
      BY <1>a, <1>2, <1>4, DownType, SMTT(30)
    <2>3. Len(guest'.buffer) = Len(guest.buffer) + Len(Head(rx).bytes)
      BY <2>2, Numbers, ConcatProperties, SMTT(30)
    <2>4. f[1] = guest.consumed + Len(guest.buffer)
      BY DEF Links
    <2>5. (guest.consumed + Len(guest.buffer)) + Len(Head(rx).bytes)
            = guest.consumed + (Len(guest.buffer) + Len(Head(rx).bytes))
      <3>1. guest.consumed \in Nat /\ Len(guest.buffer) \in Nat /\ Len(Head(rx).bytes) \in Nat
        BY <2>2, Numbers, Zenon
      <3>2. QED BY <3>1, PlusAssociative, Zenon
    <2>6. QED BY <2>1, <2>3, <2>4, <2>5, Zenon
  <1>6. g \in [1..n -> Nat]
    BY <1>a, <1>b, <1>2, SMTT(30) DEF Links
  <1>7. \A i \in 1..(n - 1) : g[i + 1] = g[i] + Len(Down(i)'.bytes)
    BY <1>a, <1>b, <1>2, <1>3, SMTT(30) DEF Links
  <1>8. \A i, j \in 1..n : i <= j => g[i] <= g[j]
    BY <1>a, <1>b, <1>2 DEF Links
  <1>9. g[1] = guest'.consumed + Len(guest'.buffer)
    <2>1. g[1] = f[2]
      BY <1>b, <1>2, SMTT(30)
    <2>2. QED BY <1>5, <2>1, Zenon
  <1>c. \A i \in 1..(n - 1) : Follows(Down(i)'.bytes, g[i])
    <2> TAKE i \in 1..(n - 1)
    <2>1. i \in 1..n /\ i + 1 \in 1..InFlight
      BY <1>a, <1>2, SMTT(30)
    <2>2. g[i] = f[i + 1]
      BY <1>b, <2>1, Zenon
    <2>3. Follows(Down(i + 1).bytes, f[i + 1])
      BY <2>1, Zenon DEF Links
    <2>4. QED BY <1>3, <2>2, <2>3
  <1>d. Follows(guest'.buffer, guest'.consumed)
    <2>1. Follows(guest.buffer, guest.consumed) /\ Follows(Head(rx).bytes, f[1])
      BY <1>a, <1>2, <1>4, SMTT(30) DEF Links
    <2>2. Head(rx).bytes \in Seq(Nat) /\ guest.buffer \in Seq(Nat) /\ guest.consumed \in Nat
      BY <1>a, <1>2, <1>4, DownType, Numbers, SMTT(30)
    <2>3. f[1] = guest.consumed + Len(guest.buffer)
      BY DEF Links
    <2>4. Follows(guest.buffer \o Head(rx).bytes, guest.consumed)
      BY <2>1, <2>2, <2>3, FollowsConcat, Zenon
    <2>5. QED BY <2>4, Zenon
  <1>10. Links(g)'
    <2>1. /\ g \in [1..(InFlight' + 1) -> Nat]
          /\ \A i \in 1..InFlight' : g[i + 1] = g[i] + Len(Down(i)'.bytes)
          /\ \A i \in 1..InFlight' : Follows(Down(i)'.bytes, g[i])
          /\ \A i, j \in 1..(InFlight' + 1) : i <= j => g[i] <= g[j]
      <3>1. InFlight' + 1 = n
        BY <1>2
      <3>2. QED BY <1>2, <1>6, <1>7, <1>8, <1>c, <3>1
    <2>2. QED BY <1>9, <1>d, <2>1, Zenon DEF Links, Follows
  <1>11. g[InFlight' + 1] = f[InFlight + 1]
    BY <1>a, <1>b, <1>2, SMTT(30)
  <1>12. QED BY <1>10, <1>11

LEMMA LinksSame ==
    ASSUME TypeOK, NEW f, Links(f), rx' = rx, outbox' = outbox,
           guest'.consumed + Len(guest'.buffer) = guest.consumed + Len(guest.buffer),
           Follows(guest'.buffer, guest'.consumed)
    PROVE  Links(f)' /\ InFlight' = InFlight
  BY Zenon DEF Links, InFlight, Down, Follows

LEMMA SentSame ==
    ASSUME SamePush, NEW n, AllSent(n)
    PROVE  AllSent(n)'
  BY Zenon DEF SamePush, AllSent

-----------------------------------------------------------------------------
(* The counts under way to the host *)

\* The guest sends what it has consumed by now.
LEMMA OrderAppend ==
    ASSUME TypeOK, FwdOrder, NEW p \in Packets, tx' = Append(tx, p), peer_fwd_cnt' = peer_fwd_cnt,
           guest'.consumed \in Nat, guest.consumed <= guest'.consumed, p.fwd_cnt = guest'.consumed
    PROVE  FwdOrder'
  <1>1. Len(tx') = Len(tx) + 1 /\ tx'[Len(tx) + 1] = p /\ \A i \in 1..Len(tx) : tx'[i] = tx[i]
    BY Numbers, SMTT(30)
  <1>2. \A i \in 1..Len(tx) : tx[i].fwd_cnt \in Nat
    BY Numbers, ElementOfSeq, PacketFields, Zenon
  <1>3. \A i \in 1..Len(tx') : peer_fwd_cnt <= tx'[i].fwd_cnt /\ tx'[i].fwd_cnt <= guest'.consumed
    <2> TAKE i \in 1..Len(tx')
    <2>1. CASE i <= Len(tx)
      BY <1>1, <1>2, <2>1, Numbers, SMTT(30) DEF FwdOrder
    <2>2. CASE i = Len(tx) + 1
      BY <1>1, <2>2, Numbers, SMTT(30) DEF FwdOrder
    <2>3. QED BY <1>1, <2>1, <2>2, Numbers, SMTT(30)
  <1>4. \A i, j \in 1..Len(tx') : i <= j => tx'[i].fwd_cnt <= tx'[j].fwd_cnt
    <2> SUFFICES ASSUME NEW i \in 1..Len(tx'), NEW j \in 1..Len(tx'), i <= j
                 PROVE  tx'[i].fwd_cnt <= tx'[j].fwd_cnt
      BY Zenon
    <2>1. CASE j <= Len(tx)
      BY <1>1, <1>2, <2>1, Numbers, SMTT(30) DEF FwdOrder
    <2>2. CASE j = Len(tx) + 1
      BY <1>1, <1>3, <2>2, Numbers, Zenon
    <2>3. QED BY <1>1, <2>1, <2>2, Numbers, SMTT(30)
  <1>5. peer_fwd_cnt <= guest'.consumed
    BY Numbers, SMTT(30) DEF FwdOrder
  <1>6. QED BY <1>3, <1>4, <1>5, Zenon DEF FwdOrder

LEMMA OrderSame ==
    ASSUME FwdOrder, UNCHANGED <<tx, peer_fwd_cnt>>, guest'.consumed = guest.consumed
    PROVE  FwdOrder'
  BY DEF FwdOrder

-----------------------------------------------------------------------------
(* The steps *)

LEMMA AccountedQuiet ==
    ASSUME TypeOK, Accounted, SamePush, UNCHANGED <<rx, outbox, guest>>
    PROVE  Accounted'
  <1> SUFFICES ASSUME guest'.open PROVE \E f, n : Links(f)' /\ n = f[InFlight' + 1] /\ AllSent(n)'
    BY DEF Accounted
  <1>1. PICK f, n : Links(f) /\ n = f[InFlight + 1] /\ AllSent(n)
    BY DEF Accounted
  <1>2. Links(f)' /\ InFlight' = InFlight
    <2>1. Follows(guest'.buffer, guest'.consumed)
      BY <1>1 DEF Links
    <2>2. QED BY <1>1, <2>1, LinksSame, Zenon
  <1>4. AllSent(n)'
    BY <1>1, SentSame, Zenon
  <1>5. QED BY <1>1, <1>2, <1>4

\* A packet without bytes changes no position.
LEMMA AccountedPush ==
    ASSUME TypeOK, TypeOK', Accounted, SamePush, NEW p \in Packets, p.bytes = <<>>,
           outbox' = Append(outbox, p), UNCHANGED <<rx, guest>>
    PROVE  Accounted'
  <1> SUFFICES ASSUME guest'.open PROVE \E f, n : Links(f)' /\ n = f[InFlight' + 1] /\ AllSent(n)'
    BY Zenon DEF Accounted
  <1>1. PICK f, n : Links(f) /\ n = f[InFlight + 1] /\ AllSent(n)
    BY Zenon DEF Accounted
  <1>2. PICK g : Links(g)' /\ g[InFlight' + 1] = f[InFlight + 1] + Len(p.bytes)
    <2>1. Follows(p.bytes, f[InFlight + 1])
      BY EmptySeq, SMTT(30) DEF Follows
    <2>2. QED BY <1>1, <2>1, LinksAppend, Zenon
  <1>4. AllSent(n)'
    BY <1>1, SentSame, Zenon
  <1>5. n \in Nat
    BY <1>1, Numbers, SMTT(30) DEF Links
  <1>6. g[InFlight' + 1] = n
    BY <1>1, <1>2, <1>5, EmptySeq, SMTT(30)
  <1>7. QED BY <1>2, <1>4, <1>6, Zenon

\* Steps that touch neither the counters nor the guest's side.
LEMMA WindowQuiet ==
    ASSUME WindowInv, TypeOK', WriterOK', SamePush, UNCHANGED <<rx, tx, guest, peer_fwd_cnt>>,
           \/ outbox' = outbox
           \/ \E p \in Packets : p.bytes = <<>> /\ outbox' = Append(outbox, p)
    PROVE  WindowInv'
  <1>1. Accounted'
    BY AccountedQuiet, AccountedPush, Zenon DEF WindowInv
  <1>2. FwdOrder'
    BY OrderSame DEF WindowInv
  <1>3. QED BY <1>1, <1>2, Zenon DEF WindowInv, SamePush

\* write_all reserves no more than what the guest's window leaves.
LEMMA WindowReserve ==
    ASSUME WindowInv, TypeOK', WriterOK', NEW t \in Threads, Reserve(t)
    PROVE  WindowInv'
  <1> USE DEF WindowInv
  <1>1. bytes_written - peer_fwd_cnt \in 0..GUEST_BUF_ALLOC
    <2>1. /\ bytes_written \in Nat /\ peer_fwd_cnt \in Nat /\ guest.consumed \in Nat
          /\ peer_fwd_cnt <= guest.consumed /\ guest.consumed <= bytes_written
          /\ bytes_written - peer_fwd_cnt <= GUEST_BUF_ALLOC
      BY Numbers, Zenon DEF FwdOrder
    <2>2. QED BY <2>1, WindowAssumption, SMTT(30)
  <1>2. Available = GUEST_BUF_ALLOC - (bytes_written - peer_fwd_cnt)
    <2>1. WrappingSub(bytes_written, peer_fwd_cnt) = bytes_written - peer_fwd_cnt
      <3>1. bytes_written \in Nat /\ peer_fwd_cnt \in Nat
        BY Numbers, Zenon
      <3>2. QED BY <1>1, <3>1, WindowAssumption, WrappingSubExact, SMTT(30)
    <2>2. QED BY <1>1, <2>1, WindowAssumption, SMTT(30) DEF Available, SaturatingSub
  <1>3. left[t] > 0 /\ Available > 0
    BY DEF Reserve, WriterOK
  <1>4. PICK k : k = Take(t)
    OBVIOUS
  <1>5. k \in Nat /\ k <= Available
    BY <1>3, <1>4, TakeType, Zenon
  <1>6. /\ bytes_written' = bytes_written + k
        /\ hand' = [hand EXCEPT ![t] = [n |-> k, fwd |-> FwdCnt]]
        /\ pc' = [pc EXCEPT ![t] = "push"]
        /\ UNCHANGED <<rx, outbox, guest, tx, peer_fwd_cnt>>
    BY <1>4 DEF Reserve
  <1>7. Accounted'
    <2> SUFFICES ASSUME guest'.open PROVE \E f, n : Links(f)' /\ n = f[InFlight' + 1] /\ AllSent(n)'
      BY Zenon DEF Accounted
    <2>1. PICK f, n : Links(f) /\ n = f[InFlight + 1] /\ AllSent(n)
      BY <1>6, Zenon DEF Accounted
    <2>2. Links(f)' /\ InFlight' = InFlight
      <3>1. Follows(guest'.buffer, guest'.consumed)
        BY <1>6, <2>1, Zenon DEF Links
      <3>2. QED BY <1>6, <2>1, <3>1, LinksSame, Zenon
    <2>4. \A u \in Threads : u # t => pc[u] # "push"
      BY <1>3, Zenon DEF WriterOK
    <2>5. pc[t] # "push"
      BY Zenon DEF Reserve
    <2>6. n = bytes_written
      BY <2>1, <2>4, <2>5, Zenon DEF AllSent
    <2>7. pc'[t] = "push" /\ hand'[t].n = k /\ \A u \in Threads : u # t => pc'[u] # "push"
      BY <1>6, <2>4, Zenon DEF TypeOK, ThreadType
    <2>8. n = bytes_written' - k
      BY <1>5, <1>6, <2>6, Numbers, SMTT(30)
    <2>9. AllSent(n)'
      BY <2>7, <2>8, Zenon DEF AllSent
    <2>10. QED BY <2>1, <2>2, <2>9, Zenon
  <1>8. FwdOrder'
    BY <1>6, OrderSame, Zenon
  <1>9. guest'.consumed <= bytes_written' /\ bytes_written' - peer_fwd_cnt' <= GUEST_BUF_ALLOC
    <2>1. k <= GUEST_BUF_ALLOC - (bytes_written - peer_fwd_cnt)
      BY <1>2, <1>5
    <2>2. guest.consumed <= bytes_written + k
      BY <1>5, Numbers, SMTT(30)
    <2>3. (bytes_written + k) - peer_fwd_cnt <= GUEST_BUF_ALLOC
      BY <1>5, <2>1, Numbers, WindowAssumption, SMTT(30)
    <2>4. guest' = guest /\ bytes_written' = bytes_written + k /\ peer_fwd_cnt' = peer_fwd_cnt
      BY <1>6
    <2>5. guest'.consumed <= bytes_written'
      BY <2>2, <2>4, Zenon
    <2>6. bytes_written' - peer_fwd_cnt' <= GUEST_BUF_ALLOC
      BY <2>3, <2>4, Zenon
    <2>7. QED BY <2>5, <2>6
  <1>10. QED BY <1>7, <1>8, <1>9, Zenon

\* The reserved bytes join the bytes under way.
LEMMA WindowPush ==
    ASSUME WindowInv, TypeOK', WriterOK', NEW t \in Threads, PushData(t)
    PROVE  WindowInv'
  <1> USE DEF WindowInv
  <1>1. UNCHANGED <<rx, guest, tx, peer_fwd_cnt, bytes_written>>
    BY Zenon DEF PushData, connVars
  <1>2. /\ pc[t] = "push" /\ hand[t].n \in Nat /\ hand[t].fwd \in Nat
        /\ hand[t].n > 0 /\ hand[t].n <= left[t] /\ hand[t].n <= bytes_written
    BY HandType, Zenon DEF PushData, WriterOK, TypeOK, ThreadType
  <1>3. PICK p : p = Packet("RW", Positions(bytes_written - hand[t].n, hand[t].n), hand[t].fwd)
    BY Zenon
  <1>4. p \in Packets /\ Len(p.bytes) = hand[t].n
    <2>1. bytes_written - hand[t].n \in Nat
      BY <1>2, Numbers, SMTT(30)
    <2>2. /\ Positions(bytes_written - hand[t].n, hand[t].n) \in Seq(Nat)
          /\ Len(Positions(bytes_written - hand[t].n, hand[t].n)) = hand[t].n
      BY <1>2, <2>1, PositionsType, Zenon
    <2>3. p \in Packets
      BY <1>2, <1>3, <2>2, PacketType, Zenon
    <2>4. p.bytes = Positions(bytes_written - hand[t].n, hand[t].n)
      BY <1>3, Zenon DEF Packet
    <2>5. QED BY <2>2, <2>3, <2>4, Zenon
  <1>5. outbox' = Append(outbox, p)
    BY <1>3, Zenon DEF PushData
  <1>6. \A u \in Threads : pc'[u] # "push"
    <2>1. \A u \in Threads : u # t => pc[u] # "push"
      <3>1. left[t] \in Nat /\ left[t] > 0
        BY <1>2, SMTT(30) DEF TypeOK, ThreadType
      <3>2. QED BY <3>1, Zenon DEF WriterOK
    <2>2. pc'[t] \in {"idle", "write"} /\ \A u \in Threads : u # t => pc'[u] = pc[u]
      BY Zenon DEF PushData, TypeOK, ThreadType
    <2>3. QED BY <2>1, <2>2, Zenon
  <1>7. Accounted'
    <2> SUFFICES ASSUME guest'.open PROVE \E f, n : Links(f)' /\ n = f[InFlight' + 1] /\ AllSent(n)'
      BY DEF Accounted
    <2>1. PICK f, n : Links(f) /\ n = f[InFlight + 1] /\ AllSent(n)
      BY <1>1, Zenon DEF Accounted
    <2>4. n = bytes_written - hand[t].n
      BY <1>2, <2>1, Zenon DEF AllSent
    <2>3. Follows(p.bytes, f[InFlight + 1])
      <3>1. p.bytes = Positions(n, hand[t].n)
        BY <1>3, <2>4, Zenon DEF Packet
      <3>2. n \in Nat
        <4>1. bytes_written \in Nat
          BY Numbers, Zenon
        <4>2. QED BY <1>2, <2>4, <4>1, SMTT(30)
      <3>3. Follows(Positions(n, hand[t].n), n)
        BY <1>2, <3>2, PositionsFollow, Zenon
      <3>4. QED BY <2>1, <3>1, <3>3, Zenon
    <2>2. PICK g : Links(g)' /\ g[InFlight' + 1] = f[InFlight + 1] + Len(p.bytes)
      BY <1>1, <1>4, <1>5, <2>1, <2>3, LinksAppend, Zenon
    <2>5. PICK m : m = n + hand[t].n
      BY Zenon
    <2>6. m = bytes_written'
      <3>1. bytes_written \in Nat
        BY Numbers, Zenon
      <3>2. QED BY <1>1, <1>2, <2>4, <2>5, <3>1
    <2>7. AllSent(m)'
      BY <1>6, <2>6 DEF AllSent
    <2>8. g[InFlight' + 1] = m
      BY <1>4, <2>1, <2>2, <2>5, Zenon
    <2>9. QED BY <2>2, <2>7, <2>8, Zenon
  <1>8. FwdOrder'
    BY <1>1, OrderSame, Zenon
  <1>9. QED BY <1>1, <1>7, <1>8, Zenon

\* A packet of the guest arrives: its count is neither behind the last one nor ahead of the
\* bytes written.
LEMMA WindowHandle ==
    ASSUME WindowInv, TypeOK', WriterOK', Handle
    PROVE  WindowInv'
  <1> USE DEF WindowInv
  <1>1. SamePush
    BY WokenType, Zenon DEF Handle, SamePush
  <1>2. Accounted'
    <2>1. PICK p \in Packets : p.bytes = <<>> /\ p = Packet("RST", <<>>, 0)
      <3>1. Packet("RST", <<>>, 0) \in Packets
        BY EmptySeq, PacketType, Zenon
      <3>2. QED BY <3>1 DEF Packet
    <2>2. UNCHANGED <<rx, guest>> /\ (outbox' = outbox \/ outbox' = Append(outbox, p))
      BY <2>1 DEF Handle
    <2>3. QED BY <1>1, <2>1, <2>2, AccountedQuiet, AccountedPush, Zenon
  <1>3. /\ tx # <<>> /\ tx' = Tail(tx) /\ guest' = guest /\ bytes_written' = bytes_written
        /\ (peer_fwd_cnt' = peer_fwd_cnt \/ peer_fwd_cnt' = tx[1].fwd_cnt)
    BY Numbers DEF Handle
  <1>4. /\ Len(tx) > 0 /\ Len(tx') = Len(tx) - 1
        /\ \A i \in 1..Len(tx') : tx'[i] = tx[i + 1]
        /\ \A i \in 1..Len(tx) : tx[i].fwd_cnt \in Nat
    BY <1>3, Numbers, HeadTailProperties, ElementOfSeq, PacketFields, SMTT(30)
  <1>5. peer_fwd_cnt <= peer_fwd_cnt' /\ peer_fwd_cnt' <= guest.consumed
    BY <1>3, <1>4, Numbers, SMTT(30) DEF FwdOrder
  <1>6. \A i \in 1..Len(tx') : peer_fwd_cnt' <= tx[i + 1].fwd_cnt
    <2> TAKE i \in 1..Len(tx')
    <2>1. i + 1 \in 1..Len(tx) /\ 1 \in 1..Len(tx) /\ 1 <= i + 1
      BY <1>4, Numbers, SMTT(30)
    <2>2. tx[1].fwd_cnt <= tx[i + 1].fwd_cnt /\ peer_fwd_cnt <= tx[i + 1].fwd_cnt
      BY <2>1, Zenon DEF FwdOrder
    <2>3. QED BY <1>3, <2>2, Zenon
  <1>7. FwdOrder'
    <2>1. \A i \in 1..Len(tx') : i + 1 \in 1..Len(tx)
      BY <1>4, Numbers, SMTT(30)
    <2>2. \A i \in 1..Len(tx') : peer_fwd_cnt' <= tx'[i].fwd_cnt /\ tx'[i].fwd_cnt <= guest'.consumed
      BY <1>3, <1>4, <1>6, <2>1, Zenon DEF FwdOrder
    <2>3. \A i, j \in 1..Len(tx') : i <= j => tx'[i].fwd_cnt <= tx'[j].fwd_cnt
      <3> SUFFICES ASSUME NEW i \in 1..Len(tx'), NEW j \in 1..Len(tx'), i <= j
                   PROVE  tx[i + 1].fwd_cnt <= tx[j + 1].fwd_cnt
        BY <1>4, Zenon
      <3>1. i + 1 <= j + 1
        BY <1>4, Numbers, SMTT(30)
      <3>2. QED BY <2>1, <3>1, Zenon DEF FwdOrder
    <2>4. QED BY <1>3, <1>5, <2>2, <2>3, Zenon DEF FwdOrder
  <1>8. bytes_written' - peer_fwd_cnt' <= GUEST_BUF_ALLOC
    <2>1. peer_fwd_cnt' \in Nat
      BY Zenon DEF TypeOK, ConnType
    <2>2. QED BY <1>3, <1>5, <2>1, Numbers, WindowAssumption, SMTT(30)
  <1>9. QED BY <1>2, <1>3, <1>7, <1>8, Zenon

\* The other steps of the device.
LEMMA WindowDevice ==
    ASSUME WindowInv, TypeOK', WriterOK', AnswerCredit \/ EndFromPeer \/ Poll \/ Reset
    PROVE  WindowInv'
  <1> USE DEF WindowInv
  <1>1. CASE AnswerCredit
    <2>1. main.fwd \in Nat
      BY Zenon DEF TypeOK, QueueType
    <2>2. PICK p \in Packets : p.bytes = <<>> /\ p = Packet("CREDIT_UPDATE", <<>>, main.fwd)
      <3>1. Packet("CREDIT_UPDATE", <<>>, main.fwd) \in Packets
        BY <2>1, EmptySeq, PacketType, Zenon
      <3>2. QED BY <3>1, Zenon DEF Packet
    <2>3. SamePush /\ UNCHANGED <<rx, tx, guest, peer_fwd_cnt>> /\ outbox' = Append(outbox, p)
      BY <1>1, <2>2, Zenon DEF AnswerCredit, SamePush, threadVars, connVars
    <2>4. QED BY <2>2, <2>3, WindowQuiet, Zenon
  <1>2. CASE EndFromPeer
    <2>1. SamePush /\ UNCHANGED <<rx, tx, guest, peer_fwd_cnt, outbox>>
      BY <1>2, WokenType, Zenon DEF EndFromPeer, SamePush
    <2>2. QED BY <2>1, WindowQuiet, Zenon
  <1>3. CASE Poll
    <2>1. SamePush /\ UNCHANGED <<tx, guest, peer_fwd_cnt, bytes_written>>
      BY <1>3 DEF Poll, SamePush, threadVars, connVars
    <2>2. Accounted'
      <3> SUFFICES ASSUME guest'.open PROVE \E f, n : Links(f)' /\ n = f[InFlight' + 1] /\ AllSent(n)'
        BY DEF Accounted
      <3>1. PICK f, n : Links(f) /\ n = f[InFlight + 1] /\ AllSent(n)
        BY <2>1, Zenon DEF Accounted
      <3>2. Links(f)' /\ InFlight' = InFlight
        BY <1>3, <3>1, LinksPoll, Zenon
      <3>3. AllSent(n)'
        BY <2>1, <3>1, SentSame, Zenon
      <3>4. QED BY <3>1, <3>2, <3>3, Zenon
    <2>3. FwdOrder'
      BY <2>1, OrderSame, Zenon
    <2>4. QED BY <2>1, <2>2, <2>3, Zenon
  <1>4. CASE Reset
    <2>1. UNCHANGED <<peer_fwd_cnt, bytes_written>> /\ tx' = <<>>
      BY <1>4 DEF Reset
    <2>2. guest'.open = FALSE /\ guest'.consumed = guest.consumed
      BY <1>4, Zenon DEF Reset, TypeOK, GuestType
    <2>3. FwdOrder'
      <3>1. Len(tx') = 0
        BY <2>1, EmptySeq, Zenon
      <3>2. ~\E i \in 1..Len(tx') : TRUE
        BY <3>1
      <3>3. FwdOrder
        BY Zenon
      <3>4. QED BY <2>1, <2>2, <3>2, <3>3, Zenon DEF FwdOrder
    <2>4. QED BY <2>1, <2>2, <2>3, Zenon DEF Accounted
  <1>5. QED BY <1>1, <1>2, <1>3, <1>4, Zenon

\* Steps of the guest.
LEMMA WindowGuest ==
    ASSUME WindowInv, TypeOK', WriterOK', Guest \/ GuestSend \/ GuestAsk \/ GuestEnd
    PROVE  WindowInv'
  <1> USE DEF WindowInv
  <1>1. SamePush /\ UNCHANGED <<outbox, peer_fwd_cnt, bytes_written>>
    BY Zenon DEF Guest, GuestReceive, GuestConsume, GuestSend, GuestAsk, GuestEnd, SamePush,
           connVars, threadVars
  <1>2. guest'.consumed \in Nat /\ <<>> \in Seq(Nat)
    BY EmptySeq, Zenon DEF TypeOK, GuestType
  <1>3. \A op \in {"RW", "CREDIT_UPDATE", "CREDIT_REQUEST", "SHUTDOWN", "RST"}, b \in Seq(Nat) :
          GuestPacket(op, b) \in Packets /\ GuestPacket(op, b).fwd_cnt = guest.consumed
    <2> TAKE op \in {"RW", "CREDIT_UPDATE", "CREDIT_REQUEST", "SHUTDOWN", "RST"}, b \in Seq(Nat)
    <2>1. GuestPacket(op, b) \in Packets
      BY Numbers, PacketType, Zenon DEF GuestPacket
    <2>2. QED BY <2>1, Zenon DEF GuestPacket, Packet
  <1>4. CASE GuestReceive
    <2>1. rx # <<>> /\ rx' = Tail(rx)
      BY <1>4, Zenon DEF GuestReceive
    <2>2. CASE ~guest.open
      <3>1. guest' = guest /\ tx' = tx
        BY <1>4, <2>2, Zenon DEF GuestReceive
      <3>2. FwdOrder' /\ Accounted'
        BY <1>1, <2>2, <3>1, OrderSame, Zenon DEF Accounted
      <3>3. QED BY <1>1, <3>1, <3>2
    <2>3. CASE guest.open
      <3>1. guest'.consumed = guest.consumed /\ guest'.buffer = guest.buffer \o Head(rx).bytes
        BY <1>4, <2>3, Zenon DEF GuestReceive, TypeOK, GuestType
      <3>2. Accounted'
        <4> SUFFICES ASSUME guest'.open
                     PROVE  \E f, n : Links(f)' /\ n = f[InFlight' + 1] /\ AllSent(n)'
          BY DEF Accounted
        <4>1. PICK f, n : Links(f) /\ n = f[InFlight + 1] /\ AllSent(n)
          BY <2>3, Zenon DEF Accounted
        <4>2. PICK g : Links(g)' /\ g[InFlight' + 1] = f[InFlight + 1]
          BY <1>1, <2>1, <3>1, <4>1, LinksReceive, Zenon
        <4>3. AllSent(n)'
          BY <1>1, <4>1, SentSame
        <4>4. QED BY <4>1, <4>2, <4>3
      <3>3. tx' = tx \/ tx' = Append(tx, GuestPacket("RST", <<>>))
        BY <1>4, <2>3, Zenon DEF GuestReceive
      <3>4. FwdOrder'
        <4>1. CASE tx' = tx
          BY <1>1, <3>1, <4>1, OrderSame, Zenon
        <4>2. CASE tx' = Append(tx, GuestPacket("RST", <<>>))
          <5>1. PICK p \in Packets : p = GuestPacket("RST", <<>>) /\ p.fwd_cnt = guest.consumed
            BY <1>2, <1>3, Zenon
          <5>2. QED BY <1>1, <1>2, <3>1, <4>2, <5>1, Numbers, OrderAppend, SMTT(30)
        <4>3. QED BY <3>3, <4>1, <4>2, Zenon
      <3>5. QED BY <1>1, <3>1, <3>2, <3>4, Zenon
    <2>4. QED BY <2>2, <2>3
  <1>5. CASE GuestConsume
    <2>1. guest'.consumed = guest.consumed + Len(guest.buffer) /\ guest'.buffer = <<>>
      BY <1>5, Numbers DEF GuestConsume, TypeOK, GuestType
    <2>2. guest.open /\ rx' = rx
      BY <1>5 DEF GuestConsume
    <2>3. PICK f, n : Links(f) /\ n = f[InFlight + 1] /\ AllSent(n)
      BY <2>2 DEF Accounted
    <2>4. Accounted'
      <3>1. guest'.consumed + Len(guest'.buffer) = guest.consumed + Len(guest.buffer)
        BY <2>1, Numbers, EmptySeq, SMTT(30)
      <3>2. Links(f)' /\ InFlight' = InFlight
        <4>1. Follows(guest'.buffer, guest'.consumed)
          BY <2>1, EmptySeq, SMTT(30) DEF Follows
        <4>2. QED BY <1>1, <2>2, <2>3, <3>1, <4>1, LinksSame, Zenon
      <3>3. AllSent(n)'
        BY <1>1, <2>3, SentSame, Zenon
      <3>4. QED BY <2>3, <3>2, <3>3, Zenon DEF Accounted
    <2>5. FwdOrder'
      <3>1. Packet("CREDIT_UPDATE", <<>>, guest'.consumed) \in Packets
        BY <1>2, PacketType, Zenon
      <3>2. PICK p \in Packets : p = Packet("CREDIT_UPDATE", <<>>, guest'.consumed)
                                 /\ p.fwd_cnt = guest'.consumed
        BY <3>1 DEF Packet
      <3>3. tx' = Append(tx, p)
        BY <1>5, <3>2 DEF GuestConsume
      <3>4. guest.consumed <= guest'.consumed
        BY <2>1, Numbers, SMTT(30)
      <3>5. QED BY <1>1, <1>2, <3>2, <3>3, <3>4, OrderAppend, Zenon
    <2>6. guest'.consumed <= bytes_written'
      BY <1>1, <2>1, <2>3, ConsumedIsWritten, Zenon
    <2>7. QED BY <1>1, <2>4, <2>5, <2>6
  <1>6. CASE GuestSend \/ GuestAsk \/ GuestEnd
    <2>1. guest'.consumed = guest.consumed /\ guest'.buffer = guest.buffer
      BY <1>6, Zenon DEF GuestSend, GuestAsk, GuestEnd, TypeOK, GuestType
    <2>2. rx' = rx /\ guest.open
      BY <1>6 DEF GuestSend, GuestAsk, GuestEnd
    <2>3. PICK p \in Packets : tx' = Append(tx, p) /\ p.fwd_cnt = guest.consumed
      <3>1. CASE GuestSend
        <4>1. PICK k \in 1..Least(GuestCredit, GuestBytes - guest.sent) :
                tx' = Append(tx, GuestPacket("RW", Positions(guest.sent, k)))
          BY <3>1 DEF GuestSend
        <4>2. Positions(guest.sent, k) \in Seq(Nat)
          <5>1. guest.sent \in Nat
            BY DEF TypeOK, GuestType
          <5>2. QED BY <5>1, PositionsType, SMTT(30)
        <4>3. QED BY <1>3, <4>1, <4>2
      <3>2. CASE GuestAsk
        BY <1>2, <1>3, <3>2, Zenon DEF GuestAsk
      <3>3. CASE GuestEnd
        <4>1. PICK op \in {"SHUTDOWN", "RST"} : tx' = Append(tx, GuestPacket(op, <<>>))
          BY <3>3 DEF GuestEnd
        <4>2. QED BY <1>2, <1>3, <4>1, Zenon
      <3>4. QED BY <1>6, <3>1, <3>2, <3>3
    <2>4. FwdOrder'
      BY <1>1, <1>2, <2>1, <2>3, Numbers, OrderAppend, SMTT(30)
    <2>5. Accounted'
      <3>1. PICK f, n : Links(f) /\ n = f[InFlight + 1] /\ AllSent(n)
        BY <2>2, Zenon DEF Accounted
      <3>2. Links(f)' /\ InFlight' = InFlight
        <4>1. Follows(guest'.buffer, guest'.consumed)
          BY <2>1, <3>1, Zenon DEF Links
        <4>2. QED BY <1>1, <2>1, <2>2, <3>1, <4>1, LinksSame, Zenon
      <3>3. AllSent(n)'
        BY <1>1, <3>1, SentSame, Zenon
      <3>4. QED BY <3>1, <3>2, <3>3, Zenon DEF Accounted
    <2>6. QED BY <1>1, <2>1, <2>4, <2>5, Zenon
  <1>7. QED BY <1>4, <1>5, <1>6, Zenon DEF Guest

\* Steps of a host thread, and the deadline.
LEMMA WindowThread ==
    ASSUME WindowInv, TypeOK', WriterOK', NEW t \in Threads,
           Thread(t) \/ BeginRead(t) \/ BeginWrite(t) \/ Close(t)
    PROVE  WindowInv'
  <1> USE DEF WindowInv
  <1>1. CASE PushCredit(t) \/ PushShutdown(t)
    <2>1. SamePush
      BY <1>1, Zenon DEF PushCredit, PushShutdown, SamePush, connVars, TypeOK, ThreadType
    <2>2. hand[t].fwd \in Nat
      BY HandType, Zenon DEF TypeOK, ThreadType
    <2>3. \A op \in {"CREDIT_UPDATE", "SHUTDOWN"} :
            Packet(op, <<>>, hand[t].fwd) \in Packets /\ Packet(op, <<>>, hand[t].fwd).bytes = <<>>
      <3> TAKE op \in {"CREDIT_UPDATE", "SHUTDOWN"}
      <3>1. Packet(op, <<>>, hand[t].fwd) \in Packets
        BY <2>2, EmptySeq, PacketType, Zenon
      <3>2. QED BY <3>1, Zenon DEF Packet
    <2>4. \E op \in {"CREDIT_UPDATE", "SHUTDOWN"} :
            outbox' = Append(outbox, Packet(op, <<>>, hand[t].fwd))
      BY <1>1 DEF PushCredit, PushShutdown
    <2>5. \E p \in Packets : p.bytes = <<>> /\ outbox' = Append(outbox, p)
      BY <2>3, <2>4, Zenon
    <2>6. UNCHANGED <<rx, tx, guest, peer_fwd_cnt>>
      BY <1>1, Zenon DEF PushCredit, PushShutdown, connVars
    <2>7. QED BY <2>1, <2>5, <2>6, WindowQuiet, Zenon
  <1>2. CASE ReadTake(t)
    <2>1. SamePush
      BY <1>2, Zenon DEF ReadTake, SamePush, TypeOK, ThreadType
    <2>2. QED BY <1>2, <2>1, WindowQuiet, Zenon DEF ReadTake
  <1>3. CASE ReadEnd(t) \/ ReadTimeout(t) \/ ReadWait(t) \/ BeginRead(t)
    <2>1. SamePush
      BY <1>3, Zenon DEF ReadEnd, ReadTimeout, ReadWait, BeginRead, SamePush, connVars, TypeOK, ThreadType
    <2>2. UNCHANGED <<rx, tx, guest, peer_fwd_cnt, outbox>>
      BY <1>3, Zenon DEF ReadEnd, ReadTimeout, ReadWait, BeginRead, connVars
    <2>3. QED BY <2>1, <2>2, WindowQuiet, Zenon
  <1>4. CASE BeginWrite(t) \/ WriteWait(t) \/ WriteFails(t)
    <2>1. SamePush
      BY <1>4, Zenon DEF BeginWrite, WriteWait, WriteFails, SamePush, connVars, TypeOK, ThreadType
    <2>2. UNCHANGED <<rx, tx, guest, peer_fwd_cnt, outbox>>
      BY <1>4, Zenon DEF BeginWrite, WriteWait, WriteFails, connVars
    <2>3. QED BY <2>1, <2>2, WindowQuiet, Zenon
  <1>5. CASE Close(t)
    <2>1. SamePush
      BY <1>5, WokenType, Zenon DEF Close, SamePush, TypeOK, ThreadType
    <2>2. QED BY <1>5, <2>1, WindowQuiet, Zenon DEF Close
  <1>6. QED BY <1>1, <1>2, <1>3, <1>4, <1>5, WindowReserve, WindowPush, Zenon DEF Thread

LEMMA WindowNext == WindowInv /\ [Next]_vars => WindowInv'
  <1> SUFFICES ASSUME WindowInv, [Next]_vars PROVE WindowInv'
    OBVIOUS
  <1>1. TypeOK' /\ WriterOK'
    BY TypeNext, Zenon DEF WindowInv
  <1>2. ASSUME NEW t \in Threads, Thread(t) \/ BeginRead(t) \/ BeginWrite(t) \/ Close(t)
        PROVE  WindowInv'
    BY <1>1, <1>2, WindowThread, Zenon
  <1>3. CASE Device \/ Reset
    BY <1>1, <1>3, WindowHandle, WindowDevice, Zenon DEF Device
  <1>4. CASE SetDeadline \/ DeadlinePasses
    <2>1. SamePush
      BY <1>4, Zenon DEF SetDeadline, DeadlinePasses, SamePush, threadVars, WindowInv, TypeOK, ThreadType
    <2>2. UNCHANGED <<rx, tx, guest, peer_fwd_cnt, outbox>>
      BY <1>4 DEF SetDeadline, DeadlinePasses
    <2>3. QED BY <1>1, <2>1, <2>2, WindowQuiet, Zenon
  <1>5. CASE Guest \/ GuestSend \/ GuestAsk \/ GuestEnd
    BY <1>1, <1>5, WindowGuest, Zenon
  <1>6. CASE UNCHANGED vars
    BY <1>1, <1>6, WindowQuiet, Zenon DEF vars, threadVars, connVars, SamePush
  <1>7. QED BY <1>2, <1>3, <1>4, <1>5, <1>6, Zenon DEF Next

LEMMA WindowInit == Init => WindowInv
  <1> SUFFICES ASSUME Init PROVE WindowInv
    OBVIOUS
  <1>1. TypeOK /\ WriterOK
    BY TypeInit, Zenon
  <1>2. Len(tx) = 0 /\ InFlight = 0 /\ Len(guest.buffer) = 0
    BY EmptySeq, SMTT(30) DEF Init, InFlight
  <1>3. guest.consumed = 0 /\ bytes_written = 0 /\ peer_fwd_cnt = 0
    BY Zenon DEF Init
  <1>4. FwdOrder
    BY <1>2, <1>3 DEF FwdOrder
  <1>5. Accounted
    <2> DEFINE f == [i \in {1} |-> 0]
    <2>1. Links(f)
      BY <1>2, <1>3 DEF Links, Follows
    <2>2. f[InFlight + 1] = 0
      BY <1>2, SMTT(30)
    <2>3. AllSent(0)
      BY <1>3 DEF AllSent, Init
    <2>4. QED BY <2>1, <2>2, <2>3, Zenon DEF Accounted
  <1>6. QED BY <1>1, <1>3, <1>4, <1>5, WindowAssumption DEF WindowInv

\* write_all keeps to the window the guest granted, whatever the interleaving of its threads
\* with the device and the guest, across wraps of the u32 counters, for every instance.
THEOREM GuestWindowHolds == Spec => []GuestWindow
  <1>1. Init => WindowInv
    BY WindowInit
  <1>2. WindowInv /\ [Next]_vars => WindowInv'
    BY WindowNext
  <1>3. WindowInv => GuestWindow
    <2> SUFFICES ASSUME WindowInv PROVE GuestWindow
      BY Zenon
    <2>1. peer_fwd_cnt <= guest.consumed /\ bytes_written - peer_fwd_cnt <= GUEST_BUF_ALLOC
      BY DEF WindowInv, FwdOrder
    <2>2. bytes_written \in Nat /\ peer_fwd_cnt \in Nat /\ guest.consumed \in Nat
      BY Numbers, Zenon DEF WindowInv
    <2>3. QED BY <2>1, <2>2, WindowAssumption DEF GuestWindow
  <1>4. QED BY <1>1, <1>2, <1>3, PTL DEF Spec

-----------------------------------------------------------------------------
(* The bytes under way to the host *)

\* g[i] is the stream position before the i-th packet the guest has queued, whose bytes go on from there.
UpLinks(g) ==
    /\ g \in [1..(Len(tx) + 1) -> Nat]
    /\ g[1] = bytes_read + Len(incoming)
    /\ \A i \in 1..Len(tx) : g[i + 1] = g[i] + Len(tx[i].bytes)
    /\ \A i \in 1..Len(tx) : Follows(tx[i].bytes, g[i])
    /\ \A i, j \in 1..(Len(tx) + 1) : i <= j => g[i] <= g[j]
    /\ g[Len(tx) + 1] = guest.sent

\* What the readers were handed, what is buffered and what is queued are one run of bytes, which
\* ends, while the registry still finds the connection, with the last byte the guest sent.
UpInv ==
    /\ hostGot = Positions(0, bytes_read)
    /\ Follows(incoming, bytes_read)
    /\ bytes_read + Len(incoming) <= guest.sent
    /\ \A i \in 1..Len(tx) : tx[i].op # "RW" => tx[i].bytes = <<>>
    /\ registered => \E g : UpLinks(g)

LEMMA UpNumbers ==
    ASSUME TypeOK
    PROVE  /\ bytes_read \in Nat /\ incoming \in Seq(Nat) /\ Len(incoming) \in Nat /\ hostGot \in Seq(Nat)
           /\ guest.sent \in Nat /\ guest.consumed \in Nat /\ tx \in Seq(Packets) /\ Len(tx) \in Nat
           /\ \A i \in 1..Len(tx) : tx[i] \in Packets /\ tx[i].bytes \in Seq(Nat) /\ Len(tx[i].bytes) \in Nat
  <1>1. bytes_read \in Nat /\ incoming \in Seq(Nat) /\ hostGot \in Seq(Nat) /\ tx \in Seq(Packets)
    BY DEF TypeOK, ConnType, ThreadType, QueueType
  <1>2. guest.sent \in Nat /\ guest.consumed \in Nat
    BY DEF TypeOK, GuestType
  <1>3. Len(incoming) \in Nat /\ Len(tx) \in Nat
    BY <1>1, LenProperties
  <1>4. \A i \in 1..Len(tx) : tx[i] \in Packets
    BY <1>1, ElementOfSeq, Zenon
  <1>5. \A i \in 1..Len(tx) : tx[i].bytes \in Seq(Nat)
    BY <1>4, PacketFields
  <1>6. \A i \in 1..Len(tx) : Len(tx[i].bytes) \in Nat
    BY <1>5, LenProperties, Zenon
  <1>7. QED BY <1>1, <1>2, <1>3, <1>4, <1>5, <1>6, Zenon

\* Steps that leave this direction alone.
LEMMA UpQuiet ==
    ASSUME UpInv, UNCHANGED <<incoming, bytes_read, hostGot, tx>>, guest'.sent = guest.sent,
           registered' => registered
    PROVE  UpInv'
  <1>1. \A g : UpLinks(g) => UpLinks(g)'
    BY Zenon DEF UpLinks, Follows
  <1>2. (registered => \E g : UpLinks(g))'
    BY <1>1, Zenon DEF UpInv
  <1>3. QED BY <1>2, Zenon DEF UpInv, Follows, Positions

\* The guest queues a packet: its bytes, if any, go on where the stream ends.
LEMMA UpAppend ==
    ASSUME TypeOK, UpInv, NEW p \in Packets, tx' = Append(tx, p),
           p.op # "RW" => p.bytes = <<>>,
           Follows(p.bytes, guest.sent), guest'.sent = guest.sent + Len(p.bytes),
           UNCHANGED <<incoming, bytes_read, hostGot, registered>>
    PROVE  UpInv'
  <1>n. PICK n : n = Len(tx)
    BY Zenon
  <1>p. p.bytes \in Seq(Nat) /\ Len(p.bytes) \in Nat
    BY PacketFields, LenProperties, Zenon
  <1>1. n \in Nat /\ Len(tx') = n + 1 /\ tx'[n + 1] = p /\ \A i \in 1..n : tx'[i] = tx[i]
    BY <1>n, UpNumbers
  <1>2. bytes_read' + Len(incoming') <= guest'.sent
    <2>1. bytes_read + Len(incoming) <= guest.sent + Len(p.bytes)
      <3>1. /\ bytes_read \in Nat /\ Len(incoming) \in Nat /\ guest.sent \in Nat
            /\ bytes_read + Len(incoming) <= guest.sent
        BY UpNumbers, Zenon DEF UpInv
      <3>2. QED BY <1>p, <3>1, SMTT(30)
    <2>2. QED BY <2>1, Zenon
  <1>3. \A i \in 1..Len(tx') : tx'[i].op # "RW" => tx'[i].bytes = <<>>
    <2> TAKE i \in 1..Len(tx')
    <2>1. CASE i \in 1..n
      BY <1>n, <1>1, <2>1, Zenon DEF UpInv
    <2>2. CASE i = n + 1
      BY <1>1, <2>2, Zenon
    <2>3. QED BY <1>1, <2>1, <2>2
  <1>4. ASSUME registered PROVE \E g : UpLinks(g)'
    <2>1. PICK g : UpLinks(g)
      BY <1>4, Zenon DEF UpInv
    <2> DEFINE H == [i \in 1..(n + 2) |-> IF i <= n + 1 THEN g[i] ELSE g[n + 1] + Len(p.bytes)]
    <2>h. PICK h : h = H
      BY Zenon
    <2>2. g[n + 1] \in Nat /\ g[n + 1] = guest.sent
      <3>1. g \in [1..(n + 1) -> Nat] /\ g[n + 1] = guest.sent
        BY <1>n, <2>1, Zenon DEF UpLinks
      <3>2. QED BY <1>1, <3>1, SMTT(30)
    <2>3. h \in [1..(n + 2) -> Nat]
      <3>1. g \in [1..(n + 1) -> Nat]
        BY <1>n, <2>1, Zenon DEF UpLinks
      <3>2. QED BY <1>p, <1>1, <2>h, <2>2, <3>1, SMTT(30)
    <2>4. h[1] = bytes_read' + Len(incoming')
      BY <1>n, <1>1, <2>1, <2>h DEF UpLinks
    <2>5. \A i \in 1..(n + 1) : h[i] = g[i]
      BY <1>1, <2>h
    <2>6. h[n + 2] = g[n + 1] + Len(p.bytes)
      BY <1>1, <2>h
    <2>7. \A i \in 1..(n + 1) : h[i + 1] = h[i] + Len(tx'[i].bytes)
      <3> TAKE i \in 1..(n + 1)
      <3>1. CASE i <= n
        <4>1. g[i + 1] = g[i] + Len(tx[i].bytes)
          BY <1>n, <1>1, <2>1, <3>1, SMTT(30) DEF UpLinks
        <4>2. h[i + 1] = g[i + 1] /\ h[i] = g[i] /\ tx'[i] = tx[i]
          BY <1>1, <2>5, <3>1, SMTT(30)
        <4>3. QED BY <4>1, <4>2, Zenon
      <3>2. CASE i = n + 1
        <4>1. h[i + 1] = h[n + 2] /\ h[i] = g[n + 1] /\ tx'[i] = p
          BY <1>1, <2>5, <3>2, SMTT(30)
        <4>2. QED BY <2>6, <4>1, Zenon
      <3>3. QED BY <1>1, <3>1, <3>2, SMTT(30)
    <2>8. \A i \in 1..(n + 1) : Follows(tx'[i].bytes, h[i])
      <3> TAKE i \in 1..(n + 1)
      <3>1. CASE i <= n
        <4>1. h[i] = g[i] /\ tx'[i] = tx[i] /\ i \in 1..Len(tx)
          BY <1>n, <1>1, <2>5, <3>1, SMTT(30)
        <4>2. QED BY <2>1, <4>1, Zenon DEF UpLinks
      <3>2. CASE i = n + 1
        <4>1. h[i] = guest.sent /\ tx'[i] = p
          BY <1>1, <2>2, <2>5, <3>2, Zenon
        <4>2. QED BY <4>1, Zenon
      <3>3. QED BY <1>1, <3>1, <3>2, SMTT(30)
    <2>9. \A i, j \in 1..(n + 2) : i <= j => h[i] <= h[j]
      <3> SUFFICES ASSUME NEW i \in 1..(n + 2), NEW j \in 1..(n + 2), i <= j PROVE h[i] <= h[j]
        BY Zenon
      <3>1. CASE j <= n + 1
        BY <1>n, <1>1, <2>1, <2>5, <3>1, SMTT(30) DEF UpLinks
      <3>2. CASE i <= n + 1 /\ j = n + 2
        <4>0. i \in 1..(Len(tx) + 1) /\ n + 1 \in 1..(Len(tx) + 1)
          BY <1>n, <1>1, <3>2, SMTT(30)
        <4>1. g[i] <= g[n + 1] /\ g[i] \in Nat
          BY <2>1, <3>2, <4>0, Zenon DEF UpLinks
        <4>2. h[i] = g[i]
          BY <1>1, <2>5, <3>2, SMTT(30)
        <4>3. QED BY <1>p, <2>2, <2>6, <3>2, <4>1, <4>2, SMTT(30)
      <3>3. CASE i = n + 2 /\ j = n + 2
        BY <2>3, <3>3, <1>1, SMTT(30)
      <3>4. QED BY <1>1, <3>1, <3>2, <3>3, SMTT(30)
    <2>10. Len(tx') + 1 = n + 2 /\ h[n + 2] = guest'.sent
      BY <1>1, <2>2, <2>6, SMTT(30)
    <2>11. UpLinks(h)'
      BY <1>1, <2>3, <2>4, <2>7, <2>8, <2>9, <2>10, Zenon DEF UpLinks, Follows
    <2>12. QED BY <2>11, Zenon
  <1>5. QED BY <1>2, <1>3, <1>4, Zenon DEF UpInv, Follows, Positions

\* A read moves the front of the buffer to the bytes handed out.
LEMMA UpRead ==
    ASSUME TypeOK, UpInv, NEW t \in Threads, ReadTake(t)
    PROVE  UpInv'
  <1>1. PICK take \in 1..Len(incoming) :
          /\ incoming' = SubSeq(incoming, take + 1, Len(incoming))
          /\ hostGot' = hostGot \o SubSeq(incoming, 1, take)
          /\ bytes_read' = bytes_read + take
    BY Zenon DEF ReadTake, Remaining
  <1>2. UNCHANGED <<tx, guest, registered>>
    BY DEF ReadTake
  <1>k. PICK k : k = Len(incoming) /\ k \in Nat /\ take \in 1..k
    BY UpNumbers
  <1>3. /\ incoming' \in Seq(Nat) /\ Len(incoming') = k - take
        /\ \A j \in 1..(k - take) : incoming'[j] = incoming[take + j]
    <2>1. \A i \in (take + 1)..k : incoming[i] \in Nat
      BY <1>k, UpNumbers, ElementOfSeq
    <2>2. take + 1 \in Int /\ k \in Int /\ k - (take + 1) + 1 = k - take
      BY <1>k, SMTT(30)
    <2>3. /\ SubSeq(incoming, take + 1, k) \in Seq(Nat)
          /\ Len(SubSeq(incoming, take + 1, k)) = IF take + 1 <= k THEN k - (take + 1) + 1 ELSE 0
          /\ \A i \in 1..(k - (take + 1) + 1) : SubSeq(incoming, take + 1, k)[i] = incoming[take + 1 + i - 1]
      BY <2>1, <2>2, SubSeqProperties
    <2>4. incoming' = SubSeq(incoming, take + 1, k)
      BY <1>1, <1>k, Zenon
    <2>5. \A j \in 1..(k - take) : incoming'[j] = incoming[take + j]
      <3> TAKE j \in 1..(k - take)
      <3>1. take + 1 + j - 1 = take + j
        BY <1>k, SMTT(30)
      <3>2. QED BY <2>2, <2>3, <2>4, <3>1, Zenon
    <2>6. Len(incoming') = k - take
      BY <1>k, <2>3, <2>4, SMTT(30)
    <2>7. QED BY <2>3, <2>4, <2>5, <2>6, Zenon
  <1>4. Follows(incoming', bytes_read')
    <2>1. \A j \in 1..(k - take) : incoming'[j] = bytes_read + take + j
      <3>1. bytes_read \in Nat /\ \A i \in 1..k : incoming[i] = bytes_read + i
        BY <1>k, UpNumbers, Zenon DEF UpInv, Follows
      <3>2. QED BY <1>3, <1>k, <3>1, SMTT(30)
    <2>2. QED BY <1>1, <1>3, <2>1, Zenon DEF Follows
  <1>5. bytes_read' + Len(incoming') = bytes_read + Len(incoming)
    <2>1. Len(incoming') = k - take /\ bytes_read' = bytes_read + take
      BY <1>1, <1>3
    <2>2. (bytes_read + take) + (k - take) = bytes_read + k
      <3>1. bytes_read \in Nat /\ take \in Nat /\ k \in Nat
        BY <1>k, UpNumbers, SMTT(30)
      <3>2. QED BY <3>1, PlusMoves, Zenon
    <2>3. QED BY <1>k, <2>1, <2>2
  <1>6. hostGot' = Positions(0, bytes_read')
    <2>p. PICK p \in Seq(Nat) : p = SubSeq(incoming, 1, take) /\ Len(p) = take
                                /\ \A j \in 1..take : p[j] = incoming[j]
      <3>1. \A i \in 1..take : incoming[i] \in Nat
        <4>1. incoming \in Seq(Nat) /\ \A i \in 1..take : i \in 1..Len(incoming)
          BY <1>k, UpNumbers
        <4>2. QED BY <4>1, ElementOfSeq
      <3>2. /\ SubSeq(incoming, 1, take) \in Seq(Nat)
            /\ Len(SubSeq(incoming, 1, take)) = IF 1 <= take THEN take - 1 + 1 ELSE 0
            /\ \A i \in 1..(take - 1 + 1) : SubSeq(incoming, 1, take)[i] = incoming[1 + i - 1]
        BY <1>k, <3>1, SubSeqProperties
      <3>3. take \in Int /\ 1 <= take
        BY <1>k
      <3>4. take - 1 + 1 = take
        BY <3>3
      <3>5. \A i \in 1..take : 1 + i - 1 = i
        BY <3>3
      <3>6. Len(SubSeq(incoming, 1, take)) = take
        BY <3>2, <3>3, <3>4
      <3>7. \A i \in 1..take : SubSeq(incoming, 1, take)[i] = incoming[i]
        BY <3>2, <3>4, <3>5, Zenon
      <3>8. QED BY <3>2, <3>6, <3>7, Zenon
    <2>1. \A j \in 1..take : p[j] = bytes_read + j
      BY <1>k, <2>p DEF UpInv, Follows
    <2>2. Follows(p, bytes_read)
      BY <2>p, <2>1, Zenon DEF Follows
    <2>3. hostGot' = Positions(0, bytes_read) \o p
      BY <1>1, <2>p, Zenon DEF UpInv
    <2>4. QED BY <1>1, <2>p, <2>2, <2>3, <1>k, UpNumbers, PositionsConcat, Zenon
  <1>7. \A g : UpLinks(g) => UpLinks(g)'
    BY <1>2, <1>5, Zenon DEF UpLinks, Follows
  <1>8. (registered => \E g : UpLinks(g))'
    BY <1>2, <1>7 DEF UpInv
  <1>9. QED BY <1>2, <1>4, <1>5, <1>6, <1>8, Zenon DEF UpInv

\* A read leaves the end of what has arrived where it is.
LEMMA ReadKeepsEnd ==
    ASSUME TypeOK, NEW t \in Threads, ReadTake(t)
    PROVE  bytes_read' + Len(incoming') = bytes_read + Len(incoming)
  <1>1. PICK take \in 1..Len(incoming) :
          /\ incoming' = SubSeq(incoming, take + 1, Len(incoming))
          /\ bytes_read' = bytes_read + take
    BY DEF ReadTake, Remaining
  <1>k. PICK k : k = Len(incoming) /\ k \in Nat /\ take \in 1..k
    BY UpNumbers
  <1>2. \A i \in (take + 1)..k : incoming[i] \in Nat
    BY <1>k, UpNumbers, ElementOfSeq
  <1>3. take + 1 \in Int /\ k \in Int
    BY <1>k, SMTT(30)
  <1>4. Len(SubSeq(incoming, take + 1, k)) = IF take + 1 <= k THEN k - (take + 1) + 1 ELSE 0
    BY <1>2, <1>3, SubSeqProperties
  <1>5. Len(incoming') = k - take
    BY <1>1, <1>k, <1>4
  <1>6. (bytes_read + take) + (k - take) = bytes_read + k
    <2>1. bytes_read \in Nat /\ take \in Nat /\ k \in Nat
      BY <1>k, UpNumbers
    <2>2. QED BY <2>1, PlusMoves, Zenon
  <1>7. QED BY <1>1, <1>k, <1>5, <1>6, Zenon

\* The device takes the guest's oldest packet: its bytes are the next ones.
LEMMA UpHandle ==
    ASSUME TypeOK, UpInv, Handle
    PROVE  UpInv'
  <1>n. PICK n : n = Len(tx) /\ n \in Nat
    BY UpNumbers
  <1>1. tx # <<>> /\ tx' = Tail(tx) /\ UNCHANGED <<bytes_read, registered, hostGot, guest>>
    BY DEF Handle
  <1>2. n > 0 /\ Len(tx') = n - 1 /\ \A i \in 1..(n - 1) : tx'[i] = tx[i + 1]
    BY <1>n, <1>1, UpNumbers, HeadTailProperties
  <1>p. PICK p : p = Head(tx)
    BY Zenon
  <1>3. p = tx[1] /\ p \in Packets /\ p.bytes \in Seq(Nat) /\ Len(p.bytes) \in Nat
    BY <1>n, <1>p, <1>2, UpNumbers, SMTT(30)
  <1>4. \A i \in 1..Len(tx') : tx'[i].op # "RW" => tx'[i].bytes = <<>>
    <2> TAKE i \in 1..Len(tx')
    <2>1. i + 1 \in 1..Len(tx) /\ tx'[i] = tx[i + 1]
      BY <1>n, <1>2, SMTT(30)
    <2>2. QED BY <2>1, Zenon DEF UpInv
  <1>5. CASE ~registered
    <2>1. incoming' = incoming
      BY <1>5, Zenon DEF Handle
    <2>2. QED BY <1>1, <1>4, <1>5, <2>1 DEF UpInv, Follows, Positions
  <1>6. CASE registered
    <2>1. PICK g : UpLinks(g)
      BY <1>6, Zenon DEF UpInv
    <2>2. p.op # "RW" => p.bytes = <<>>
      BY <1>n, <1>2, <1>3 DEF UpInv
    <2>3. incoming' = incoming \o p.bytes
      <3>1. incoming' = IF p.op = "RW" THEN incoming \o p.bytes ELSE incoming
        BY <1>p, <1>6 DEF Handle
      <3>2. incoming \o <<>> = incoming
        BY UpNumbers, ConcatEmptySeq
      <3>3. QED BY <2>2, <3>1, <3>2, Zenon
    <2>4. Len(incoming') = Len(incoming) + Len(p.bytes)
      <3>1. incoming \in Seq(Nat)
        BY UpNumbers
      <3>2. QED BY <1>3, <2>3, <3>1, ConcatProperties, Zenon
    <2>5. 1 \in 1..Len(tx)
      BY <1>n, <1>2, SMTT(30)
    <2>6. /\ g[1] = bytes_read + Len(incoming) /\ g[1 + 1] = g[1] + Len(p.bytes)
          /\ Follows(p.bytes, g[1])
      BY <1>3, <2>1, <2>5 DEF UpLinks
    <2>7. Follows(incoming', bytes_read')
      <3>1. Follows(incoming, bytes_read) /\ Follows(p.bytes, bytes_read + Len(incoming))
        BY <2>6, Zenon DEF UpInv
      <3>2. Follows(incoming \o p.bytes, bytes_read)
        BY <1>3, <3>1, UpNumbers, FollowsConcat, Zenon
      <3>3. QED BY <1>1, <2>3, <3>2, Zenon
    <2>8. g[2] = bytes_read' + Len(incoming')
      <3>1. g[2] = (bytes_read + Len(incoming)) + Len(p.bytes)
        BY <2>6
      <3>2. (bytes_read + Len(incoming)) + Len(p.bytes) = bytes_read + (Len(incoming) + Len(p.bytes))
        <4>1. bytes_read \in Nat /\ Len(incoming) \in Nat /\ Len(p.bytes) \in Nat
          BY <1>3, UpNumbers, Zenon
        <4>2. QED BY <4>1, PlusAssociative, Zenon
      <3>3. QED BY <1>1, <2>4, <3>1, <3>2
    <2>9. bytes_read' + Len(incoming') <= guest'.sent
      <3>1. 2 \in 1..(Len(tx) + 1) /\ Len(tx) + 1 \in 1..(Len(tx) + 1) /\ 2 <= Len(tx) + 1
        BY <1>n, <1>2, SMTT(30)
      <3>2. g[2] <= g[Len(tx) + 1]
        BY <2>1, <3>1 DEF UpLinks
      <3>3. QED BY <1>1, <2>1, <2>8, <3>2, Zenon DEF UpLinks
    <2> DEFINE H == [i \in 1..n |-> g[i + 1]]
    <2>h. PICK h : h = H
      BY Zenon
    <2>10. \A i \in 1..n : h[i] = g[i + 1] /\ i + 1 \in 1..(Len(tx) + 1)
      BY <1>n, <2>h
    <2>11. h \in [1..n -> Nat]
      <3>1. \A i \in 1..n : g[i + 1] \in Nat
        BY <2>1, <2>10, Zenon DEF UpLinks
      <3>2. QED BY <2>h, <3>1
    <2>12. h[1] = bytes_read' + Len(incoming')
      <3>1. h[1] = g[1 + 1]
        BY <1>n, <1>2, <2>10, SMTT(30)
      <3>2. QED BY <2>8, <3>1
    <2>13. \A i \in 1..(n - 1) : h[i + 1] = h[i] + Len(tx'[i].bytes) /\ Follows(tx'[i].bytes, h[i])
      <3> TAKE i \in 1..(n - 1)
      <3>1. i + 1 \in 1..Len(tx) /\ i \in 1..n /\ i + 1 \in 1..n
        BY <1>n, <1>2, SMTT(30)
      <3>2. g[(i + 1) + 1] = g[i + 1] + Len(tx[i + 1].bytes) /\ Follows(tx[i + 1].bytes, g[i + 1])
        BY <2>1, <3>1, Zenon DEF UpLinks
      <3>3. h[i] = g[i + 1] /\ h[i + 1] = g[(i + 1) + 1] /\ tx'[i] = tx[i + 1]
        BY <1>2, <2>10, <3>1
      <3>4. QED BY <3>2, <3>3
    <2>14. \A i, j \in 1..n : i <= j => h[i] <= h[j]
      <3> SUFFICES ASSUME NEW i \in 1..n, NEW j \in 1..n, i <= j PROVE h[i] <= h[j]
        OBVIOUS
      <3>1. i + 1 <= j + 1 /\ i + 1 \in 1..(Len(tx) + 1) /\ j + 1 \in 1..(Len(tx) + 1)
        BY <1>n, SMTT(30)
      <3>2. g[i + 1] <= g[j + 1]
        BY <2>1, <3>1, Zenon DEF UpLinks
      <3>3. QED BY <2>10, <3>2
    <2>15. h[n] = guest'.sent
      <3>1. n \in 1..n
        BY <1>n, <1>2, SMTT(30)
      <3>2. h[n] = g[n + 1]
        BY <2>10, <3>1
      <3>3. QED BY <1>n, <1>1, <2>1, <3>2, Zenon DEF UpLinks
    <2>16. Len(tx') + 1 = n
      BY <1>n, <1>2, SMTT(30)
    <2>17. UpLinks(h)'
      BY <1>2, <2>11, <2>12, <2>13, <2>14, <2>15, <2>16, Zenon DEF UpLinks, Follows
    <2>18. hostGot' = Positions(0, bytes_read')
      BY <1>1, Zenon DEF UpInv
    <2>19. QED BY <1>4, <2>7, <2>9, <2>17, <2>18, Zenon DEF UpInv
  <1>7. QED BY <1>5, <1>6

\* The packets the guest's driver makes.
LEMMA GuestPacketType ==
    ASSUME TypeOK, NEW op \in {"RW", "CREDIT_UPDATE", "CREDIT_REQUEST", "SHUTDOWN", "RST"},
           NEW b \in Seq(Nat)
    PROVE  /\ GuestPacket(op, b) \in Packets
           /\ GuestPacket(op, b).op = op /\ GuestPacket(op, b).bytes = b
  <1>1. GuestPacket(op, b) \in Packets
    BY Numbers, PacketType DEF GuestPacket
  <1>2. QED BY <1>1 DEF GuestPacket, Packet

\* A packet without bytes.
LEMMA GuestControl ==
    ASSUME TypeOK, NEW op \in {"CREDIT_UPDATE", "CREDIT_REQUEST", "SHUTDOWN", "RST"}
    PROVE  \E p \in Packets : p = GuestPacket(op, <<>>) /\ p.op = op /\ p.bytes = <<>>
  <1>1. PICK b \in Seq(Nat) : b = <<>>
    BY EmptySeq, Zenon
  <1>2. op \in {"RW", "CREDIT_UPDATE", "CREDIT_REQUEST", "SHUTDOWN", "RST"}
    OBVIOUS
  <1>3. GuestPacket(op, b) \in Packets /\ GuestPacket(op, b).op = op /\ GuestPacket(op, b).bytes = b
    BY <1>2, GuestPacketType
  <1>4. QED BY <1>1, <1>3, Zenon

\* What every step of the guest that queues a packet does to this direction.
GuestQueues(p) ==
    /\ guest.open /\ tx' = Append(tx, p)
    /\ p.op # "RW" => p.bytes = <<>>
    /\ Follows(p.bytes, guest.sent)
    /\ guest'.sent = guest.sent + Len(p.bytes)
    /\ p.op \in {"SHUTDOWN", "RST"} => ~guest'.open

\* A step of the guest queues one packet, or leaves queue and socket as they are.
LEMMA GuestSteps ==
    ASSUME TypeOK, Guest \/ GuestSend \/ GuestAsk \/ GuestEnd
    PROVE  /\ UNCHANGED <<connVars, outbox, threadVars, main>>
           /\ \/ tx' = tx /\ guest'.sent = guest.sent /\ (~guest.open => ~guest'.open)
              \/ \E p \in Packets : GuestQueues(p)
  <1>0. guest.sent \in Nat /\ guest.consumed \in Nat /\ <<>> \in Seq(Nat) /\ Len(<<>>) = 0
    BY Numbers, UpNumbers, EmptySeq
  <1>1. UNCHANGED <<connVars, outbox, threadVars, main>>
    BY Zenon DEF Guest, GuestReceive, GuestConsume, GuestSend, GuestAsk, GuestEnd
  <1>2. ASSUME NEW op \in {"CREDIT_UPDATE", "CREDIT_REQUEST", "SHUTDOWN", "RST"}, NEW p \in Packets,
               p.op = op, p.bytes = <<>>, guest.open, tx' = Append(tx, p), guest'.sent = guest.sent,
               op \in {"SHUTDOWN", "RST"} => ~guest'.open
        PROVE  GuestQueues(p)
    <2>1. Len(p.bytes) = 0
      BY <1>0, <1>2, Zenon
    <2>2. Follows(p.bytes, guest.sent) /\ guest'.sent = guest.sent + Len(p.bytes)
      BY <1>0, <1>2, <2>1, SMTT(30) DEF Follows
    <2>3. QED BY <1>2, <2>2, Zenon DEF GuestQueues
  <1>3. CASE GuestReceive
    <2>1. CASE ~guest.open
      BY <1>1, <1>3, <2>1, Zenon DEF GuestReceive
    <2>2. CASE guest.open
      <3>1. /\ guest'.sent = guest.sent
            /\ Head(rx).op = "SHUTDOWN" => ~guest'.open
        BY <1>3, <2>2, Zenon DEF GuestReceive, TypeOK, GuestType
      <3>2. tx' = IF Head(rx).op = "SHUTDOWN" THEN Append(tx, GuestPacket("RST", <<>>)) ELSE tx
        BY <1>3, <2>2 DEF GuestReceive
      <3>3. CASE Head(rx).op = "SHUTDOWN"
        <4>o. PICK op \in {"CREDIT_UPDATE", "CREDIT_REQUEST", "SHUTDOWN", "RST"} : op = "RST"
          OBVIOUS
        <4>1. PICK p \in Packets : p = GuestPacket(op, <<>>) /\ p.op = op /\ p.bytes = <<>>
          BY GuestControl
        <4>2. tx' = Append(tx, p) /\ ~guest'.open
          BY <3>1, <3>2, <3>3, <4>o, <4>1
        <4>3. GuestQueues(p)
          BY <1>2, <2>2, <3>1, <4>o, <4>1, <4>2, Zenon
        <4>4. QED BY <1>1, <4>3
      <3>4. CASE Head(rx).op # "SHUTDOWN"
        BY <1>1, <2>2, <3>1, <3>2, <3>4, Zenon
      <3>5. QED BY <3>3, <3>4
    <2>3. QED BY <2>1, <2>2
  <1>4. CASE GuestConsume
    <2>1. guest.open /\ tx' = Append(tx, Packet("CREDIT_UPDATE", <<>>, guest'.consumed))
      BY <1>4 DEF GuestConsume
    <2>2. guest'.sent = guest.sent /\ guest'.consumed \in Nat
      <3>1. guest.buffer \in Seq(Nat) /\ Len(guest.buffer) \in Nat
        BY Numbers
      <3>2. QED BY <1>0, <1>4, <3>1 DEF GuestConsume, TypeOK, GuestType
    <2>3. Packet("CREDIT_UPDATE", <<>>, guest'.consumed) \in Packets
      BY <1>0, <2>2, PacketType, Zenon
    <2>4. PICK p \in Packets : /\ p = Packet("CREDIT_UPDATE", <<>>, guest'.consumed)
                               /\ p.op = "CREDIT_UPDATE" /\ p.bytes = <<>>
      BY <2>3 DEF Packet
    <2>5. GuestQueues(p)
      BY <1>2, <2>1, <2>2, <2>4
    <2>6. QED BY <1>1, <2>5
  <1>5. CASE GuestSend
    <2>1. PICK k \in 1..Least(GuestCredit, GuestBytes - guest.sent) :
            /\ guest' = [guest EXCEPT !.sent = guest.sent + k]
            /\ tx' = Append(tx, GuestPacket("RW", Positions(guest.sent, k)))
      BY <1>5, Zenon DEF GuestSend
    <2>k. k \in Nat
      BY <2>1
    <2>2. /\ Positions(guest.sent, k) \in Seq(Nat) /\ Len(Positions(guest.sent, k)) = k
          /\ Follows(Positions(guest.sent, k), guest.sent)
      BY <1>0, <2>k, PositionsType, PositionsFollow, Zenon
    <2>3. PICK p \in Packets : /\ p = GuestPacket("RW", Positions(guest.sent, k))
                               /\ p.op = "RW" /\ p.bytes = Positions(guest.sent, k)
      BY <2>2, GuestPacketType
    <2>4. guest'.sent = guest.sent + k
      BY <1>0, <2>1 DEF TypeOK, GuestType
    <2>5. guest.open
      BY <1>5 DEF GuestSend
    <2>6. GuestQueues(p)
      BY <2>1, <2>2, <2>3, <2>4, <2>5 DEF GuestQueues
    <2>7. QED BY <1>1, <2>6
  <1>6. CASE GuestAsk
    <2>o. PICK op \in {"CREDIT_UPDATE", "CREDIT_REQUEST", "SHUTDOWN", "RST"} : op = "CREDIT_REQUEST"
      OBVIOUS
    <2>1. PICK p \in Packets : p = GuestPacket(op, <<>>) /\ p.op = op /\ p.bytes = <<>>
      BY GuestControl
    <2>2. guest.open /\ tx' = Append(tx, p)
      BY <1>6, <2>o, <2>1 DEF GuestAsk
    <2>3. guest'.sent = guest.sent
      BY <1>6, Zenon DEF GuestAsk, TypeOK, GuestType
    <2>4. GuestQueues(p)
      BY <1>2, <2>o, <2>1, <2>2, <2>3, Zenon
    <2>5. QED BY <1>1, <2>4
  <1>7. CASE GuestEnd
    <2>1. PICK op \in {"SHUTDOWN", "RST"} : tx' = Append(tx, GuestPacket(op, <<>>))
      BY <1>7, Zenon DEF GuestEnd
    <2>2. PICK p \in Packets : p = GuestPacket(op, <<>>) /\ p.op = op /\ p.bytes = <<>>
      <3>1. op \in {"CREDIT_UPDATE", "CREDIT_REQUEST", "SHUTDOWN", "RST"}
        OBVIOUS
      <3>2. QED BY <3>1, GuestControl
    <2>3. guest.open
      BY <1>7 DEF GuestEnd
    <2>4. guest'.sent = guest.sent /\ ~guest'.open
      BY <1>7, Zenon DEF GuestEnd, TypeOK, GuestType
    <2>5. GuestQueues(p)
      BY <1>2, <2>1, <2>2, <2>3, <2>4, Zenon
    <2>6. QED BY <1>1, <2>5
  <1>8. QED BY <1>3, <1>4, <1>5, <1>6, <1>7 DEF Guest

LEMMA UpNext ==
    ASSUME TypeOK, UpInv, [Next]_vars
    PROVE  UpInv'
  <1>1. ASSUME NEW t \in Threads, Thread(t) \/ BeginRead(t) \/ BeginWrite(t) \/ Close(t)
        PROVE  UpInv'
    <2>1. CASE ReadTake(t)
      BY <2>1, UpRead
    <2>2. CASE ~ReadTake(t)
      <3>1. UNCHANGED <<incoming, bytes_read, hostGot, tx, guest, registered>>
        BY <1>1, <2>2, Zenon DEF Thread, ReadEnd, ReadTimeout, ReadWait, PushCredit, Reserve, WriteWait,
             WriteFails, PushData, PushShutdown, BeginRead, BeginWrite, Close, connVars
      <3>2. QED BY <3>1, UpQuiet, Zenon
    <2>3. QED BY <2>1, <2>2
  <1>2. CASE Handle
    BY <1>2, UpHandle
  <1>3. CASE AnswerCredit \/ EndFromPeer \/ Poll \/ SetDeadline \/ DeadlinePasses \/ UNCHANGED vars
    <2>1. UNCHANGED <<incoming, bytes_read, hostGot, tx, guest>> /\ (registered' => registered)
      <3>1. CASE AnswerCredit \/ EndFromPeer
        BY <3>1 DEF AnswerCredit, EndFromPeer, connVars, threadVars
      <3>2. CASE Poll
        BY <3>2, Zenon DEF Poll, connVars, threadVars
      <3>3. CASE SetDeadline
        BY <3>3, Zenon DEF SetDeadline, connVars, threadVars
      <3>4. CASE DeadlinePasses
        BY <3>4, Zenon DEF DeadlinePasses
      <3>5. CASE UNCHANGED vars
        BY <3>5, Zenon DEF vars, connVars, threadVars
      <3>6. QED BY <1>3, <3>1, <3>2, <3>3, <3>4, <3>5, Zenon
    <2>2. QED BY <2>1, UpQuiet, Zenon
  <1>4. CASE Reset
    <2>1. UNCHANGED <<incoming, bytes_read, hostGot>> /\ ~registered' /\ tx' = <<>>
      BY <1>4 DEF Reset
    <2>2. guest'.sent = guest.sent
      BY <1>4 DEF Reset, TypeOK, GuestType
    <2>3. Len(tx') = 0
      BY <2>1, EmptySeq, Zenon
    <2>4. \A i \in 1..Len(tx') : tx'[i].op # "RW" => tx'[i].bytes = <<>>
      BY <2>3
    <2>5. hostGot' = Positions(0, bytes_read') /\ Follows(incoming', bytes_read')
      BY <2>1, Zenon DEF UpInv, Follows
    <2>6. bytes_read' + Len(incoming') <= guest'.sent
      BY <2>1, <2>2, Zenon DEF UpInv
    <2>7. QED BY <2>1, <2>4, <2>5, <2>6, Zenon DEF UpInv
  <1>5. CASE Guest \/ GuestSend \/ GuestAsk \/ GuestEnd
    <2>1. UNCHANGED <<incoming, bytes_read, hostGot, registered>>
      BY <1>5, GuestSteps, Zenon DEF connVars, threadVars
    <2>2. CASE tx' = tx /\ guest'.sent = guest.sent
      BY <2>1, <2>2, UpQuiet, Zenon
    <2>3. ASSUME NEW p \in Packets, GuestQueues(p) PROVE UpInv'
      BY <2>1, <2>3, UpAppend, Zenon DEF GuestQueues
    <2>4. QED BY <1>5, <2>2, <2>3, GuestSteps, Zenon
  <1>6. QED BY <1>1, <1>2, <1>3, <1>4, <1>5, Zenon DEF Next, Device

-----------------------------------------------------------------------------
(* The end of the stream *)

\* The guest's SHUTDOWN or RST is its last packet, and the connection is forgotten only once it
\* was handled: by then everything the guest sent has arrived.  Whoever ends the connection is
\* recorded with the flag, and no end of file is reported before it or over buffered bytes.
EndInv ==
    /\ \A i \in 1..Len(tx) : tx[i].op \in {"SHUTDOWN", "RST"} => i = Len(tx) /\ ~guest.open
    /\ main.step # "idle" => registered
    /\ main.step = "end" => ~guest.open /\ tx = <<>>
    /\ closed <=> endedBy # "nobody"
    /\ endedBy = "guest" => ~registered /\ ~guest.open /\ bytes_read + Len(incoming) = guest.sent
    /\ \A t \in Threads : results[t] = "eof" => closed /\ (endedBy = "guest" => incoming = <<>>)

LEMMA EndQuiet ==
    ASSUME EndInv, UNCHANGED <<tx, guest, main, registered, closed, endedBy, incoming, bytes_read, results>>
    PROVE  EndInv'
  BY Zenon DEF EndInv

\* The steps of a read.
LEMMA EndRead ==
    ASSUME TypeOK, EndInv, NEW t \in Threads, ReadTake(t) \/ ReadEnd(t) \/ ReadTimeout(t)
    PROVE  EndInv'
  <1>1. UNCHANGED <<tx, guest, main, registered, closed, endedBy>>
    BY Zenon DEF ReadTake, ReadEnd, ReadTimeout, connVars
  <1>2. bytes_read' + Len(incoming') = bytes_read + Len(incoming)
    <2>1. CASE ReadTake(t)
      BY <2>1, ReadKeepsEnd, Zenon
    <2>2. CASE ReadEnd(t) \/ ReadTimeout(t)
      BY <2>2, Zenon DEF ReadEnd, ReadTimeout, connVars
    <2>3. QED BY <2>1, <2>2, Zenon
  <1>3. \A u \in Threads : u # t => results'[u] = results[u]
    BY Zenon DEF ReadTake, ReadEnd, ReadTimeout, TypeOK, ThreadType
  <1>4. \A u \in Threads : results'[u] = "eof" => closed' /\ (endedBy' = "guest" => incoming' = <<>>)
    <2>1. CASE ReadTake(t)
      <3>1. incoming # <<>> /\ results'[t] = "data"
        BY <2>1, Zenon DEF ReadTake, TypeOK, ThreadType
      <3>2. QED BY <1>1, <1>3, <3>1, Zenon DEF EndInv
    <2>2. CASE ReadEnd(t)
      <3>1. incoming' = <<>> /\ closed
        BY <2>2, Zenon DEF ReadEnd, connVars
      <3>2. QED BY <1>1, <3>1, Zenon
    <2>3. CASE ReadTimeout(t)
      <3>1. incoming' = incoming /\ results'[t] = "timeout"
        BY <2>3, Zenon DEF ReadTimeout, connVars, TypeOK, ThreadType
      <3>2. QED BY <1>1, <1>3, <3>1, Zenon DEF EndInv
    <2>4. QED BY <2>1, <2>2, <2>3, Zenon
  <1>5. QED BY <1>1, <1>2, <1>4, Zenon DEF EndInv

\* Our own close: nobody ended the connection before, so nobody was told of an end.
LEMMA EndClose ==
    ASSUME EndInv, NEW t \in Threads, Close(t)
    PROVE  EndInv'
  <1>1. UNCHANGED <<tx, guest, main, registered, incoming, bytes_read, results>>
    BY Zenon DEF Close
  <1>2. ~closed /\ closed' /\ endedBy' = IF endedBy = "nobody" THEN "host" ELSE endedBy
    BY Zenon DEF Close, EndedBy
  <1>3. endedBy = "nobody"
    BY <1>2 DEF EndInv
  <1>4. endedBy' = "host"
    BY <1>2, <1>3, Zenon
  <1>5. \A u \in Threads : results[u] # "eof"
    BY <1>2, Zenon DEF EndInv
  <1>6. QED BY <1>1, <1>2, <1>4, <1>5, Zenon DEF EndInv

LEMMA EndHandle ==
    ASSUME TypeOK, EndInv, Handle
    PROVE  EndInv'
  <1>n. PICK n : n = Len(tx) /\ n \in Nat
    BY UpNumbers
  <1>1. /\ tx # <<>> /\ tx' = Tail(tx) /\ main.step = "idle"
        /\ UNCHANGED <<guest, registered, closed, endedBy, bytes_read, results>>
    BY Zenon DEF Handle
  <1>2. n > 0 /\ Len(tx') = n - 1 /\ \A i \in 1..(n - 1) : tx'[i] = tx[i + 1]
    BY <1>n, <1>1, UpNumbers, HeadTailProperties, SMTT(30)
  <1>p. PICK p : p = Head(tx) /\ p = tx[1]
    BY <1>1, UpNumbers, SMTT(30)
  <1>3. \A i \in 1..Len(tx') : tx'[i].op \in {"SHUTDOWN", "RST"} => i = Len(tx') /\ ~guest'.open
    <2> SUFFICES ASSUME NEW i \in 1..Len(tx'), tx'[i].op \in {"SHUTDOWN", "RST"}
                 PROVE  i = Len(tx') /\ ~guest'.open
      BY Zenon
    <2>1. i + 1 \in 1..Len(tx) /\ tx'[i] = tx[i + 1]
      BY <1>n, <1>2, SMTT(30)
    <2>2. i + 1 = Len(tx) /\ ~guest.open
      BY <2>1, Zenon DEF EndInv
    <2>3. QED BY <1>n, <1>1, <1>2, <2>2, SMTT(30)
  <1>4. /\ main'.step # "idle" => registered
        /\ main'.step = "end" => p.op \in {"SHUTDOWN", "RST"}
    <2>1. main' = (CASE registered /\ p.op = "CREDIT_REQUEST" -> [step |-> "answer", fwd |-> FwdCnt]
                     [] registered /\ p.op \in {"SHUTDOWN", "RST"} -> [step |-> "end", fwd |-> 0]
                     [] OTHER -> main)
      BY <1>p DEF Handle
    <2>2. CASE registered /\ p.op = "CREDIT_REQUEST"
      <3>1. main' = [step |-> "answer", fwd |-> FwdCnt]
        BY <2>1, <2>2, Zenon
      <3>2. main'.step = "answer"
        BY <3>1
      <3>3. QED BY <2>2, <3>2
    <2>3. CASE registered /\ p.op \in {"SHUTDOWN", "RST"}
      BY <2>3, Zenon
    <2>4. CASE ~(registered /\ p.op = "CREDIT_REQUEST") /\ ~(registered /\ p.op \in {"SHUTDOWN", "RST"})
      <3>1. main' = main
        BY <2>1, <2>4, Zenon
      <3>2. QED BY <1>1, <3>1
    <2>5. QED BY <2>2, <2>3, <2>4, Zenon
  <1>5. main'.step = "end" => ~guest'.open /\ tx' = <<>>
    <2> SUFFICES ASSUME main'.step = "end" PROVE ~guest'.open /\ tx' = <<>>
      BY Zenon
    <2>1. 1 \in 1..Len(tx) /\ tx[1].op \in {"SHUTDOWN", "RST"}
      BY <1>n, <1>2, <1>4, <1>p, SMTT(30)
    <2>2. 1 = Len(tx) /\ ~guest.open
      BY <2>1, Zenon DEF EndInv
    <2>3. Len(tx') = 0
      <3>1. n = 1 /\ Len(tx') = n - 1
        BY <1>n, <1>2, <2>2, Zenon
      <3>2. QED BY <3>1
    <2>4. tx' \in Seq(Packets)
      BY <1>1, UpNumbers, HeadTailProperties
    <2>5. tx' = <<>>
      BY <2>3, <2>4, EmptySeq
    <2>6. QED BY <1>1, <2>2, <2>5, Zenon
  <1>6. ~registered => incoming' = incoming
    BY Zenon DEF Handle
  <1>7. QED BY <1>1, <1>3, <1>4, <1>5, <1>6, Zenon DEF EndInv

\* SHUTDOWN or RST: nothing the guest sent is still under way.
LEMMA EndPeer ==
    ASSUME TypeOK, UpInv, EndInv, EndFromPeer
    PROVE  EndInv'
  <1>1. /\ main.step = "end" /\ UNCHANGED <<tx, guest, incoming, bytes_read, results>>
        /\ closed' /\ ~registered'
        /\ endedBy' = IF endedBy = "nobody" THEN "guest" ELSE endedBy
    BY Zenon DEF EndFromPeer, EndedBy
  <1>2. main'.step = "idle"
    BY Zenon DEF EndFromPeer
  <1>3. registered /\ ~guest.open /\ tx = <<>> /\ endedBy # "guest"
    BY <1>1, Zenon DEF EndInv
  <1>4. bytes_read + Len(incoming) = guest.sent
    <2>1. PICK g : UpLinks(g)
      BY <1>3 DEF UpInv
    <2>2. Len(tx) = 0
      BY <1>3, EmptySeq, Zenon
    <2>3. g[1] = guest.sent
      BY <2>1, <2>2, SMTT(30) DEF UpLinks
    <2>4. QED BY <2>1, <2>3, Zenon DEF UpLinks
  <1>5. endedBy = "nobody" => \A u \in Threads : results[u] # "eof"
    BY DEF EndInv
  <1>6. endedBy' # "nobody"
    BY <1>1, Zenon
  <1>7. \A u \in Threads : results'[u] = "eof" => closed' /\ (endedBy' = "guest" => incoming' = <<>>)
    BY <1>1, <1>3, <1>5, Zenon
  <1>8. QED BY <1>1, <1>2, <1>3, <1>4, <1>6, <1>7, Zenon DEF EndInv

LEMMA EndReset ==
    ASSUME TypeOK, EndInv, Reset
    PROVE  EndInv'
  <1>1. /\ main.step = "idle" /\ registered /\ UNCHANGED <<main, incoming, bytes_read, results>>
        /\ closed' /\ ~registered' /\ tx' = <<>>
        /\ endedBy' = IF endedBy = "nobody" THEN "reset" ELSE endedBy
    BY Zenon DEF Reset, EndedBy
  <1>2. endedBy # "guest"
    BY <1>1, Zenon DEF EndInv
  <1>3. endedBy' # "guest" /\ endedBy' # "nobody"
    BY <1>1, <1>2, Zenon
  <1>4. Len(tx') = 0
    BY <1>1, EmptySeq, Zenon
  <1>5. QED BY <1>1, <1>3, <1>4 DEF EndInv

LEMMA EndGuest ==
    ASSUME TypeOK, EndInv, Guest \/ GuestSend \/ GuestAsk \/ GuestEnd
    PROVE  EndInv'
  <1>1. UNCHANGED <<main, registered, closed, endedBy, incoming, bytes_read, results>>
    BY GuestSteps, Zenon DEF connVars, threadVars
  <1>2. CASE tx' = tx /\ guest'.sent = guest.sent /\ (~guest.open => ~guest'.open)
    BY <1>1, <1>2, Zenon DEF EndInv
  <1>3. ASSUME NEW p \in Packets, GuestQueues(p) PROVE EndInv'
    <2>1. guest.open /\ tx' = Append(tx, p) /\ (p.op \in {"SHUTDOWN", "RST"} => ~guest'.open)
      BY <1>3, Zenon DEF GuestQueues
    <2>2. Len(tx') = Len(tx) + 1 /\ tx'[Len(tx) + 1] = p /\ \A i \in 1..Len(tx) : tx'[i] = tx[i]
      BY <2>1, UpNumbers, SMTT(30)
    <2>3. \A i \in 1..Len(tx') : tx'[i].op \in {"SHUTDOWN", "RST"} => i = Len(tx') /\ ~guest'.open
      <3> SUFFICES ASSUME NEW i \in 1..Len(tx'), tx'[i].op \in {"SHUTDOWN", "RST"}
                   PROVE  i = Len(tx') /\ ~guest'.open
        BY Zenon
      <3>1. CASE i <= Len(tx)
        <4>1. PICK n \in Nat : n = Len(tx) /\ Len(tx') = n + 1
          BY <2>2, UpNumbers, Zenon
        <4>2. i \in 1..n
          BY <3>1, <4>1
        <4>3. QED BY <2>1, <2>2, <4>1, <4>2, Zenon DEF EndInv
      <3>2. CASE i = Len(tx) + 1
        BY <2>1, <2>2, <3>2, Zenon
      <3>3. i <= Len(tx) \/ i = Len(tx) + 1
        <4>1. PICK n \in Nat : n = Len(tx) /\ Len(tx') = n + 1
          BY <2>2, UpNumbers, Zenon
        <4>2. i <= n \/ i = n + 1
          BY <4>1
        <4>3. QED BY <4>1, <4>2, Zenon
      <3>4. QED BY <3>1, <3>2, <3>3, Zenon
    <2>4. main.step # "end" /\ endedBy # "guest"
      BY <2>1, Zenon DEF EndInv
    <2>5. QED BY <1>1, <2>3, <2>4, Zenon DEF EndInv
  <1>4. QED BY <1>2, <1>3, GuestSteps, Zenon

LEMMA EndNext ==
    ASSUME TypeOK, UpInv, EndInv, [Next]_vars
    PROVE  EndInv'
  <1>1. ASSUME NEW t \in Threads, Thread(t) \/ BeginRead(t) \/ BeginWrite(t) \/ Close(t)
        PROVE  EndInv'
    <2>1. CASE ReadTake(t) \/ ReadEnd(t) \/ ReadTimeout(t)
      BY <2>1, EndRead, Zenon
    <2>2. CASE Close(t)
      BY <2>2, EndClose, Zenon
    <2>3. CASE ReadWait(t) \/ PushCredit(t) \/ Reserve(t) \/ WriteWait(t) \/ WriteFails(t)
                 \/ PushData(t) \/ PushShutdown(t) \/ BeginRead(t) \/ BeginWrite(t)
      <3>1. UNCHANGED <<tx, guest, main, registered, closed, endedBy, incoming, bytes_read, results>>
        BY <2>3, Zenon DEF ReadWait, PushCredit, Reserve, WriteWait, WriteFails, PushData, PushShutdown,
             BeginRead, BeginWrite, connVars
      <3>2. QED BY <3>1, EndQuiet, Zenon
    <2>4. QED BY <1>1, <2>1, <2>2, <2>3, Zenon DEF Thread
  <1>2. CASE AnswerCredit
    <2>1. UNCHANGED <<tx, guest, registered, closed, endedBy, incoming, bytes_read, results>>
      BY <1>2, Zenon DEF AnswerCredit, connVars, threadVars
    <2>2. main'.step = "idle"
      BY <1>2, Zenon DEF AnswerCredit
    <2>3. QED BY <2>1, <2>2, Zenon DEF EndInv
  <1>3. CASE Poll \/ SetDeadline \/ DeadlinePasses \/ UNCHANGED vars
    <2>1. UNCHANGED <<tx, guest, main, registered, closed, endedBy, incoming, bytes_read, results>>
      BY <1>3, Zenon DEF Poll, SetDeadline, DeadlinePasses, vars, connVars, threadVars
    <2>2. QED BY <2>1, EndQuiet, Zenon
  <1>4. QED BY <1>1, <1>2, <1>3, EndHandle, EndPeer, EndReset, EndGuest, Zenon DEF Next, Device

LEMMA UpInit == Init => UpInv /\ EndInv
  <1> SUFFICES ASSUME Init PROVE UpInv /\ EndInv
    OBVIOUS
  <1>1. Len(tx) = 0 /\ Len(incoming) = 0 /\ tx = <<>> /\ incoming = <<>>
    BY EmptySeq, Zenon DEF Init
  <1>2. bytes_read = 0 /\ guest.sent = 0 /\ main.step = "idle" /\ registered
    BY DEF Init
  <1>3. hostGot = Positions(0, bytes_read)
    <2>1. hostGot = <<>>
      BY DEF Init
    <2>2. Positions(0, 0) \in Seq(Nat) /\ Len(Positions(0, 0)) = 0
      BY PositionsType
    <2>3. Positions(0, 0) = <<>>
      BY <2>2, EmptySeq
    <2>4. QED BY <1>2, <2>1, <2>3, Zenon
  <1>4. \E g : UpLinks(g)
    <2> DEFINE g == [i \in {1} |-> 0]
    <2>1. UpLinks(g)
      BY <1>1, <1>2, SMTT(30) DEF UpLinks
    <2>2. QED BY <2>1, Zenon
  <1>5. UpInv
    BY <1>1, <1>2, <1>3, <1>4, SMTT(30) DEF UpInv, Follows
  <1>6. closed = FALSE /\ endedBy = "nobody" /\ \A t \in Threads : results[t] = "none"
    BY Zenon DEF Init
  <1>7. EndInv
    BY <1>1, <1>2, <1>6 DEF EndInv
  <1>8. QED BY <1>5, <1>7, Zenon

\* A read that reports the end of a stream the guest closed has handed out every byte the guest
\* sent: the end arrives behind the data, and close_from_peer leaves what is buffered readable.
THEOREM EofAfterAllDataHolds == Spec => []EofAfterAllData
  <1>1. Init => TypeOK /\ WriterOK /\ UpInv /\ EndInv
    BY TypeInit, UpInit
  <1>2. TypeOK /\ WriterOK /\ UpInv /\ EndInv /\ [Next]_vars => (TypeOK /\ WriterOK /\ UpInv /\ EndInv)'
    BY TypeNext, UpNext, EndNext
  <1>3. TypeOK /\ UpInv /\ EndInv => EofAfterAllData
    <2> SUFFICES ASSUME TypeOK, UpInv, EndInv, endedBy = "guest", NEW t \in Threads, results[t] = "eof"
                 PROVE  Len(hostGot) = guest.sent
      BY Zenon DEF EofAfterAllData
    <2>1. incoming = <<>> /\ bytes_read + Len(incoming) = guest.sent
      BY DEF EndInv
    <2>2. bytes_read = guest.sent
      BY <2>1, UpNumbers, EmptySeq, SMTT(30)
    <2>3. Len(hostGot) = bytes_read
      BY UpNumbers, PositionsType, Zenon DEF UpInv
    <2>4. QED BY <2>2, <2>3, Zenon
  <1>4. QED BY <1>1, <1>2, <1>3, PTL DEF Spec

-----------------------------------------------------------------------------
(* Both directions implement the abstract stream *)

\* The guest's program has been handed the first bytes the host wrote, in order.
DownInv == guestGot = Positions(0, guest.consumed)

\* A writer that accepts more bytes extends what it has written.
LEMMA PositionsGrow ==
    ASSUME NEW a \in Nat, NEW b \in Nat, a <= b
    PROVE  /\ Len(Positions(0, a)) = a /\ Len(Positions(0, b)) = b
           /\ SubSeq(Positions(0, b), 1, a) = Positions(0, a)
  <1>p. PICK p \in Seq(Nat) : p = Positions(0, a) /\ Len(p) = a /\ \A i \in 1..a : p[i] = i
    <2>1. Positions(0, a) \in Seq(Nat) /\ Len(Positions(0, a)) = a
      BY PositionsType
    <2>2. \A i \in 1..a : Positions(0, a)[i] = i
      BY SMTT(30) DEF Positions
    <2>3. QED BY <2>1, <2>2
  <1>q. PICK q \in Seq(Nat) : q = Positions(0, b) /\ Len(q) = b /\ \A i \in 1..b : q[i] = i
    <2>1. Positions(0, b) \in Seq(Nat) /\ Len(Positions(0, b)) = b
      BY PositionsType
    <2>2. \A i \in 1..b : Positions(0, b)[i] = i
      BY DEF Positions
    <2>3. QED BY <2>1, <2>2, Zenon
  <1>r. PICK r : r = SubSeq(q, 1, a)
    BY Zenon
  <1>1. \A i \in 1..a : q[i] \in Nat
    BY <1>q
  <1>2. /\ r \in Seq(Nat) /\ Len(r) = IF 1 <= a THEN a - 1 + 1 ELSE 0
        /\ \A i \in 1..(a - 1 + 1) : r[i] = q[1 + i - 1]
    <2>1. 1 \in Int /\ a \in Int
      OBVIOUS
    <2>2. /\ SubSeq(q, 1, a) \in Seq(Nat) /\ Len(SubSeq(q, 1, a)) = IF 1 <= a THEN a - 1 + 1 ELSE 0
          /\ \A i \in 1..(a - 1 + 1) : SubSeq(q, 1, a)[i] = q[1 + i - 1]
      BY <1>1, <2>1, SubSeqProperties, SMTT(30)
    <2>3. QED BY <1>r, <2>2, Zenon
  <1>3. Len(r) = a
    BY <1>2, SMTT(30)
  <1>4. \A i \in 1..a : r[i] = i
    <2> TAKE i \in 1..a
    <2>1. i \in 1..(a - 1 + 1) /\ 1 + i - 1 = i /\ i \in 1..b
      BY SMTT(30)
    <2>2. QED BY <1>q, <1>2, <2>1, Zenon
  <1>5. r = p
    BY <1>p, <1>2, <1>3, <1>4, SeqEqual, Zenon
  <1>6. QED BY <1>p, <1>q, <1>r, <1>5, Zenon

\* The steps on the way to the guest: someone reserves bytes, the program consumes, or neither.
DownStep ==
    \/ UNCHANGED <<bytes_written, guestGot>> /\ guest'.consumed = guest.consumed
    \/ bytes_written' > bytes_written /\ guestGot' = guestGot /\ guest'.consumed = guest.consumed
    \/ GuestConsume

LEMMA DownSteps ==
    ASSUME TypeOK, WriterOK, [Next]_vars
    PROVE  DownStep
  <1>1. ASSUME NEW t \in Threads, Reserve(t) PROVE DownStep
    <2>1. Take(t) \in Nat /\ Take(t) > 0
      BY <1>1, TakeType, Zenon DEF Reserve, WriterOK
    <2>2. bytes_written' = bytes_written + Take(t) /\ guest' = guest /\ guestGot' = guestGot
      BY <1>1, Zenon DEF Reserve
    <2>3. bytes_written' > bytes_written
      BY <2>1, <2>2, Numbers, SMTT(30)
    <2>4. QED BY <2>2, <2>3, Zenon DEF DownStep
  <1>2. ASSUME NEW t \in Threads, Thread(t) \/ BeginRead(t) \/ BeginWrite(t) \/ Close(t), ~Reserve(t)
        PROVE  DownStep
    <2>1. UNCHANGED <<bytes_written, guestGot, guest>>
      BY <1>2, Zenon DEF Thread, ReadTake, ReadEnd, ReadTimeout, ReadWait, PushCredit, WriteWait,
           WriteFails, PushData, PushShutdown, BeginRead, BeginWrite, Close, connVars
    <2>2. QED BY <2>1, Zenon DEF DownStep
  <1>3. CASE Device \/ SetDeadline \/ DeadlinePasses \/ UNCHANGED vars
    <2>1. UNCHANGED <<bytes_written, guestGot, guest>>
      BY <1>3, Zenon DEF Device, Handle, AnswerCredit, EndFromPeer, Poll, SetDeadline, DeadlinePasses, vars, connVars
    <2>2. QED BY <2>1, Zenon DEF DownStep
  <1>4. CASE Reset \/ GuestReceive \/ GuestSend \/ GuestAsk \/ GuestEnd
    <2>1. UNCHANGED <<bytes_written, guestGot>>
      BY <1>4 DEF Reset, GuestReceive, GuestSend, GuestAsk, GuestEnd, connVars
    <2>2. guest'.consumed = guest.consumed
      BY <1>4, Zenon DEF Reset, GuestReceive, GuestSend, GuestAsk, GuestEnd, TypeOK, GuestType
    <2>3. QED BY <2>1, <2>2, Zenon DEF DownStep
  <1>5. QED BY <1>1, <1>2, <1>3, <1>4, Zenon DEF Next, Guest, DownStep

\* The guest's program reads: what is buffered goes on where it stopped, and was written.
LEMMA ConsumeNext ==
    ASSUME WindowInv, DownInv, GuestConsume
    PROVE  /\ guest'.consumed = guest.consumed + Len(guest.buffer)
           /\ Len(guest.buffer) > 0
           /\ guest.consumed + Len(guest.buffer) <= bytes_written
           /\ guestGot' = Positions(0, guest.consumed + Len(guest.buffer))
           /\ bytes_written' = bytes_written
  <1>0. TypeOK /\ WriterOK /\ guest.open
    BY DEF WindowInv, GuestConsume
  <1>1. PICK f, n : Links(f) /\ n = f[InFlight + 1] /\ AllSent(n)
    BY <1>0 DEF WindowInv, Accounted
  <1>2. guest.consumed + Len(guest.buffer) <= bytes_written
    BY <1>0, <1>1, ConsumedIsWritten, Zenon
  <1>3. guest'.consumed = guest.consumed + Len(guest.buffer)
    BY <1>0, Numbers, Zenon DEF GuestConsume, TypeOK, GuestType
  <1>4. Follows(guest.buffer, guest.consumed)
    BY <1>1 DEF Links
  <1>5. guestGot' = Positions(0, guest.consumed) \o guest.buffer
    BY Zenon DEF GuestConsume, DownInv
  <1>6. guestGot' = Positions(0, guest.consumed + Len(guest.buffer))
    BY <1>0, <1>4, <1>5, Numbers, PositionsConcat, Zenon
  <1>7. Len(guest.buffer) > 0
    <2>1. guest.buffer # <<>> /\ guest.buffer \in Seq(Nat)
      BY <1>0, Numbers DEF GuestConsume
    <2>2. QED BY <2>1, EmptySeq
  <1>8. bytes_written' = bytes_written
    BY DEF GuestConsume, connVars
  <1>9. QED BY <1>2, <1>3, <1>6, <1>7, <1>8

LEMMA DownNext ==
    ASSUME WindowInv, DownInv, [Next]_vars
    PROVE  DownInv' /\ [HostToGuest!Next]_<<Positions(0, bytes_written), guestGot>>
  <1>0. TypeOK /\ WriterOK /\ bytes_written \in Nat /\ guest.consumed \in Nat
    BY Numbers, Zenon DEF WindowInv
  <1>1. CASE UNCHANGED <<bytes_written, guestGot>> /\ guest'.consumed = guest.consumed
    BY <1>1, Zenon DEF DownInv, Positions
  <1>2. CASE bytes_written' > bytes_written /\ guestGot' = guestGot /\ guest'.consumed = guest.consumed
    <2>1. bytes_written' \in Nat /\ bytes_written <= bytes_written'
      <3>1. TypeOK'
        BY <1>0, TypeNext, Zenon
      <3>2. bytes_written' \in Nat
        BY <3>1, Zenon DEF TypeOK, ConnType
      <3>3. QED BY <1>0, <1>2, <3>2, SMTT(30)
    <2>2. /\ Len(Positions(0, bytes_written)) = bytes_written
          /\ Len(Positions(0, bytes_written')) = bytes_written'
          /\ SubSeq(Positions(0, bytes_written'), 1, bytes_written) = Positions(0, bytes_written)
      BY <1>0, <2>1, PositionsGrow, Zenon
    <2>3. HostToGuest!Write
      BY <1>2, <2>2, Zenon DEF HostToGuest!Write
    <2>4. DownInv'
      BY <1>2, Zenon DEF DownInv
    <2>5. QED BY <2>3, <2>4, Zenon DEF HostToGuest!Next
  <1>3. CASE GuestConsume
    <2>k. PICK k : k = guest.consumed + Len(guest.buffer) /\ k \in Nat /\ guest.consumed < k /\ k <= bytes_written
      <3>1. Len(guest.buffer) \in Nat
        BY <1>0, Numbers, Zenon
      <3>2. Len(guest.buffer) > 0 /\ guest.consumed + Len(guest.buffer) <= bytes_written
        BY <1>3, ConsumeNext, Zenon
      <3>3. QED BY <1>0, <3>1, <3>2, SMTT(30)
    <2>1. guestGot' = Positions(0, k) /\ guest'.consumed = k /\ bytes_written' = bytes_written
      BY <1>3, <2>k, ConsumeNext, Zenon
    <2>2. DownInv'
      BY <2>1, Zenon DEF DownInv
    <2>3. /\ Len(Positions(0, k)) = k /\ Len(Positions(0, bytes_written)) = bytes_written
          /\ SubSeq(Positions(0, bytes_written), 1, k) = Positions(0, k)
      BY <1>0, <2>k, PositionsGrow, Zenon
    <2>4. Len(guestGot) = guest.consumed
      BY <1>0, PositionsType, Zenon DEF DownInv
    <2>5. Len(guestGot') = k
      BY <2>1, <2>3, Zenon
    <2>6. HostToGuest!Receive
      <3>1. Len(guestGot') > Len(guestGot) /\ Len(guestGot') <= Len(Positions(0, bytes_written))
        BY <1>0, <2>k, <2>3, <2>4, <2>5, Zenon
      <3>2. guestGot' = SubSeq(Positions(0, bytes_written), 1, Len(guestGot'))
        BY <2>1, <2>3, <2>5, Zenon
      <3>3. Positions(0, bytes_written)' = Positions(0, bytes_written)
        BY <2>1, Zenon
      <3>4. QED BY <3>1, <3>2, <3>3, Zenon DEF HostToGuest!Receive
    <2>7. QED BY <2>2, <2>6, Zenon DEF HostToGuest!Next
  <1>4. QED BY <1>0, <1>1, <1>2, <1>3, DownSteps DEF DownStep

\* The same for the other direction: the guest sends, a reader takes, or neither.
LEMMA UpRefines ==
    ASSUME TypeOK, TypeOK', UpInv, UpInv', [Next]_vars
    PROVE  [GuestToHost!Next]_<<Positions(0, guest.sent), hostGot>>
  <1>0. bytes_read \in Nat /\ bytes_read' \in Nat /\ guest.sent \in Nat /\ guest'.sent \in Nat
    BY DEF TypeOK, ConnType, GuestType
  <1>1. ASSUME NEW t \in Threads, ReadTake(t) PROVE GuestToHost!Next
    <2>1. PICK take \in 1..Len(incoming) : bytes_read' = bytes_read + take
      BY <1>1, Zenon DEF ReadTake
    <2>2. bytes_read < bytes_read' /\ bytes_read' <= guest.sent
      BY <1>0, <2>1, UpNumbers DEF UpInv
    <2>3. hostGot = Positions(0, bytes_read) /\ hostGot' = Positions(0, bytes_read')
      BY Zenon DEF UpInv
    <2>4. /\ Len(Positions(0, bytes_read')) = bytes_read' /\ Len(Positions(0, guest.sent)) = guest.sent
          /\ SubSeq(Positions(0, guest.sent), 1, bytes_read') = Positions(0, bytes_read')
      BY <1>0, <2>2, PositionsGrow, Zenon
    <2>5. Len(hostGot) = bytes_read /\ Len(hostGot') = bytes_read'
      BY <1>0, <2>3, PositionsType
    <2>6. guest' = guest
      BY <1>1 DEF ReadTake
    <2>7. GuestToHost!Receive
      <3>1. Len(hostGot') > Len(hostGot) /\ Len(hostGot') <= Len(Positions(0, guest.sent))
        BY <1>0, <2>2, <2>4, <2>5, Zenon
      <3>2. hostGot' = SubSeq(Positions(0, guest.sent), 1, Len(hostGot'))
        BY <2>3, <2>4, <2>5, Zenon
      <3>3. Positions(0, guest.sent)' = Positions(0, guest.sent)
        BY <2>6, Zenon
      <3>4. QED BY <3>1, <3>2, <3>3, Zenon DEF GuestToHost!Receive
    <2>8. QED BY <2>7, Zenon DEF GuestToHost!Next
  <1>2. ASSUME hostGot' = hostGot, guest.sent <= guest'.sent
        PROVE  [GuestToHost!Next]_<<Positions(0, guest.sent), hostGot>>
    <2>1. CASE guest'.sent = guest.sent
      BY <1>2, <2>1, Zenon
    <2>2. CASE guest.sent < guest'.sent
      <3>1. /\ Len(Positions(0, guest.sent)) = guest.sent
            /\ Len(Positions(0, guest'.sent)) = guest'.sent
            /\ SubSeq(Positions(0, guest'.sent), 1, guest.sent) = Positions(0, guest.sent)
        BY <1>0, <1>2, PositionsGrow, Zenon
      <3>2. GuestToHost!Write
        BY <1>2, <2>2, <3>1 DEF GuestToHost!Write
      <3>3. QED BY <3>2, Zenon DEF GuestToHost!Next
    <2>3. QED BY <1>0, <1>2, <2>1, <2>2, SMTT(30)
  <1>3. ASSUME NEW t \in Threads, Thread(t) \/ BeginRead(t) \/ BeginWrite(t) \/ Close(t), ~ReadTake(t)
        PROVE  hostGot' = hostGot /\ guest.sent <= guest'.sent
    <2>1. UNCHANGED <<hostGot, guest>>
      BY <1>3, Zenon DEF Thread, ReadEnd, ReadTimeout, ReadWait, PushCredit, Reserve, WriteWait,
           WriteFails, PushData, PushShutdown, BeginRead, BeginWrite, Close
    <2>2. QED BY <1>0, <2>1
  <1>4. CASE Device \/ SetDeadline \/ DeadlinePasses \/ UNCHANGED vars
    <2>1. UNCHANGED <<hostGot, guest>>
      BY <1>4, Zenon DEF Device, Handle, AnswerCredit, EndFromPeer, Poll, SetDeadline, DeadlinePasses, vars, threadVars
    <2>2. QED BY <1>0, <1>2, <2>1, Zenon
  <1>5. CASE Reset
    <2>1. hostGot' = hostGot /\ guest'.sent = guest.sent
      BY <1>5, Zenon DEF Reset, TypeOK, GuestType
    <2>2. QED BY <1>0, <1>2, <2>1, Zenon
  <1>6. CASE Guest \/ GuestSend \/ GuestAsk \/ GuestEnd
    <2>1. hostGot' = hostGot
      BY <1>6, GuestSteps, Zenon DEF threadVars
    <2>2. ASSUME NEW p \in Packets, GuestQueues(p) PROVE guest.sent <= guest'.sent
      <3>1. guest'.sent = guest.sent + Len(p.bytes) /\ Len(p.bytes) \in Nat
        BY <2>2, PacketFields, LenProperties, Zenon DEF GuestQueues
      <3>2. QED BY <1>0, <3>1, SMTT(30)
    <2>3. guest.sent <= guest'.sent
      <3>1. CASE guest'.sent = guest.sent
        BY <1>0, <3>1
      <3>2. QED BY <1>6, <2>2, <3>1, GuestSteps, Zenon
    <2>4. QED BY <1>2, <2>1, <2>3, Zenon
  <1>7. QED BY <1>1, <1>2, <1>3, <1>4, <1>5, <1>6, Zenon DEF Next

\* What either side writes reaches the other in order, once and with none missing, whatever the
\* interleaving of the host's threads, the device and the guest, and wherever a call, a close or
\* a reset ends it: every behaviour of the connection is, in each direction, one of ByteStream.
THEOREM StreamsHold == Spec => Streams
  <1> DEFINE Inv == WindowInv /\ DownInv /\ UpInv
  <1>1. Init => Inv /\ HostToGuest!Init /\ GuestToHost!Init
    <2> SUFFICES ASSUME Init PROVE Inv /\ HostToGuest!Init /\ GuestToHost!Init
      OBVIOUS
    <2>1. WindowInv /\ UpInv
      BY WindowInit, UpInit, Zenon
    <2>2. /\ guestGot = <<>> /\ hostGot = <<>>
          /\ guest.consumed = 0 /\ guest.sent = 0 /\ bytes_written = 0
      BY Zenon DEF Init
    <2>3. Positions(0, 0) = <<>>
      <3>1. Positions(0, 0) \in Seq(Nat) /\ Len(Positions(0, 0)) = 0
        BY PositionsType
      <3>2. QED BY <3>1, EmptySeq
    <2>4. DownInv
      BY <2>2, <2>3, Zenon DEF DownInv
    <2>5. HostToGuest!Init /\ GuestToHost!Init
      BY <2>2, <2>3, Zenon DEF HostToGuest!Init, GuestToHost!Init
    <2>6. QED BY <2>1, <2>4, <2>5
  <1>2. Inv /\ [Next]_vars => Inv'
    BY WindowNext, DownNext, UpNext, Zenon DEF WindowInv
  <1>3. Inv /\ [Next]_vars => [HostToGuest!Next]_<<Positions(0, bytes_written), guestGot>>
    BY DownNext, Zenon
  <1>4. Inv /\ Inv' /\ [Next]_vars => [GuestToHost!Next]_<<Positions(0, guest.sent), hostGot>>
    BY UpRefines, Zenon DEF WindowInv
  <1>5. Spec => HostToGuest!Spec
    BY <1>1, <1>2, <1>3, PTL DEF Spec, HostToGuest!Spec
  <1>6. Spec => GuestToHost!Spec
    BY <1>1, <1>2, <1>4, PTL DEF Spec, GuestToHost!Spec
  <1>7. QED BY <1>5, <1>6 DEF Streams

-----------------------------------------------------------------------------
(* The window the host grants *)

\* The driver's credit is computed from a count that is less than a wrap behind what it has sent.
\* (With the u32 counters: no packet is held back, between the unlock and the push, over 4 GiB.)
CountsFresh == guest.sent - guest.peer_fwd < WRAP

\* No count on its way to the guest is ahead of what the host's readers were handed.
CountsInv ==
    /\ \A i \in 1..Len(outbox) : outbox[i].fwd_cnt <= bytes_read
    /\ \A i \in 1..Len(rx) : rx[i].fwd_cnt <= bytes_read
    /\ \A t \in Threads : hand[t].fwd <= bytes_read
    /\ main.fwd <= bytes_read
    /\ guest.peer_fwd <= bytes_read

LEMMA CountTypes ==
    ASSUME TypeOK
    PROVE  /\ bytes_read \in Nat /\ main.fwd \in Nat /\ guest.peer_fwd \in Nat /\ guest.sent \in Nat
           /\ \A t \in Threads : hand[t].fwd \in Nat
           /\ \A i \in 1..Len(outbox) : outbox[i].fwd_cnt \in Nat
           /\ \A i \in 1..Len(rx) : rx[i].fwd_cnt \in Nat
  <1>1. bytes_read \in Nat /\ main.fwd \in Nat /\ guest.peer_fwd \in Nat /\ guest.sent \in Nat
    BY Zenon DEF TypeOK, ConnType, QueueType, GuestType
  <1>2. \A t \in Threads : hand[t].fwd \in Nat
    BY HandType, Zenon DEF TypeOK, ThreadType
  <1>3. \A i \in 1..Len(outbox) : outbox[i].fwd_cnt \in Nat
    BY Numbers, ElementOfSeq, PacketFields, Zenon
  <1>4. \A i \in 1..Len(rx) : rx[i].fwd_cnt \in Nat
    BY Numbers, ElementOfSeq, PacketFields, Zenon
  <1>5. QED BY <1>1, <1>2, <1>3, <1>4, Zenon

LEMMA CountsQuiet ==
    ASSUME CountsInv, UNCHANGED <<outbox, rx, hand, main, bytes_read>>, guest'.peer_fwd = guest.peer_fwd
    PROVE  CountsInv'
  BY Zenon DEF CountsInv

\* A packet joins the outbox with a count that is no further than the readers are.
LEMMA CountsPush ==
    ASSUME TypeOK, CountsInv, NEW p \in Packets, p.fwd_cnt <= bytes_read, outbox' = Append(outbox, p),
           UNCHANGED <<rx, bytes_read, guest>>, main'.fwd <= bytes_read,
           \A t \in Threads : hand'[t].fwd <= bytes_read
    PROVE  CountsInv'
  <1>1. Len(outbox') = Len(outbox) + 1 /\ outbox'[Len(outbox) + 1] = p
        /\ \A i \in 1..Len(outbox) : outbox'[i] = outbox[i]
    BY Numbers, SMTT(30)
  <1>2. \A i \in 1..Len(outbox') : outbox'[i].fwd_cnt <= bytes_read'
    <2> TAKE i \in 1..Len(outbox')
    <2>1. CASE i \in 1..Len(outbox)
      BY <1>1, <2>1, Zenon DEF CountsInv
    <2>2. CASE i = Len(outbox) + 1
      BY <1>1, <2>2, Zenon
    <2>3. QED BY <1>1, <2>1, <2>2, Numbers, SMTT(30)
  <1>3. QED BY <1>2, Zenon DEF CountsInv

LEMMA CountsThread ==
    ASSUME TypeOK, TypeOK', CountsInv, NEW t \in Threads,
           Thread(t) \/ BeginRead(t) \/ BeginWrite(t) \/ Close(t)
    PROVE  CountsInv'
  <1>1. CASE ReadTake(t)
    <2>1. PICK take \in 1..Len(incoming) :
            /\ bytes_read' = bytes_read + take
            /\ \/ hand' = [hand EXCEPT ![t] = [n |-> 0, fwd |-> bytes_read + take]]
               \/ hand' = [hand EXCEPT ![t] = NoHand]
      BY <1>1, Zenon DEF ReadTake
    <2>2. UNCHANGED <<outbox, rx, main, guest>>
      BY <1>1, Zenon DEF ReadTake
    <2>3. bytes_read <= bytes_read' /\ bytes_read' \in Nat
      BY <2>1, UpNumbers, SMTT(30)
    <2>4. hand'[t].fwd <= bytes_read' /\ \A u \in Threads : u # t => hand'[u] = hand[u]
      BY <2>1, <2>3, SMTT(30) DEF NoHand, TypeOK, ThreadType
    <2>5. \A u \in Threads : hand'[u].fwd <= bytes_read'
      <3> TAKE u \in Threads
      <3>1. hand[u].fwd \in Nat /\ hand[u].fwd <= bytes_read /\ bytes_read \in Nat
        BY CountTypes, Zenon DEF CountsInv
      <3>2. hand[u].fwd <= bytes_read'
        BY <2>3, <3>1, LeqTransitive, Zenon
      <3>3. QED BY <2>4, <3>2, Zenon
    <2>6. /\ \A i \in 1..Len(outbox) : outbox[i].fwd_cnt <= bytes_read'
          /\ \A i \in 1..Len(rx) : rx[i].fwd_cnt <= bytes_read'
          /\ main.fwd <= bytes_read' /\ guest.peer_fwd <= bytes_read'
      <3>1. bytes_read \in Nat /\ main.fwd \in Nat /\ guest.peer_fwd \in Nat
        BY CountTypes, Zenon
      <3>2. main.fwd <= bytes_read' /\ guest.peer_fwd <= bytes_read'
        BY <2>3, <3>1, LeqTransitive, Zenon DEF CountsInv
      <3>3. \A i \in 1..Len(outbox) : outbox[i].fwd_cnt <= bytes_read'
        <4> TAKE i \in 1..Len(outbox)
        <4>1. outbox[i].fwd_cnt \in Nat /\ outbox[i].fwd_cnt <= bytes_read
          BY CountTypes, Zenon DEF CountsInv
        <4>2. QED BY <2>3, <3>1, <4>1, LeqTransitive, Zenon
      <3>4. \A i \in 1..Len(rx) : rx[i].fwd_cnt <= bytes_read'
        <4> TAKE i \in 1..Len(rx)
        <4>1. rx[i].fwd_cnt \in Nat /\ rx[i].fwd_cnt <= bytes_read
          BY CountTypes, Zenon DEF CountsInv
        <4>2. QED BY <2>3, <3>1, <4>1, LeqTransitive
      <3>5. QED BY <3>2, <3>3, <3>4, Zenon
    <2>7. QED BY <2>2, <2>5, <2>6, Zenon DEF CountsInv
  <1>2. CASE ReadEnd(t) \/ ReadTimeout(t) \/ ReadWait(t) \/ BeginRead(t) \/ BeginWrite(t)
               \/ WriteWait(t) \/ WriteFails(t)
    <2>1. UNCHANGED <<outbox, rx, hand, main, bytes_read, guest>>
      BY <1>2, Zenon DEF ReadEnd, ReadTimeout, ReadWait, BeginRead, BeginWrite, WriteWait, WriteFails, connVars
    <2>2. QED BY <2>1, CountsQuiet, Zenon
  <1>3. CASE PushCredit(t) \/ PushShutdown(t) \/ PushData(t)
    <2>1. hand' = [hand EXCEPT ![t] = NoHand] /\ UNCHANGED <<rx, bytes_read, guest, main>>
      BY <1>3, Zenon DEF PushCredit, PushShutdown, PushData, connVars
    <2>2. \A u \in Threads : hand'[u].fwd <= bytes_read
      <3>1. hand'[t] = NoHand /\ \A u \in Threads : u # t => hand'[u] = hand[u]
        BY <2>1, Zenon DEF TypeOK, ThreadType
      <3>2. NoHand.fwd <= bytes_read
        <4>1. bytes_read \in Nat
          BY CountTypes, Zenon
        <4>2. NoHand.fwd = 0
          BY DEF NoHand
        <4>3. QED BY <4>1, <4>2
      <3>3. \A u \in Threads : hand[u].fwd <= bytes_read
        BY Zenon DEF CountsInv
      <3>4. QED BY <3>1, <3>2, <3>3, Zenon
    <2>3. PICK op, b : outbox' = Append(outbox, Packet(op, b, hand[t].fwd))
      BY <1>3 DEF PushCredit, PushShutdown, PushData
    <2>4. PICK p : p = Packet(op, b, hand[t].fwd) /\ p.fwd_cnt = hand[t].fwd
      <3>1. Packet(op, b, hand[t].fwd).fwd_cnt = hand[t].fwd
        BY Zenon DEF Packet
      <3>2. QED BY <3>1, Zenon
    <2>5. p \in Packets
      <3>1. outbox' \in Seq(Packets) /\ outbox \in Seq(Packets)
        BY Zenon DEF TypeOK, QueueType
      <3>2. outbox' = Append(outbox, p)
        BY <2>3, <2>4, Zenon
      <3>3. Len(outbox) + 1 \in 1..Len(outbox') /\ outbox'[Len(outbox) + 1] = p
        BY <3>1, <3>2, SMTT(30)
      <3>4. QED BY <3>1, <3>3, ElementOfSeq, Zenon
    <2>6. QED BY <2>1, <2>2, <2>3, <2>4, <2>5, CountsPush, Zenon DEF CountsInv
  <1>4. CASE Reserve(t) \/ Close(t)
    <2>1. UNCHANGED <<outbox, rx, main, bytes_read, guest>>
      BY <1>4, Zenon DEF Reserve, Close
    <2>2. PICK k : hand' = [hand EXCEPT ![t] = [n |-> k, fwd |-> bytes_read]]
      BY <1>4, Zenon DEF Reserve, Close, FwdCnt
    <2>3. \A u \in Threads : hand'[u].fwd <= bytes_read
      <3>1. hand'[t].fwd = bytes_read /\ \A u \in Threads : u # t => hand'[u] = hand[u]
        BY <2>2, Zenon DEF TypeOK, ThreadType
      <3>2. bytes_read <= bytes_read
        <4>1. bytes_read \in Nat
          BY CountTypes, Zenon
        <4>2. QED BY <4>1
      <3>3. \A u \in Threads : hand[u].fwd <= bytes_read
        BY Zenon DEF CountsInv
      <3>4. QED BY <3>1, <3>2, <3>3, Zenon
    <2>4. QED BY <2>1, <2>3, Zenon DEF CountsInv
  <1>5. QED BY <1>1, <1>2, <1>3, <1>4, Zenon DEF Thread

LEMMA CountsDevice ==
    ASSUME TypeOK, CountsInv, Device \/ Reset \/ SetDeadline \/ DeadlinePasses
    PROVE  CountsInv'
  <1>1. CASE Handle
    <2>1. UNCHANGED <<rx, hand, bytes_read, guest>>
      BY <1>1, Zenon DEF Handle
    <2>2. main'.fwd <= bytes_read
      <3>1. main' \in {[step |-> "answer", fwd |-> FwdCnt], [step |-> "end", fwd |-> 0], main}
        BY <1>1, Zenon DEF Handle
      <3>2. bytes_read \in Nat /\ main.fwd <= bytes_read
        BY CountTypes, Zenon DEF CountsInv
      <3>3. QED BY <3>1, <3>2 DEF FwdCnt
    <2>3. CASE outbox' = outbox
      BY <2>1, <2>2, <2>3, Zenon DEF CountsInv
    <2>4. CASE outbox' = Append(outbox, Packet("RST", <<>>, 0))
      <3>1. Packet("RST", <<>>, 0) \in Packets
        BY EmptySeq, PacketType, Zenon
      <3>2. PICK p \in Packets : p = Packet("RST", <<>>, 0) /\ p.fwd_cnt = 0
        BY <3>1 DEF Packet
      <3>3. \A u \in Threads : hand'[u].fwd <= bytes_read
        BY <2>1 DEF CountsInv
      <3>4. p.fwd_cnt <= bytes_read
        BY <3>2, CountTypes
      <3>5. QED BY <2>1, <2>2, <2>4, <3>2, <3>3, <3>4, CountsPush, Zenon
    <2>5. outbox' = outbox \/ outbox' = Append(outbox, Packet("RST", <<>>, 0))
      BY <1>1, Zenon DEF Handle
    <2>6. QED BY <2>3, <2>4, <2>5
  <1>2. CASE AnswerCredit
    <2>1. UNCHANGED <<rx, hand, bytes_read, guest>> /\ main' = [step |-> "idle", fwd |-> 0]
      BY <1>2, Zenon DEF AnswerCredit, connVars, threadVars
    <2>2. Packet("CREDIT_UPDATE", <<>>, main.fwd) \in Packets
      BY CountTypes, EmptySeq, PacketType, Zenon
    <2>3. PICK p \in Packets : p = Packet("CREDIT_UPDATE", <<>>, main.fwd) /\ p.fwd_cnt = main.fwd
      BY <2>2 DEF Packet
    <2>4. outbox' = Append(outbox, p)
      BY <1>2, <2>3, Zenon DEF AnswerCredit
    <2>5. p.fwd_cnt <= bytes_read /\ main'.fwd <= bytes_read /\ \A u \in Threads : hand'[u].fwd <= bytes_read
      <3>1. main'.fwd = 0
        BY <2>1, Zenon
      <3>2. main'.fwd <= bytes_read
        BY <3>1, CountTypes, SMTT(30)
      <3>3. main.fwd <= bytes_read /\ \A u \in Threads : hand[u].fwd <= bytes_read
        BY Zenon DEF CountsInv
      <3>4. QED BY <2>1, <2>3, <3>2, <3>3, Zenon
    <2>6. QED BY <2>1, <2>4, <2>5, CountsPush, Zenon
  <1>3. CASE EndFromPeer
    <2>1. UNCHANGED <<outbox, rx, hand, bytes_read, guest>> /\ main' = [step |-> "idle", fwd |-> 0]
      BY <1>3, Zenon DEF EndFromPeer
    <2>2. main'.fwd <= bytes_read
      BY <2>1, CountTypes
    <2>3. QED BY <2>1, <2>2, Zenon DEF CountsInv
  <1>4. CASE Poll
    <2>1. UNCHANGED <<hand, bytes_read, guest, main>> /\ outbox # <<>>
      BY <1>4, Zenon DEF Poll, connVars, threadVars
    <2>2. CASE rx' = Append(rx, Head(outbox)) /\ outbox' = Tail(outbox)
      <3>1. /\ Len(outbox) > 0 /\ Len(outbox') = Len(outbox) - 1
            /\ \A i \in 1..Len(outbox') : outbox'[i] = outbox[i + 1]
        <4>1. outbox \in Seq(Packets) /\ Len(outbox) \in Nat
          BY Numbers, Zenon
        <4>2. QED BY <2>1, <2>2, <4>1, HeadTailProperties, SMTT(30)
      <3>2. /\ Len(rx') = Len(rx) + 1 /\ rx'[Len(rx) + 1] = outbox[1]
            /\ \A i \in 1..Len(rx) : rx'[i] = rx[i]
        <4>1. rx \in Seq(Packets) /\ outbox \in Seq(Packets)
          BY Numbers, Zenon
        <4>2. rx' = Append(rx, outbox[1])
          BY <2>2, <4>1, SMTT(30)
        <4>3. outbox[1] \in Packets
          BY <2>1, <4>1, SMTT(30)
        <4>4. QED BY <4>1, <4>2, <4>3, AppendProperties, SMTT(30)
      <3>3. \A i \in 1..Len(outbox') : outbox'[i].fwd_cnt <= bytes_read
        <4> TAKE i \in 1..Len(outbox')
        <4>1. i + 1 \in 1..Len(outbox)
          BY <3>1, Numbers, SMTT(30)
        <4>2. QED BY <3>1, <4>1, Zenon DEF CountsInv
      <3>4. \A i \in 1..Len(rx') : rx'[i].fwd_cnt <= bytes_read
        <4> TAKE i \in 1..Len(rx')
        <4>1. CASE i \in 1..Len(rx)
          BY <3>2, <4>1, Zenon DEF CountsInv
        <4>2. CASE i = Len(rx) + 1
          <5>1. 1 \in 1..Len(outbox)
            BY <3>1, Numbers, SMTT(30)
          <5>2. outbox[1].fwd_cnt <= bytes_read
            BY <5>1, Zenon DEF CountsInv
          <5>3. QED BY <3>2, <4>2, <5>2, Zenon
        <4>3. QED BY <3>2, <4>1, <4>2, Numbers, SMTT(30)
      <3>5. QED BY <2>1, <3>3, <3>4, Zenon DEF CountsInv
    <2>3. CASE rx' = rx /\ outbox' = Requeue(Head(outbox), Tail(outbox))
      <3>1. outbox' = outbox
        BY <2>1, <2>3, Numbers, SMTT(30) DEF Requeue
      <3>2. QED BY <2>1, <2>3, <3>1, CountsQuiet, Zenon
    <2>4. QED BY <1>4, <2>2, <2>3, Zenon DEF Poll
  <1>5. CASE Reset
    <2>1. UNCHANGED <<hand, bytes_read, main>> /\ outbox' = <<>> /\ rx' = <<>>
      BY <1>5 DEF Reset
    <2>2. guest'.peer_fwd = guest.peer_fwd
      BY <1>5, Zenon DEF Reset, TypeOK, GuestType
    <2>3. Len(outbox') = 0 /\ Len(rx') = 0
      BY <2>1, EmptySeq, Zenon
    <2>4. QED BY <2>1, <2>2, <2>3, SMTT(30) DEF CountsInv
  <1>6. CASE SetDeadline \/ DeadlinePasses
    <2>1. UNCHANGED <<outbox, rx, hand, main, bytes_read, guest>>
      BY <1>6, Zenon DEF SetDeadline, DeadlinePasses, threadVars
    <2>2. QED BY <2>1, CountsQuiet, Zenon
  <1>7. QED BY <1>1, <1>2, <1>3, <1>4, <1>5, <1>6, Zenon DEF Device

LEMMA CountsGuest ==
    ASSUME TypeOK, CountsInv, Guest \/ GuestSend \/ GuestAsk \/ GuestEnd
    PROVE  CountsInv'
  <1>1. UNCHANGED <<outbox, hand, main, bytes_read>>
    BY Zenon DEF Guest, GuestReceive, GuestConsume, GuestSend, GuestAsk, GuestEnd, connVars, threadVars
  <1>2. CASE GuestReceive
    <2>1. rx # <<>> /\ rx' = Tail(rx)
      BY <1>2, Zenon DEF GuestReceive
    <2>2. /\ Len(rx) > 0 /\ Len(rx') = Len(rx) - 1 /\ Head(rx) = rx[1]
          /\ \A i \in 1..Len(rx') : rx'[i] = rx[i + 1]
      BY <2>1, Numbers, HeadTailProperties, SMTT(30)
    <2>3. \A i \in 1..Len(rx') : rx'[i].fwd_cnt <= bytes_read
      <3> TAKE i \in 1..Len(rx')
      <3>1. i + 1 \in 1..Len(rx)
        BY <2>2, Numbers
      <3>2. QED BY <2>2, <3>1, Zenon DEF CountsInv
    <2>4. guest'.peer_fwd = guest.peer_fwd \/ guest'.peer_fwd = Head(rx).fwd_cnt
      BY <1>2, Zenon DEF GuestReceive, TypeOK, GuestType
    <2>5. Head(rx).fwd_cnt <= bytes_read
      <3>1. 1 \in 1..Len(rx)
        BY <2>2, Numbers
      <3>2. QED BY <2>2, <3>1 DEF CountsInv
    <2>6. QED BY <1>1, <2>3, <2>4, <2>5, Zenon DEF CountsInv
  <1>3. CASE GuestConsume \/ GuestSend \/ GuestAsk \/ GuestEnd
    <2>1. rx' = rx
      BY <1>3, Zenon DEF GuestConsume, GuestSend, GuestAsk, GuestEnd
    <2>2. guest'.peer_fwd = guest.peer_fwd
      BY <1>3, Zenon DEF GuestConsume, GuestSend, GuestAsk, GuestEnd, TypeOK, GuestType
    <2>3. QED BY <1>1, <2>1, <2>2, CountsQuiet, Zenon
  <1>4. QED BY <1>2, <1>3, Zenon DEF Guest

LEMMA CountsNext ==
    ASSUME TypeOK, TypeOK', CountsInv, [Next]_vars
    PROVE  CountsInv'
  <1>1. CASE UNCHANGED vars
    <2>1. UNCHANGED <<outbox, rx, hand, main, bytes_read, guest>>
      BY <1>1, Zenon DEF vars, connVars, threadVars
    <2>2. QED BY <2>1, CountsQuiet
  <1>2. QED BY <1>1, CountsThread, CountsDevice, CountsGuest DEF Next

LEMMA HostWindowNext ==
    ASSUME TypeOK, TypeOK', UpInv, CountsInv, CountsFresh, HostWindow, [Next]_vars
    PROVE  HostWindow'
  <1>0. /\ bytes_read \in Nat /\ bytes_read' \in Nat /\ guest.sent \in Nat /\ guest'.sent \in Nat
        /\ guest.peer_fwd \in Nat /\ BUF_ALLOC \in Nat
    BY WindowAssumption, Zenon DEF TypeOK, ConnType, GuestType
  <1>1. ASSUME bytes_read <= bytes_read', guest'.sent = guest.sent PROVE HostWindow'
    BY <1>0, <1>1, SMTT(30) DEF HostWindow
  <1>2. ASSUME NEW t \in Threads, Thread(t) \/ BeginRead(t) \/ BeginWrite(t) \/ Close(t) PROVE HostWindow'
    <2>1. guest' = guest
      BY <1>2, Zenon DEF Thread, ReadTake, ReadEnd, ReadTimeout, ReadWait, PushCredit, Reserve, WriteWait,
           WriteFails, PushData, PushShutdown, BeginRead, BeginWrite, Close
    <2>2. CASE ReadTake(t)
      <3>1. PICK take \in 1..Len(incoming) : bytes_read' = bytes_read + take
        BY <2>2, Zenon DEF ReadTake
      <3>2. bytes_read <= bytes_read'
        BY <3>1, UpNumbers, SMTT(30)
      <3>3. QED BY <1>1, <2>1, <3>2, Zenon
    <2>3. CASE ~ReadTake(t)
      <3>1. bytes_read' = bytes_read
        BY <1>2, <2>3, Zenon DEF Thread, ReadEnd, ReadTimeout, ReadWait, PushCredit, Reserve, WriteWait,
             WriteFails, PushData, PushShutdown, BeginRead, BeginWrite, Close, connVars
      <3>2. QED BY <1>0, <1>1, <2>1, <3>1, SMTT(30)
    <2>4. QED BY <2>2, <2>3, Zenon
  <1>3. CASE Device \/ SetDeadline \/ DeadlinePasses \/ UNCHANGED vars
    <2>1. UNCHANGED <<bytes_read, guest>>
      BY <1>3, Zenon DEF Device, Handle, AnswerCredit, EndFromPeer, Poll, SetDeadline, DeadlinePasses, vars, connVars
    <2>2. QED BY <1>0, <1>1, <2>1, SMTT(30)
  <1>4. CASE Reset \/ GuestReceive \/ GuestConsume \/ GuestAsk \/ GuestEnd
    <2>1. bytes_read' = bytes_read
      BY <1>4, Zenon DEF Reset, GuestReceive, GuestConsume, GuestAsk, GuestEnd, connVars
    <2>2. guest'.sent = guest.sent
      BY <1>4, Zenon DEF Reset, GuestReceive, GuestConsume, GuestAsk, GuestEnd, TypeOK, GuestType
    <2>3. QED BY <1>0, <1>1, <2>1, <2>2, SMTT(30)
  <1>5. CASE GuestSend
    <2>1. PICK k \in 1..Least(GuestCredit, GuestBytes - guest.sent) :
            guest' = [guest EXCEPT !.sent = guest.sent + k]
      BY <1>5 DEF GuestSend
    <2>2. bytes_read' = bytes_read
      BY <1>5 DEF GuestSend, connVars
    <2>3. guest'.sent = guest.sent + k
      BY <1>0, <2>1 DEF TypeOK, GuestType
    <2>4. guest.peer_fwd <= bytes_read /\ bytes_read <= guest.sent
      <3>1. guest.peer_fwd <= bytes_read /\ bytes_read + Len(incoming) <= guest.sent
        BY Zenon DEF CountsInv, UpInv
      <3>2. Len(incoming) \in Nat
        BY UpNumbers, Zenon
      <3>3. QED BY <1>0, <3>1, <3>2
    <2>5. WrappingSub(guest.sent, guest.peer_fwd) = guest.sent - guest.peer_fwd
      BY <1>0, <2>4, WrappingSubExact, SMTT(30) DEF CountsFresh
    <2>6. GuestCredit \in Int /\ GuestBytes - guest.sent \in Int
      BY <1>0, <2>5, BoundAssumption, SMTT(30) DEF GuestCredit, SaturatingSub
    <2>7. k <= GuestCredit /\ k > 0
      BY <2>6, SMTT(30) DEF Least
    <2>8. k <= BUF_ALLOC - (guest.sent - guest.peer_fwd)
      BY <1>0, <2>5, <2>7, SMTT(30) DEF GuestCredit, SaturatingSub
    <2>9. (guest.sent + k) - bytes_read <= BUF_ALLOC
      BY <1>0, <2>4, <2>6, <2>8, SMTT(30)
    <2>10. QED BY <2>2, <2>3, <2>9 DEF HostWindow
  <1>6. QED BY <1>2, <1>3, <1>4, <1>5, Zenon DEF Next, Guest

\* The host's window binds the guest, however its credit packets interleave: while the driver
\* never goes by a count a whole wrap of the u32 counters old, it has at most BUF_ALLOC bytes
\* outstanding, so `incoming` stays within the buffer the host advertised.
THEOREM HostWindowHolds == Spec /\ []CountsFresh => []HostWindow
  <1> DEFINE Inv == TypeOK /\ WriterOK /\ UpInv /\ CountsInv /\ HostWindow
  <1>1. Init => Inv
    <2> SUFFICES ASSUME Init PROVE Inv
      OBVIOUS
    <2>1. TypeOK /\ WriterOK /\ UpInv
      BY TypeInit, UpInit, Zenon
    <2>2. /\ bytes_read = 0 /\ guest.sent = 0 /\ guest.peer_fwd = 0 /\ main.fwd = 0
          /\ \A t \in Threads : hand[t].fwd = 0
      BY Zenon DEF Init, NoHand
    <2>3. Len(outbox) = 0 /\ Len(rx) = 0
      BY EmptySeq, Zenon DEF Init
    <2>4. CountsInv
      BY <2>2, <2>3, SMTT(30) DEF CountsInv
    <2>5. HostWindow
      BY <2>2, WindowAssumption, SMTT(30) DEF HostWindow
    <2>6. QED BY <2>1, <2>4, <2>5, Zenon
  <1>2. Inv /\ CountsFresh /\ [Next]_vars => Inv'
    BY TypeNext, UpNext, CountsNext, HostWindowNext, Zenon
  <1>3. QED BY <1>1, <1>2, PTL DEF Spec

\* In particular on every stream of less than 2^32 bytes, with no condition on the schedule.
COROLLARY HostWindowShort == GuestBytes < WRAP => (Spec => []HostWindow)
  <1> SUFFICES ASSUME GuestBytes < WRAP PROVE Spec => []HostWindow
    OBVIOUS
  <1> DEFINE Inv == TypeOK /\ WriterOK /\ guest.sent <= GuestBytes
  <1>1. Init => Inv
    <2> SUFFICES ASSUME Init PROVE Inv
      BY Zenon
    <2>1. guest.sent = 0
      BY Zenon DEF Init
    <2>2. QED BY <2>1, TypeInit, BoundAssumption, SMTT(30)
  <1>2. Inv /\ [Next]_vars => Inv'
    <2> SUFFICES ASSUME Inv, [Next]_vars PROVE Inv'
      OBVIOUS
    <2>1. TypeOK' /\ WriterOK'
      BY TypeNext, Zenon
    <2>2. CASE GuestSend
      <3>1. PICK k \in 1..Least(GuestCredit, GuestBytes - guest.sent) :
              guest' = [guest EXCEPT !.sent = guest.sent + k]
        BY <2>2 DEF GuestSend
      <3>2. guest'.sent = guest.sent + k /\ guest.sent \in Nat
        BY <3>1, CountTypes, Zenon DEF TypeOK, GuestType
      <3>3. WrappingSub(guest.sent, guest.peer_fwd) \in 0..(WRAP - 1)
        <4>1. guest.sent \in Int /\ guest.peer_fwd \in Int
          <5>1. guest.sent \in Nat /\ guest.peer_fwd \in Nat
            BY CountTypes, Zenon
          <5>2. QED BY <5>1
        <4>2. QED BY <4>1, WrappingSubType, Zenon
      <3>4. GuestCredit \in Int /\ GuestBytes - guest.sent \in Int
        BY <3>2, <3>3, BoundAssumption, WindowAssumption, SMTT(30) DEF GuestCredit, SaturatingSub
      <3>5. k <= GuestBytes - guest.sent
        BY <3>4, SMTT(30) DEF Least
      <3>6. QED BY <2>1, <3>2, <3>5, BoundAssumption, SMTT(30)
    <2>3. CASE ~GuestSend
      <3>1. guest'.sent = guest.sent
        <4>1. CASE UNCHANGED vars \/ Device \/ SetDeadline \/ DeadlinePasses
          BY <4>1, Zenon DEF vars, Device, Handle, AnswerCredit, EndFromPeer, Poll, SetDeadline, DeadlinePasses
        <4>2. CASE Reset \/ Guest \/ GuestAsk \/ GuestEnd
          BY <4>2, Zenon DEF Reset, Guest, GuestReceive, GuestConsume, GuestAsk, GuestEnd, TypeOK, GuestType
        <4>3. ASSUME NEW t \in Threads, Thread(t) \/ BeginRead(t) \/ BeginWrite(t) \/ Close(t)
              PROVE  guest' = guest
          BY <4>3, Zenon DEF Thread, ReadTake, ReadEnd, ReadTimeout, ReadWait, PushCredit, Reserve, WriteWait,
               WriteFails, PushData, PushShutdown, BeginRead, BeginWrite, Close
        <4>4. QED BY <2>3, <4>1, <4>2, <4>3, Zenon DEF Next
      <3>2. QED BY <2>1, <3>1, Zenon
    <2>4. QED BY <2>2, <2>3, Zenon
  <1>3. Inv => CountsFresh
    <2> SUFFICES ASSUME Inv PROVE CountsFresh
      BY Zenon
    <2>1. guest.sent \in Nat /\ guest.peer_fwd \in Nat /\ GuestBytes \in Nat /\ WRAP \in Nat
      BY CountTypes, BoundAssumption, WindowAssumption, Zenon
    <2>2. QED BY <2>1 DEF CountsFresh
  <1>4. Spec => []CountsFresh
    BY <1>1, <1>2, <1>3, PTL DEF Spec
  <1>5. QED BY <1>4, HostWindowHolds, PTL
=============================================================================
