----------------------------- MODULE ByteStream -----------------------------
(***************************************************************************)
(* What one direction of a stream connection promises its two users: the   *)
(* bytes come out in the order they went in, none twice, none missing.     *)
(* Nothing is said here of packets, windows, locks or threads.             *)
(***************************************************************************)
EXTENDS Naturals, Sequences

VARIABLES written,   \* the bytes the sending side has accepted, in order
          received   \* the bytes the receiving side has handed out, in order

Init == written = <<>> /\ received = <<>>

\* The sender accepts some more bytes.
Write ==
    /\ Len(written') > Len(written)
    /\ SubSeq(written', 1, Len(written)) = written
    /\ UNCHANGED received

\* The receiver hands out some more of what was accepted.
Receive ==
    /\ Len(received') > Len(received)
    /\ Len(received') <= Len(written)
    /\ received' = SubSeq(written, 1, Len(received'))
    /\ UNCHANGED written

Next == Write \/ Receive

Spec == Init /\ [][Next]_<<written, received>>
=============================================================================
