------------------------------- MODULE MCTcp --------------------------------
(***************************************************************************)
(* One connection through TcpProxy: with every decision, resent segments   *)
(* and a server that ends when it likes, and a steady one.                 *)
(***************************************************************************)
EXTENDS TcpProxy

Link(decisions, halfClose, resends, aborts) ==
    [decisions |-> decisions, halfClose |-> halfClose, resends |-> resends, aborts |-> aborts]

MCLinks == {Link({"allow", "ask", "refuse"}, TRUE, 1, 1), Link({"allow"}, FALSE, 0, 1)}
=============================================================================
