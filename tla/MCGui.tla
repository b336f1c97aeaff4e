-------------------------------- MODULE MCGui --------------------------------
(***************************************************************************)
(* Small instances of the display server: two programs and two control     *)
(* clients, one load per family of interactions.                           *)
(***************************************************************************)
EXTENDS GuiServer

ASSUME Programs = {"p", "q"} /\ Controls = {"c", "d"}

Request(op, name, prog, arg) == [op |-> op, name |-> name, prog |-> prog, arg |-> arg]
Run(prog, name) == Request("launch", name, prog, "")
To(op, name, arg) == Request(op, name, "", arg)
A == <<"a", 1>>
Dot == <<".", 0>>
Base == [p \in Programs |-> "a"]
Load(c, d, p, q, msgs, alone, may) ==
    [asks |-> [x \in Controls |-> IF x = "c" THEN c ELSE d],
     sends |-> [x \in Programs |-> IF x = "p" THEN p ELSE q],
     base |-> Base, msgs |-> msgs, alone |-> alone, may |-> may]

Create == Message("create", 1, 0)
Create2 == Message("create", 2, 0)
Destroy == Message("destroy", 1, 0)
Update == Message("update", 1, 1)
Commit1 == Message("commit", 1, 1)
Commit2 == Message("commit", 1, 2)
Clip == Message("clip", 0, 0)
Grab == Message("focus", 1, 0)

MCLoads == {
    \* Started, waited for, killed.
    Load(<<Run("p", A), To("wait", A, "ready")>>, <<To("kill", A, "TERM")>>, 2, 0, {Create, Commit1}, {}, {"ends"}),
    \* Names given up and taken while processes and connections end in any order.
    Load(<<Run("p", A), Run("q", A)>>, <<>>, 1, 0, {Create}, {}, {"ends", "forks"}),
    Load(<<Run("p", A)>>, <<To("kill", A, "TERM"), To("input", Dot, "")>>, 1, 0, {Create}, {}, {"ends"}),
    Load(<<Run("p", A), Run("q", <<>>)>>, <<To("wait", A, "exit")>>, 0, 0, {}, {}, {"ends"}),
    \* Two programs at the pixel budget, and one at its number of canvases.
    Load(<<>>, <<>>, 2, 2, {Create, Update, Commit2}, {"p", "q"}, {}),
    Load(<<>>, <<>>, 4, 0, {Create, Update, Commit1, Message("commit", 1, 0)}, {"p"}, {}),
    Load(<<>>, <<>>, 3, 0, {Create, Create2, Message("create", 3, 0), Destroy}, {"p"}, {"floods", "mute"}),
    \* Waits on canvases that change and go away.
    Load(<<To("wait", A, "frame")>>, <<To("wait", A, "idle")>>, 3, 0, {Create, Commit1, Destroy}, {"p"}, {}),
    Load(<<To("wait", A, "sync")>>, <<To("wait", A, "sync")>>, 0, 0, {}, {"p"}, {"ends", "quits"}),
    Load(<<To("wait", A, "size"), To("close", A, "")>>, <<To("resize", A, ""), To("clipboard", A, ""), To("capture", Dot, "")>>, 2, 0, {Create, Commit2}, {"p"}, {}),
    \* Focus and clipboard between programs.
    Load(<<To("focus", A, "")>>, <<>>, 2, 1, {Create, Grab}, {"p", "q"}, {}),
    Load(<<>>, <<>>, 1, 1, {Clip}, {"p", "q"}, {"ends"}),
    Load(<<To("kill", A, "KILL")>>, <<To("input", Dot, "")>>, 1, 1, {Create}, {"p", "q"}, {}),
    \* The end.
    Load(<<Run("p", A), To("shutdown", A, "")>>, <<Run("q", <<>>)>>, 0, 0, {}, {}, {})
}
=============================================================================
