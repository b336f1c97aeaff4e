--------------------------- MODULE AgentExecProofs ---------------------------
(***************************************************************************)
(* What agent::run and serve() promise about one command, for every length *)
(* of stdin, every amount of output and every size of the queues and pipes *)
(* between them.                                                           *)
(***************************************************************************)
EXTENDS AgentExec, SequenceTheorems, TLAPS

-----------------------------------------------------------------------------
(* The inductive invariant *)

\* The frames run() writes, in order: arguments, start, stdin, its end and, after a timeout, a kill.
Script(n, j) ==
    CASE j = 1 -> Frame("A", 0)
      [] j = 2 -> Frame("S", 0)
      [] j > 2 /\ j <= n + 2 -> Frame("I", j - 2)
      [] j = n + 3 -> Frame("I", 0)
      [] OTHER -> Frame("K", 9)
Scripted == host.input + 3 + (IF host.killed THEN 1 ELSE 0)

\* How many of them serve() has taken.
Taken == Scripted - Len(down) - Len(host.todo)

\* What is under way or left to write is the rest of the script.
ScriptKept ==
    /\ Taken \in Nat
    /\ \A i \in 1..Len(down) : down[i] = Script(host.input, Taken + i)
    /\ \A i \in 1..Len(host.todo) : host.todo[i] = Script(host.input, Taken + Len(down) + i)
    /\ host.pc = "read" => host.todo = <<>>

\* Where the two ends are, and what that says of the connection and of the command.
PlacesKept ==
    /\ (hostClosed <=> host.pc = "done") /\ (guestClosed <=> agent.pc = "closed")
    /\ host.result # "none" => host.pc = "done"
    /\ agent.pc = "args" => /\ Taken <= 1 /\ (agent.argv <=> Taken = 1) /\ up = <<>> /\ agent.sending = <<>>
                            /\ child.state = "none" /\ ~agent.exited
                            /\ (hostClosed => host.todo = <<>>)
    /\ agent.pc # "args" => Taken >= 2
    /\ agent.pc \in {"poll", "wait", "out", "sock"} => child.state # "none"
    /\ agent.pc = "exit" => agent.exited /\ agent.sending = <<>>
    /\ agent.exited => agent.status = child.state /\ child.state \in {"exited", "killed"}
    /\ agent.pc \in {"wait", "sock", "closed"} => agent.sending = <<>>
    /\ ~agent.exited => agent.grace = 0

\* Every chunk of stdin is in one place, in order, until the command stops reading.
StdinKept ==
    /\ fed = Numbers(0, Len(fed))
    /\ Len(agent.pending) <= 1
    /\ agent.pc \in {"wait", "out"} /\ "sock" \in agent.ready => agent.pending = <<>>
    /\ agent.pc = "sock" => agent.pending = <<>>
    /\ agent.pc = "args" => fed = <<>> /\ stdin = <<>> /\ agent.pending = <<>> /\ agent.stdin_fd
    /\ child.reads =>
          /\ \A i \in 1..Len(stdin) : stdin[i] = Len(fed) + i
          /\ agent.pending # <<>> => agent.pending = <<Len(fed) + Len(stdin) + 1>>
          /\ agent.stdin_fd /\ agent.pc # "args" =>
                Taken <= host.input + 2 /\ Len(fed) + Len(stdin) + Len(agent.pending) = Taken - 2

\* The pieces under way to the host, and those send_frame still holds.
Coming == up \o agent.sending

\* The pieces q carry the output of pipe k from `from` to `to`: f[i] is how much of it the host will
\* have been handed when piece i is next.
Carries(q, k, from, to) ==
    \E f \in [1..(Len(q) + 1) -> Nat] :
        /\ f[1] = from /\ f[Len(q) + 1] = to
        /\ \A i \in 1..Len(q) : IF q[i].part = 3 /\ q[i].type = k
                                THEN f[i] <= f[i + 1] /\ q[i].data = Numbers(f[i], f[i + 1])
                                ELSE f[i + 1] = f[i]

\* The output of every pipe is what the host was handed, then what is under way, then what is in
\* the pipe: in order, without gaps.
OutputKept ==
    \A k \in Outs :
        /\ got[k] = Numbers(0, Len(got[k]))
        /\ Len(out[k]) <= written[k] /\ out[k] = Numbers(written[k] - Len(out[k]), written[k])
        /\ ~hostClosed => Carries(Coming, k, Len(got[k]), written[k] - Len(out[k]))

\* The last frame is the status or the error, and it is truthful.
LastKept ==
    /\ \A i \in 1..Len(Coming) :
          /\ Coming[i].type \in Outs \union {"X", "F"}
          /\ Coming[i].type \in {"X", "F"} => agent.pc \in {"bye", "closed"}
          /\ Coming[i].type = "X" => agent.exited /\ Coming[i].status = agent.status
          /\ Coming[i].part = 3 /\ Coming[i].type \in {"X", "F"} => i = Len(Coming)
    /\ agent.pc \in {"bye", "closed"} /\ ~hostClosed =>
          Coming # <<>> /\ Coming[Len(Coming)].part = 3 /\ Coming[Len(Coming)].type \in {"X", "F"}

\* Once the command has ended and no descendant holds its pipes, one round of the pump empties them.
DrainKept ==
    /\ \A k \in Outs : k \notin agent.fds_out /\ agent.pc \notin {"bye", "closed"} => out[k] = <<>>
    /\ agent.exited /\ child.heir = "none" =>
          /\ agent.pc = "wait" => agent.fds_out \subseteq agent.ready
          /\ agent.grace > 0 => \A k \in Outs : out[k] = <<>> \/ (agent.pc = "out" /\ k \in agent.ready)
          /\ agent.pc \in {"exit", "bye", "closed"} => \A k \in Outs : out[k] = <<>>

\* The result, once there is one, stays true.
ResultKept ==
    host.result \in {"exited", "killed"} =>
        child.state = host.result /\ (child.heir = "none" => \A k \in Outs : Len(got[k]) = written[k])

-----------------------------------------------------------------------------
(* Types *)

HostState == [pc : {"write", "read", "done"}, input : Inputs, todo : Seq(Frames), part : 0..2, killed : BOOLEAN,
              deadline : {"none", "ahead", "passed"},
              result : {"none", "error", "timeout", "exited", "killed"}]
AgentState == [pc : {"args", "poll", "wait", "out", "sock", "exit", "bye", "closed"}, argv : BOOLEAN,
               sock_open : BOOLEAN, pending : Seq(Nat), stdin_fd : BOOLEAN, fds_out : SUBSET Outs,
               exited : BOOLEAN, grace : 0..GRACE, status : {"none", "exited", "killed"},
               ready : SUBSET (Outs \union {"sock", "in"}), sending : Seq(PieceSet)]
ChildState == [state : {"none", "running", "exited", "killed"}, reads : BOOLEAN,
               heir : {"none", "alive", "dead"}]

\* What TypeOK says of each variable, apart from the chunks' numbers.
HostTyped == host \in HostState /\ hostClosed \in BOOLEAN /\ got \in [Outs -> Seq(Nat)]
WireTyped ==
    /\ down \in Seq(Frames) /\ Len(down) <= DownRoom /\ up \in Seq(PieceSet) /\ Len(up) <= UpRoom
    /\ guestClosed \in BOOLEAN
PipesTyped ==
    /\ out \in [Outs -> Seq(Nat)] /\ \A k \in Outs : Len(out[k]) <= PipeRoom
    /\ written \in [Outs -> 0..Outputs]
InputTyped ==
    /\ agent.pending \in Seq(1..host.input) /\ fed \in Seq(1..host.input)
    /\ stdin \in Seq(1..host.input) /\ Len(stdin) <= PipeRoom
Typed == HostTyped /\ WireTyped /\ PipesTyped /\ InputTyped /\ agent \in AgentState /\ child \in ChildState

AgentInv ==
    /\ Typed /\ ScriptKept /\ PlacesKept /\ StdinKept
    /\ OutputKept /\ LastKept /\ DrainKept /\ ResultKept

LEMMA TypeParts == Typed <=> TypeOK /\ out \in [Outs -> Seq(Nat)]
<1>1. ASSUME Typed PROVE TypeOK /\ out \in [Outs -> Seq(Nat)]
  <2>1. agent \in [pc : {"args", "poll", "wait", "out", "sock", "exit", "bye", "closed"}, argv : BOOLEAN,
                   sock_open : BOOLEAN, pending : Seq(1..host.input), stdin_fd : BOOLEAN, fds_out : SUBSET Outs,
                   exited : BOOLEAN, grace : 0..GRACE, status : {"none", "exited", "killed"},
                   ready : SUBSET (Outs \union {"sock", "in"}), sending : Seq(PieceSet)]
    <3>1. agent \in AgentState /\ agent.pending \in Seq(1..host.input)
      BY <1>1 DEF Typed, InputTyped
    <3> QED  BY <3>1 DEF AgentState
  <2>2. host \in HostState /\ child \in ChildState
    BY <1>1 DEF Typed, HostTyped
  <2>3. /\ hostClosed \in BOOLEAN /\ got \in [Outs -> Seq(Nat)] /\ guestClosed \in BOOLEAN
        /\ down \in Seq(Frames) /\ Len(down) <= DownRoom /\ up \in Seq(PieceSet) /\ Len(up) <= UpRoom
        /\ out \in [Outs -> Seq(Nat)] /\ (\A k \in Outs : Len(out[k]) <= PipeRoom)
        /\ written \in [Outs -> 0..Outputs]
        /\ fed \in Seq(1..host.input) /\ stdin \in Seq(1..host.input) /\ Len(stdin) <= PipeRoom
    BY <1>1, Zenon DEF Typed, HostTyped, WireTyped, PipesTyped, InputTyped
  <2>4. \A k \in Outs : out[k] \in Seq(Nat) /\ Len(out[k]) <= PipeRoom
    BY <2>3, Zenon
  <2> QED  BY <2>1, <2>2, <2>3, <2>4, Zenon DEF TypeOK, HostState, ChildState
<1>2. ASSUME TypeOK, out \in [Outs -> Seq(Nat)] PROVE Typed
  <2>1. agent \in AgentState /\ agent.pending \in Seq(1..host.input)
    <3>1. agent \in [pc : {"args", "poll", "wait", "out", "sock", "exit", "bye", "closed"}, argv : BOOLEAN,
                     sock_open : BOOLEAN, pending : Seq(1..host.input), stdin_fd : BOOLEAN, fds_out : SUBSET Outs,
                     exited : BOOLEAN, grace : 0..GRACE, status : {"none", "exited", "killed"},
                     ready : SUBSET (Outs \union {"sock", "in"}), sending : Seq(PieceSet)]
      BY <1>2, Zenon DEF TypeOK
    <3>2. agent.pending \in Seq(1..host.input)
      BY <3>1
    <3>3. agent.pending \in Seq(Nat)
      <4>1. host.input \in Nat
        BY <1>2, AgentAssumption, Zenon DEF TypeOK
      <4>2. 1..host.input \subseteq Nat
        BY <4>1
      <4> QED  BY <3>2, <4>2, SeqMonotonic, Zenon
    <3> QED  BY <3>1, <3>2, <3>3 DEF AgentState
  <2> QED  BY <1>2, <2>1, Zenon DEF TypeOK, Typed, HostTyped, WireTyped, PipesTyped, InputTyped, HostState, ChildState
<1> QED  BY <1>1, <1>2

LEMMA TypePartsNext == (Typed <=> TypeOK /\ out \in [Outs -> Seq(Nat)])'
BY TypeParts, PTL

-----------------------------------------------------------------------------
(* Numbers, and the pieces that carry them *)

LEMMA NumbersType ==
    ASSUME NEW a \in Nat, NEW b \in Nat, a <= b
    PROVE  /\ Numbers(a, b) \in Seq(Nat) /\ Len(Numbers(a, b)) = b - a
           /\ \A i \in 1..(b - a) : Numbers(a, b)[i] = a + i
<1>1. b - a \in Nat
  OBVIOUS
<1>2. Numbers(a, b) \in [1..(b - a) -> Nat]
  BY DEF Numbers
<1> QED  BY <1>1, <1>2 DEF Numbers

LEMMA NumbersAre ==
    ASSUME NEW a \in Nat, NEW s \in Seq(Nat), NEW b \in Nat, b = a + Len(s), \A i \in 1..Len(s) : s[i] = a + i
    PROVE  s = Numbers(a, b)
<1>1. Len(s) \in Nat /\ a <= b /\ b - a = Len(s)
  OBVIOUS
<1>2. Numbers(a, b) \in Seq(Nat) /\ Len(Numbers(a, b)) = Len(s)
      /\ \A i \in 1..Len(s) : Numbers(a, b)[i] = a + i
  BY <1>1, NumbersType, Zenon
<1> QED  BY <1>2, SeqEqual, Zenon

LEMMA NumbersJoin ==
    ASSUME NEW a \in Nat, NEW b \in Nat, NEW c \in Nat, a <= b, b <= c
    PROVE  Numbers(a, b) \o Numbers(b, c) = Numbers(a, c)
<1> DEFINE p == Numbers(a, b)
<1> DEFINE q == Numbers(b, c)
<1>1. /\ p \in Seq(Nat) /\ Len(p) = b - a /\ q \in Seq(Nat) /\ Len(q) = c - b
      /\ (\A i \in 1..(b - a) : p[i] = a + i) /\ \A i \in 1..(c - b) : q[i] = b + i
  BY NumbersType, Zenon
<1> HIDE DEF p, q
<1>2. /\ p \o q \in Seq(Nat) /\ Len(p \o q) = Len(p) + Len(q)
      /\ \A i \in 1..(Len(p) + Len(q)) : (p \o q)[i] = IF i <= Len(p) THEN p[i] ELSE q[i - Len(p)]
  BY <1>1, ConcatProperties, Zenon
<1>3. Len(p) + Len(q) = c - a
  BY <1>1
<1>4. \A i \in 1..Len(p \o q) : (p \o q)[i] = a + i
  BY <1>1, <1>2, <1>3
<1>5. c = a + Len(p \o q)
  BY <1>2, <1>3
<1>6. p \o q = Numbers(a, c)
  BY <1>2, <1>4, <1>5, NumbersAre, Zenon
<1> QED  BY <1>6 DEF p, q

LEMMA CarriesTake ==
    ASSUME NEW q \in Seq(PieceSet), q # <<>>, NEW k, NEW from \in Nat, NEW to \in Nat, Carries(q, k, from, to)
    PROVE  IF Head(q).part = 3 /\ Head(q).type = k
           THEN \E m \in Nat : from <= m /\ Head(q).data = Numbers(from, m) /\ Carries(Tail(q), k, m, to)
           ELSE Carries(Tail(q), k, from, to)
<1>1. PICK f \in [1..(Len(q) + 1) -> Nat] :
        /\ f[1] = from /\ f[Len(q) + 1] = to
        /\ \A i \in 1..Len(q) : IF q[i].part = 3 /\ q[i].type = k
                                THEN f[i] <= f[i + 1] /\ q[i].data = Numbers(f[i], f[i + 1])
                                ELSE f[i + 1] = f[i]
  BY DEF Carries
<1>2. /\ Len(q) \in Nat \ {0} /\ Head(q) = q[1] /\ Tail(q) \in Seq(PieceSet) /\ Len(Tail(q)) = Len(q) - 1
      /\ \A i \in 1..Len(Tail(q)) : Tail(q)[i] = q[i + 1]
  BY EmptySeq, HeadTailProperties
<1> DEFINE g == [i \in 1..(Len(Tail(q)) + 1) |-> f[i + 1]]
<1>3. g \in [1..(Len(Tail(q)) + 1) -> Nat] /\ g[1] = f[2] /\ g[Len(Tail(q)) + 1] = to
  BY <1>1, <1>2
<1>4. \A i \in 1..Len(Tail(q)) : g[i] = f[i + 1] /\ g[i + 1] = f[i + 2]
  BY <1>2
<1>5. \A i \in 1..Len(Tail(q)) : IF Tail(q)[i].part = 3 /\ Tail(q)[i].type = k
                                 THEN g[i] <= g[i + 1] /\ Tail(q)[i].data = Numbers(g[i], g[i + 1])
                                 ELSE g[i + 1] = g[i]
  <2> SUFFICES ASSUME NEW i \in 1..Len(Tail(q))
               PROVE  IF Tail(q)[i].part = 3 /\ Tail(q)[i].type = k
                      THEN g[i] <= g[i + 1] /\ Tail(q)[i].data = Numbers(g[i], g[i + 1])
                      ELSE g[i + 1] = g[i]
    BY Zenon
  <2>1. i + 1 \in 1..Len(q) /\ Tail(q)[i] = q[i + 1] /\ (i + 1) + 1 = i + 2
    BY <1>2
  <2> HIDE DEF g
  <2> QED  BY <2>1, <1>1, <1>4
<1> HIDE DEF g
<1>6. Carries(Tail(q), k, f[2], to)
  BY <1>3, <1>5, Zenon DEF Carries
<1>7. 1 \in 1..Len(q) /\ f[2] \in Nat
  BY <1>1, <1>2
<1> QED  BY <1>1, <1>2, <1>6, <1>7

LEMMA CarriesJoin ==
    ASSUME NEW q \in Seq(PieceSet), NEW r \in Seq(PieceSet), NEW k, NEW a \in Nat, NEW b \in Nat, NEW c \in Nat,
           Carries(q, k, a, b), Carries(r, k, b, c)
    PROVE  Carries(q \o r, k, a, c)
<1>1. PICK f \in [1..(Len(q) + 1) -> Nat] :
        /\ f[1] = a /\ f[Len(q) + 1] = b
        /\ \A i \in 1..Len(q) : IF q[i].part = 3 /\ q[i].type = k
                                THEN f[i] <= f[i + 1] /\ q[i].data = Numbers(f[i], f[i + 1])
                                ELSE f[i + 1] = f[i]
  BY Zenon DEF Carries
<1>2. PICK g \in [1..(Len(r) + 1) -> Nat] :
        /\ g[1] = b /\ g[Len(r) + 1] = c
        /\ \A i \in 1..Len(r) : IF r[i].part = 3 /\ r[i].type = k
                                THEN g[i] <= g[i + 1] /\ r[i].data = Numbers(g[i], g[i + 1])
                                ELSE g[i + 1] = g[i]
  BY Zenon DEF Carries
<1> DEFINE s == q \o r
<1>3. /\ s \in Seq(PieceSet) /\ Len(s) = Len(q) + Len(r) /\ Len(q) \in Nat /\ Len(r) \in Nat
      /\ \A i \in 1..Len(s) : s[i] = IF i <= Len(q) THEN q[i] ELSE r[i - Len(q)]
  BY ConcatProperties, LenProperties
<1> HIDE DEF s
<1> DEFINE h == [i \in 1..(Len(s) + 1) |-> IF i <= Len(q) THEN f[i] ELSE g[i - Len(q)]]
<1>4. h \in [1..(Len(s) + 1) -> Nat]
  BY <1>1, <1>2, <1>3, SMTT(30)
<1>5. h[1] = a /\ h[Len(s) + 1] = c
  BY <1>1, <1>2, <1>3
<1>6. ASSUME NEW i \in 1..Len(s)
      PROVE  IF s[i].part = 3 /\ s[i].type = k
             THEN h[i] <= h[i + 1] /\ s[i].data = Numbers(h[i], h[i + 1])
             ELSE h[i + 1] = h[i]
  <2>1. CASE i <= Len(q)
    <3>1. i \in 1..Len(q) /\ s[i] = q[i] /\ h[i] = f[i] /\ h[i + 1] = f[i + 1]
      BY <1>1, <1>2, <1>3, <2>1
    <3> HIDE DEF h
    <3> QED  BY <3>1, <1>1, Zenon
  <2>2. CASE i > Len(q)
    <3>1. /\ i - Len(q) \in 1..Len(r) /\ s[i] = r[i - Len(q)] /\ h[i] = g[i - Len(q)]
          /\ h[i + 1] = g[(i - Len(q)) + 1]
      BY <1>3, <2>2, SMTT(30)
    <3> HIDE DEF h
    <3> QED  BY <3>1, <1>2, Zenon
  <2> QED  BY <2>1, <2>2, <1>3
<1> HIDE DEF h
<1>7. Carries(s, k, a, c)
  BY <1>4, <1>5, <1>6, Zenon DEF Carries
<1> QED  BY <1>7 DEF s

\* No piece is the payload of k: nothing of k is carried.
LEMMA CarriesNothing ==
    ASSUME NEW q \in Seq(PieceSet), NEW k, NEW a \in Nat, \A i \in 1..Len(q) : q[i].type # k
    PROVE  Carries(q, k, a, a)
<1> DEFINE f == [i \in 1..(Len(q) + 1) |-> a]
<1>1. Len(q) \in Nat
  BY LenProperties
<1>2. f \in [1..(Len(q) + 1) -> Nat] /\ f[1] = a /\ f[Len(q) + 1] = a
  BY <1>1
<1>3. \A i \in 1..Len(q) : f[i + 1] = f[i]
  BY <1>1
<1> HIDE DEF f
<1> QED  BY <1>2, <1>3 DEF Carries

LEMMA PiecesType ==
    ASSUME NEW t \in {"1", "2", "X", "F"}, NEW st \in {"none", "exited", "killed"}, NEW d \in Seq(Nat)
    PROVE  /\ Pieces(t, st, d) \in Seq(PieceSet) /\ Len(Pieces(t, st, d)) = 3 /\ Pieces(t, st, d) # <<>>
           /\ \A i \in 1..3 : /\ Pieces(t, st, d)[i].type = t /\ Pieces(t, st, d)[i].status = st
                              /\ Pieces(t, st, d)[i].data = d /\ Pieces(t, st, d)[i].part = i
<1>1. \A i \in 1..3 : [part |-> i, type |-> t, status |-> st, data |-> d] \in PieceSet
  BY DEF PieceSet
<1>2. Pieces(t, st, d) \in [1..3 -> PieceSet]
  BY <1>1 DEF Pieces
<1>3. Pieces(t, st, d) \in Seq(PieceSet) /\ Len(Pieces(t, st, d)) = 3
  BY <1>1 DEF Pieces
<1>4. \A i \in 1..3 : /\ Pieces(t, st, d)[i].type = t /\ Pieces(t, st, d)[i].status = st
                      /\ Pieces(t, st, d)[i].data = d /\ Pieces(t, st, d)[i].part = i
  BY DEF Pieces
<1>5. Pieces(t, st, d) # <<>>
  <2>1. Len(<<>>) = 0
    BY EmptySeq
  <2> QED  BY <1>3, <2>1
<1> QED  BY <1>3, <1>4, <1>5

LEMMA CarriesPieces ==
    ASSUME NEW k \in {"1", "2", "X", "F"}, NEW st \in {"none", "exited", "killed"}, NEW a \in Nat, NEW b \in Nat, a <= b
    PROVE  Carries(Pieces(k, st, Numbers(a, b)), k, a, b)
<1> DEFINE q == Pieces(k, st, Numbers(a, b))
<1>1. /\ Len(q) = 3
      /\ \A i \in 1..3 : q[i].type = k /\ q[i].data = Numbers(a, b) /\ q[i].part = i
  <2>1. Numbers(a, b) \in Seq(Nat)
    BY NumbersType
  <2> QED  BY <2>1, PiecesType
<1> DEFINE f == [i \in 1..4 |-> IF i = 4 THEN b ELSE a]
<1>2. f \in [1..4 -> Nat] /\ f[1] = a /\ f[2] = a /\ f[3] = a /\ f[4] = b
  OBVIOUS
<1> HIDE DEF q, f
<1>3. \A i \in 1..3 : IF q[i].part = 3 /\ q[i].type = k
                      THEN f[i] <= f[i + 1] /\ q[i].data = Numbers(f[i], f[i + 1])
                      ELSE f[i + 1] = f[i]
  <2>1. q[1].part = 1 /\ q[2].part = 2 /\ q[3].part = 3 /\ q[3].data = Numbers(a, b)
    BY <1>1
  <2>2. f[1 + 1] = f[1] /\ f[2 + 1] = f[2] /\ f[3 + 1] = b
    BY <1>2
  <2> TAKE i \in 1..3
  <2>3. i = 1 \/ i = 2 \/ i = 3
    OBVIOUS
  <2>4. CASE i = 1  BY <2>1, <2>2, <2>4
  <2>5. CASE i = 2  BY <2>1, <2>2, <2>5
  <2>6. CASE i = 3
    <3>1. f[3] = a /\ f[3 + 1] = b /\ f[3] <= f[3 + 1]
      BY <1>2, <2>2
    <3>2. q[3].data = Numbers(f[3], f[3 + 1])
      BY <2>1, <3>1
    <3> QED  BY <2>1, <2>6, <3>1, <3>2, <1>1
  <2> QED  BY <2>3, <2>4, <2>5, <2>6
<1>4. Len(q) + 1 = 4
  BY <1>1
<1>5. Carries(q, k, a, b)
  BY <1>1, <1>2, <1>3, <1>4 DEF Carries
<1> QED  BY <1>5 DEF q

-----------------------------------------------------------------------------
(* What every step may use *)

LEMMA InvFacts ==
    AgentInv => /\ host \in HostState /\ host.input \in Nat /\ host.todo \in Seq(Frames) /\ Len(host.todo) \in Nat
                /\ down \in Seq(Frames) /\ Len(down) \in Nat /\ Taken \in Nat
                /\ up \in Seq(PieceSet) /\ agent \in AgentState /\ agent.sending \in Seq(PieceSet)
                /\ child \in ChildState /\ Coming \in Seq(PieceSet) /\ Len(Coming) \in Nat
                /\ {DownRoom, UpRoom, PipeRoom, GRACE} \subseteq Nat \ {0}
                /\ out \in [Outs -> Seq(Nat)] /\ got \in [Outs -> Seq(Nat)] /\ written \in [Outs -> 0..Outputs]
                /\ Outputs \in Nat
<1> SUFFICES ASSUME AgentInv
             PROVE  /\ host \in HostState /\ host.input \in Nat /\ host.todo \in Seq(Frames) /\ Len(host.todo) \in Nat
                    /\ down \in Seq(Frames) /\ Len(down) \in Nat /\ Taken \in Nat
                    /\ up \in Seq(PieceSet) /\ agent \in AgentState /\ agent.sending \in Seq(PieceSet)
                    /\ child \in ChildState /\ Coming \in Seq(PieceSet) /\ Len(Coming) \in Nat
                    /\ {DownRoom, UpRoom, PipeRoom, GRACE} \subseteq Nat \ {0}
                    /\ out \in [Outs -> Seq(Nat)] /\ got \in [Outs -> Seq(Nat)] /\ written \in [Outs -> 0..Outputs]
                    /\ Outputs \in Nat
  OBVIOUS
<1>1. /\ host \in HostState /\ down \in Seq(Frames) /\ up \in Seq(PieceSet) /\ agent \in AgentState /\ child \in ChildState
      /\ Taken \in Nat
      /\ out \in [Outs -> Seq(Nat)] /\ got \in [Outs -> Seq(Nat)] /\ written \in [Outs -> 0..Outputs]
  BY DEF AgentInv, Typed, HostTyped, WireTyped, PipesTyped, ScriptKept
<1>2. host.input \in Nat /\ host.todo \in Seq(Frames) /\ agent.sending \in Seq(PieceSet)
  BY <1>1, AgentAssumption, Zenon DEF HostState, AgentState
<1>3. Coming \in Seq(PieceSet)
  BY <1>1, <1>2, ConcatProperties DEF Coming
<1>4. Len(host.todo) \in Nat /\ Len(down) \in Nat /\ Len(Coming) \in Nat
  BY <1>1, <1>2, <1>3, LenProperties
<1> QED  BY <1>1, <1>2, <1>3, <1>4, AgentAssumption

\* A step of run() that reads nothing: it writes more of the script, or gives up.
LEMMA HostQuiet ==
    ASSUME AgentInv, NEW new \in HostState, host' = new, new.input = host.input,
           UNCHANGED <<up, guestClosed, guestVars, got>>,
           down' \in Seq(Frames), Len(down') <= DownRoom, Taken' = Taken, ScriptKept',
           hostClosed' \in BOOLEAN, hostClosed' <=> new.pc = "done", hostClosed => hostClosed',
           agent.pc = "args" /\ hostClosed' => new.todo = <<>>,
           new.result # "none" => new.pc = "done",
           new.result \in {"exited", "killed"} => new.result = host.result
    PROVE  AgentInv'
<1>1. /\ agent' = agent /\ child' = child /\ stdin' = stdin /\ out' = out /\ written' = written /\ fed' = fed
      /\ up' = up /\ got' = got /\ guestClosed' = guestClosed /\ host'.input = host.input
  BY DEF guestVars
<1>2. Typed'
  BY <1>1 DEF AgentInv, Typed, HostTyped, WireTyped, PipesTyped, InputTyped
<1>3. PlacesKept'
  BY <1>1 DEF AgentInv, PlacesKept
<1>4. StdinKept'
  BY <1>1, Zenon DEF AgentInv, StdinKept
<1>5. Coming' = Coming
  BY <1>1 DEF Coming
<1>6. OutputKept'
  BY <1>1, <1>5 DEF AgentInv, OutputKept
<1>7. LastKept' /\ DrainKept'
  BY <1>1, <1>5 DEF AgentInv, LastKept, DrainKept
<1>8. ResultKept'
  BY <1>1 DEF AgentInv, ResultKept
<1> QED  BY <1>2, <1>3, <1>4, <1>6, <1>7, <1>8 DEF AgentInv

LEMMA HostWriteKeeps ==
    ASSUME AgentInv, HostWrite
    PROVE  AgentInv'
<1>1. /\ host \in HostState /\ host.input \in Nat /\ host.todo \in Seq(Frames) /\ Len(host.todo) \in Nat
      /\ down \in Seq(Frames) /\ Len(down) \in Nat /\ Taken \in Nat
  BY InvFacts
<1>2. /\ host.pc = "write" /\ host.todo # <<>> /\ Len(down) < DownRoom /\ down' = Append(down, Head(host.todo))
      /\ host' = [host EXCEPT !.todo = Tail(host.todo)]
      /\ UNCHANGED <<up, hostClosed, guestClosed, guestVars, got>>
  BY DEF HostWrite
<1> DEFINE rest == Tail(host.todo)
<1> DEFINE new == [host EXCEPT !.todo = rest]
<1>3. /\ Head(host.todo) = host.todo[1] /\ Head(host.todo) \in Frames
      /\ rest \in Seq(Frames) /\ Len(rest) = Len(host.todo) - 1
      /\ \A i \in 1..Len(rest) : rest[i] = host.todo[i + 1]
      /\ Len(host.todo) > 0
  BY <1>1, <1>2, HeadTailProperties, EmptySeq
<1>6. host' = new
  BY <1>2
<1> HIDE DEF rest
<1>4. /\ down' \in Seq(Frames) /\ Len(down') = Len(down) + 1 /\ down'[Len(down) + 1] = host.todo[1]
      /\ \A i \in 1..Len(down) : down'[i] = down[i]
  BY <1>1, <1>2, <1>3, AppendProperties
<1>5. /\ new \in HostState /\ new.input = host.input /\ new.todo = rest /\ new.pc = host.pc
      /\ new.killed = host.killed /\ new.result = host.result
  BY <1>1, <1>3, Zenon DEF HostState
<1> HIDE DEF new
<1>7. Taken' = Taken
  <2>1. Scripted' = Scripted /\ Scripted \in Nat
    BY <1>1, <1>5, <1>6 DEF Scripted
  <2>2. Len(host'.todo) = Len(host.todo) - 1
    BY <1>3, <1>5, <1>6
  <2> QED  BY <2>1, <2>2, <1>1, <1>4 DEF Taken
<1>8. ScriptKept'
  <2>1. \A i \in 1..Len(down') : down'[i] = Script(host.input, Taken + i)
    <3> TAKE i \in 1..Len(down')
    <3>1. CASE i <= Len(down)
      <4>1. i \in 1..Len(down) /\ down'[i] = down[i]
        BY <1>1, <1>4, <3>1
      <4> QED  BY <4>1 DEF AgentInv, ScriptKept
    <3>2. CASE i = Len(down) + 1
      <4>1. 1 \in 1..Len(host.todo) /\ Taken + Len(down) + 1 = Taken + i
        <5>1. 1 \in 1..Len(host.todo)
          BY <1>1, <1>3
        <5>2. \A a, b \in Nat : a + b + 1 = a + (b + 1)
          OBVIOUS
        <5>3. Taken + Len(down) + 1 = Taken + (Len(down) + 1)
          BY <1>1, <5>2, Zenon
        <5> QED  BY <3>2, <5>1, <5>3, Zenon
      <4>2. host.todo[1] = Script(host.input, Taken + Len(down) + 1)
        BY <4>1 DEF AgentInv, ScriptKept
      <4> QED  BY <1>4, <3>2, <4>1, <4>2
    <3> QED  BY <1>1, <1>4, <3>1, <3>2
  <2>2. \A i \in 1..Len(new.todo) : new.todo[i] = Script(host.input, Taken + Len(down') + i)
    <3> TAKE i \in 1..Len(new.todo)
    <3>1. /\ i + 1 \in 1..Len(host.todo) /\ new.todo[i] = host.todo[i + 1]
          /\ Taken + Len(down) + (i + 1) = Taken + Len(down') + i
      BY <1>1, <1>3, <1>4, <1>5
    <3>2. host.todo[i + 1] = Script(host.input, Taken + Len(down) + (i + 1))
      BY <3>1 DEF AgentInv, ScriptKept
    <3> QED  BY <3>1, <3>2
  <2> QED  BY <2>1, <2>2, <1>1, <1>2, <1>5, <1>6, <1>7, Zenon DEF ScriptKept
<1>9. Len(down') <= DownRoom /\ hostClosed' \in BOOLEAN /\ (hostClosed' <=> new.pc = "done")
  BY <1>1, <1>2, <1>4, <1>5, InvFacts DEF AgentInv, PlacesKept, Typed, HostTyped
<1> QED  BY <1>2, <1>4, <1>5, <1>6, <1>7, <1>8, <1>9, HostQuiet DEF AgentInv, PlacesKept, ResultKept

LEMMA HostStartReadingKeeps ==
    ASSUME AgentInv, HostStartReading
    PROVE  AgentInv'
<1>1. host \in HostState /\ down \in Seq(Frames)
  BY InvFacts
<1>2. /\ host.pc = "write" /\ host.todo = <<>> /\ host' = [host EXCEPT !.pc = "read", !.deadline = Deadline]
      /\ UNCHANGED <<down, up, hostClosed, guestClosed, guestVars, got>>
  BY DEF HostStartReading
<1> DEFINE new == [host EXCEPT !.pc = "read", !.deadline = Deadline]
<1>3. /\ new \in HostState /\ new.input = host.input /\ new.todo = host.todo /\ new.pc = "read"
      /\ new.killed = host.killed /\ new.result = host.result
  BY <1>1, Zenon DEF HostState, Deadline
<1> HIDE DEF new
<1>4. host' = new
  BY <1>2 DEF new
<1>5. Taken' = Taken /\ ScriptKept'
  BY <1>2, <1>3, <1>4 DEF AgentInv, ScriptKept, Taken, Scripted
<1>6. ~hostClosed /\ host.result = "none" /\ hostClosed' \in BOOLEAN
  BY <1>1, <1>2 DEF AgentInv, PlacesKept, HostState, Typed, HostTyped
<1>7. down' \in Seq(Frames) /\ Len(down') <= DownRoom
  BY <1>2 DEF AgentInv, Typed, WireTyped
<1> QED  BY <1>2, <1>3, <1>4, <1>5, <1>6, <1>7, HostQuiet

LEMMA HostWriteFailsKeeps ==
    ASSUME AgentInv, HostWriteFails
    PROVE  AgentInv'
<1>1. host \in HostState /\ down \in Seq(Frames)
  BY InvFacts
<1>2. /\ host.pc = "write" /\ guestClosed /\ host' = [host EXCEPT !.pc = "done", !.result = "error"]
      /\ hostClosed' = TRUE /\ UNCHANGED <<down, up, guestClosed, guestVars, got>>
  BY DEF HostWriteFails, Return
<1> DEFINE new == [host EXCEPT !.pc = "done", !.result = "error"]
<1>3. /\ new \in HostState /\ new.input = host.input /\ new.todo = host.todo /\ new.pc = "done"
      /\ new.killed = host.killed /\ new.result = "error"
  BY <1>1, Zenon DEF HostState
<1> HIDE DEF new
<1>4. host' = new
  BY <1>2 DEF new
<1>5. Taken' = Taken /\ ScriptKept'
  BY <1>2, <1>3, <1>4 DEF AgentInv, ScriptKept, Taken, Scripted
<1>6. agent.pc # "args"
  BY <1>2 DEF AgentInv, PlacesKept
<1>7. down' \in Seq(Frames) /\ Len(down') <= DownRoom
  BY <1>2 DEF AgentInv, Typed, WireTyped
<1> QED  BY <1>2, <1>3, <1>4, <1>5, <1>6, <1>7, HostQuiet

LEMMA DeadlinePassesKeeps ==
    ASSUME AgentInv, DeadlinePasses
    PROVE  AgentInv'
<1>1. host \in HostState /\ down \in Seq(Frames)
  BY InvFacts
<1>2. /\ host' = [host EXCEPT !.deadline = "passed"]
      /\ UNCHANGED <<down, up, hostClosed, guestClosed, guestVars, got>>
  BY DEF DeadlinePasses
<1> DEFINE new == [host EXCEPT !.deadline = "passed"]
<1>3. /\ new \in HostState /\ new.input = host.input /\ new.todo = host.todo /\ new.pc = host.pc
      /\ new.killed = host.killed /\ new.result = host.result
  BY <1>1 DEF HostState
<1> HIDE DEF new
<1>4. host' = new
  BY <1>2 DEF new
<1>5. Taken' = Taken /\ ScriptKept'
  BY <1>2, <1>3, <1>4 DEF AgentInv, ScriptKept, Taken, Scripted
<1>6. /\ down' \in Seq(Frames) /\ Len(down') <= DownRoom /\ hostClosed' \in BOOLEAN
      /\ (hostClosed' <=> new.pc = "done") /\ (agent.pc = "args" /\ hostClosed' => new.todo = <<>>)
      /\ (new.result # "none" => new.pc = "done")
  BY <1>2, <1>3 DEF AgentInv, Typed, WireTyped, HostTyped, PlacesKept
<1> QED  BY <1>2, <1>3, <1>4, <1>5, <1>6, HostQuiet

LEMMA HostTimeoutKeeps ==
    ASSUME AgentInv, HostTimeout
    PROVE  AgentInv'
<1>1. /\ host \in HostState /\ down \in Seq(Frames) /\ host.input \in Nat /\ Taken \in Nat /\ Len(down) \in Nat
  BY InvFacts
<1>2. /\ host.pc = "read" /\ host.todo = <<>> /\ ~hostClosed /\ Len(host.todo) = 0
      /\ UNCHANGED <<down, up, guestClosed, guestVars, got>>
  BY EmptySeq DEF HostTimeout, AgentInv, ScriptKept, PlacesKept
<1>3. down' \in Seq(Frames) /\ Len(down') <= DownRoom
  BY <1>2 DEF AgentInv, Typed, WireTyped
<1>4. CASE host.part < 2 /\ ~host.killed
  <2>a. <<Frame("K", 9)>> \in Seq(Frames) /\ Len(<<Frame("K", 9)>>) = 1 /\ <<Frame("K", 9)>>[1] = Frame("K", 9)
    BY DEF Frame, Frames
  <2>b. PICK kill \in Seq(Frames) : kill = <<Frame("K", 9)>>
    BY <2>a, Zenon
  <2> DEFINE new == [host EXCEPT !.pc = "write", !.todo = kill, !.part = 0,
                                 !.killed = TRUE, !.deadline = "ahead"]
  <2>1. host' = new /\ hostClosed' = hostClosed
    BY <1>4, <2>b DEF HostTimeout
  <2>2. kill \in Seq(Frames) /\ Len(kill) = 1 /\ kill[1] = Frame("K", 9)
    BY <2>a, <2>b
  <2>3. /\ new \in HostState /\ new.input = host.input /\ new.todo = kill /\ new.pc = "write"
        /\ new.killed /\ new.result = host.result
    <3>1. /\ new.input = host.input /\ new.todo = kill /\ new.pc = "write" /\ new.result = host.result
          /\ new.part = 0 /\ new.deadline = "ahead"
      BY <1>1 DEF HostState
    <3>2. new.killed = TRUE
      BY <1>1, Zenon DEF HostState
    <3>3. new \in HostState
      <4>1. PICK yes \in BOOLEAN : yes = TRUE
        BY Zenon
      <4>2. PICK none \in 0..2 : none = 0
        OBVIOUS
      <4>3. new = [host EXCEPT !.pc = "write", !.todo = kill, !.part = none, !.killed = yes, !.deadline = "ahead"]
        BY <4>1, <4>2, Zenon
      <4> HIDE DEF new
      <4> QED  BY <1>1, <2>2, <4>3, Zenon DEF HostState
    <3> QED  BY <3>1, <3>2, <3>3
  <2> HIDE DEF new
  <2>4. Taken' = Taken /\ Taken + Len(down) = host.input + 3
    <3>1. Scripted = host.input + 3 /\ Scripted' = host.input + 4
      BY <1>1, <1>4, <2>1, <2>3 DEF Scripted
    <3>2. Len(host'.todo) = 1 /\ down' = down
      BY <1>2, <2>1, <2>2, <2>3
    <3> QED  BY <1>1, <1>2, <3>1, <3>2, SMTT(30) DEF Taken
  <2>5. ScriptKept'
    <3>1. Script(host.input, Taken + Len(down) + 1) = Frame("K", 9)
      BY <1>1, <2>4, SMTT(30) DEF Script
    <3>2. \A i \in 1..Len(kill) : kill[i] = Script(host.input, Taken + Len(down) + i)
      <4>1. \A i \in 1..Len(kill) : i = 1
        BY <2>2
      <4> QED  BY <2>2, <4>1, <3>1
    <3> QED  BY <1>1, <1>2, <2>1, <2>3, <2>4, <3>2 DEF AgentInv, ScriptKept
  <2>6. hostClosed' \in BOOLEAN /\ (new.result # "none" => new.pc = "done")
    BY <1>2, <2>1, <2>3 DEF AgentInv, PlacesKept, Typed, HostTyped
  <2> QED  BY <1>2, <1>3, <2>1, <2>3, <2>4, <2>5, <2>6, HostQuiet
<1>5. CASE ~(host.part < 2 /\ ~host.killed)
  <2> DEFINE new == [host EXCEPT !.pc = "done", !.result = "timeout"]
  <2>1. host' = new /\ hostClosed' = TRUE
    BY <1>5 DEF HostTimeout, Return
  <2>2. /\ new \in HostState /\ new.input = host.input /\ new.todo = host.todo /\ new.pc = "done"
        /\ new.killed = host.killed /\ new.result = "timeout"
    BY <1>1, Zenon DEF HostState
  <2> HIDE DEF new
  <2>3. Taken' = Taken /\ ScriptKept'
    BY <1>2, <2>1, <2>2 DEF AgentInv, ScriptKept, Taken, Scripted
  <2> QED  BY <1>2, <1>3, <2>1, <2>2, <2>3, HostQuiet
<1> QED  BY <1>4, <1>5

-----------------------------------------------------------------------------
(* run() reads a piece *)

LEMMA TailConcat ==
    ASSUME NEW S, NEW p \in Seq(S), NEW q \in Seq(S), p # <<>>
    PROVE  /\ p \o q # <<>> /\ Head(p \o q) = Head(p) /\ Tail(p \o q) = Tail(p) \o q
           /\ Tail(p) \in Seq(S) /\ Head(p) \in S
<1>1. Len(p) \in Nat /\ Len(q) \in Nat /\ Len(p) # 0
  BY EmptySeq, LenProperties
<1>r. PICK r : r = p \o q
  BY Zenon
<1>2. /\ r \in Seq(S) /\ Len(r) = Len(p) + Len(q)
      /\ \A i \in 1..(Len(p) + Len(q)) : r[i] = IF i <= Len(p) THEN p[i] ELSE q[i - Len(p)]
  BY <1>r, ConcatProperties, Zenon
<1>3. r # <<>>
  BY <1>1, <1>2, EmptySeq
<1>4. PICK t \in Seq(S) : t = Tail(p) /\ Len(t) = Len(p) - 1 /\ \A i \in 1..Len(t) : t[i] = p[i + 1]
  BY HeadTailProperties, Zenon
<1>s. PICK s : s = Tail(r)
  BY Zenon
<1>5. s \in Seq(S) /\ Len(s) = Len(r) - 1 /\ \A i \in 1..Len(s) : s[i] = r[i + 1]
  BY <1>2, <1>3, <1>s, HeadTailProperties, Zenon
<1>u. PICK u : u = t \o q
  BY Zenon
<1>6. /\ u \in Seq(S) /\ Len(u) = Len(t) + Len(q)
      /\ \A i \in 1..(Len(t) + Len(q)) : u[i] = IF i <= Len(t) THEN t[i] ELSE q[i - Len(t)]
  BY <1>u, ConcatProperties, Zenon
<1>7. \A i \in 1..Len(s) : s[i] = u[i]
  <2> TAKE i \in 1..Len(s)
  <2>1. /\ i \in 1..Len(u) /\ i + 1 \in 1..Len(r) /\ (i + 1) - Len(p) = i - Len(t)
        /\ (i <= Len(t) <=> i + 1 <= Len(p)) /\ (i <= Len(t) => i \in 1..Len(t))
    BY <1>1, <1>2, <1>4, <1>5, <1>6
  <2>2. s[i] = r[i + 1]
    BY <1>5
  <2>3. r[i + 1] = IF i + 1 <= Len(p) THEN p[i + 1] ELSE q[(i + 1) - Len(p)]
    BY <1>2, <2>1
  <2>4. u[i] = IF i <= Len(t) THEN t[i] ELSE q[i - Len(t)]
    BY <1>6, <2>1, Zenon
  <2> QED  BY <1>4, <2>1, <2>2, <2>3, <2>4
<1>8. s = u
  <2>1. Len(s) = Len(u)
    BY <1>1, <1>2, <1>4, <1>5, <1>6
  <2> QED  BY <1>5, <1>6, <1>7, <2>1, SeqEqual, Zenon
<1>9. Head(r) = Head(p) /\ Head(p) \in S
  <2>1. Head(r) = r[1] /\ Head(p) = p[1] /\ Head(p) \in S
    BY <1>3, HeadTailProperties
  <2>2. 1 \in 1..Len(r) /\ 1 <= Len(p)
    BY <1>1, <1>2
  <2> QED  BY <1>2, <2>1, <2>2
<1> QED  BY <1>r, <1>s, <1>u, <1>2, <1>3, <1>4, <1>5, <1>8, <1>9

LEMMA CarriesEnd ==
    ASSUME NEW q, Len(q) = 0, NEW k, NEW a, NEW b, Carries(q, k, a, b)
    PROVE  a = b
<1>1. PICK f \in [1..(Len(q) + 1) -> Nat] : f[1] = a /\ f[Len(q) + 1] = b
  BY DEF Carries
<1>2. Len(q) + 1 = 1
  OBVIOUS
<1> QED  BY <1>1, <1>2

\* What every reading step has in common.
LEMMA HostReads ==
    ASSUME AgentInv, NEW new \in HostState, host' = new, new.input = host.input, new.todo = host.todo,
           new.killed = host.killed, host.pc = "read", up # <<>>, up' = Tail(up),
           UNCHANGED <<down, guestClosed, guestVars>>,
           hostClosed' \in BOOLEAN, hostClosed' <=> new.pc = "done", new.result # "none" => new.pc = "done",
           got' \in [Outs -> Seq(Nat)],
           hostClosed' \/ ~(Head(up).part = 3 /\ Head(up).type \in {"X", "F"})
    PROVE  /\ Coming # <<>> /\ Head(Coming) = Head(up) /\ Head(up) \in PieceSet
           /\ Coming' = Tail(Coming) /\ Len(Tail(Coming)) = Len(Coming) - 1
           /\ OutputKept' /\ ResultKept' => AgentInv'
<1>1. /\ agent' = agent /\ child' = child /\ stdin' = stdin /\ out' = out /\ written' = written /\ fed' = fed
      /\ down' = down /\ guestClosed' = guestClosed /\ host'.input = host.input
  BY DEF guestVars
<1>2. /\ up \in Seq(PieceSet) /\ agent.sending \in Seq(PieceSet) /\ Coming \in Seq(PieceSet) /\ Len(Coming) \in Nat
      /\ Len(up) \in Nat /\ UpRoom \in Nat
  BY InvFacts, LenProperties
<1>3. /\ Coming # <<>> /\ Head(Coming) = Head(up) /\ Head(up) \in PieceSet /\ Coming' = Tail(Coming)
      /\ up' \in Seq(PieceSet)
  <2>1. /\ Coming # <<>> /\ Head(Coming) = Head(up) /\ Tail(Coming) = Tail(up) \o agent.sending
        /\ Head(up) \in PieceSet /\ Tail(up) \in Seq(PieceSet)
    BY <1>2, TailConcat, SMTT(30) DEF Coming
  <2>2. Coming' = Tail(up) \o agent.sending
    BY <1>1 DEF Coming
  <2> QED  BY <2>1, <2>2, Zenon
<1>4. /\ Head(Coming) = Coming[1] /\ Len(Tail(Coming)) = Len(Coming) - 1 /\ Len(up') = Len(up) - 1
      /\ \A i \in 1..Len(Tail(Coming)) : Tail(Coming)[i] = Coming[i + 1]
  BY <1>2, <1>3, HeadTailProperties
<1>5. Typed'
  <2>1. Len(up') <= UpRoom
    BY <1>2, <1>4 DEF AgentInv, Typed, WireTyped
  <2> QED  BY <1>1, <1>3, <2>1, Zenon DEF AgentInv, Typed, HostTyped, WireTyped, PipesTyped, InputTyped
<1>6. Taken' = Taken /\ ScriptKept'
  BY <1>1 DEF AgentInv, ScriptKept, Taken, Scripted
<1>7. PlacesKept'
  <2>1. agent.pc # "args"
    BY DEF AgentInv, PlacesKept
  <2> QED  BY <1>1, <1>6, <2>1 DEF AgentInv, PlacesKept
<1>8. StdinKept'
  BY <1>1, <1>6, Zenon DEF AgentInv, StdinKept
<1>9. LastKept'
  <2> DEFINE c == Tail(Coming)
  <2>1. c = Coming' /\ Len(c) = Len(Coming) - 1 /\ \A i \in 1..Len(c) : c[i] = Coming[i + 1]
    BY <1>3, <1>4
  <2> HIDE DEF c
  <2>2. ASSUME NEW i \in 1..Len(c)
        PROVE  /\ c[i].type \in Outs \union {"X", "F"}
               /\ c[i].type \in {"X", "F"} => agent.pc \in {"bye", "closed"}
               /\ c[i].type = "X" => agent.exited /\ c[i].status = agent.status
               /\ c[i].part = 3 /\ c[i].type \in {"X", "F"} => i = Len(c)
    <3>1. i + 1 \in 1..Len(Coming) /\ c[i] = Coming[i + 1] /\ (i + 1 = Len(Coming) => i = Len(c))
      <4>1. c[i] = Coming[i + 1]
        BY <2>1
      <4>2. i + 1 \in 1..Len(Coming) /\ (i + 1 = Len(Coming) => i = Len(c))
        BY <1>2, <2>1
      <4> QED  BY <4>1, <4>2
    <3> QED  BY <3>1 DEF AgentInv, LastKept
  <2>3. ASSUME agent.pc \in {"bye", "closed"}, ~hostClosed'
        PROVE  c # <<>> /\ c[Len(c)].part = 3 /\ c[Len(c)].type \in {"X", "F"}
    <3>1. ~hostClosed
      BY DEF AgentInv, PlacesKept
    <3>2. Coming[Len(Coming)].part = 3 /\ Coming[Len(Coming)].type \in {"X", "F"}
      BY <2>3, <3>1 DEF AgentInv, LastKept
    <3>3. Len(Coming) # 1
      BY <2>3, <3>2, <1>3, <1>4
    <3>4. Len(Coming) # 0
      BY <1>2, <1>3, EmptySeq
    <3>5. Len(c) \in 1..Len(c) /\ Len(c) + 1 = Len(Coming) /\ c # <<>>
      BY <1>2, <2>1, <3>3, <3>4
    <3> QED  BY <2>1, <3>2, <3>5
  <2> QED  BY <1>1, <2>1, <2>2, <2>3, Zenon DEF LastKept
<1>10. DrainKept'
  BY <1>1 DEF AgentInv, DrainKept
<1> QED  BY <1>3, <1>4, <1>5, <1>6, <1>7, <1>8, <1>9, <1>10 DEF AgentInv

LEMMA HostReadKeeps ==
    ASSUME AgentInv, HostRead
    PROVE  AgentInv'
<1> DEFINE p == Head(up)
<1>1. /\ host \in HostState /\ got \in [Outs -> Seq(Nat)] /\ written \in [Outs -> 0..Outputs] /\ Outputs \in Nat
      /\ out \in [Outs -> Seq(Nat)] /\ Coming \in Seq(PieceSet) /\ Len(Coming) \in Nat /\ up \in Seq(PieceSet)
  BY InvFacts, Zenon
<1>2. /\ host.pc = "read" /\ up # <<>> /\ up' = Tail(up) /\ UNCHANGED <<down, guestClosed, guestVars>>
  BY DEF HostRead
<1>3. /\ child' = child /\ written' = written /\ out' = out /\ ~hostClosed /\ host.result = "none"
      /\ hostClosed \in BOOLEAN
  BY <1>1, <1>2 DEF guestVars, AgentInv, PlacesKept, HostState, Typed, HostTyped
<1>4. p \in PieceSet
  BY <1>1, <1>2, TailConcat, EmptySeq
<1>h. IF p.part # host.part + 1
      THEN Return("error") /\ got' = got
      ELSE CASE p.part < 3 -> host' = [host EXCEPT !.part = p.part] /\ UNCHANGED <<hostClosed, got>>
             [] p.part = 3 /\ p.type \in Outs -> /\ host' = [host EXCEPT !.part = 0]
                                                /\ got' = [got EXCEPT ![p.type] = @ \o p.data]
                                                /\ UNCHANGED hostClosed
             [] p.part = 3 /\ p.type = "X" -> Return(p.status) /\ got' = got
             [] OTHER -> Return("error") /\ got' = got
  BY Zenon DEF HostRead
<1> HIDE DEF p
<1>5. \A k \in Outs : /\ got[k] = Numbers(0, Len(got[k])) /\ Len(got[k]) \in Nat
                      /\ Len(out[k]) <= written[k] /\ out[k] = Numbers(written[k] - Len(out[k]), written[k])
                      /\ Carries(Coming, k, Len(got[k]), written[k] - Len(out[k]))
  BY <1>1, <1>3, LenProperties DEF AgentInv, OutputKept
<1>6. \A k \in Outs : written[k] - Len(out[k]) \in Nat
  <2> TAKE k \in Outs
  <2>1. out[k] \in Seq(Nat) /\ written[k] \in 0..Outputs /\ Len(out[k]) <= written[k]
    BY <1>1, <1>5
  <2>2. Len(out[k]) \in Nat /\ written[k] \in Nat
    BY <1>1, <2>1, LenProperties
  <2> QED  BY <2>1, <2>2
<1>7. ASSUME NEW r \in {"error", "exited", "killed", "none"}, Return(r), got' = got,
             r \in {"exited", "killed"} =>
                 child.state = r /\ (child.heir = "none" => \A k \in Outs : Len(got[k]) = written[k])
      PROVE  AgentInv'
  <2> DEFINE new == [host EXCEPT !.pc = "done", !.result = r]
  <2>1. /\ new \in HostState /\ new.input = host.input /\ new.todo = host.todo /\ new.killed = host.killed
        /\ new.pc = "done" /\ new.result = r
    BY <1>1, Zenon DEF HostState
  <2>2. host' = new /\ hostClosed' = TRUE
    BY <1>7 DEF Return
  <2> HIDE DEF new
  <2>3. OutputKept'
    BY <1>3, <1>7, <2>2 DEF AgentInv, OutputKept
  <2>4. ResultKept'
    BY <1>3, <1>7, <2>1, <2>2 DEF ResultKept
  <2> QED  BY <1>1, <1>2, <1>7, <2>1, <2>2, <2>3, <2>4, HostReads
<1>8. CASE p.part # host.part + 1
  <2>1. Return("error") /\ got' = got
    BY <1>8, <1>h
  <2> QED  BY <1>7, <2>1
<1>9. CASE p.part = host.part + 1 /\ p.part < 3
  <2>0. p.part \in 1..2
    BY <1>4, <1>9 DEF PieceSet
  <2> DEFINE new == [host EXCEPT !.part = p.part]
  <2>1. host' = new /\ hostClosed' = hostClosed /\ got' = got
    <3>1. (CASE p.part < 3 -> host' = new /\ UNCHANGED <<hostClosed, got>>
            [] p.part = 3 /\ p.type \in Outs -> /\ host' = [host EXCEPT !.part = 0]
                                                /\ got' = [got EXCEPT ![p.type] = @ \o p.data]
                                                /\ UNCHANGED hostClosed
             [] p.part = 3 /\ p.type = "X" -> Return(p.status) /\ got' = got
             [] OTHER -> Return("error") /\ got' = got)
      BY <1>9, <1>h, Zenon
    <3>2. p.part # 3
      BY <1>9
    <3>3. host' = new /\ UNCHANGED <<hostClosed, got>>
      BY <1>9, <3>1, <3>2, Zenon
    <3> QED  BY <3>3, Zenon
  <2>2. /\ new \in HostState /\ new.input = host.input /\ new.todo = host.todo /\ new.killed = host.killed
        /\ new.pc = "read" /\ new.result = "none"
    <3>1. p.part \in 0..2
      BY <2>0
    <3> QED  BY <1>1, <1>2, <1>3, <3>1, Zenon DEF HostState
  <2> HIDE DEF new
  <2>3. /\ Coming # <<>> /\ Head(Coming) = p /\ Coming' = Tail(Coming)
        /\ OutputKept' /\ ResultKept' => AgentInv'
    BY <1>1, <1>2, <1>3, <2>0, <2>1, <2>2, HostReads DEF p
  <2>4. OutputKept'
    <3> SUFFICES ASSUME NEW k \in Outs
                 PROVE  Carries(Coming', k, Len(got[k]), written[k] - Len(out[k]))
      BY <1>3, <1>5, <2>1 DEF OutputKept
    <3>1. p.part # 3
      BY <2>0
    <3>2. Carries(Tail(Coming), k, Len(got[k]), written[k] - Len(out[k]))
      BY <1>1, <1>5, <1>6, <2>3, <3>1, CarriesTake, Zenon
    <3> QED  BY <2>3, <3>2
  <2>5. ResultKept'
    BY <2>1, <2>2 DEF ResultKept
  <2> QED  BY <2>3, <2>4, <2>5
<1>10. CASE p.part = host.part + 1 /\ p.part = 3 /\ p.type \in Outs
  <2> DEFINE new == [host EXCEPT !.part = 0]
  <2>1. host' = new /\ hostClosed' = hostClosed /\ got' = [got EXCEPT ![p.type] = @ \o p.data]
    <3>1. (CASE p.part < 3 -> host' = [host EXCEPT !.part = p.part] /\ UNCHANGED <<hostClosed, got>>
             [] p.part = 3 /\ p.type \in Outs -> /\ host' = new /\ got' = [got EXCEPT ![p.type] = @ \o p.data]
                                                /\ UNCHANGED hostClosed
             [] p.part = 3 /\ p.type = "X" -> Return(p.status) /\ got' = got
             [] OTHER -> Return("error") /\ got' = got)
      BY <1>10, <1>h, Zenon
    <3>2. ~(p.part < 3) /\ p.type # "X"
      BY <1>10, AgentAssumption
    <3> QED  BY <1>10, <3>1, <3>2, Zenon
  <2>2. /\ new \in HostState /\ new.input = host.input /\ new.todo = host.todo /\ new.killed = host.killed
        /\ new.pc = "read" /\ new.result = "none"
    <3>1. PICK z \in 0..2 : z = 0
      OBVIOUS
    <3>2. new = [host EXCEPT !.part = z]
      BY <3>1
    <3> HIDE DEF new
    <3> QED  BY <1>1, <1>2, <1>3, <3>2, Zenon DEF HostState
  <2> HIDE DEF new
  <2>3. p.type \notin {"X", "F"}
    BY <1>10, AgentAssumption
  <2>4. p.data \in Seq(Nat)
    BY <1>4 DEF PieceSet
  <2>5. got' \in [Outs -> Seq(Nat)]
    BY <1>1, <1>10, <2>1, <2>4, ConcatProperties, Zenon
  <2>6. /\ Coming # <<>> /\ Head(Coming) = p /\ Coming' = Tail(Coming)
        /\ OutputKept' /\ ResultKept' => AgentInv'
    BY <1>1, <1>2, <1>3, <2>1, <2>2, <2>3, <2>5, HostReads, Zenon DEF p
  <2>7. OutputKept'
    <3> SUFFICES ASSUME NEW k \in Outs
                 PROVE  /\ got'[k] = Numbers(0, Len(got'[k]))
                        /\ Carries(Coming', k, Len(got'[k]), written[k] - Len(out[k]))
      BY <1>3, <1>5, <2>1, Zenon DEF OutputKept
    <3>1. CASE p.type = k
      <4>1. PICK m \in Nat : /\ Len(got[k]) <= m /\ p.data = Numbers(Len(got[k]), m)
                             /\ Carries(Tail(Coming), k, m, written[k] - Len(out[k]))
        BY <1>1, <1>5, <1>6, <1>10, <2>6, <3>1, CarriesTake, Zenon
      <4>2. got'[k] = got[k] \o p.data
        BY <1>1, <2>1, <3>1, Zenon
      <4>3. got'[k] = Numbers(0, m)
        <5>1. Numbers(0, Len(got[k])) \o Numbers(Len(got[k]), m) = Numbers(0, m)
          <6>1. 0 \in Nat /\ Len(got[k]) \in Nat /\ 0 <= Len(got[k])
            BY <1>5
          <6> QED  BY <4>1, <6>1, NumbersJoin, Zenon
        <5> QED  BY <1>5, <4>1, <4>2, <5>1, Zenon
      <4>4. Len(got'[k]) = m
        BY <4>1, <4>3, NumbersType
      <4> QED  BY <2>6, <4>1, <4>3, <4>4
    <3>2. CASE p.type # k
      <4>1. Carries(Tail(Coming), k, Len(got[k]), written[k] - Len(out[k]))
        BY <1>1, <1>5, <1>6, <2>6, <3>2, CarriesTake, Zenon
      <4>2. got'[k] = got[k]
        BY <1>1, <2>1, <3>2, Zenon
      <4> QED  BY <1>5, <2>6, <4>1, <4>2
    <3> QED  BY <3>1, <3>2, Zenon
  <2>8. ResultKept'
    BY <2>1, <2>2 DEF ResultKept
  <2> QED  BY <2>6, <2>7, <2>8
<1>11. CASE p.part = host.part + 1 /\ p.part = 3 /\ p.type \notin Outs /\ p.type = "X"
  <2>1. Return(p.status) /\ got' = got
    BY <1>11, <1>h
  <2>2. p.status \in {"error", "exited", "killed", "none"}
    BY <1>4 DEF PieceSet
  <2>3. /\ Coming # <<>> /\ Head(Coming) = p /\ Head(Coming) = Coming[1] /\ Len(Coming) # 0
        /\ Len(Tail(Coming)) = Len(Coming) - 1
    BY <1>1, <1>2, TailConcat, HeadTailProperties, EmptySeq, InvFacts, SMTT(30) DEF Coming, p
  <2>4. 1 \in 1..Len(Coming)
    BY <1>1, <2>3
  <2>5. agent.exited /\ p.status = agent.status /\ agent.pc \in {"bye", "closed"} /\ Len(Coming) = 1
    BY <1>11, <2>3, <2>4, Zenon DEF AgentInv, LastKept
  <2>6. child.state = p.status
    BY <2>5 DEF AgentInv, PlacesKept
  <2>7. ASSUME child.heir = "none", NEW k \in Outs PROVE Len(got[k]) = written[k]
    <3>1. out[k] = <<>>
      BY <2>5, <2>7 DEF AgentInv, DrainKept
    <3>2. written[k] - Len(out[k]) = written[k]
      BY <1>1, <3>1, EmptySeq
    <3>3. p.type # k
      BY <1>11
    <3>4. Carries(Tail(Coming), k, Len(got[k]), written[k] - Len(out[k]))
      BY <1>1, <1>5, <1>6, <2>3, <3>3, CarriesTake
    <3>5. Len(Tail(Coming)) = 0
      BY <2>3, <2>5
    <3> QED  BY <3>2, <3>4, <3>5, CarriesEnd, Zenon
  <2> QED  BY <1>7, <2>1, <2>2, <2>6, <2>7
<1>12. CASE p.part = host.part + 1 /\ p.part = 3 /\ p.type \notin Outs /\ p.type # "X"
  <2>1. Return("error") /\ got' = got
    BY <1>12, <1>h
  <2> QED  BY <1>7, <2>1
<1>13. p.part < 3 \/ p.part = 3
  BY <1>4, SMTT(30) DEF PieceSet
<1> QED  BY <1>8, <1>9, <1>10, <1>11, <1>12, <1>13

-----------------------------------------------------------------------------
(* The agent's steps *)

LEMMA ScriptSame ==
    ASSUME AgentInv, UNCHANGED <<host, down>>
    PROVE  Taken' = Taken /\ ScriptKept'
BY DEF AgentInv, ScriptKept, Taken, Scripted

LEMMA OutputSame ==
    ASSUME AgentInv, UNCHANGED <<hostClosed, got, out, written>>, Coming' = Coming
    PROVE  OutputKept'
BY DEF AgentInv, OutputKept

LEMMA AgentPollKeeps ==
    ASSUME AgentInv, AgentPoll
    PROVE  AgentInv'
<1>1. agent \in AgentState /\ child \in ChildState /\ agent.fds_out \subseteq Outs
  BY InvFacts, Zenon DEF AgentState
<1>2. /\ agent.pc = "poll" /\ agent.sending = <<>> /\ host' = host /\ hostClosed' = hostClosed /\ got' = got
      /\ down' = down /\ up' = up /\ guestClosed' = guestClosed /\ child' = child /\ stdin' = stdin /\ out' = out
      /\ written' = written /\ fed' = fed
  BY DEF AgentPoll, hostVars
<1>3. PICK new \in AgentState :
        /\ agent' = new /\ new.sending = agent.sending /\ new.pending = agent.pending /\ new.stdin_fd = agent.stdin_fd
        /\ new.fds_out = agent.fds_out /\ new.exited = agent.exited /\ new.grace = agent.grace
        /\ new.status = agent.status
        /\ \/ new.pc = "exit" /\ Drained
           \/ new.pc = "wait" /\ new.ready = Ready
  <2>1. Ready \subseteq Outs \union {"sock", "in"}
    BY <1>1 DEF Ready
  <2>2. CASE Drained
    <3>1. agent' = [agent EXCEPT !.pc = "exit"]
      BY <2>2 DEF AgentPoll
    <3> QED  BY <1>1, <2>2, <3>1 DEF AgentState
  <2>3. CASE ~Drained
    <3>1. agent' = [agent EXCEPT !.pc = "wait", !.ready = Ready]
      BY <2>3 DEF AgentPoll
    <3>2. PICK r \in SUBSET (Outs \union {"sock", "in"}) : r = Ready
      BY <2>1
    <3> DEFINE n == [agent EXCEPT !.pc = "wait", !.ready = r]
    <3>3. /\ n \in AgentState /\ n.sending = agent.sending /\ n.pending = agent.pending
          /\ n.stdin_fd = agent.stdin_fd /\ n.fds_out = agent.fds_out /\ n.exited = agent.exited
          /\ n.grace = agent.grace /\ n.status = agent.status /\ n.pc = "wait" /\ n.ready = r
      BY <1>1, Zenon DEF AgentState
    <3>4. agent' = n
      BY <3>1, <3>2
    <3> HIDE DEF n
    <3> QED  BY <3>2, <3>3, <3>4
  <2> QED  BY <2>2, <2>3
<1>4. Typed'
  BY <1>2, <1>3 DEF AgentInv, Typed, HostTyped, WireTyped, PipesTyped, InputTyped
<1>5. Taken' = Taken /\ ScriptKept'
  BY <1>2, ScriptSame
<1>6. PlacesKept'
  BY <1>2, <1>3, <1>5 DEF AgentInv, PlacesKept, Drained
<1>7. StdinKept'
  <2>1. new.pc = "wait" /\ "sock" \in new.ready => agent.pending = <<>>
    BY <1>1, <1>3, AgentAssumption DEF Ready
  <2> QED  BY <1>2, <1>3, <1>5, <2>1, Zenon DEF AgentInv, StdinKept
<1>8. Coming' = Coming
  BY <1>2, <1>3 DEF Coming
<1>9. OutputKept'
  BY <1>2, <1>8, OutputSame
<1>10. LastKept'
  BY <1>2, <1>3, <1>8 DEF AgentInv, LastKept
<1>11. DrainKept'
  <2>1. \A k \in Outs : k \notin agent.fds_out => out[k] = <<>>
    BY <1>2 DEF AgentInv, DrainKept
  <2>2. agent.exited /\ child.heir = "none" /\ new.pc = "wait" => agent.fds_out \subseteq new.ready
    BY <1>3 DEF AgentInv, PlacesKept, Ready, Ended
  <2>3. agent.exited /\ child.heir = "none" /\ agent.grace > 0 => \A k \in Outs : out[k] = <<>>
    BY <1>2 DEF AgentInv, DrainKept
  <2>4. new.pc = "exit" => agent.fds_out = {}
    BY <1>3 DEF Drained
  <2> QED  BY <1>2, <1>3, <2>1, <2>2, <2>3, <2>4 DEF DrainKept
<1>12. ResultKept'
  BY <1>2 DEF AgentInv, ResultKept
<1> QED  BY <1>4, <1>5, <1>6, <1>7, <1>9, <1>10, <1>11, <1>12 DEF AgentInv

LEMMA AgentWaitKeeps ==
    ASSUME AgentInv, AgentWait
    PROVE  AgentInv'
<1>1. agent \in AgentState /\ child \in ChildState /\ GRACE \in Nat \ {0} /\ agent.grace \in 0..GRACE
  BY InvFacts DEF AgentState
<1>2. /\ agent.pc = "wait" /\ host' = host /\ hostClosed' = hostClosed /\ got' = got
      /\ down' = down /\ up' = up /\ guestClosed' = guestClosed /\ child' = child /\ stdin' = stdin /\ out' = out
      /\ written' = written /\ fed' = fed
  BY DEF AgentWait, hostVars
<1>a. child.state # "none" /\ agent.sending = <<>>
  BY <1>2, Zenon DEF AgentInv, PlacesKept
<1>3. PICK new \in AgentState :
        /\ agent' = new /\ new.sending = agent.sending /\ new.pending = agent.pending /\ new.stdin_fd = agent.stdin_fd
        /\ new.fds_out = agent.fds_out /\ new.ready = agent.ready
        /\ \/ /\ new.pc = "out" /\ ~agent.exited /\ new.exited /\ new.status = child.state
              /\ child.state \in {"exited", "killed"} /\ new.grace = agent.grace
           \/ new.pc = "out" /\ ~agent.exited /\ ~new.exited /\ new.status = agent.status /\ new.grace = agent.grace
           \/ /\ new.pc = "exit" /\ agent.exited /\ new.exited /\ agent.grace > 0 /\ new.grace = agent.grace
              /\ new.status = agent.status
           \/ new.pc = "out" /\ agent.exited /\ new.exited /\ new.grace > 0 /\ new.status = agent.status
  <2>1. CASE ~agent.exited /\ child.state # "running"
    <3>1. agent' = [agent EXCEPT !.pc = "out", !.exited = TRUE, !.status = child.state]
      BY <2>1, Zenon DEF AgentWait, WaitStatus
    <3>2. PICK st \in {"exited", "killed"} : st = child.state
      BY <1>1, <1>a, <2>1 DEF ChildState
    <3>3. PICK yes \in BOOLEAN : yes = TRUE
      BY Zenon
    <3> DEFINE n == [agent EXCEPT !.pc = "out", !.exited = yes, !.status = st]
    <3>4. agent' = n
      BY <3>1, <3>2, <3>3, Zenon
    <3>5. /\ n \in AgentState /\ n.sending = agent.sending /\ n.pending = agent.pending
          /\ n.stdin_fd = agent.stdin_fd /\ n.fds_out = agent.fds_out /\ n.ready = agent.ready
          /\ n.grace = agent.grace /\ n.status = st /\ n.pc = "out" /\ n.exited = yes
      BY <1>1, Zenon DEF AgentState
    <3>6. n.exited
      BY <3>3, <3>5
    <3> HIDE DEF n
    <3> QED  BY <2>1, <3>2, <3>4, <3>5, <3>6
  <2>2. CASE ~agent.exited /\ child.state = "running"
    <3>1. agent' = [agent EXCEPT !.pc = "out"]
      BY <2>2 DEF AgentWait
    <3> QED  BY <1>1, <2>2, <3>1 DEF AgentState
  <2>3. CASE agent.exited /\ GraceOver
    <3>1. agent' = [agent EXCEPT !.pc = "exit"]
      BY <2>3 DEF AgentWait
    <3>2. agent.grace > 0
      BY <1>1, <2>3 DEF GraceOver
    <3> DEFINE n == [agent EXCEPT !.pc = "exit"]
    <3>3. /\ n \in AgentState /\ n.sending = agent.sending /\ n.pending = agent.pending
          /\ n.stdin_fd = agent.stdin_fd /\ n.fds_out = agent.fds_out /\ n.ready = agent.ready
          /\ n.grace = agent.grace /\ n.status = agent.status /\ n.pc = "exit" /\ n.exited = agent.exited
      BY <1>1, Zenon DEF AgentState
    <3>4. agent' = n
      BY <3>1
    <3> HIDE DEF n
    <3> QED  BY <2>3, <3>2, <3>3, <3>4, Zenon
  <2>4. CASE agent.exited /\ ~GraceOver
    <3>1. agent' = [agent EXCEPT !.pc = "out", !.grace = @ + 1]
      BY <2>4 DEF AgentWait
    <3>2. PICK g \in 0..GRACE : g = agent.grace + 1 /\ g > 0
      BY <1>1, <2>4 DEF GraceOver
    <3> DEFINE n == [agent EXCEPT !.pc = "out", !.grace = g]
    <3>3. agent' = n
      BY <3>1, <3>2
    <3>4. /\ n \in AgentState /\ n.sending = agent.sending /\ n.pending = agent.pending
          /\ n.stdin_fd = agent.stdin_fd /\ n.fds_out = agent.fds_out /\ n.ready = agent.ready
          /\ n.grace = g /\ n.status = agent.status /\ n.pc = "out" /\ n.exited = agent.exited
      BY <1>1, Zenon DEF AgentState
    <3> HIDE DEF n
    <3> QED  BY <2>4, <3>2, <3>3, <3>4, Zenon
  <2> QED  BY <2>1, <2>2, <2>3, <2>4, Zenon
<1>4. Typed'
  BY <1>2, <1>3 DEF AgentInv, Typed, HostTyped, WireTyped, PipesTyped, InputTyped
<1>5. Taken' = Taken /\ ScriptKept'
  BY <1>2, ScriptSame, Zenon
<1>6. PlacesKept'
  BY <1>2, <1>3, <1>5, <1>a, Zenon DEF AgentInv, PlacesKept
<1>7. StdinKept'
  BY <1>2, <1>3, <1>5, Zenon DEF AgentInv, StdinKept
<1>8. Coming' = Coming
  BY <1>2, <1>3 DEF Coming
<1>9. OutputKept'
  BY <1>2, <1>8, OutputSame
<1>10. LastKept'
  BY <1>2, <1>3, <1>8 DEF AgentInv, LastKept
<1>11. DrainKept'
  <2>1. \A k \in Outs : k \notin agent.fds_out => out[k] = <<>>
    BY <1>2 DEF AgentInv, DrainKept
  <2>2. agent.exited /\ child.heir = "none" => agent.fds_out \subseteq agent.ready
    BY <1>2 DEF AgentInv, DrainKept
  <2>3. agent.exited /\ child.heir = "none" /\ agent.grace > 0 => \A k \in Outs : out[k] = <<>>
    BY <1>2 DEF AgentInv, DrainKept
  <2>4. ~agent.exited => ~(agent.grace > 0)
    BY DEF AgentInv, PlacesKept
  <2> QED  BY <1>2, <1>3, <2>1, <2>2, <2>3, <2>4 DEF DrainKept
<1>12. ResultKept'
  BY <1>2 DEF AgentInv, ResultKept
<1> QED  BY <1>4, <1>5, <1>6, <1>7, <1>9, <1>10, <1>11, <1>12 DEF AgentInv

LEMMA MoveOne ==
    ASSUME NEW S, NEW p \in Seq(S), NEW q \in Seq(S), q # <<>>
    PROVE  /\ Append(p, Head(q)) \o Tail(q) = p \o q
           /\ Append(p, Head(q)) \in Seq(S) /\ Len(Append(p, Head(q))) = Len(p) + 1 /\ Tail(q) \in Seq(S)
<1>1. Len(p) \in Nat /\ Len(q) \in Nat /\ Len(q) # 0
  BY EmptySeq, LenProperties
<1>h. PICK h : h = Head(q)
  OBVIOUS
<1>t. PICK t : t = Tail(q)
  BY Zenon
<1>2. h = q[1] /\ h \in S /\ t \in Seq(S) /\ Len(t) = Len(q) - 1 /\ \A i \in 1..Len(t) : t[i] = q[i + 1]
  <2>1. h = q[1] /\ h \in S
    BY <1>h, HeadTailProperties
  <2>2. t \in Seq(S) /\ Len(t) = Len(q) - 1 /\ \A i \in 1..Len(t) : t[i] = q[i + 1]
    BY <1>t, HeadTailProperties, Zenon
  <2> QED  BY <2>1, <2>2
<1>a. PICK a : a = Append(p, h)
  BY Zenon
<1>3. a \in Seq(S) /\ Len(a) = Len(p) + 1 /\ (\A i \in 1..Len(p) : a[i] = p[i]) /\ a[Len(p) + 1] = h
  BY <1>2, <1>a, AppendProperties
<1>u. PICK u : u = a \o t
  BY Zenon
<1>4. /\ u \in Seq(S) /\ Len(u) = Len(a) + Len(t)
      /\ \A i \in 1..(Len(a) + Len(t)) : u[i] = IF i <= Len(a) THEN a[i] ELSE t[i - Len(a)]
  BY <1>2, <1>3, <1>u, ConcatProperties, Zenon
<1>r. PICK r : r = p \o q
  BY Zenon
<1>5. /\ r \in Seq(S) /\ Len(r) = Len(p) + Len(q)
      /\ \A i \in 1..(Len(p) + Len(q)) : r[i] = IF i <= Len(p) THEN p[i] ELSE q[i - Len(p)]
  BY <1>r, ConcatProperties, Zenon
<1>6. ASSUME NEW i \in 1..Len(u) PROVE u[i] = r[i]
  <2>0. i \in 1..(Len(a) + Len(t)) /\ i \in 1..(Len(p) + Len(q)) /\ i \in Nat
    BY <1>1, <1>2, <1>3, <1>4
  <2>1. CASE i <= Len(p)
    <3>1. i <= Len(a) /\ i \in 1..Len(p)
      BY <1>1, <1>3, <2>0, <2>1
    <3> QED  BY <1>3, <1>4, <1>5, <2>0, <2>1, <3>1
  <2>2. CASE i = Len(p) + 1
    <3>1. i <= Len(a) /\ ~(i <= Len(p)) /\ i - Len(p) = 1
      BY <1>1, <1>3, <2>2
    <3> QED  BY <1>2, <1>3, <1>4, <1>5, <2>0, <2>2, <3>1, Zenon
  <2>3. CASE i > Len(p) + 1
    <3>1. /\ ~(i <= Len(a)) /\ ~(i <= Len(p)) /\ i - Len(a) \in 1..Len(t) /\ (i - Len(a)) + 1 = i - Len(p)
      BY <1>1, <1>2, <1>3, <2>0, <2>3
    <3>2. u[i] = t[i - Len(a)] /\ r[i] = q[i - Len(p)]
      BY <1>4, <1>5, <2>0, <3>1
    <3>3. t[i - Len(a)] = q[(i - Len(a)) + 1]
      BY <1>2, <3>1, Zenon
    <3> QED  BY <3>1, <3>2, <3>3
  <2> QED  BY <1>1, <2>0, <2>1, <2>2, <2>3
<1>7. u = r
  <2>1. Len(u) = Len(r)
    BY <1>1, <1>2, <1>3, <1>4, <1>5
  <2> QED  BY <1>4, <1>5, <1>6, <2>1, SeqEqual
<1> QED  BY <1>h, <1>t, <1>a, <1>u, <1>r, <1>2, <1>3, <1>7, Zenon

LEMMA AgentSendKeeps ==
    ASSUME AgentInv, AgentSend
    PROVE  AgentInv'
<1>1. /\ agent \in AgentState /\ agent.sending \in Seq(PieceSet) /\ up \in Seq(PieceSet) /\ UpRoom \in Nat
      /\ Len(up) \in Nat
  BY InvFacts, LenProperties
<1>2. /\ agent.sending # <<>> /\ Len(up) < UpRoom /\ up' = Append(up, Head(agent.sending))
      /\ host' = host /\ hostClosed' = hostClosed /\ got' = got /\ down' = down /\ guestClosed' = guestClosed
      /\ child' = child /\ stdin' = stdin /\ out' = out /\ written' = written /\ fed' = fed
  BY DEF AgentSend, hostVars
<1>m. PICK rest : rest = Tail(agent.sending)
  BY Zenon
<1>n. PICK more : more = Append(up, Head(agent.sending))
  BY Zenon
<1>o. /\ rest \in Seq(PieceSet) /\ more \in Seq(PieceSet) /\ Len(more) = Len(up) + 1
      /\ more \o rest = Coming
  <2> DEFINE h == Append(up, Head(agent.sending))
  <2> DEFINE t == Tail(agent.sending)
  <2>1. h \o t = up \o agent.sending /\ h \in Seq(PieceSet) /\ Len(h) = Len(up) + 1 /\ t \in Seq(PieceSet)
    BY <1>1, <1>2, MoveOne, Zenon
  <2>2. rest = t /\ more = h
    BY <1>m, <1>n
  <2> HIDE DEF h, t
  <2> QED  BY <2>1, <2>2 DEF Coming
<1>3. PICK new \in AgentState :
        /\ agent' = new /\ new.sending = rest /\ new.pending = agent.pending /\ new.stdin_fd = agent.stdin_fd
        /\ new.fds_out = agent.fds_out /\ new.exited = agent.exited /\ new.grace = agent.grace
        /\ new.status = agent.status /\ new.pc = agent.pc /\ new.ready = agent.ready
  <2> DEFINE n == [agent EXCEPT !.sending = rest]
  <2>1. n \in AgentState /\ n.sending = rest /\ n.pending = agent.pending /\ n.stdin_fd = agent.stdin_fd
        /\ n.fds_out = agent.fds_out /\ n.exited = agent.exited /\ n.grace = agent.grace
        /\ n.status = agent.status /\ n.pc = agent.pc /\ n.ready = agent.ready
    BY <1>1, <1>o, Zenon DEF AgentState
  <2>2. agent' = n
    BY <1>m, Zenon DEF AgentSend
  <2> HIDE DEF n
  <2> QED  BY <2>1, <2>2
<1>4. Typed'
  <2>1. up' = more /\ Len(more) <= UpRoom
    BY <1>1, <1>2, <1>n, <1>o
  <2> QED  BY <1>2, <1>3, <1>o, <2>1 DEF AgentInv, Typed, HostTyped, WireTyped, PipesTyped, InputTyped
<1>5. Taken' = Taken /\ ScriptKept'
  BY <1>2, ScriptSame, Zenon
<1>6. PlacesKept'
  <2>1. agent.pc \notin {"args", "wait", "sock", "exit", "closed"}
    BY <1>2, Zenon DEF AgentInv, PlacesKept
  <2> QED  BY <1>2, <1>3, <1>5, <2>1, Zenon DEF AgentInv, PlacesKept
<1>7. StdinKept'
  BY <1>2, <1>3, <1>5, Zenon DEF AgentInv, StdinKept
<1>8. Coming' = Coming
  BY <1>2, <1>3, <1>n, <1>o, Zenon DEF Coming
<1>9. OutputKept'
  BY <1>2, <1>8, OutputSame
<1>10. LastKept'
  BY <1>2, <1>3, <1>8 DEF AgentInv, LastKept
<1>11. DrainKept'
  BY <1>2, <1>3 DEF AgentInv, DrainKept
<1>12. ResultKept'
  BY <1>2 DEF AgentInv, ResultKept
<1> QED  BY <1>4, <1>5, <1>6, <1>7, <1>9, <1>10, <1>11, <1>12 DEF AgentInv

LEMMA AgentByeKeeps ==
    ASSUME AgentInv, AgentBye
    PROVE  AgentInv'
<1>1. agent \in AgentState
  BY InvFacts
<1>2. /\ agent.pc = "bye" /\ agent.sending = <<>> /\ guestClosed' = TRUE
      /\ host' = host /\ hostClosed' = hostClosed /\ got' = got /\ down' = down /\ up' = up
      /\ child' = child /\ stdin' = stdin /\ out' = out /\ written' = written /\ fed' = fed
  BY DEF AgentBye, AgentOut, hostVars
<1>3. PICK new \in AgentState :
        /\ agent' = new /\ new.sending = agent.sending /\ new.pending = agent.pending /\ new.stdin_fd = agent.stdin_fd
        /\ new.fds_out = agent.fds_out /\ new.exited = agent.exited /\ new.grace = agent.grace
        /\ new.status = agent.status /\ new.pc = "closed" /\ new.ready = agent.ready
  <2> DEFINE n == [agent EXCEPT !.pc = "closed"]
  <2>1. n \in AgentState /\ n.sending = agent.sending /\ n.pending = agent.pending /\ n.stdin_fd = agent.stdin_fd
        /\ n.fds_out = agent.fds_out /\ n.exited = agent.exited /\ n.grace = agent.grace
        /\ n.status = agent.status /\ n.pc = "closed" /\ n.ready = agent.ready
    BY <1>1 DEF AgentState
  <2>2. agent' = n
    BY DEF AgentBye, AgentOut
  <2> HIDE DEF n
  <2> QED  BY <2>1, <2>2
<1>4. Typed'
  <2>1. guestClosed' \in BOOLEAN
    BY <1>2, Zenon
  <2> QED  BY <1>2, <1>3, <2>1 DEF AgentInv, Typed, HostTyped, WireTyped, PipesTyped, InputTyped
<1>5. Taken' = Taken /\ ScriptKept'
  BY <1>2, ScriptSame, Zenon
<1>6. PlacesKept'
  BY <1>2, <1>3, <1>5, Zenon DEF AgentInv, PlacesKept
<1>7. StdinKept'
  BY <1>2, <1>3, <1>5, Zenon DEF AgentInv, StdinKept
<1>8. Coming' = Coming
  BY <1>2, <1>3 DEF Coming
<1>9. OutputKept'
  BY <1>2, <1>8, OutputSame
<1>10. LastKept'
  BY <1>2, <1>3, <1>8, Zenon DEF AgentInv, LastKept
<1>11. DrainKept'
  BY <1>2, <1>3, Zenon DEF AgentInv, DrainKept
<1>12. ResultKept'
  BY <1>2 DEF AgentInv, ResultKept
<1> QED  BY <1>4, <1>5, <1>6, <1>7, <1>9, <1>10, <1>11, <1>12 DEF AgentInv

LEMMA AgentSendFailsKeeps ==
    ASSUME AgentInv, AgentSendFails
    PROVE  AgentInv'
<1>1. /\ agent \in AgentState /\ agent.sending \in Seq(PieceSet) /\ up \in Seq(PieceSet) /\ Coming \in Seq(PieceSet)
      /\ Len(up) \in Nat /\ Len(agent.sending) \in Nat
  BY InvFacts, LenProperties
<1>2. /\ agent.sending # <<>> /\ hostClosed
      /\ host' = host /\ hostClosed' = hostClosed /\ got' = got /\ down' = down /\ up' = up
      /\ guestClosed' = guestClosed /\ child' = child /\ stdin' = stdin /\ out' = out /\ written' = written /\ fed' = fed
  BY DEF AgentSendFails, hostVars
<1>3. PICK new \in AgentState :
        /\ agent' = new /\ new.sending = <<>> /\ new.pending = agent.pending /\ new.stdin_fd = agent.stdin_fd
        /\ new.fds_out = agent.fds_out /\ new.exited = agent.exited /\ new.grace = agent.grace
        /\ new.status = agent.status /\ new.pc = agent.pc /\ new.ready = agent.ready
  <2>1. PICK no \in BOOLEAN : no = FALSE
    BY Zenon
  <2>2. PICK empty \in Seq(PieceSet) : empty = <<>>
    BY EmptySeq, Zenon
  <2> DEFINE n == [agent EXCEPT !.sending = empty, !.sock_open = no]
  <2>3. agent' = n
    BY <2>1, <2>2, Zenon DEF AgentSendFails
  <2>4. n \in AgentState /\ n.sending = empty /\ n.pending = agent.pending /\ n.stdin_fd = agent.stdin_fd
        /\ n.fds_out = agent.fds_out /\ n.exited = agent.exited /\ n.grace = agent.grace
        /\ n.status = agent.status /\ n.pc = agent.pc /\ n.ready = agent.ready
    BY <1>1, Zenon DEF AgentState
  <2> HIDE DEF n
  <2> QED  BY <2>2, <2>3, <2>4
<1>4. Typed'
  BY <1>2, <1>3 DEF AgentInv, Typed, HostTyped, WireTyped, PipesTyped, InputTyped
<1>5. Taken' = Taken /\ ScriptKept'
  BY <1>2, ScriptSame, Zenon
<1>6. PlacesKept'
  BY <1>2, <1>3, <1>5, Zenon DEF AgentInv, PlacesKept
<1>7. StdinKept'
  BY <1>2, <1>3, <1>5, Zenon DEF AgentInv, StdinKept
<1>8. OutputKept'
  BY <1>2, Zenon DEF AgentInv, OutputKept
<1>9. LastKept'
  <2>1. Coming' = up
    <3>1. Coming' = up \o <<>>
      BY <1>2, <1>3 DEF Coming
    <3> QED  BY <1>1, <3>1, ConcatEmptySeq
  <2>2. Len(agent.sending) > 0
    BY <1>1, <1>2, EmptySeq
  <2>3. Len(Coming) = Len(up) + Len(agent.sending) /\ \A i \in 1..Len(up) : Coming[i] = up[i]
    BY <1>1, ConcatProperties DEF Coming
  <2>4. ASSUME NEW i \in 1..Len(up)
        PROVE  /\ up[i].type \in Outs \union {"X", "F"}
               /\ up[i].type \in {"X", "F"} => agent.pc \in {"bye", "closed"}
               /\ up[i].type = "X" => agent.exited /\ up[i].status = agent.status
               /\ ~(up[i].part = 3 /\ up[i].type \in {"X", "F"})
    <3>1. i \in 1..Len(Coming) /\ Coming[i] = up[i] /\ i # Len(Coming)
      BY <1>1, <2>2, <2>3, SMTT(30)
    <3> QED  BY <3>1, Zenon DEF AgentInv, LastKept
  <2> QED  BY <1>2, <1>3, <2>1, <2>4 DEF LastKept
<1>10. DrainKept'
  BY <1>2, <1>3 DEF AgentInv, DrainKept
<1>11. ResultKept'
  BY <1>2 DEF AgentInv, ResultKept
<1> QED  BY <1>4, <1>5, <1>6, <1>7, <1>8, <1>9, <1>10, <1>11 DEF AgentInv

LEMMA PiecesAre ==
    ASSUME NEW t \in {"1", "2", "X", "F"}, NEW st \in {"none", "exited", "killed"}, NEW d \in Seq(Nat),
           NEW q, q = Pieces(t, st, d)
    PROVE  /\ q \in Seq(PieceSet) /\ Len(q) = 3 /\ q # <<>>
           /\ \A i \in 1..3 : q[i].type = t /\ q[i].status = st /\ q[i].part = i
<1>1. /\ q \in Seq(PieceSet) /\ Len(q) = 3
      /\ \A i \in 1..3 : q[i].type = t /\ q[i].status = st /\ q[i].part = i
  BY PiecesType
<1>2. Pieces(t, st, d) # <<>>
  BY PiecesType
<1>3. q # <<>>
  BY <1>2, Zenon
<1> QED  BY <1>1, <1>3, Zenon

\* send_frame is called with nothing left of the frame before: its pieces follow what is under way.
LEMMA ComingMore ==
    ASSUME AgentInv, agent.sending = <<>>, NEW q \in Seq(PieceSet), up' = up, agent'.sending = q
    PROVE  /\ Coming = up /\ Coming' = up \o q /\ Len(up) \in Nat /\ Len(q) \in Nat /\ up \in Seq(PieceSet)
           /\ Len(Coming') = Len(up) + Len(q)
           /\ \A i \in 1..Len(Coming') : \/ i \in 1..Len(up) /\ Coming'[i] = Coming[i]
                                         \/ i - Len(up) \in 1..Len(q) /\ Coming'[i] = q[i - Len(up)]
<1>1. up \in Seq(PieceSet) /\ Len(up) \in Nat /\ Len(q) \in Nat
  BY InvFacts, LenProperties
<1>2. Coming = up
  BY <1>1, ConcatEmptySeq DEF Coming
<1>c. PICK c : c = up \o q
  BY Zenon
<1>3. /\ c \in Seq(PieceSet) /\ Len(c) = Len(up) + Len(q)
      /\ \A i \in 1..(Len(up) + Len(q)) : c[i] = IF i <= Len(up) THEN up[i] ELSE q[i - Len(up)]
  BY <1>1, <1>c, ConcatProperties, Zenon
<1>4. Coming' = c
  BY <1>c DEF Coming
<1>5. ASSUME NEW i \in 1..Len(c)
      PROVE  \/ i \in 1..Len(up) /\ c[i] = up[i]
             \/ i - Len(up) \in 1..Len(q) /\ c[i] = q[i - Len(up)]
  <2>1. i \in 1..(Len(up) + Len(q)) /\ (i <= Len(up) \/ i - Len(up) \in 1..Len(q)) /\ (i <= Len(up) => i \in 1..Len(up))
    BY <1>1, <1>3
  <2>2. c[i] = IF i <= Len(up) THEN up[i] ELSE q[i - Len(up)]
    BY <1>3, <2>1
  <2>3. CASE i <= Len(up)
    BY <2>1, <2>2, <2>3
  <2>4. CASE ~(i <= Len(up))
    BY <2>1, <2>2, <2>4
  <2> QED  BY <2>3, <2>4
<1> QED  BY <1>1, <1>2, <1>3, <1>4, <1>5, <1>c

LEMMA AgentReadOutKeeps ==
    ASSUME AgentInv, NEW k \in Outs, AgentReadOut(k)
    PROVE  AgentInv'
<1>1. /\ agent \in AgentState /\ out \in [Outs -> Seq(Nat)] /\ written \in [Outs -> 0..Outputs] /\ Outputs \in Nat
      /\ got \in [Outs -> Seq(Nat)] /\ PipeRoom \in Nat
  BY InvFacts, Zenon
<1>2. /\ agent.pc = "out" /\ agent.sending = <<>> /\ k \in agent.ready /\ out' = [out EXCEPT ![k] = <<>>]
      /\ host' = host /\ hostClosed' = hostClosed /\ got' = got /\ down' = down /\ up' = up
      /\ guestClosed' = guestClosed /\ child' = child /\ stdin' = stdin /\ written' = written /\ fed' = fed
  BY DEF AgentReadOut, hostVars
<1>s. PICK q \in Seq(PieceSet) : q = IF out[k] = <<>> THEN <<>> ELSE Pieces(k, "none", out[k])
  <2>1. <<>> \in Seq(PieceSet)
    BY EmptySeq
  <2>2. Pieces(k, "none", out[k]) \in Seq(PieceSet)
    <3>1. k \in {"1", "2", "X", "F"} /\ out[k] \in Seq(Nat)
      BY <1>1, AgentAssumption, Zenon
    <3> QED  BY <3>1, PiecesType
  <2> QED  BY <2>1, <2>2, Zenon
<1>3. PICK new \in AgentState :
        /\ agent' = new /\ new.sending = q /\ new.pending = agent.pending /\ new.stdin_fd = agent.stdin_fd
        /\ new.fds_out = (IF out[k] = <<>> THEN agent.fds_out \ {k} ELSE agent.fds_out)
        /\ new.exited = agent.exited /\ new.grace = agent.grace
        /\ new.status = agent.status /\ new.pc = "out" /\ new.ready = agent.ready \ {k}
  <2>1. PICK r \in SUBSET (Outs \union {"sock", "in"}) : r = agent.ready \ {k}
    BY <1>1, Zenon DEF AgentState
  <2>2. PICK fs \in SUBSET Outs : fs = IF out[k] = <<>> THEN agent.fds_out \ {k} ELSE agent.fds_out
    BY <1>1, Zenon DEF AgentState
  <2> DEFINE n == [agent EXCEPT !.ready = r, !.sending = q, !.fds_out = fs]
  <2>3. n \in AgentState /\ n.sending = q /\ n.pending = agent.pending /\ n.stdin_fd = agent.stdin_fd
        /\ n.fds_out = fs /\ n.exited = agent.exited /\ n.grace = agent.grace
        /\ n.status = agent.status /\ n.pc = agent.pc /\ n.ready = r
    BY <1>1, Zenon DEF AgentState
  <2>4. agent' = n
    BY <1>s, <2>1, <2>2, Zenon DEF AgentReadOut
  <2> HIDE DEF n
  <2> QED  BY <1>2, <2>1, <2>2, <2>3, <2>4
<1>o. /\ out'[k] = <<>> /\ Len(out'[k]) = 0 /\ out' \in [Outs -> Seq(Nat)]
      /\ \A j \in Outs : j # k => out'[j] = out[j]
  BY <1>1, <1>2, EmptySeq
<1>4. Typed'
  <2>1. \A j \in Outs : Len(out'[j]) <= PipeRoom
    BY <1>1, <1>o, SMTT(30) DEF AgentInv, Typed, PipesTyped
  <2> QED  BY <1>2, <1>3, <1>o, <2>1 DEF AgentInv, Typed, HostTyped, WireTyped, PipesTyped, InputTyped
<1>5. Taken' = Taken /\ ScriptKept'
  BY <1>2, ScriptSame
<1>6. PlacesKept'
  BY <1>2, <1>3, <1>5, Zenon DEF AgentInv, PlacesKept
<1>7. StdinKept'
  BY <1>2, <1>3, <1>5, Zenon DEF AgentInv, StdinKept
<1>8. /\ Coming = up /\ Coming' = up \o q /\ Len(up) \in Nat /\ Len(q) \in Nat /\ up \in Seq(PieceSet)
      /\ Len(Coming') = Len(up) + Len(q)
      /\ \A i \in 1..Len(Coming') : \/ i \in 1..Len(up) /\ Coming'[i] = Coming[i]
                                    \/ i - Len(up) \in 1..Len(q) /\ Coming'[i] = q[i - Len(up)]
  BY <1>2, <1>3, ComingMore, Zenon
<1>q. \A i \in 1..Len(q) : q[i].type = k
  <2>1. CASE out[k] = <<>>
    BY <1>s, <2>1, EmptySeq
  <2>2. CASE out[k] # <<>>
    <3>1. k \in {"1", "2", "X", "F"} /\ out[k] \in Seq(Nat) /\ q = Pieces(k, "none", out[k])
      BY <1>1, <1>s, <2>2, AgentAssumption
    <3>2. PICK st \in {"none", "exited", "killed"} : st = "none"
      OBVIOUS
    <3>3. Len(q) = 3 /\ \A i \in 1..3 : q[i].type = k
      BY <3>1, <3>2, PiecesAre, SMTT(30)
    <3> QED  BY <3>3
  <2> QED  BY <2>1, <2>2
<1>9. OutputKept'
  <2> SUFFICES ASSUME NEW j \in Outs
               PROVE  /\ got[j] = Numbers(0, Len(got[j]))
                      /\ Len(out'[j]) <= written[j] /\ out'[j] = Numbers(written[j] - Len(out'[j]), written[j])
                      /\ ~hostClosed => Carries(Coming', j, Len(got[j]), written[j] - Len(out'[j]))
    BY <1>2, Zenon DEF OutputKept
  <2>1. /\ got[j] = Numbers(0, Len(got[j]))
        /\ Len(out[j]) <= written[j] /\ out[j] = Numbers(written[j] - Len(out[j]), written[j])
        /\ ~hostClosed => Carries(Coming, j, Len(got[j]), written[j] - Len(out[j]))
    BY DEF AgentInv, OutputKept
  <2>2. /\ Len(out[j]) \in Nat /\ written[j] \in Nat /\ Len(got[j]) \in Nat /\ out[j] \in Seq(Nat)
    BY <1>1, LenProperties, SMTT(30)
  <2>3. written[j] - Len(out[j]) \in Nat /\ written[j] - Len(out[j]) <= written[j]
    BY <2>1, <2>2, SMTT(30)
  <2>4. CASE j = k
    <3>1. Len(out'[j]) <= written[j] /\ written[j] - Len(out'[j]) = written[j]
      BY <1>o, <2>2, <2>4, SMTT(30)
    <3>2. out'[j] = Numbers(written[j], written[j])
      <4>1. out'[j] \in Seq(Nat) /\ Len(out'[j]) = 0 /\ written[j] = written[j] + Len(out'[j])
        BY <1>o, <2>2, <2>4, SMTT(30)
      <4>2. \A i \in 1..Len(out'[j]) : out'[j][i] = written[j] + i
        BY <4>1
      <4> QED  BY <2>2, <4>1, <4>2, NumbersAre, Zenon
    <3>3. ASSUME ~hostClosed PROVE Carries(Coming', j, Len(got[j]), written[j])
      <4>1. CASE out[k] = <<>>
        <5>1. q = <<>> /\ Len(out[j]) = 0
          BY <1>s, <4>1, <2>4, EmptySeq
        <5>2. Coming' = Coming /\ written[j] - Len(out[j]) = written[j]
          BY <1>8, <2>2, <5>1, ConcatEmptySeq
        <5> QED  BY <2>1, <3>3, <5>2
      <4>2. CASE out[k] # <<>>
        <5> DEFINE m == written[j] - Len(out[j])
        <5>1. q = Pieces(j, "none", Numbers(m, written[j]))
          BY <1>s, <2>1, <2>4, <4>2, Zenon
        <5>2. m \in Nat /\ m <= written[j] /\ j \in {"1", "2", "X", "F"} /\ Carries(up, j, Len(got[j]), m)
          BY <1>8, <2>1, <2>3, <3>3, AgentAssumption
        <5> HIDE DEF m
        <5>3. Carries(q, j, m, written[j])
          BY <2>2, <5>1, <5>2, CarriesPieces, Zenon
        <5> QED  BY <1>8, <2>2, <5>2, <5>3, CarriesJoin, Zenon
      <4> QED  BY <4>1, <4>2, Zenon
    <3> QED  BY <2>1, <3>1, <3>2, <3>3
  <2>5. CASE j # k
    <3>1. out'[j] = out[j]
      BY <1>o, <2>5
    <3>2. ASSUME ~hostClosed PROVE Carries(Coming', j, Len(got[j]), written[j] - Len(out[j]))
      <4> DEFINE m == written[j] - Len(out[j])
      <4>1. m \in Nat /\ Carries(up, j, Len(got[j]), m)
        BY <1>8, <2>1, <2>3, <3>2
      <4> HIDE DEF m
      <4>2. Carries(q, j, m, m)
        BY <1>q, <2>5, <4>1, CarriesNothing, Zenon
      <4>3. Carries(up \o q, j, Len(got[j]), m)
        BY <1>8, <2>2, <4>1, <4>2, CarriesJoin, Zenon
      <4> QED  BY <1>8, <4>3, Zenon DEF m
    <3> QED  BY <2>1, <3>1, <3>2
  <2> QED  BY <2>4, <2>5, Zenon
<1>10. LastKept'
  <2>1. ASSUME NEW i \in 1..Len(Coming') PROVE Coming'[i].type \in Outs
    <3>1. \A l \in 1..Len(Coming) : Coming[l].type \in Outs
      BY <1>2 DEF AgentInv, LastKept
    <3> QED  BY <1>8, <1>q, <3>1
  <2>2. \A t \in Outs : t \notin {"X", "F"}
    BY AgentAssumption, Zenon
  <2> QED  BY <1>2, <1>3, <2>1, <2>2 DEF LastKept
<1>11. DrainKept'
  <2>1. \A j \in Outs : j \notin new.fds_out => out'[j] = <<>>
    BY <1>2, <1>3, <1>o, Zenon DEF AgentInv, DrainKept
  <2>2. agent.exited /\ child.heir = "none" /\ agent.grace > 0 => \A j \in Outs : out'[j] = <<>> \/ j \in new.ready
    BY <1>2, <1>3, <1>o, Zenon DEF AgentInv, DrainKept
  <2> QED  BY <1>2, <1>3, <2>1, <2>2, Zenon DEF DrainKept
<1>12. ResultKept'
  BY <1>2 DEF AgentInv, ResultKept
<1> QED  BY <1>4, <1>5, <1>6, <1>7, <1>9, <1>10, <1>11, <1>12, Zenon DEF AgentInv

LEMMA AgentExitKeeps ==
    ASSUME AgentInv, AgentExit
    PROVE  AgentInv'
<1>1. agent \in AgentState /\ got \in [Outs -> Seq(Nat)] /\ written \in [Outs -> 0..Outputs] /\ Outputs \in Nat
      /\ out \in [Outs -> Seq(Nat)]
  BY InvFacts
<1>2. /\ agent.pc = "exit"
      /\ host' = host /\ hostClosed' = hostClosed /\ got' = got /\ down' = down /\ up' = up
      /\ guestClosed' = guestClosed /\ child' = child /\ stdin' = stdin /\ out' = out /\ written' = written /\ fed' = fed
  BY DEF AgentExit, hostVars
<1>a. agent.exited /\ agent.sending = <<>>
  BY <1>2 DEF AgentInv, PlacesKept
<1>s. PICK q \in Seq(PieceSet) :
        /\ q = Pieces("X", agent.status, <<>>) /\ Len(q) = 3
        /\ \A i \in 1..3 : q[i].type = "X" /\ q[i].status = agent.status /\ q[i].part = i
  <2>1. agent.status \in {"none", "exited", "killed"} /\ <<>> \in Seq(Nat)
    BY <1>1, EmptySeq DEF AgentState
  <2>2. PICK x \in {"1", "2", "X", "F"} : x = "X"
    OBVIOUS
  <2>a. PICK none \in Seq(Nat) : none = <<>>
    BY <2>1, Zenon
  <2>b. PICK st \in {"none", "exited", "killed"} : st = agent.status
    BY <2>1
  <2>3. PICK r : r = Pieces(x, st, none)
    OBVIOUS
  <2>4. /\ r \in Seq(PieceSet) /\ Len(r) = 3
        /\ \A i \in 1..3 : r[i].type = x /\ r[i].status = st /\ r[i].part = i
    BY <2>3, PiecesAre
  <2> QED  BY <2>2, <2>a, <2>b, <2>3, <2>4
<1>3. PICK new \in AgentState :
        /\ agent' = new /\ new.sending = q /\ new.pending = agent.pending /\ ~new.stdin_fd
        /\ new.exited = agent.exited /\ new.grace = agent.grace
        /\ new.status = agent.status /\ new.pc = "bye" /\ new.ready = agent.ready
  <2>1. PICK no \in BOOLEAN : no = FALSE
    BY Zenon
  <2>2. PICK none \in SUBSET Outs : none = {}
    BY Zenon
  <2> DEFINE n == [agent EXCEPT !.pc = "bye", !.stdin_fd = no, !.fds_out = none, !.sending = q]
  <2>3. n \in AgentState /\ n.sending = q /\ n.pending = agent.pending /\ n.stdin_fd = no
        /\ n.exited = agent.exited /\ n.grace = agent.grace
        /\ n.status = agent.status /\ n.pc = "bye" /\ n.ready = agent.ready
    BY <1>1, Zenon DEF AgentState
  <2>4. agent' = n
    BY <1>s, <2>1, <2>2, Zenon DEF AgentExit
  <2>5. ~n.stdin_fd
    BY <2>1, <2>3, Zenon
  <2> HIDE DEF n
  <2> QED  BY <2>3, <2>4, <2>5
<1>4. Typed'
  BY <1>2, <1>3 DEF AgentInv, Typed, HostTyped, WireTyped, PipesTyped, InputTyped
<1>5. Taken' = Taken /\ ScriptKept'
  BY <1>2, ScriptSame, Zenon
<1>6. PlacesKept'
  BY <1>2, <1>3, <1>5, Zenon DEF AgentInv, PlacesKept
<1>7. StdinKept'
  BY <1>2, <1>3, <1>5, Zenon DEF AgentInv, StdinKept
<1>8. /\ Coming = up /\ Coming' = up \o q /\ Len(up) \in Nat /\ Len(q) \in Nat /\ up \in Seq(PieceSet)
      /\ Len(Coming') = Len(up) + Len(q)
      /\ \A i \in 1..Len(Coming') : \/ i \in 1..Len(up) /\ Coming'[i] = Coming[i]
                                    \/ i - Len(up) \in 1..Len(q) /\ Coming'[i] = q[i - Len(up)]
  BY <1>2, <1>3, <1>a, ComingMore, Zenon
<1>9. OutputKept'
  <2> SUFFICES ASSUME NEW j \in Outs, ~hostClosed
               PROVE  Carries(Coming', j, Len(got[j]), written[j] - Len(out[j]))
    BY <1>2, Zenon DEF AgentInv, OutputKept
  <2> DEFINE m == written[j] - Len(out[j])
  <2>1. Len(out[j]) <= written[j] /\ Carries(Coming, j, Len(got[j]), m)
    BY Zenon DEF AgentInv, OutputKept
  <2>2. Len(out[j]) \in Nat /\ written[j] \in Nat /\ Len(got[j]) \in Nat
    BY <1>1, LenProperties
  <2>3. m \in Nat
    BY <2>1, <2>2
  <2> HIDE DEF m
  <2>4. \A i \in 1..Len(q) : q[i].type # j
    BY <1>s, AgentAssumption, Zenon
  <2>5. Carries(q, j, m, m)
    BY <2>3, <2>4, CarriesNothing
  <2>6. Carries(up \o q, j, Len(got[j]), m)
    BY <1>8, <2>1, <2>2, <2>3, <2>5, CarriesJoin, Zenon
  <2> QED  BY <1>8, <2>6 DEF m
<1>10. LastKept'
  <2>1. ASSUME NEW i \in 1..Len(Coming')
        PROVE  \/ Coming'[i].type \in Outs
               \/ /\ Coming'[i].type = "X" /\ Coming'[i].status = agent.status
                  /\ Coming'[i].part = 3 => i = Len(Coming')
    <3>1. \A l \in 1..Len(Coming) : Coming[l].type \in Outs
      BY <1>2 DEF AgentInv, LastKept
    <3>2. CASE i \in 1..Len(up) /\ Coming'[i] = Coming[i]
      BY <1>8, <3>1, <3>2
    <3>3. CASE i - Len(up) \in 1..Len(q) /\ Coming'[i] = q[i - Len(up)]
      <4>1. i - Len(up) \in 1..3
        BY <1>s, <3>3
      <4>2. Coming'[i].type = "X" /\ Coming'[i].status = agent.status /\ Coming'[i].part = i - Len(up)
        BY <1>s, <3>3, <4>1, Zenon
      <4>3. i - Len(up) = 3 => i = Len(Coming')
        <5>1. Len(Coming') = Len(up) + 3 /\ Len(up) \in Nat /\ i \in Int
          <6>1. Len(q) = 3 /\ Len(Coming') = Len(up) + Len(q) /\ Len(up) \in Nat
            BY <1>s, <1>8
          <6>2. i \in Int
            OBVIOUS
          <6> QED  BY <6>1, <6>2
        <5> QED  BY <5>1
      <4> QED  BY <4>2, <4>3
    <3> QED  BY <1>8, <3>2, <3>3, Zenon
  <2>2. \A t \in Outs : t \notin {"X", "F"}
    BY AgentAssumption
  <2>3. Coming' # <<>> /\ Coming'[Len(Coming')].part = 3 /\ Coming'[Len(Coming')].type = "X"
    <3>1. Len(Coming') \in 1..Len(Coming') /\ Len(Coming') - Len(up) = 3 /\ Len(Coming') \notin 1..Len(up)
      BY <1>8, <1>s
    <3>2. Coming'[Len(Coming')] = q[3]
      BY <1>8, <3>1, Zenon
    <3>3. Len(<<>>) = 0
      OBVIOUS
    <3> QED  BY <1>s, <3>1, <3>2, <3>3
  <2> QED  BY <1>2, <1>3, <1>a, <2>1, <2>2, <2>3, Zenon DEF LastKept
<1>11. DrainKept'
  BY <1>2, <1>3 DEF AgentInv, DrainKept
<1>12. ResultKept'
  BY <1>2 DEF AgentInv, ResultKept
<1> QED  BY <1>4, <1>5, <1>6, <1>7, <1>9, <1>10, <1>11, <1>12, Zenon DEF AgentInv

LEMMA ScriptIs ==
    ASSUME NEW n \in Nat, NEW j \in Nat, j >= 1
    PROVE  /\ j = 1 => Script(n, j).type = "A"
           /\ j = 2 => Script(n, j).type = "S"
           /\ j > 2 /\ j <= n + 2 => Script(n, j).type = "I" /\ Script(n, j).v = j - 2
           /\ j = n + 3 => Script(n, j).type = "I" /\ Script(n, j).v = 0
           /\ j > n + 3 => Script(n, j).type = "K"
<1>1. CASE j = 1
  BY <1>1 DEF Script, Frame
<1>2. CASE j = 2
  BY <1>2 DEF Script, Frame
<1>3. CASE j > 2 /\ j <= n + 2
  <2>1. Script(n, j) = Frame("I", j - 2)
    BY <1>3 DEF Script
  <2> QED  BY <1>3, <2>1 DEF Frame
<1>4. CASE j = n + 3
  <2>1. Script(n, j) = Frame("I", 0)
    BY <1>4 DEF Script
  <2> QED  BY <1>4, <2>1 DEF Frame
<1>5. CASE j > n + 3
  <2>1. Script(n, j) = Frame("K", 9)
    BY <1>5 DEF Script
  <2> QED  BY <1>5, <2>1 DEF Frame
<1> QED  BY <1>1, <1>2, <1>3, <1>4, <1>5

\* recv_frame takes the next frame of the script.
LEMMA TakeFrame ==
    ASSUME AgentInv, down # <<>>, down' = Tail(down), host' = host
    PROVE  /\ Taken' = Taken + 1 /\ ScriptKept' /\ Head(down) = Script(host.input, Taken + 1) /\ Head(down) \in Frames
           /\ down' \in Seq(Frames) /\ Len(down') <= DownRoom
<1>1. /\ host.input \in Nat /\ Len(host.todo) \in Nat /\ down \in Seq(Frames) /\ Len(down) \in Nat /\ Taken \in Nat
      /\ DownRoom \in Nat
  BY InvFacts
<1>2. PICK rest : rest = Tail(down)
  OBVIOUS
<1>3. /\ rest \in Seq(Frames) /\ Len(rest) = Len(down) - 1 /\ \A i \in 1..Len(rest) : rest[i] = down[i + 1]
  BY <1>1, <1>2, HeadTailProperties, Zenon
<1>4. Head(down) = down[1] /\ Head(down) \in Frames /\ Len(down) > 0
  BY <1>1, HeadTailProperties, EmptySeq
<1>5. down' = rest /\ Len(down') = Len(down) - 1
  BY <1>2, <1>3
<1>6. Taken' = Taken + 1
  <2>1. Scripted' = Scripted /\ Scripted \in Nat
    BY <1>1 DEF Scripted
  <2>2. Len(host'.todo) = Len(host.todo)
    OBVIOUS
  <2> QED  BY <1>1, <1>5, <2>1, <2>2 DEF Taken
<1>7. Head(down) = Script(host.input, Taken + 1)
  <2>1. 1 \in 1..Len(down)
    BY <1>1, <1>4
  <2> QED  BY <1>4, <2>1 DEF AgentInv, ScriptKept
<1>8. ScriptKept'
  <2>1. \A i \in 1..Len(rest) : rest[i] = Script(host.input, (Taken + 1) + i)
    <3> TAKE i \in 1..Len(rest)
    <3>1. i + 1 \in 1..Len(down) /\ Taken + (i + 1) = (Taken + 1) + i
      BY <1>1, <1>3
    <3>2. down[i + 1] = Script(host.input, Taken + (i + 1))
      BY <3>1 DEF AgentInv, ScriptKept
    <3> QED  BY <1>3, <3>1, <3>2
  <2>2. \A i \in 1..Len(host.todo) : host.todo[i] = Script(host.input, (Taken + 1) + Len(rest) + i)
    <3> TAKE i \in 1..Len(host.todo)
    <3>1. Taken + Len(down) + i = (Taken + 1) + Len(rest) + i
      BY <1>1, <1>3
    <3>2. host.todo[i] = Script(host.input, Taken + Len(down) + i)
      BY DEF AgentInv, ScriptKept
    <3> QED  BY <3>1, <3>2
  <2>3. Taken + 1 \in Nat
    BY <1>1
  <2> QED  BY <1>5, <1>6, <2>1, <2>2, <2>3 DEF AgentInv, ScriptKept
<1>9. Len(down') <= DownRoom
  BY <1>1, <1>5, SMTT(30) DEF AgentInv, Typed, WireTyped
<1> QED  BY <1>3, <1>4, <1>5, <1>6, <1>7, <1>8, <1>9, Zenon

LEMMA AgentArgsKeeps ==
    ASSUME AgentInv, AgentArgs
    PROVE  AgentInv'
<1>1. /\ agent \in AgentState /\ child \in ChildState /\ host.input \in Nat /\ Taken \in Nat
      /\ got \in [Outs -> Seq(Nat)] /\ written \in [Outs -> 0..Outputs] /\ Outputs \in Nat
      /\ out \in [Outs -> Seq(Nat)]
  BY InvFacts, Zenon
<1>2. /\ agent.pc = "args" /\ down # <<>> /\ down' = Tail(down)
      /\ host' = host /\ hostClosed' = hostClosed /\ got' = got /\ up' = up
      /\ guestClosed' = guestClosed /\ stdin' = stdin /\ out' = out /\ written' = written /\ fed' = fed
  BY Zenon DEF AgentArgs, hostVars
<1>a. /\ Taken <= 1 /\ up = <<>> /\ agent.sending = <<>> /\ child.state = "none" /\ ~agent.exited /\ agent.grace = 0
      /\ (agent.argv <=> Taken = 1) /\ (hostClosed => host.todo = <<>>) /\ ~guestClosed
      /\ fed = <<>> /\ stdin = <<>> /\ agent.pending = <<>> /\ agent.stdin_fd
  BY <1>2 DEF AgentInv, PlacesKept, StdinKept
<1>3. /\ Taken' = Taken + 1 /\ ScriptKept' /\ Head(down) = Script(host.input, Taken + 1)
      /\ down' \in Seq(Frames) /\ Len(down') <= DownRoom
  BY <1>2, TakeFrame
<1>f. PICK f : f = Head(down)
  OBVIOUS
<1>g. (f.type = "S" => Taken = 1) /\ (f.type # "S" => Taken = 0 /\ f.type = "A")
  <2>1. CASE Taken = 0
    <3>1. f = Script(host.input, 1)
      BY <1>3, <1>f, <2>1
    <3> QED  BY <1>1, <2>1, <3>1, ScriptIs
  <2>2. CASE Taken = 1
    <3>1. f = Script(host.input, 2)
      BY <1>3, <1>f, <2>2
    <3> QED  BY <1>1, <2>2, <3>1, ScriptIs
  <2> QED  BY <1>1, <1>a, <2>1, <2>2
<1>r. host.result \notin {"exited", "killed"}
  BY <1>a DEF AgentInv, ResultKept
<1>c. Coming = <<>>
  BY <1>a, EmptySeq, ConcatEmptySeq DEF Coming
<1>4. CASE f.type # "S"
  <2>1. child' = child /\ agent' = [agent EXCEPT !.argv = @ \/ f.type = "A"]
    BY <1>4, <1>f, Zenon DEF AgentArgs
  <2>2. PICK new \in AgentState :
          /\ agent' = new /\ new.sending = agent.sending /\ new.pending = agent.pending
          /\ new.stdin_fd = agent.stdin_fd /\ new.fds_out = agent.fds_out /\ new.exited = agent.exited
          /\ new.grace = agent.grace /\ new.status = agent.status /\ new.pc = agent.pc /\ new.ready = agent.ready
          /\ new.argv
    <3>1. PICK yes \in BOOLEAN : yes = (agent.argv \/ f.type = "A")
      BY Zenon
    <3> DEFINE n == [agent EXCEPT !.argv = yes]
    <3>2. agent' = n
      BY <2>1, <3>1, Zenon
    <3>3. /\ n \in AgentState /\ n.sending = agent.sending /\ n.pending = agent.pending
          /\ n.stdin_fd = agent.stdin_fd /\ n.fds_out = agent.fds_out /\ n.exited = agent.exited
          /\ n.grace = agent.grace /\ n.status = agent.status /\ n.pc = agent.pc /\ n.ready = agent.ready
          /\ n.argv = yes
      BY <1>1, Zenon DEF AgentState
    <3>4. yes
      BY <1>4, <1>g, <3>1, Zenon
    <3>5. n.argv
      BY <3>3, <3>4
    <3> HIDE DEF n
    <3> QED  BY <3>2, <3>3, <3>5
  <2>3. Taken' = 1
    BY <1>3, <1>4, <1>g
  <2>4. Typed'
    BY <1>2, <1>3, <2>1, <2>2, Zenon DEF AgentInv, Typed, HostTyped, WireTyped, PipesTyped, InputTyped
  <2>5. PlacesKept'
    <3>1. agent'.argv /\ (agent'.argv <=> Taken' = 1) /\ Taken' <= 1 /\ agent'.pc = "args"
      BY <1>2, <2>2, <2>3, SMTT(30)
    <3>2. /\ (hostClosed' <=> host'.pc = "done") /\ (guestClosed' <=> agent'.pc = "closed")
          /\ host'.result # "none" => host'.pc = "done"
      BY <1>2, <1>a, <3>1 DEF AgentInv, PlacesKept
    <3>3. /\ up' = <<>> /\ agent'.sending = <<>> /\ child'.state = "none" /\ ~agent'.exited /\ agent'.grace = 0
          /\ (hostClosed' => host'.todo = <<>>)
      BY <1>2, <1>a, <2>1, <2>2
    <3> QED  BY <3>1, <3>2, <3>3 DEF PlacesKept
  <2>6. StdinKept'
    BY <1>2, <1>a, <2>1, <2>2 DEF AgentInv, StdinKept
  <2>7. Coming' = Coming
    BY <1>2, <2>2 DEF Coming
  <2>8. OutputKept'
    BY <1>2, <2>7, OutputSame
  <2>9. LastKept' /\ DrainKept'
    BY <1>2, <2>1, <2>2, <2>7 DEF AgentInv, LastKept, DrainKept
  <2>10. ResultKept'
    BY <1>2, <1>r DEF ResultKept
  <2> QED  BY <1>3, <2>4, <2>5, <2>6, <2>8, <2>9, <2>10, Zenon DEF AgentInv
<1>5. ASSUME f.type = "S", NEW q \in Seq(PieceSet), NEW pc \in {"poll", "bye"},
             agent' = [agent EXCEPT !.pc = pc, !.sending = q],
             pc = "poll" => q = <<>> /\ child'.state = "running",
             pc = "bye" => child' = child /\ q = Pieces("F", "none", <<>>),
             child' \in ChildState, child'.reads = child.reads
      PROVE  AgentInv'
  <2>1. PICK new \in AgentState :
          /\ agent' = new /\ new.sending = q /\ new.pending = agent.pending
          /\ new.stdin_fd = agent.stdin_fd /\ new.fds_out = agent.fds_out /\ new.exited = agent.exited
          /\ new.grace = agent.grace /\ new.status = agent.status /\ new.pc = pc /\ new.ready = agent.ready
    <3> DEFINE n == [agent EXCEPT !.pc = pc, !.sending = q]
    <3>1. /\ n \in AgentState /\ n.sending = q /\ n.pending = agent.pending
          /\ n.stdin_fd = agent.stdin_fd /\ n.fds_out = agent.fds_out /\ n.exited = agent.exited
          /\ n.grace = agent.grace /\ n.status = agent.status /\ n.pc = pc /\ n.ready = agent.ready
      BY <1>1, Zenon DEF AgentState
    <3>2. agent' = n
      BY <1>5
    <3> HIDE DEF n
    <3> QED  BY <3>1, <3>2
  <2>2. Taken' = 2
    BY <1>3, <1>5, <1>g
  <2>3. Typed'
    BY <1>2, <1>3, <1>5, <2>1 DEF AgentInv, Typed, HostTyped, WireTyped, PipesTyped, InputTyped
  <2>4. PlacesKept'
    BY <1>2, <1>5, <1>a, <2>1, <2>2 DEF AgentInv, PlacesKept
  <2>5. StdinKept'
    <3>1. Len(fed) = 0 /\ Len(stdin) = 0 /\ Len(agent.pending) = 0
      BY <1>a, EmptySeq, Zenon
    <3> QED  BY <1>1, <1>2, <1>5, <1>a, <2>1, <2>2, <3>1, SMTT(30) DEF AgentInv, StdinKept
  <2>6. Coming' = q
    BY <1>2, <1>a, <2>1, ConcatEmptySeq DEF Coming
  <2>p. pc = "bye" => Len(q) = 3 /\ q # <<>> /\ \A i \in 1..3 : q[i].type = "F" /\ q[i].part = i
    <3>1. PICK t \in {"1", "2", "X", "F"} : t = "F"
      OBVIOUS
    <3>2. PICK st \in {"none", "exited", "killed"} : st = "none"
      OBVIOUS
    <3>3. PICK none \in Seq(Nat) : none = <<>>
      BY EmptySeq, Zenon
    <3>4. ASSUME pc = "bye" PROVE q = Pieces(t, st, none)
      BY <1>5, <3>1, <3>2, <3>3, <3>4
    <3>5. ASSUME pc = "bye" PROVE Len(q) = 3 /\ q # <<>> /\ \A i \in 1..3 : q[i].type = t /\ q[i].part = i
      BY <3>4, <3>5, PiecesAre
    <3> QED  BY <3>1, <3>5
  <2>7. OutputKept'
    <3> SUFFICES ASSUME NEW j \in Outs, ~hostClosed
                 PROVE  Carries(q, j, Len(got[j]), written[j] - Len(out[j]))
      BY <1>2, <2>6 DEF AgentInv, OutputKept
    <3> DEFINE m == written[j] - Len(out[j])
    <3>1. Len(got[j]) = m
      <4>1. Carries(Coming, j, Len(got[j]), m) /\ Len(Coming) = 0
        BY <1>c, EmptySeq DEF AgentInv, OutputKept
      <4> HIDE DEF m
      <4> QED  BY <4>1, CarriesEnd
    <3>2. Len(got[j]) \in Nat
      BY <1>1, LenProperties
    <3>3. \A i \in 1..Len(q) : q[i].type # j
      <4>1. CASE pc = "poll"
        BY <1>5, <4>1, EmptySeq
      <4>2. CASE pc = "bye"
        BY <2>p, <4>2, AgentAssumption, Zenon
      <4> QED  BY <4>1, <4>2
    <3> HIDE DEF m
    <3>4. Carries(q, j, m, m)
      BY <3>1, <3>2, <3>3, CarriesNothing
    <3> QED  BY <3>1, <3>4 DEF m
  <2>8. LastKept'
    <3>1. CASE pc = "poll"
      <4>1. Coming' = Coming
        BY <1>5, <1>c, <2>6, <3>1, Zenon
      <4> QED  BY <1>2, <2>1, <3>1, <4>1 DEF AgentInv, LastKept
    <3>2. CASE pc = "bye"
      <4>1. Len(q) = 3 /\ q # <<>> /\ \A i \in 1..3 : q[i].type = "F" /\ q[i].part = i
        BY <2>p, <3>2
      <4>2. \A i \in 1..Len(q) : q[i].type = "F" /\ (q[i].part = 3 => i = Len(q))
        BY <4>1
      <4>3. q[Len(q)].part = 3 /\ q[Len(q)].type = "F"
        BY <4>1, SMTT(30)
      <4> QED  BY <1>2, <2>1, <2>6, <3>2, <4>1, <4>2, <4>3 DEF LastKept
    <3> QED  BY <3>1, <3>2
  <2>9. DrainKept'
    BY <1>2, <1>a, <2>1 DEF AgentInv, DrainKept
  <2>10. ResultKept'
    BY <1>2, <1>r, Zenon DEF ResultKept
  <2> QED  BY <1>3, <2>3, <2>4, <2>5, <2>7, <2>8, <2>9, <2>10, Zenon DEF AgentInv
<1>6. CASE /\ f.type = "S" /\ agent' = [agent EXCEPT !.pc = "poll"]
           /\ \E h \in Heirs : child' = [child EXCEPT !.state = "running", !.heir = h]
  <2>1. PICK h \in Heirs : child' = [child EXCEPT !.state = "running", !.heir = h]
    BY <1>6, Zenon
  <2>2. h \in {"none", "alive", "dead"}
    BY AgentAssumption
  <2>3. child' \in ChildState /\ child'.state = "running" /\ child'.reads = child.reads
    BY <1>1, <2>1, <2>2, Zenon DEF ChildState
  <2>4. PICK q \in Seq(PieceSet) : q = <<>>
    BY EmptySeq, Zenon
  <2>5. agent' = [agent EXCEPT !.pc = "poll", !.sending = q]
    BY <1>1, <1>6, <1>a, <2>4, Zenon DEF AgentState
  <2>6. PICK pc \in {"poll", "bye"} : pc = "poll"
    OBVIOUS
  <2>7. agent' = [agent EXCEPT !.pc = pc, !.sending = q]
    BY <2>5, <2>6
  <2> QED  BY <1>5, <1>6, <2>3, <2>4, <2>6, <2>7, Zenon
<1>7. CASE /\ f.type = "S" /\ child' = child
           /\ agent' = [agent EXCEPT !.pc = "bye", !.sending = Pieces("F", "none", <<>>)]
  <2>1. PICK q \in Seq(PieceSet) : q = Pieces("F", "none", <<>>)
    <3>1. PICK none \in Seq(Nat) : none = <<>>
      BY EmptySeq, Zenon
    <3>2. Pieces("F", "none", none) \in Seq(PieceSet)
      BY PiecesType
    <3> QED  BY <3>1, <3>2
  <2>2. PICK pc \in {"poll", "bye"} : pc = "bye"
    OBVIOUS
  <2>3. agent' = [agent EXCEPT !.pc = pc, !.sending = q]
    BY <1>7, <2>1, <2>2
  <2> QED  BY <1>1, <1>5, <1>7, <2>1, <2>2, <2>3, Zenon
<1>8. \/ f.type # "S"
      \/ /\ f.type = "S" /\ agent' = [agent EXCEPT !.pc = "poll"]
         /\ \E h \in Heirs : child' = [child EXCEPT !.state = "running", !.heir = h]
      \/ /\ f.type = "S" /\ child' = child
         /\ agent' = [agent EXCEPT !.pc = "bye", !.sending = Pieces("F", "none", <<>>)]
  BY <1>f, Zenon DEF AgentArgs
<1> QED  BY <1>4, <1>6, <1>7, <1>8, Zenon

LEMMA AgentFeedKeeps ==
    ASSUME AgentInv, AgentFeed
    PROVE  AgentInv'
<1>1. /\ agent \in AgentState /\ host.input \in Nat /\ PipeRoom \in Nat /\ Taken \in Nat
      /\ agent.pending \in Seq(1..host.input) /\ stdin \in Seq(1..host.input) /\ fed \in Seq(1..host.input)
      /\ Len(stdin) \in Nat /\ Len(fed) \in Nat /\ Len(agent.pending) \in Nat /\ Len(stdin) <= PipeRoom
      /\ agent.pending \in Seq(Nat)
  BY InvFacts, LenProperties, Zenon DEF AgentInv, Typed, InputTyped, AgentState
<1>2. /\ agent.pc = "out" /\ agent.sending = <<>> /\ agent.ready \intersect Outs = {}
      /\ host' = host /\ hostClosed' = hostClosed /\ got' = got /\ down' = down /\ up' = up
      /\ guestClosed' = guestClosed /\ child' = child /\ out' = out /\ written' = written /\ fed' = fed
  BY Zenon DEF AgentFeed, hostVars
<1> DEFINE feeds == "in" \in agent.ready
<1> DEFINE room == Len(stdin) < PipeRoom
<1>3. PICK new \in AgentState :
        /\ agent' = new /\ new.sending = agent.sending /\ new.stdin_fd = agent.stdin_fd
        /\ new.pending = (IF feeds /\ (room \/ ~child.reads) THEN <<>> ELSE agent.pending)
        /\ new.fds_out = agent.fds_out /\ new.exited = agent.exited /\ new.grace = agent.grace
        /\ new.status = agent.status /\ new.ready = agent.ready
        /\ new.pc = (IF "sock" \in agent.ready THEN "sock" ELSE "poll")
  <2>1. PICK pend \in Seq(Nat) : pend = IF feeds /\ (room \/ ~child.reads) THEN <<>> ELSE agent.pending
    BY <1>1, EmptySeq, Zenon
  <2>2. PICK pc \in {"sock", "poll"} : pc = IF "sock" \in agent.ready THEN "sock" ELSE "poll"
    OBVIOUS
  <2> DEFINE n == [agent EXCEPT !.pending = pend, !.pc = pc]
  <2>3. /\ n \in AgentState /\ n.sending = agent.sending /\ n.stdin_fd = agent.stdin_fd /\ n.pending = pend
        /\ n.fds_out = agent.fds_out /\ n.exited = agent.exited /\ n.grace = agent.grace
        /\ n.status = agent.status /\ n.ready = agent.ready /\ n.pc = pc
    BY <1>1, Zenon DEF AgentState
  <2>4. agent' = n
    BY <2>1, <2>2, Zenon DEF AgentFeed
  <2> HIDE DEF n
  <2> QED  BY <2>1, <2>2, <2>3, <2>4, Zenon
<1>4. stdin' = IF feeds /\ room /\ child.reads THEN stdin \o agent.pending ELSE stdin
  BY DEF AgentFeed
<1> HIDE DEF feeds
<1>a. Len(agent.pending) <= 1
  BY DEF AgentInv, StdinKept
<1>5. /\ stdin' \in Seq(1..host.input) /\ Len(stdin') \in Nat /\ Len(stdin') <= PipeRoom
      /\ new.pending \in Seq(1..host.input) /\ Len(new.pending) <= 1
  <2>1. CASE feeds /\ room /\ child.reads
    <3>1. stdin' = stdin \o agent.pending /\ new.pending = <<>>
      BY <1>3, <1>4, <2>1
    <3>2. stdin' \in Seq(1..host.input) /\ Len(stdin') = Len(stdin) + Len(agent.pending)
      BY <1>1, <3>1, ConcatProperties
    <3>3. new.pending \in Seq(1..host.input) /\ Len(new.pending) = 0
      BY <3>1, EmptySeq
    <3>4. Len(stdin) < PipeRoom
      BY <2>1
    <3> QED  BY <1>1, <1>a, <3>2, <3>3, <3>4
  <2>2. CASE ~(feeds /\ room /\ child.reads)
    <3>1. stdin' = stdin
      BY <1>4, <2>2
    <3>2. <<>> \in Seq(1..host.input) /\ Len(<<>>) = 0
      BY EmptySeq
    <3>3. new.pending = agent.pending \/ new.pending = <<>>
      BY <1>3
    <3>4. new.pending \in Seq(1..host.input) /\ Len(new.pending) <= 1
      <4>1. CASE new.pending = agent.pending
        BY <1>1, <1>a, <4>1
      <4>2. CASE new.pending = <<>>
        <5>1. new.pending \in Seq(1..host.input) /\ Len(new.pending) = 0
          BY <3>2, <4>2, Zenon
        <5> QED  BY <5>1
      <4> QED  BY <3>3, <4>1, <4>2
    <3> QED  BY <1>1, <3>1, <3>4
  <2> QED  BY <2>1, <2>2
<1>6. Typed'
  BY <1>2, <1>3, <1>5 DEF AgentInv, Typed, HostTyped, WireTyped, PipesTyped, InputTyped
<1>7. Taken' = Taken /\ ScriptKept'
  BY <1>2, ScriptSame, Zenon
<1>8. PlacesKept'
  BY <1>2, <1>3, <1>7, Zenon DEF AgentInv, PlacesKept
<1>9. StdinKept'
  <2>1. new.pc = "sock" => new.pending = <<>>
    <3>1. "sock" \in agent.ready => agent.pending = <<>>
      BY <1>2 DEF AgentInv, StdinKept
    <3> QED  BY <1>3, <3>1
  <2>2. new.pc \in {"sock", "poll"}
    BY <1>3
  <2>3. ASSUME child.reads
        PROVE  /\ \A i \in 1..Len(stdin') : stdin'[i] = Len(fed) + i
               /\ new.pending # <<>> => new.pending = <<Len(fed) + Len(stdin') + 1>>
               /\ agent.stdin_fd => /\ Taken <= host.input + 2
                                    /\ Len(fed) + Len(stdin') + Len(new.pending) = Taken - 2
    <3>1. /\ \A i \in 1..Len(stdin) : stdin[i] = Len(fed) + i
          /\ agent.pending # <<>> => agent.pending = <<Len(fed) + Len(stdin) + 1>>
          /\ agent.stdin_fd => Taken <= host.input + 2 /\ Len(fed) + Len(stdin) + Len(agent.pending) = Taken - 2
      BY <1>2, <2>3, Zenon DEF AgentInv, StdinKept
    <3>2. CASE feeds /\ room
      <4>1. stdin' = stdin \o agent.pending /\ new.pending = <<>> /\ Len(new.pending) = 0
        BY <1>3, <1>4, <2>3, <3>2, EmptySeq
      <4>2. CASE agent.pending = <<>>
        <5>1. stdin' = stdin /\ Len(agent.pending) = 0
          BY <1>1, <4>1, <4>2, ConcatEmptySeq, EmptySeq
        <5> QED  BY <3>1, <4>1, <5>1
      <4>3. CASE agent.pending # <<>>
        <5>0. agent.pending = <<Len(fed) + Len(stdin) + 1>>
          BY <3>1, <4>3
        <5>1. Len(agent.pending) = 1 /\ agent.pending[1] = Len(fed) + Len(stdin) + 1
          BY <5>0
        <5>b. PICK s : s = stdin \o agent.pending
          BY Zenon
        <5>s. s = stdin'
          BY <4>1, <5>b
        <5>a. /\ Len(s) = Len(stdin) + Len(agent.pending)
              /\ \A i \in 1..(Len(stdin) + Len(agent.pending)) :
                    s[i] = IF i <= Len(stdin) THEN stdin[i] ELSE agent.pending[i - Len(stdin)]
          BY <1>1, <5>b, ConcatProperties, Zenon
        <5>2. /\ Len(s) = Len(stdin) + 1
              /\ \A i \in 1..(Len(stdin) + Len(agent.pending)) :
                    s[i] = IF i <= Len(stdin) THEN stdin[i] ELSE agent.pending[i - Len(stdin)]
          BY <5>1, <5>a, Zenon
        <5>3. \A i \in 1..Len(s) : s[i] = Len(fed) + i
          <6> TAKE i \in 1..Len(s)
          <6>1. i \in 1..(Len(stdin) + Len(agent.pending)) /\ i \in Nat
            BY <1>1, <5>1, <5>2
          <6>2. CASE i <= Len(stdin)
            <7>1. i \in 1..Len(stdin)
              BY <1>1, <6>1, <6>2
            <7> QED  BY <3>1, <5>2, <6>1, <6>2, <7>1
          <6>3. CASE i = Len(stdin) + 1
            <7>1. i - Len(stdin) = 1 /\ ~(i <= Len(stdin)) /\ Len(fed) + Len(stdin) + 1 = Len(fed) + i
              BY <1>1, <6>3
            <7>2. s[i] = agent.pending[1]
              BY <5>2, <6>1, <7>1
            <7> QED  BY <5>1, <7>1, <7>2
          <6>4. i \in 1..(Len(stdin) + 1)
            BY <5>2, Zenon
          <6>5. Len(stdin) \in Nat
            BY <1>1, Zenon
          <6>6. i <= Len(stdin) \/ i = Len(stdin) + 1
            BY <6>4, <6>5
          <6> QED  BY <6>2, <6>3, <6>6, Zenon
        <5>4. agent.stdin_fd => Taken <= host.input + 2 /\ Len(fed) + Len(s) + 0 = Taken - 2
          BY <1>1, <3>1, <5>1, <5>2
        <5> QED  BY <4>1, <5>3, <5>4, <5>s
      <4> QED  BY <4>2, <4>3, Zenon
    <3>3. CASE ~(feeds /\ room)
      <4>1. stdin' = stdin /\ new.pending = agent.pending
        BY <1>3, <1>4, <2>3, <3>3
      <4> QED  BY <3>1, <4>1, Zenon
    <3> QED  BY <3>2, <3>3, Zenon
  <2>4. fed = Numbers(0, Len(fed))
    BY DEF AgentInv, StdinKept
  <2> QED  BY <1>2, <1>3, <1>5, <1>7, <2>1, <2>2, <2>3, <2>4, Zenon DEF StdinKept
<1>10. Coming' = Coming
  BY <1>2, <1>3 DEF Coming
<1>11. OutputKept'
  BY <1>2, <1>10, OutputSame, Zenon
<1>12. LastKept'
  BY <1>2, <1>3, <1>10, Zenon DEF AgentInv, LastKept
<1>13. DrainKept'
  <2>1. \A k \in Outs : k \notin agent.fds_out => out[k] = <<>>
    BY <1>2, Zenon DEF AgentInv, DrainKept
  <2>2. agent.exited /\ child.heir = "none" /\ agent.grace > 0 => \A k \in Outs : out[k] = <<>>
    BY <1>2, Zenon DEF AgentInv, DrainKept
  <2>3. new.pc \in {"sock", "poll"}
    BY <1>3
  <2> QED  BY <1>2, <1>3, <2>1, <2>2, <2>3, Zenon DEF DrainKept
<1>14. ResultKept'
  BY <1>2 DEF AgentInv, ResultKept
<1> QED  BY <1>6, <1>7, <1>8, <1>9, <1>11, <1>12, <1>13, <1>14 DEF AgentInv

\* A kill leaves a command that has ended as it is.
LEMMA KilledIs ==
    ASSUME child \in ChildState
    PROVE  /\ Killed \in ChildState /\ ~Killed.reads
           /\ child.state # "none" => Killed.state # "none"
           /\ child.state \in {"exited", "killed"} => Killed.state = child.state
           /\ Killed.heir = "none" => child.heir = "none"
<1> DEFINE st == IF child.state = "running" THEN "killed" ELSE child.state
<1> DEFINE h == IF child.heir = "alive" THEN "dead" ELSE child.heir
<1>1. st \in {"none", "running", "exited", "killed"} /\ h \in {"none", "alive", "dead"}
  BY DEF ChildState
<1>2. PICK no \in BOOLEAN : no = FALSE
  BY Zenon
<1>3. Killed = [state |-> st, reads |-> no, heir |-> h]
  BY <1>2, Zenon DEF Killed
<1>4. /\ child.state # "none" => st # "none"
      /\ child.state \in {"exited", "killed"} => st = child.state
      /\ h = "none" => child.heir = "none"
  OBVIOUS
<1> HIDE DEF st, h
<1>5. Killed \in ChildState /\ Killed.state = st /\ Killed.reads = no /\ Killed.heir = h
  BY <1>1, <1>3 DEF ChildState
<1>6. ~Killed.reads
  BY <1>2, <1>5
<1> QED  BY <1>4, <1>5, <1>6

LEMMA AgentFrameKeeps ==
    ASSUME AgentInv, AgentFrame
    PROVE  AgentInv'
<1>1. /\ agent \in AgentState /\ child \in ChildState /\ host.input \in Nat /\ Taken \in Nat
      /\ Len(fed) \in Nat /\ Len(stdin) \in Nat
  BY InvFacts, LenProperties DEF AgentInv, Typed, InputTyped
<1>2. /\ agent.pc = "sock" /\ down # <<>> /\ down' = Tail(down)
      /\ host' = host /\ hostClosed' = hostClosed /\ got' = got /\ up' = up
      /\ guestClosed' = guestClosed /\ stdin' = stdin /\ out' = out /\ written' = written /\ fed' = fed
  BY Zenon DEF AgentFrame, hostVars
<1>a. /\ agent.pending = <<>> /\ Len(agent.pending) = 0 /\ agent.sending = <<>> /\ Taken >= 2 /\ child.state # "none"
  BY <1>2, EmptySeq DEF AgentInv, StdinKept, PlacesKept
<1>3. /\ Taken' = Taken + 1 /\ ScriptKept' /\ Head(down) = Script(host.input, Taken + 1) /\ Head(down) \in Frames
      /\ down' \in Seq(Frames) /\ Len(down') <= DownRoom
  BY <1>2, TakeFrame
<1>f. PICK f \in Frames : f = Head(down)
  BY <1>3
<1>g. /\ Taken + 1 <= host.input + 2 => f.type = "I" /\ f.v = Taken - 1
      /\ Taken + 1 = host.input + 3 => f.type = "I" /\ f.v = 0
      /\ Taken + 1 > host.input + 3 => f.type = "K"
  <2> DEFINE j == Taken + 1
  <2>1. j \in Nat /\ j > 2 /\ j >= 1 /\ j - 2 = Taken - 1
    BY <1>1, <1>a
  <2>2. f = Script(host.input, j)
    BY <1>3, <1>f, Zenon
  <2> HIDE DEF j
  <2>3. /\ j > 2 /\ j <= host.input + 2 => Script(host.input, j).type = "I" /\ Script(host.input, j).v = j - 2
        /\ j = host.input + 3 => Script(host.input, j).type = "I" /\ Script(host.input, j).v = 0
        /\ j > host.input + 3 => Script(host.input, j).type = "K"
    BY <1>1, <2>1, ScriptIs, Zenon
  <2> QED  BY <2>1, <2>2, <2>3 DEF j
<1>h. f.type = "I" /\ f.v # 0 => Taken + 1 <= host.input + 2 /\ f.v = Taken - 1 /\ f.v \in 1..host.input
  <2>1. Taken + 1 <= host.input + 2 \/ Taken + 1 = host.input + 3 \/ Taken + 1 > host.input + 3
    BY <1>1
  <2>2. Taken + 1 <= host.input + 2 => Taken - 1 \in 1..host.input
    BY <1>1, <1>a, SMTT(30)
  <2> QED  BY <1>g, <2>1, <2>2
<1>4. PICK new \in AgentState :
        /\ agent' = new /\ new.sending = agent.sending
        /\ new.pending = (IF f.type = "I" /\ f.v # 0 /\ agent.stdin_fd THEN <<f.v>> ELSE agent.pending)
        /\ (new.stdin_fd <=> agent.stdin_fd /\ ~(f.type = "I" /\ f.v = 0))
        /\ new.fds_out = agent.fds_out /\ new.exited = agent.exited /\ new.grace = agent.grace
        /\ new.status = agent.status /\ new.ready = agent.ready /\ new.pc = "poll"
  <2>1. PICK pend \in Seq(Nat) : pend = IF f.type = "I" /\ f.v # 0 /\ agent.stdin_fd THEN <<f.v>> ELSE agent.pending
    <3>1. f.v \in Nat /\ agent.pending \in Seq(Nat)
      BY <1>1 DEF AgentState, Frames
    <3>2. <<f.v>> \in Seq(Nat)
      BY <3>1
    <3> QED  BY <3>1, <3>2, Zenon
  <2>2. PICK fd \in BOOLEAN : fd = (agent.stdin_fd /\ ~(f.type = "I" /\ f.v = 0))
    BY Zenon
  <2> DEFINE n == [agent EXCEPT !.pc = "poll", !.pending = pend, !.stdin_fd = fd]
  <2>3. /\ n \in AgentState /\ n.sending = agent.sending /\ n.stdin_fd = fd /\ n.pending = pend
        /\ n.fds_out = agent.fds_out /\ n.exited = agent.exited /\ n.grace = agent.grace
        /\ n.status = agent.status /\ n.ready = agent.ready /\ n.pc = "poll"
    BY <1>1, Zenon DEF AgentState
  <2>4. agent' = n
    BY <1>f, <2>1, <2>2, Zenon DEF AgentFrame
  <2>5. fd <=> agent.stdin_fd /\ ~(f.type = "I" /\ f.v = 0)
    BY <2>2, Zenon
  <2>6. n.stdin_fd <=> agent.stdin_fd /\ ~(f.type = "I" /\ f.v = 0)
    BY <2>3, <2>5
  <2> HIDE DEF n
  <2> QED  BY <2>1, <2>3, <2>4, <2>6
<1>5. /\ child' \in ChildState /\ child'.state # "none"
      /\ child.state \in {"exited", "killed"} => child'.state = child.state
      /\ child'.heir = "none" => child.heir = "none"
      /\ child'.reads => f.type # "K" /\ child.reads
  <2>1. child' = IF f.type = "K" THEN Killed ELSE child
    BY <1>f DEF AgentFrame
  <2>2. CASE f.type = "K"
    BY <1>1, <1>a, <2>1, <2>2, KilledIs, Zenon
  <2>3. CASE f.type # "K"
    BY <1>1, <1>a, <2>1, <2>3
  <2> QED  BY <2>2, <2>3
<1>p. new.pending \in Seq(1..host.input) /\ Len(new.pending) <= 1
  <2>1. CASE f.type = "I" /\ f.v # 0 /\ agent.stdin_fd
    <3>1. PICK v \in 1..host.input : v = f.v
      BY <1>h, <2>1
    <3>2. <<v>> \in Seq(1..host.input) /\ Len(<<v>>) = 1
      OBVIOUS
    <3> QED  BY <1>4, <2>1, <3>1, <3>2
  <2>2. CASE ~(f.type = "I" /\ f.v # 0 /\ agent.stdin_fd)
    <3>1. new.pending = agent.pending
      BY <1>4, <2>2
    <3>2. agent.pending \in Seq(1..host.input) /\ Len(agent.pending) = 0
      BY <1>a DEF AgentInv, Typed, InputTyped
    <3>3. new.pending \in Seq(1..host.input) /\ Len(new.pending) = 0
      BY <3>1, <3>2, Zenon
    <3> QED  BY <3>3
  <2> QED  BY <2>1, <2>2
<1>6. Typed'
  BY <1>2, <1>3, <1>4, <1>5, <1>p, Zenon DEF AgentInv, Typed, HostTyped, WireTyped, PipesTyped, InputTyped
<1>7. PlacesKept'
  <2>1. Taken' >= 2
    BY <1>1, <1>3, <1>a, SMTT(30)
  <2> QED  BY <1>2, <1>4, <1>5, <2>1, Zenon DEF AgentInv, PlacesKept
<1>8. StdinKept'
  <2>1. ASSUME child'.reads
        PROVE  /\ \A i \in 1..Len(stdin) : stdin[i] = Len(fed) + i
               /\ new.pending # <<>> => new.pending = <<Len(fed) + Len(stdin) + 1>>
               /\ new.stdin_fd => /\ Taken + 1 <= host.input + 2
                                  /\ Len(fed) + Len(stdin) + Len(new.pending) = (Taken + 1) - 2
    <3>0. f.type # "K" /\ child.reads
      BY <1>5, <2>1
    <3>1. /\ \A i \in 1..Len(stdin) : stdin[i] = Len(fed) + i
          /\ agent.stdin_fd => Taken <= host.input + 2 /\ Len(fed) + Len(stdin) + Len(agent.pending) = Taken - 2
      BY <1>2, <3>0, Zenon DEF AgentInv, StdinKept
    <3>2. CASE ~agent.stdin_fd
      BY <1>4, <1>a, <3>1, <3>2
    <3>3. CASE agent.stdin_fd /\ Taken + 1 <= host.input + 2
      <4>1. f.type = "I" /\ f.v = Taken - 1 /\ f.v # 0
        BY <1>1, <1>g, <1>a, <3>3, SMTT(30)
      <4>2. PICK v : v = f.v /\ new.pending = <<v>>
        BY <1>4, <3>3, <4>1
      <4>3. Len(new.pending) = 1
        BY <4>2
      <4>4. v = Len(fed) + Len(stdin) + 1
        BY <1>1, <1>a, <3>1, <3>3, <4>1, <4>2, SMTT(30)
      <4>5. Len(fed) + Len(stdin) + Len(new.pending) = (Taken + 1) - 2
        BY <1>1, <1>a, <3>1, <3>3, <4>3, SMTT(30)
      <4> QED  BY <3>1, <3>3, <4>2, <4>4, <4>5
    <3>4. CASE agent.stdin_fd /\ Taken + 1 = host.input + 3
      <4>1. f.type = "I" /\ f.v = 0
        BY <1>g, <3>4
      <4> QED  BY <1>4, <1>a, <3>1, <4>1
    <3>5. agent.stdin_fd => Taken + 1 <= host.input + 2 \/ Taken + 1 = host.input + 3
      BY <1>1, <3>1
    <3> QED  BY <3>2, <3>3, <3>4, <3>5, Zenon
  <2>2. fed = Numbers(0, Len(fed))
    BY DEF AgentInv, StdinKept
  <2> QED  BY <1>2, <1>3, <1>4, <1>p, <2>1, <2>2, Zenon DEF StdinKept
<1>9. Coming' = Coming
  BY <1>2, <1>4 DEF Coming
<1>10. OutputKept'
  BY <1>2, <1>9, OutputSame, Zenon
<1>11. LastKept'
  BY <1>2, <1>4, <1>9, Zenon DEF AgentInv, LastKept
<1>12. DrainKept'
  <2>1. \A k \in Outs : k \notin agent.fds_out => out[k] = <<>>
    BY <1>2 DEF AgentInv, DrainKept
  <2>2. agent.exited /\ child.heir = "none" /\ agent.grace > 0 => \A k \in Outs : out[k] = <<>>
    BY <1>2 DEF AgentInv, DrainKept
  <2> QED  BY <1>2, <1>4, <1>5, <2>1, <2>2, Zenon DEF DrainKept
<1>13. ResultKept'
  BY <1>2, <1>5 DEF AgentInv, ResultKept
<1> QED  BY <1>3, <1>6, <1>7, <1>8, <1>10, <1>11, <1>12, <1>13, Zenon DEF AgentInv

LEMMA AgentHostGoneKeeps ==
    ASSUME AgentInv, AgentHostGone
    PROVE  AgentInv'
<1>1. agent \in AgentState /\ child \in ChildState
  BY InvFacts
<1>2. /\ agent.pc = "sock" /\ child' = Killed
      /\ host' = host /\ hostClosed' = hostClosed /\ got' = got /\ down' = down /\ up' = up
      /\ guestClosed' = guestClosed /\ stdin' = stdin /\ out' = out /\ written' = written /\ fed' = fed
  BY Zenon DEF AgentHostGone, hostVars
<1>a. agent.pending = <<>> /\ agent.sending = <<>> /\ child.state # "none"
  BY <1>2, Zenon DEF AgentInv, StdinKept, PlacesKept
<1>3. PICK new \in AgentState :
        /\ agent' = new /\ new.sending = agent.sending /\ new.pending = agent.pending /\ new.stdin_fd = agent.stdin_fd
        /\ new.fds_out = agent.fds_out /\ new.exited = agent.exited /\ new.grace = agent.grace
        /\ new.status = agent.status /\ new.ready = agent.ready /\ new.pc = "poll"
  <2>1. PICK no \in BOOLEAN : no = FALSE
    BY Zenon
  <2> DEFINE n == [agent EXCEPT !.pc = "poll", !.sock_open = no]
  <2>2. /\ n \in AgentState /\ n.sending = agent.sending /\ n.pending = agent.pending /\ n.stdin_fd = agent.stdin_fd
        /\ n.fds_out = agent.fds_out /\ n.exited = agent.exited /\ n.grace = agent.grace
        /\ n.status = agent.status /\ n.ready = agent.ready /\ n.pc = "poll"
    BY <1>1, Zenon DEF AgentState
  <2>3. agent' = n
    BY <2>1, Zenon DEF AgentHostGone
  <2> HIDE DEF n
  <2> QED  BY <2>2, <2>3
<1>4. /\ child' \in ChildState /\ child'.state # "none" /\ ~child'.reads
      /\ child.state \in {"exited", "killed"} => child'.state = child.state
      /\ child'.heir = "none" => child.heir = "none"
  BY <1>1, <1>2, <1>a, KilledIs
<1>5. Typed'
  BY <1>2, <1>3, <1>4 DEF AgentInv, Typed, HostTyped, WireTyped, PipesTyped, InputTyped
<1>6. Taken' = Taken /\ ScriptKept'
  BY <1>2, ScriptSame, Zenon
<1>7. PlacesKept'
  BY <1>2, <1>3, <1>4, <1>6, Zenon DEF AgentInv, PlacesKept
<1>8. StdinKept'
  BY <1>2, <1>3, <1>4, <1>a, Zenon DEF AgentInv, StdinKept
<1>9. Coming' = Coming
  BY <1>2, <1>3 DEF Coming
<1>10. OutputKept'
  BY <1>2, <1>9, OutputSame, Zenon
<1>11. LastKept'
  BY <1>2, <1>3, <1>9, Zenon DEF AgentInv, LastKept
<1>12. DrainKept'
  <2>1. \A k \in Outs : k \notin agent.fds_out => out[k] = <<>>
    BY <1>2, Zenon DEF AgentInv, DrainKept
  <2>2. agent.exited /\ child.heir = "none" /\ agent.grace > 0 => \A k \in Outs : out[k] = <<>>
    BY <1>2, Zenon DEF AgentInv, DrainKept
  <2> QED  BY <1>2, <1>3, <1>4, <2>1, <2>2, Zenon DEF DrainKept
<1>13. ResultKept'
  BY <1>2, <1>4 DEF AgentInv, ResultKept
<1> QED  BY <1>5, <1>6, <1>7, <1>8, <1>10, <1>11, <1>12, <1>13 DEF AgentInv

-----------------------------------------------------------------------------
(* The command's steps *)

LEMMA ChildReadKeeps ==
    ASSUME AgentInv, ChildRead
    PROVE  AgentInv'
<1>1. /\ agent \in AgentState /\ child \in ChildState /\ host.input \in Nat /\ Taken \in Nat /\ PipeRoom \in Nat
      /\ stdin \in Seq(1..host.input) /\ fed \in Seq(1..host.input) /\ Len(stdin) \in Nat /\ Len(fed) \in Nat
      /\ Len(stdin) <= PipeRoom
  BY InvFacts, LenProperties DEF AgentInv, Typed, InputTyped
<1>2. /\ child.state = "running" /\ child.reads /\ stdin # <<>>
      /\ host' = host /\ hostClosed' = hostClosed /\ got' = got /\ down' = down /\ up' = up
      /\ guestClosed' = guestClosed /\ child' = child /\ out' = out /\ written' = written /\ agent' = agent
  BY DEF ChildRead, hostVars
<1>h. PICK h : h = Head(stdin)
  OBVIOUS
<1>3. h \in 1..host.input /\ h = Head(stdin) /\ h = stdin[1]
  BY <1>1, <1>2, <1>h, HeadTailProperties
<1>t. PICK t : t = Tail(stdin)
  BY Zenon
<1>4. t \in Seq(1..host.input) /\ Len(t) = Len(stdin) - 1 /\ \A i \in 1..Len(t) : t[i] = stdin[i + 1]
  BY <1>1, <1>2, <1>t, HeadTailProperties, Zenon
<1>5. stdin' = t /\ fed' = Append(fed, h)
  BY <1>3, <1>t DEF ChildRead
<1>s. Len(stdin) > 0
  BY <1>1, <1>2, EmptySeq
<1>f. PICK g : g = Append(fed, h)
  BY Zenon
<1>6. /\ g \in Seq(1..host.input) /\ Len(g) = Len(fed) + 1 /\ (\A i \in 1..Len(fed) : g[i] = fed[i])
      /\ g[Len(fed) + 1] = h
  BY <1>1, <1>3, <1>f, AppendProperties
<1>7. /\ \A i \in 1..Len(stdin) : stdin[i] = Len(fed) + i
      /\ agent.pending # <<>> => agent.pending = <<Len(fed) + Len(stdin) + 1>>
      /\ agent.stdin_fd /\ agent.pc # "args" =>
            Taken <= host.input + 2 /\ Len(fed) + Len(stdin) + Len(agent.pending) = Taken - 2
      /\ fed = Numbers(0, Len(fed)) /\ agent.pc # "args"
  BY <1>2, Zenon DEF AgentInv, StdinKept
<1>8. Typed'
  <2>1. Len(t) <= PipeRoom
    BY <1>1, <1>4
  <2> QED  BY <1>2, <1>4, <1>5, <1>6, <1>f, <2>1, Zenon DEF AgentInv, Typed, HostTyped, WireTyped, PipesTyped, InputTyped
<1>9. Taken' = Taken /\ ScriptKept'
  BY <1>2, ScriptSame, Zenon
<1>10. PlacesKept'
  BY <1>2, <1>9, Zenon DEF AgentInv, PlacesKept
<1>11. StdinKept'
  <2>1. g = Numbers(0, Len(g))
    <3>1. \A i \in 1..Len(fed) : fed[i] = i
      <4>1. 0 \in Nat /\ 0 <= Len(fed) /\ Len(fed) - 0 = Len(fed)
        BY <1>1
      <4>2. \A i \in 1..(Len(fed) - 0) : Numbers(0, Len(fed))[i] = 0 + i
        BY <1>1, <4>1, NumbersType, Zenon
      <4>3. \A i \in 1..Len(fed) : fed[i] = 0 + i
        BY <1>7, <4>1, <4>2
      <4> QED  BY <4>3
    <3>2. 1 \in 1..Len(stdin)
      BY <1>1, <1>s
    <3>3. h = Len(fed) + 1
      BY <1>3, <1>7, <3>2
    <3>4. \A i \in 1..Len(g) : g[i] = 0 + i
      <4> TAKE i \in 1..Len(g)
      <4>1. CASE i \in 1..Len(fed)
        BY <1>6, <3>1, <4>1
      <4>2. CASE i = Len(fed) + 1
        BY <1>1, <1>6, <3>3, <4>2
      <4> QED  BY <1>1, <1>6, <4>1, <4>2
    <3>5. g \in Seq(Nat) /\ Len(g) \in Nat /\ Len(g) = 0 + Len(g)
      <4>1. 1..host.input \subseteq Nat
        BY <1>1
      <4>2. g \in Seq(Nat)
        BY <1>6, <4>1, SeqMonotonic, Zenon
      <4> QED  BY <4>2, LenProperties
    <3> QED  BY <3>4, <3>5, NumbersAre
  <2>2. \A i \in 1..Len(t) : t[i] = Len(g) + i
    <3> TAKE i \in 1..Len(t)
    <3>1. i + 1 \in 1..Len(stdin) /\ Len(fed) + (i + 1) = Len(g) + i
      BY <1>1, <1>4, <1>6
    <3> QED  BY <1>4, <1>7, <3>1
  <2>3. Len(g) + Len(t) = Len(fed) + Len(stdin)
    BY <1>1, <1>4, <1>6
  <2> QED  BY <1>2, <1>5, <1>7, <1>9, <1>f, <2>1, <2>2, <2>3, Zenon DEF AgentInv, StdinKept
<1>12. Coming' = Coming
  BY <1>2 DEF Coming
<1>13. OutputKept'
  BY <1>2, <1>12, OutputSame, Zenon
<1>14. LastKept' /\ DrainKept' /\ ResultKept'
  BY <1>2, <1>12, Zenon DEF AgentInv, LastKept, DrainKept, ResultKept
<1> QED  BY <1>8, <1>9, <1>10, <1>11, <1>13, <1>14, Zenon DEF AgentInv

LEMMA ChildWriteKeeps ==
    ASSUME AgentInv, NEW k \in Outs, ChildWrite(k)
    PROVE  AgentInv'
<1>1. /\ out \in [Outs -> Seq(Nat)] /\ written \in [Outs -> 0..Outputs] /\ Outputs \in Nat /\ PipeRoom \in Nat
      /\ child \in ChildState
  BY InvFacts, Zenon
<1>2. /\ (child.state = "running" \/ child.heir = "alive") /\ k \in agent.fds_out /\ written[k] < Outputs /\ Len(out[k]) < PipeRoom
      /\ host' = host /\ hostClosed' = hostClosed /\ got' = got /\ down' = down /\ up' = up
      /\ guestClosed' = guestClosed /\ child' = child /\ stdin' = stdin /\ fed' = fed /\ agent' = agent
  BY DEF ChildWrite, hostVars
<1>3. written' = [written EXCEPT ![k] = @ + 1] /\ out' = [out EXCEPT ![k] = Append(@, written[k] + 1)]
  BY Zenon DEF ChildWrite
<1>4. /\ written[k] \in Nat /\ written[k] + 1 \in 0..Outputs /\ out[k] \in Seq(Nat) /\ Len(out[k]) \in Nat
  <2>1. written[k] \in 0..Outputs /\ out[k] \in Seq(Nat)
    BY <1>1, Zenon
  <2>2. written[k] \in Nat /\ written[k] + 1 \in 0..Outputs
    BY <1>1, <1>2, <2>1
  <2> QED  BY <2>1, <2>2, LenProperties
<1>a. PICK a : a = Append(out[k], written[k] + 1)
  BY Zenon
<1>5. /\ a \in Seq(Nat) /\ Len(a) = Len(out[k]) + 1 /\ (\A i \in 1..Len(out[k]) : a[i] = out[k][i])
      /\ a[Len(out[k]) + 1] = written[k] + 1
  <2>1. written[k] + 1 \in Nat
    BY <1>4
  <2> QED  BY <1>4, <1>a, <2>1, AppendProperties
<1>6. /\ out' \in [Outs -> Seq(Nat)] /\ out'[k] = a /\ written' \in [Outs -> 0..Outputs]
      /\ written'[k] = written[k] + 1 /\ \A j \in Outs : j # k => out'[j] = out[j] /\ written'[j] = written[j]
  <2>1. out' = [out EXCEPT ![k] = a]
    BY <1>3, <1>a, Zenon
  <2> QED  BY <1>1, <1>3, <1>4, <1>5, <2>1
<1>7. Typed'
  <2>1. Len(a) <= PipeRoom
    BY <1>1, <1>2, <1>4, <1>5, SMTT(60)
  <2>2. \A j \in Outs : Len(out'[j]) <= PipeRoom
    BY <1>6, <2>1, Zenon DEF AgentInv, Typed, PipesTyped
  <2> QED  BY <1>2, <1>6, <2>2, Zenon DEF AgentInv, Typed, HostTyped, WireTyped, PipesTyped, InputTyped
<1>8. Taken' = Taken /\ ScriptKept'
  BY <1>2, ScriptSame
<1>9. PlacesKept' /\ StdinKept'
  BY <1>2, <1>8, Zenon DEF AgentInv, PlacesKept, StdinKept
<1>10. Coming' = Coming
  BY <1>2, Zenon DEF Coming
<1>11. OutputKept'
  <2> SUFFICES ASSUME NEW j \in Outs
               PROVE  /\ got[j] = Numbers(0, Len(got[j]))
                      /\ Len(out'[j]) <= written'[j] /\ out'[j] = Numbers(written'[j] - Len(out'[j]), written'[j])
                      /\ ~hostClosed => Carries(Coming, j, Len(got[j]), written'[j] - Len(out'[j]))
    BY <1>2, <1>10, Zenon DEF OutputKept
  <2>1. /\ got[j] = Numbers(0, Len(got[j]))
        /\ Len(out[j]) <= written[j] /\ out[j] = Numbers(written[j] - Len(out[j]), written[j])
        /\ ~hostClosed => Carries(Coming, j, Len(got[j]), written[j] - Len(out[j]))
    BY Zenon DEF AgentInv, OutputKept
  <2>2. CASE j # k
    <3>1. out'[j] = out[j] /\ written'[j] = written[j]
      BY <1>6, <2>2, Zenon
    <3> QED  BY <2>1, <3>1, Zenon
  <2>3. CASE j = k
    <3> DEFINE m == written[k] - Len(out[k])
    <3> DEFINE w == written[k] + 1
    <3>1. /\ m \in Nat /\ w \in Nat /\ m <= written[k] /\ w = m + Len(a) /\ w - Len(a) = m /\ Len(a) <= w
          /\ written[k] - m = Len(out[k]) /\ w = m + (Len(out[k]) + 1)
      <4>1. Len(out[k]) <= written[k]
        BY <2>1, <2>3, Zenon
      <4>2. m \in Nat /\ w \in Nat /\ m <= written[k] /\ written[k] - m = Len(out[k]) /\ w = m + (Len(out[k]) + 1)
        BY <1>4, <4>1, SMTT(30)
      <4> QED  BY <1>4, <1>5, <4>2, SMTT(30)
    <3>2. out[k] = Numbers(m, written[k])
      BY <2>1, <2>3, Zenon
    <3> HIDE DEF m
    <3>3. \A i \in 1..Len(out[k]) : out[k][i] = m + i
      <4>1. \A i \in 1..(written[k] - m) : Numbers(m, written[k])[i] = m + i
        BY <1>4, <3>1, NumbersType, Zenon
      <4> QED  BY <3>1, <3>2, <4>1, Zenon
    <3>4. \A i \in 1..Len(a) : a[i] = m + i
      <4> TAKE i \in 1..Len(a)
      <4>1. CASE i \in 1..Len(out[k])
        BY <1>5, <3>3, <4>1, Zenon
      <4>2. CASE i = Len(out[k]) + 1
        BY <1>5, <3>1, <4>2
      <4> QED  BY <1>4, <1>5, <4>1, <4>2
    <3>5. written'[j] = w /\ out'[j] = a
      BY <1>6, <2>3
    <3> HIDE DEF w
    <3>6. a = Numbers(m, w)
      BY <1>5, <3>1, <3>4, NumbersAre, Zenon
    <3>7. Len(out'[j]) <= written'[j] /\ written'[j] - Len(out'[j]) = m
      BY <3>1, <3>5
    <3>8. m = written[j] - Len(out[j])
      BY <2>3 DEF m
    <3> QED  BY <2>1, <3>5, <3>6, <3>7, <3>8, Zenon
  <2> QED  BY <2>2, <2>3, Zenon
<1>12. LastKept'
  BY <1>2, <1>10, Zenon DEF AgentInv, LastKept
<1>13. DrainKept'
  <2>1. ~(agent.exited /\ child.heir = "none")
    BY <1>2, Zenon DEF AgentInv, PlacesKept
  <2>2. \A j \in Outs : j \notin agent.fds_out /\ agent.pc \notin {"bye", "closed"} => out'[j] = <<>>
    BY <1>2, <1>6, Zenon DEF AgentInv, DrainKept
  <2> QED  BY <1>2, <2>1, <2>2, Zenon DEF DrainKept
<1>14. ResultKept'
  BY <1>2 DEF AgentInv, ResultKept
<1> QED  BY <1>7, <1>8, <1>9, <1>11, <1>12, <1>13, <1>14, Zenon DEF AgentInv

LEMMA ChildStopsKeeps ==
    ASSUME AgentInv, ChildClosesStdin \/ ChildExits
    PROVE  AgentInv'
<1>1. child \in ChildState
  BY InvFacts
<1>2. /\ child.state = "running"
      /\ host' = host /\ hostClosed' = hostClosed /\ got' = got /\ down' = down /\ up' = up
      /\ guestClosed' = guestClosed /\ stdin' = stdin /\ out' = out /\ written' = written /\ fed' = fed /\ agent' = agent
  BY DEF ChildClosesStdin, ChildExits, hostVars
<1>3. child' \in ChildState /\ child'.state \in {"running", "exited"} /\ ~child'.reads /\ child'.heir = child.heir
  <2>1. PICK no \in BOOLEAN : no = FALSE
    BY Zenon
  <2>2. CASE ChildClosesStdin
    <3>1. child' = [child EXCEPT !.reads = no]
      BY <2>1, <2>2, Zenon DEF ChildClosesStdin
    <3>2. child' \in ChildState /\ child'.state = child.state /\ child'.reads = no /\ child'.heir = child.heir
      BY <1>1, <3>1 DEF ChildState
    <3>3. ~child'.reads
      BY <2>1, <3>2
    <3> QED  BY <1>2, <3>2, <3>3
  <2>3. CASE ChildExits
    <3>1. child' = [child EXCEPT !.state = "exited", !.reads = no]
      BY <2>1, <2>3, Zenon DEF ChildExits
    <3>2. child' \in ChildState /\ child'.state = "exited" /\ child'.reads = no /\ child'.heir = child.heir
      BY <1>1, <3>1, Zenon DEF ChildState
    <3>3. ~child'.reads
      BY <2>1, <3>2
    <3> QED  BY <3>2, <3>3
  <2> QED  BY <2>2, <2>3
<1>4. ~agent.exited /\ host.result \notin {"exited", "killed"} /\ agent.pc # "args"
  BY <1>2 DEF AgentInv, PlacesKept, ResultKept
<1>5. Typed'
  BY <1>2, <1>3 DEF AgentInv, Typed, HostTyped, WireTyped, PipesTyped, InputTyped
<1>6. Taken' = Taken /\ ScriptKept'
  BY <1>2, ScriptSame, Zenon
<1>7. PlacesKept'
  BY <1>2, <1>3, <1>4, <1>6, Zenon DEF AgentInv, PlacesKept
<1>8. StdinKept'
  BY <1>2, <1>3, <1>4, Zenon DEF AgentInv, StdinKept
<1>9. Coming' = Coming
  BY <1>2 DEF Coming
<1>10. OutputKept'
  BY <1>2, <1>9, OutputSame
<1>11. LastKept'
  BY <1>2, <1>9 DEF AgentInv, LastKept
<1>12. DrainKept'
  BY <1>2, <1>4 DEF AgentInv, DrainKept
<1>13. ResultKept'
  BY <1>2, <1>4 DEF ResultKept
<1> QED  BY <1>5, <1>6, <1>7, <1>8, <1>10, <1>11, <1>12, <1>13, Zenon DEF AgentInv

-----------------------------------------------------------------------------
(* The invariant holds *)

\* The frames run() has to write are the script's first input + 3.
LEMMA ScriptWritten ==
    ASSUME NEW n \in Nat, NEW s,
           s = <<Frame("A", 0), Frame("S", 0)>> \o [i \in 1..n |-> Frame("I", i)] \o <<Frame("I", 0)>>
    PROVE  s \in Seq(Frames) /\ Len(s) = n + 3 /\ \A i \in 1..Len(s) : s[i] = Script(n, i)
<1>1. \A v \in Nat : Frame("I", v) \in Frames /\ Frame("A", v) \in Frames /\ Frame("S", v) \in Frames
  BY DEF Frame, Frames
<1>p. PICK p : p = <<Frame("A", 0), Frame("S", 0)>>
  OBVIOUS
<1>2. p \in Seq(Frames) /\ Len(p) = 2 /\ p[1] = Frame("A", 0) /\ p[2] = Frame("S", 0)
  BY <1>1, <1>p
<1>q. PICK q : q = [i \in 1..n |-> Frame("I", i)]
  BY Zenon
<1>3. q \in Seq(Frames) /\ Len(q) = n /\ \A i \in 1..n : q[i] = Frame("I", i)
  <2>1. q \in [1..n -> Frames]
    BY <1>1, <1>q
  <2> QED  BY <1>q, <2>1
<1>r. PICK r : r = <<Frame("I", 0)>>
  OBVIOUS
<1>4. r \in Seq(Frames) /\ Len(r) = 1 /\ r[1] = Frame("I", 0)
  BY <1>1, <1>r
<1>u. PICK u : u = p \o q
  BY Zenon
<1>5. /\ u \in Seq(Frames) /\ Len(u) = Len(p) + Len(q)
      /\ \A i \in 1..(Len(p) + Len(q)) : u[i] = IF i <= Len(p) THEN p[i] ELSE q[i - Len(p)]
  BY <1>2, <1>3, <1>u, ConcatProperties, Zenon
<1>x. PICK x : x = u \o r
  BY Zenon
<1>y. /\ x \in Seq(Frames) /\ Len(x) = Len(u) + Len(r)
      /\ \A i \in 1..(Len(u) + Len(r)) : x[i] = IF i <= Len(u) THEN u[i] ELSE r[i - Len(u)]
  <2>1. u \in Seq(Frames) /\ r \in Seq(Frames)
    BY <1>4, <1>5
  <2> QED  BY <2>1, <1>x, ConcatProperties, Zenon
<1>s. s = x
  BY <1>p, <1>q, <1>r, <1>u, <1>x
<1>6. /\ s \in Seq(Frames) /\ Len(s) = Len(u) + Len(r)
      /\ \A i \in 1..(Len(u) + Len(r)) : s[i] = IF i <= Len(u) THEN u[i] ELSE r[i - Len(u)]
  BY <1>y, <1>s, Zenon
<1>7. Len(u) = n + 2 /\ Len(s) = n + 3
  BY <1>2, <1>3, <1>4, <1>5, <1>6
<1>8. ASSUME NEW i \in 1..Len(s) PROVE s[i] = Script(n, i)
  <2>0. i \in 1..(Len(u) + Len(r)) /\ i \in Nat /\ i <= n + 3 /\ i >= 1
    BY <1>6, <1>7
  <2>1. CASE i <= 2
    <3>1. i <= Len(u) /\ i \in 1..(Len(p) + Len(q)) /\ i <= Len(p)
      BY <1>2, <1>3, <1>7, <2>0, <2>1, SMTT(30)
    <3>2. s[i] = p[i]
      BY <1>5, <1>6, <2>0, <3>1, Zenon
    <3>3. i = 1 \/ i = 2
      BY <2>0, <2>1
    <3> QED  BY <1>2, <3>2, <3>3 DEF Script
  <2>2. CASE i > 2 /\ i <= n + 2
    <3>1. i <= Len(u) /\ i \in 1..(Len(p) + Len(q)) /\ ~(i <= Len(p)) /\ i - Len(p) = i - 2 /\ i - 2 \in 1..n
      BY <1>2, <1>3, <1>7, <2>0, <2>2, SMTT(30)
    <3>2. s[i] = q[i - 2]
      BY <1>5, <1>6, <2>0, <3>1, Zenon
    <3>3. Script(n, i) = Frame("I", i - 2)
      BY <2>0, <2>2 DEF Script
    <3> QED  BY <1>3, <3>1, <3>2, <3>3, Zenon
  <2>3. CASE i = n + 3
    <3>1. ~(i <= Len(u)) /\ i - Len(u) = 1
      BY <1>7, <2>0, <2>3
    <3>2. s[i] = Frame("I", 0)
      BY <1>4, <1>6, <2>0, <3>1
    <3>3. Script(n, i) = Frame("I", 0)
      BY <2>0, <2>3 DEF Script
    <3> QED  BY <3>2, <3>3
  <2> QED  BY <2>0, <2>1, <2>2, <2>3
<1> QED  BY <1>6, <1>7, <1>8, Zenon

LEMMA InitAgentInv == Init => AgentInv
<1> SUFFICES ASSUME Init PROVE AgentInv
  BY Zenon
<1>1. PICK n \in Inputs :
        host = [pc |-> "write", input |-> n,
                todo |-> <<Frame("A", 0), Frame("S", 0)>> \o [i \in 1..n |-> Frame("I", i)] \o <<Frame("I", 0)>>,
                part |-> 0, killed |-> FALSE, deadline |-> "none", result |-> "none"]
  BY Zenon DEF Init
<1>n. n \in Nat
  BY AgentAssumption
<1>s. PICK s : s = <<Frame("A", 0), Frame("S", 0)>> \o [i \in 1..n |-> Frame("I", i)] \o <<Frame("I", 0)>>
  BY Zenon
<1>2. s \in Seq(Frames) /\ Len(s) = n + 3 /\ \A i \in 1..Len(s) : s[i] = Script(n, i)
  BY <1>n, <1>s, ScriptWritten, Zenon
<1>3. /\ host \in HostState /\ host.pc = "write" /\ host.input = n /\ host.todo = s /\ ~host.killed
      /\ host.result = "none"
  <2>1. PICK no \in BOOLEAN : no = FALSE
    BY Zenon
  <2>2. PICK z \in 0..2 : z = 0
    OBVIOUS
  <2>3. host = [pc |-> "write", input |-> n, todo |-> s, part |-> z, killed |-> no, deadline |-> "none",
                result |-> "none"]
    BY <1>1, <1>s, <2>1, <2>2, Zenon
  <2>4. /\ host \in HostState /\ host.pc = "write" /\ host.input = n /\ host.todo = s /\ host.killed = no
        /\ host.result = "none"
    BY <1>2, <2>3, Zenon DEF HostState
  <2>5. ~host.killed
    BY <2>1, <2>4, Zenon
  <2> QED  BY <2>4, <2>5
<1>4. /\ down = <<>> /\ up = <<>> /\ hostClosed = FALSE /\ guestClosed = FALSE
      /\ stdin = <<>> /\ out = [k \in Outs |-> <<>>]
      /\ written = [k \in Outs |-> 0] /\ got = [k \in Outs |-> <<>>] /\ fed = <<>>
  BY Zenon DEF Init
<1>5. /\ agent \in AgentState /\ agent.pc = "args" /\ ~agent.argv /\ agent.pending = <<>> /\ agent.stdin_fd
      /\ agent.fds_out = Outs /\ ~agent.exited /\ agent.grace = 0 /\ agent.sending = <<>>
  <2>1. PICK no \in BOOLEAN : no = FALSE
    BY Zenon
  <2>2. PICK yes \in BOOLEAN : yes = TRUE
    BY Zenon
  <2>3. PICK z \in 0..GRACE : z = 0
    BY AgentAssumption
  <2>4. PICK p \in Seq(Nat) : p = <<>>
    BY EmptySeq, Zenon
  <2>5. PICK q \in Seq(PieceSet) : q = <<>>
    BY EmptySeq, Zenon
  <2>6. PICK r \in SUBSET (Outs \union {"sock", "in"}) : r = {}
    BY Zenon
  <2>7. agent = [pc |-> "args", argv |-> no, sock_open |-> yes, pending |-> p, stdin_fd |-> yes,
                 fds_out |-> Outs, exited |-> no, grace |-> z, status |-> "none", ready |-> r, sending |-> q]
    BY <2>1, <2>2, <2>3, <2>4, <2>5, <2>6, Zenon DEF Init
  <2>8. /\ agent \in AgentState /\ agent.pc = "args" /\ agent.argv = no /\ agent.pending = p /\ agent.stdin_fd = yes
        /\ agent.fds_out = Outs /\ agent.exited = no /\ agent.grace = z /\ agent.sending = q
    BY <2>7, Zenon DEF AgentState
  <2>9. ~agent.argv /\ agent.stdin_fd /\ ~agent.exited
    BY <2>1, <2>2, <2>8
  <2> QED  BY <2>3, <2>4, <2>5, <2>8, <2>9
<1>6. child \in ChildState /\ child.state = "none"
  <2>1. PICK yes \in BOOLEAN : yes = TRUE
    BY Zenon
  <2>2. child = [state |-> "none", reads |-> yes, heir |-> "none"]
    BY <2>1, Zenon DEF Init
  <2> QED  BY <2>2 DEF ChildState
<1>7. Len(<<>>) = 0 /\ \A S : <<>> \in Seq(S)
  BY EmptySeq
<1>8. out \in [Outs -> Seq(Nat)] /\ got \in [Outs -> Seq(Nat)] /\ written \in [Outs -> 0..Outputs]
  BY <1>4, <1>7, AgentAssumption
<1>9. \A k \in Outs : out[k] = <<>> /\ got[k] = <<>> /\ written[k] = 0 /\ Len(out[k]) = 0 /\ Len(got[k]) = 0
  BY <1>4, <1>7, Zenon
<1>10. Typed
  <2>1. hostClosed \in BOOLEAN /\ guestClosed \in BOOLEAN
    BY <1>4, Zenon
  <2>2. down \in Seq(Frames) /\ Len(down) = 0 /\ up \in Seq(PieceSet) /\ Len(up) = 0
    BY <1>4, <1>7
  <2>3. agent.pending \in Seq(1..host.input) /\ fed \in Seq(1..host.input) /\ stdin \in Seq(1..host.input) /\ Len(stdin) = 0
    BY <1>4, <1>5, <1>7
  <2>4. DownRoom \in Nat /\ UpRoom \in Nat /\ PipeRoom \in Nat
    BY AgentAssumption
  <2> QED  BY <1>3, <1>5, <1>6, <1>8, <1>9, <2>1, <2>2, <2>3, <2>4
            DEF Typed, HostTyped, WireTyped, PipesTyped, InputTyped
<1>11. Taken = 0
  BY <1>2, <1>3, <1>4, <1>7, <1>n DEF Taken, Scripted
<1>12. ScriptKept
  <2>1. \A i \in 1..Len(down) : FALSE
    BY <1>4, <1>7
  <2>2. \A i \in 1..Len(s) : s[i] = Script(n, Taken + Len(down) + i)
    <3>1. Len(down) = 0
      BY <1>4, <1>7
    <3>2. \A i \in 1..Len(s) : Taken + Len(down) + i = i
      BY <1>2, <1>n, <1>11, <3>1, SMTT(30)
    <3> QED  BY <1>2, <3>2
  <2> QED  BY <1>3, <1>11, <2>1, <2>2 DEF ScriptKept
<1>13. PlacesKept
  BY <1>3, <1>4, <1>5, <1>6, <1>11 DEF PlacesKept
<1>e. <<>> = Numbers(0, 0)
  <2>1. PICK e \in Seq(Nat) : e = <<>>
    BY <1>7, Zenon
  <2>2. Len(e) = 0 /\ 0 = 0 + Len(e) /\ \A i \in 1..Len(e) : e[i] = 0 + i
    BY <1>7, <2>1
  <2>3. 0 \in Nat
    OBVIOUS
  <2>4. e = Numbers(0, 0)
    BY <2>2, <2>3, NumbersAre, Zenon
  <2> QED  BY <2>1, <2>4
<1>14. StdinKept
  <2>1. Len(fed) = 0 /\ Len(stdin) = 0 /\ Len(agent.pending) = 0 /\ fed = Numbers(0, Len(fed))
    BY <1>4, <1>5, <1>7, <1>e
  <2> QED  BY <1>4, <1>5, <2>1 DEF StdinKept
<1>15. Coming = <<>> /\ Len(Coming) = 0
  BY <1>4, <1>5, <1>7, ConcatEmptySeq, Zenon DEF Coming
<1>16. OutputKept
  <2> SUFFICES ASSUME NEW k \in Outs
               PROVE  /\ got[k] = Numbers(0, Len(got[k]))
                      /\ Len(out[k]) <= written[k] /\ out[k] = Numbers(written[k] - Len(out[k]), written[k])
                      /\ Carries(Coming, k, Len(got[k]), written[k] - Len(out[k]))
    BY Zenon DEF OutputKept
  <2>1. Len(got[k]) = 0 /\ written[k] = 0 /\ written[k] - Len(out[k]) = 0 /\ Len(out[k]) <= written[k]
    BY <1>9
  <2>2. Coming \in Seq(PieceSet)
    BY <1>7, <1>15
  <2>3. 0 \in Nat /\ \A i \in 1..Len(Coming) : Coming[i].type # k
    BY <1>15
  <2>4. Carries(Coming, k, 0, 0)
    BY <2>2, <2>3, CarriesNothing, Zenon
  <2> QED  BY <1>9, <1>e, <2>1, <2>4, Zenon
<1>17. LastKept
  BY <1>5, <1>15, SMTT(30) DEF LastKept
<1>18. DrainKept
  BY <1>5, <1>9 DEF DrainKept
<1>19. ResultKept
  BY <1>3 DEF ResultKept
<1> QED  BY <1>10, <1>12, <1>13, <1>14, <1>16, <1>17, <1>18, <1>19 DEF AgentInv

LEMMA NextAgentInv == AgentInv /\ [Next]_vars => AgentInv'
<1> SUFFICES ASSUME AgentInv, [Next]_vars PROVE AgentInv'
  OBVIOUS
<1>1. CASE HostWrite
  BY <1>1, HostWriteKeeps
<1>2. CASE HostStartReading
  BY <1>2, HostStartReadingKeeps, Zenon
<1>3. CASE HostWriteFails
  BY <1>3, HostWriteFailsKeeps
<1>4. CASE HostRead
  BY <1>4, HostReadKeeps
<1>5. CASE HostTimeout
  BY <1>5, HostTimeoutKeeps
<1>6. CASE DeadlinePasses
  BY <1>6, DeadlinePassesKeeps
<1>7. CASE AgentArgs
  BY <1>7, AgentArgsKeeps
<1>8. CASE AgentSend
  BY <1>8, AgentSendKeeps
<1>9. CASE AgentSendFails
  BY <1>9, AgentSendFailsKeeps
<1>10. CASE AgentPoll
  BY <1>10, AgentPollKeeps
<1>11. CASE AgentWait
  BY <1>11, AgentWaitKeeps
<1>12. ASSUME NEW k \in Outs, AgentReadOut(k) PROVE AgentInv'
  BY <1>12, AgentReadOutKeeps
<1>13. CASE AgentFeed
  BY <1>13, AgentFeedKeeps
<1>14. CASE AgentFrame
  BY <1>14, AgentFrameKeeps
<1>15. CASE AgentHostGone
  BY <1>15, AgentHostGoneKeeps
<1>16. CASE AgentExit
  BY <1>16, AgentExitKeeps
<1>17. CASE AgentBye
  BY <1>17, AgentByeKeeps
<1>18. CASE ChildRead
  BY <1>18, ChildReadKeeps
<1>19. ASSUME NEW k \in Outs, ChildWrite(k) PROVE AgentInv'
  BY <1>19, ChildWriteKeeps
<1>20. CASE ChildClosesStdin \/ ChildExits
  BY <1>20, ChildStopsKeeps
<1>21. CASE UNCHANGED vars
  <2>1. /\ host' = host /\ down' = down /\ up' = up /\ hostClosed' = hostClosed /\ guestClosed' = guestClosed
        /\ agent' = agent /\ child' = child /\ stdin' = stdin /\ out' = out /\ written' = written /\ got' = got
        /\ fed' = fed
    BY <1>21, Zenon DEF vars
  <2>2. Typed'
    BY <2>1 DEF AgentInv, Typed, HostTyped, WireTyped, PipesTyped, InputTyped
  <2>3. Taken' = Taken /\ ScriptKept'
    BY <2>1, ScriptSame, Zenon
  <2>4. PlacesKept' /\ StdinKept'
    BY <2>1, <2>3, Zenon DEF AgentInv, PlacesKept, StdinKept
  <2>5. Coming' = Coming
    BY <2>1 DEF Coming
  <2>6. OutputKept'
    BY <2>1, <2>5, OutputSame, Zenon
  <2>7. LastKept' /\ DrainKept' /\ ResultKept'
    BY <2>1, <2>5, Zenon DEF AgentInv, LastKept, DrainKept, ResultKept
  <2> QED  BY <2>2, <2>3, <2>4, <2>6, <2>7 DEF AgentInv
<1> QED  BY <1>1, <1>2, <1>3, <1>4, <1>5, <1>6, <1>7, <1>8, <1>9, <1>10, <1>11, <1>12, <1>13, <1>14, <1>15,
            <1>16, <1>17, <1>18, <1>19, <1>20, <1>21, Zenon DEF Next, Host, Agent, Copies

LEMMA AgentInvImplies == AgentInv => AnswerBeforeEnd /\ AnswerTruthful /\ StdinInOrder
<1> SUFFICES ASSUME AgentInv PROVE AnswerBeforeEnd /\ AnswerTruthful /\ StdinInOrder
  OBVIOUS
<1>1. /\ agent \in AgentState /\ up \in Seq(PieceSet) /\ agent.sending \in Seq(PieceSet) /\ Taken \in Nat
      /\ Len(host.todo) \in Nat /\ Len(down) \in Nat /\ host.input \in Nat
  BY InvFacts
<1>2. ASSUME host.pc = "read", guestClosed PROVE up # <<>>
  <2>1. ~hostClosed /\ agent.pc = "closed"
    BY <1>2 DEF AgentInv, PlacesKept
  <2>2. Coming # <<>>
    BY <2>1, Zenon DEF AgentInv, LastKept
  <2>3. agent.sending = <<>>
    BY <2>1 DEF AgentInv, PlacesKept
  <2>4. Coming = up
    BY <1>1, <2>3, ConcatEmptySeq DEF Coming
  <2> QED  BY <2>2, <2>4, Zenon
<1>3. ASSUME agent.pc = "args", hostClosed PROVE down # <<>>
  <2>1. Taken <= 1 /\ host.todo = <<>>
    BY <1>3 DEF AgentInv, PlacesKept
  <2>2. Len(host.todo) = 0
    BY <2>1
  <2>3. Scripted >= 3 /\ Scripted \in Nat
    BY <1>1 DEF Scripted
  <2>4. Len(down) # 0
    BY <1>1, <2>1, <2>2, <2>3 DEF Taken
  <2> QED  BY <2>4, SMTT(30)
<1>4. AnswerBeforeEnd
  BY <1>2, <1>3 DEF AnswerBeforeEnd
<1>5. TypeOK
  BY TypeParts, Zenon DEF AgentInv
<1>6. AnswerTruthful
  BY <1>5, Zenon DEF AgentInv, ResultKept, OutputKept, AnswerTruthful
<1>7. StdinInOrder
  BY DEF AgentInv, StdinKept, StdinInOrder
<1> QED  BY <1>4, <1>6, <1>7

-----------------------------------------------------------------------------
\* run() and serve() never find the connection closed where they expect a frame (agent.rs "agent closed
\* without an exit status", collabo-agentd.c's return before the start): for every length of stdin, every
\* size of the queues and whatever the command does.
THEOREM AnswerBeforeEndHolds == Spec => []AnswerBeforeEnd
<1>1. AgentInv => AnswerBeforeEnd
  BY AgentInvImplies
<1> QED  BY InitAgentInv, NextAgentInv, <1>1, PTL DEF Spec

\* The status run() returns is the command's, and the callbacks have by then been handed everything it
\* wrote, in order: for every amount of output, every size of the pipes and every grace period of at
\* least one round.
THEOREM AnswerTruthfulHolds == Spec => []AnswerTruthful
<1>1. AgentInv => AnswerTruthful
  BY AgentInvImplies
<1> QED  BY InitAgentInv, NextAgentInv, <1>1, PTL DEF Spec

\* The command reads its stdin in order and without gaps, for every length of it.
THEOREM StdinInOrderHolds == Spec => []StdinInOrder
<1>1. AgentInv => StdinInOrder
  BY AgentInvImplies
<1> QED  BY InitAgentInv, NextAgentInv, <1>1, PTL DEF Spec
=============================================================================
