------------------------------ MODULE GuiServer ------------------------------
(***************************************************************************)
(* The display server of the guest (tools/gui/rust/src/server.rs): one     *)
(* thread polls its sockets, reaps the programs it started, reads the      *)
(* connections that were readable, fires its timers and drops the dead     *)
(* connections, over and over. Programs draw into canvases over a          *)
(* connection; control clients (the `gui` command, main.rs) send one       *)
(* request at a time and wait for its answer.                              *)
(*                                                                         *)
(* A program is its process, which exits on its own or by a signal, and    *)
(* its connection, which may outlive it in a child of the process. Pixels  *)
(* are counted, not kept. A timer is off, armed or due.                    *)
(***************************************************************************)
EXTENDS Integers, Sequences, FiniteSets, FiniteSetsExt

CONSTANTS
    Loads,        \* what the peers do: one record of bounds per behaviour
    Programs,     \* the programs, each started and connected at most once
    Controls,     \* the control clients
    MaxCanvases,  \* cfg.max_canvases
    MaxMemory,    \* cfg.max_memory, in units of pixels
    MaxFrame,     \* cfg.max_size: the largest frame
    KeepExited    \* KEEP_EXITED

Peers == Programs \cup Controls

\* A load gives each control client its requests, each program the number of messages it
\* may send, the messages, the programs started without the server, and what may happen
\* besides: "ends", a program ends by itself; "forks", a connection outlives the process that
\* made it or ends before it; "quits", a control client is interrupted; "floods", a read takes
\* a part of what was sent; "mute", a program connects and does not say HELLO in time.
ASSUME GuiAssumption ==
    /\ Programs \cap Controls = {}
    /\ {MaxCanvases, MaxMemory, MaxFrame, KeepExited} \subseteq Nat
    /\ \A l \in Loads : /\ l.sends \in [Programs -> Nat]
                        /\ DOMAIN l.asks = Controls
                        /\ l.alone \subseteq Programs
                        /\ l.may \subseteq {"ends", "forks", "quits", "floods", "mute"}

VARIABLES
    load,      \* the load of this behaviour
    phase,     \* where the server's loop is
    ready,     \* the connections poll found readable that are not yet read
    buf,       \* what read() took from a connection and has not handled
    conns,     \* the server's connections
    apps,      \* its list of programs
    canvases,  \* its canvases
    focus,     \* the focused canvas
    clipboard, \* who set the clipboard
    waiters,   \* the requests answered later
    stopping,  \* the timer of `shutdown`
    proc,      \* the programs' processes and the signal each was sent
    wire,      \* what each peer has sent and the server has not read
    client     \* the control clients

server == <<ready, buf, apps, canvases, focus, clipboard, waiters, stopping>>
vars == <<load, phase, conns, server, proc, wire, client>>

None == "none"
Idle == [conn |-> None, msgs |-> <<>>]
Message(op, n, size) == [op |-> op, n |-> n, size |-> size]
Answer(code, about) == [code |-> code, about |-> about]
NoAnswer == Answer(None, <<>>)

-----------------------------------------------------------------------------
(* The server's tables *)

Live(a) == a.state # "exited"
Records == {apps[i] : i \in DOMAIN apps}
Has(id) == \E a \in Records : a.id = id
AppOf(id) == CHOOSE a \in Records : a.id = id
With(as, a) == [i \in DOMAIN as |-> IF as[i].id = a.id THEN a ELSE as[i]]
CanvasesOf(a) == {k \in DOMAIN canvases : k \in a.canvases}
Handle(a, h) == {k \in CanvasesOf(a) : canvases[k].handle = h}
MemoryInUse == MapThenSumSet(LAMBDA k : canvases[k].pixels + canvases[k].pending, DOMAIN canvases)

LiveName(n) == \E a \in Records : a.name = n /\ Live(a)
UniqueName(base) == CHOOSE n \in {base} \X (1..Cardinality(Records) + 1) :
    /\ ~LiveName(n)
    /\ \A i \in 1..n[2] - 1 : LiveName(<<base, i>>)
Named(as, n) == SelectSeq(as, LAMBDA a : a.name # n)

\* resolve(): "." is the focused canvas, else the only program that lives; a name is its
\* last record. The program's main canvas is the one it made first.
MainCanvas(a) == IF CanvasesOf(a) = {} THEN <<>>
                 ELSE CHOOSE k \in CanvasesOf(a) : \A l \in CanvasesOf(a) : k[2] <= l[2]
Target(app, canvas) == {[app |-> app, canvas |-> canvas]}
Resolve(name) ==
    IF name = <<".", 0>>
    THEN IF focus # <<>> THEN Target(canvases[focus].app, focus)
         ELSE IF Cardinality({a \in Records : Live(a)}) = 1
              THEN LET a == CHOOSE b \in Records : Live(b) IN Target(a.id, MainCanvas(a))
              ELSE {}
    ELSE LET is == {i \in DOMAIN apps : apps[i].name = name}
         IN IF is = {} THEN {} ELSE Target(apps[Max(is)].id, MainCanvas(apps[Max(is)]))

-----------------------------------------------------------------------------
(* Answers and messages to the peers *)

\* send(): what is written to a peer that has closed its end makes the connection dead, and
\* nothing is written to a dead one. The handler that spoke is done with its message: read()
\* goes on with the next one it took unless the connection is dead by now.
Speak(cs, sends, replies) ==
    LET now == [p \in Peers |-> IF p \in sends \cup DOMAIN replies /\ wire[p].closed
                                THEN [cs[p] EXCEPT !.dead = TRUE] ELSE cs[p]]
    IN /\ conns' = now
       /\ client' = [c \in Controls |->
            IF c \in DOMAIN replies /\ ~now[c].dead
            THEN [client[c] EXCEPT !.st = "told", !.answer = replies[c]] ELSE client[c]]
       /\ buf' = IF buf = Idle \/ now[buf.conn].dead \/ Len(buf.msgs) = 1 THEN Idle
                 ELSE [buf EXCEPT !.msgs = Tail(@)]

NoReply == [c \in {} |-> NoAnswer]
Replies(ws, code) == [c \in {w.conn : w \in ws} |->
                        Answer(code, (CHOOSE w \in ws : w.conn = c).on)]
Both(f, g) == [c \in DOMAIN f \cup DOMAIN g |-> IF c \in DOMAIN f THEN f[c] ELSE g[c]]
ConnOf(id) == IF Has(id) /\ AppOf(id).conn # None THEN {AppOf(id).conn} ELSE {}

\* resolve_exit(): the waits on the programs that are gone.
ExitWaits(ids) == {w \in waiters : w.on \in ids /\ w.wait = "exit"}
LostWaits(ids) == {w \in waiters : w.on \in ids /\ w.wait \in {"ready", "pong"}}

\* Mutant: only the waits for the exit end.
ResolveExitOnly(ids) == Replies(ExitWaits(ids), "exited")

ResolveExit(ids) == Both(Replies(ExitWaits(ids), "exited"), Replies(LostWaits(ids), "FAILED"))

\* drop_canvas(), for the canvases ks: the focus and the waits on them go too.
CanvasWaits(ks) == {w \in waiters : w.on \in ks /\ w.wait \in {"frame", "idle", "size"}}

\* Mutant: the focus stays on a canvas that goes.
DropCanvasesFocused(ks) ==
    /\ canvases' = [k \in DOMAIN canvases \ ks |-> canvases[k]]
    /\ focus' = focus

DropCanvases(ks) ==
    /\ canvases' = [k \in DOMAIN canvases \ ks |-> canvases[k]]
    /\ focus' = IF focus \in ks THEN <<>> ELSE focus

\* set_focus(): the program that loses the focus and the one that gets it are told.
SetFocus(to) == focus' = to
FocusTold(to) == IF to = focus THEN {}
                 ELSE UNION {ConnOf(canvases[k].app) : k \in {focus, to} \cap DOMAIN canvases}

-----------------------------------------------------------------------------
(* The loop *)

Children == {a \in Records : a.child}
Leaving == stopping # "off" /\ (Children = {} \/ stopping = "due")
Open(p) == conns[p].st = "open"
Readable == {p \in Peers : Open(p) /\ (wire[p].msgs # <<>> \/ wire[p].closed)}
Knocking == {p \in Peers : conns[p].st = "knocking"}

\* Mutant: a signal sent is taken for an exit.
ExitsSignalled == {a \in Children : proc[a.id[1]].st = "exited" \/ proc[a.id[1]].sig # None}

\* The children try_wait() finds gone.
Exits == {a \in Children : proc[a.id[1]].st = "exited"}
Mute == {p \in Programs : Open(p) /\ conns[p].kind = "new" /\ "mute" \in load.may}
Due == \/ \E a \in Records : a.kill = "due"
       \/ \E w \in waiters : w.due \/ w.quiet
       \/ Mute # {}

\* poll() returns when a connection or the listener is readable, a child exited or a timer
\* is due; what it found readable is read in this round.
Poll ==
    /\ phase = "poll" /\ ~Leaving
    /\ Readable # {} \/ Knocking # {} \/ Exits # {} \/ Due
    /\ phase' = "reap"
    /\ ready' = Readable
    /\ UNCHANGED <<load, conns, buf, apps, canvases, focus, clipboard, waiters, stopping, proc,
                   wire, client>>

\* The records of exited programs without a connection, beyond the newest KeepExited, go.
Trimmed(as) ==
    LET gone == {i \in DOMAIN as : as[i].exited > 0 /\ as[i].conn = None}
        Newer(i) == {j \in gone : as[j].exited > as[i].exited}
        keep == {i \in DOMAIN as : i \in gone => Cardinality(Newer(i)) < KeepExited}
        ids == {as[i].id : i \in keep}
    IN SelectSeq(as, LAMBDA a : a.id \in ids)

LastExit == Max({a.exited : a \in Records} \cup {0})
Exited(as, ids) == [i \in DOMAIN as |->
    IF as[i].id \in ids
    THEN [as[i] EXCEPT !.state = "exited", !.child = FALSE, !.kill = "off",
                       !.exited = LastExit + Cardinality({j \in 1..i : as[j].id \in ids})]
    ELSE as[i]]

\* reap(), then accept().
Reap ==
    /\ phase = "reap"
    /\ LET ids == {a.id : a \in Exits}
           accepted == [p \in Peers |-> IF p \in Knocking THEN [conns[p] EXCEPT !.st = "open"]
                                        ELSE conns[p]]
       IN /\ apps' = Trimmed(Exited(apps, ids))
          /\ waiters' = waiters \ (ExitWaits(ids) \cup LostWaits(ids))
          /\ Speak(accepted, {}, ResolveExit(ids))
    /\ phase' = "conns"
    /\ UNCHANGED <<load, ready, canvases, focus, clipboard, stopping, proc, wire>>

\* read(): all there is, or what the budget of one read takes; the end of the stream makes
\* the connection dead before what was read is handled.
Read(p) ==
    /\ phase = "conns" /\ buf = Idle /\ p \in ready
    /\ ready' = ready \ {p}
    /\ \E n \in 0..Len(wire[p].msgs) :
        /\ n = Len(wire[p].msgs) \/ (n > 0 /\ "floods" \in load.may)
        /\ buf' = IF n = 0 THEN Idle ELSE [conn |-> p, msgs |-> SubSeq(wire[p].msgs, 1, n)]
        /\ wire' = [wire EXCEPT ![p].msgs = SubSeq(@, n + 1, Len(@))]
        /\ conns' = [conns EXCEPT ![p].dead = @ \/ (wire[p].closed /\ n = Len(wire[p].msgs))]
    /\ UNCHANGED <<load, phase, apps, canvases, focus, clipboard, waiters, stopping, proc, client>>

\* timers(): the connections that did not say HELLO, the programs that outlived their grace,
\* the waits that are over.
Timers ==
    /\ phase = "conns" /\ ready = {} /\ buf = Idle
    /\ \E late \in SUBSET Mute :
       LET kill == {a.id : a \in {b \in Children : b.kill = "due"}}
           quiet == {w \in waiters : w.wait = "idle" /\ w.quiet /\ w.on \in DOMAIN canvases}
           timedOut == {w \in waiters \ quiet : w.due}
       IN /\ apps' = [i \in DOMAIN apps |-> IF apps[i].id \in kill
                                            THEN [apps[i] EXCEPT !.kill = "off"] ELSE apps[i]]
          /\ proc' = [p \in Programs |-> IF p \in {id[1] : id \in kill}
                                         THEN [proc[p] EXCEPT !.sig = "KILL"] ELSE proc[p]]
          /\ waiters' = waiters \ (quiet \cup timedOut)
          /\ Speak([p \in Peers |-> IF p \in late THEN [conns[p] EXCEPT !.dead = TRUE] ELSE conns[p]],
                   {}, Both(Replies(quiet, "OK"), Replies(timedOut, "TIMEOUT")))
    /\ phase' = IF \E p \in Peers : Open(p) /\ conns'[p].dead THEN "collect" ELSE "poll"
    /\ UNCHANGED <<load, ready, canvases, focus, clipboard, stopping, wire>>

\* collect_dead(), one connection at a time: its waits go; with a program's, its canvases go
\* (app_disconnected), and one that is not the server's child is gone. Then the next round.
Collect(p) ==
    /\ phase = "collect" /\ Open(p) /\ conns[p].dead
    /\ LET as == {a \in Records : a.id = conns[p].app}
           gone == {a.id : a \in {b \in as : ~b.child /\ Live(b)}}
           ks == UNION {CanvasesOf(a) : a \in as}
           over == CanvasWaits(ks)
       IN /\ apps' = Exited([i \in DOMAIN apps |->
                        IF apps[i] \in as THEN [apps[i] EXCEPT !.conn = None, !.canvases = {}]
                        ELSE apps[i]], gone)
          /\ DropCanvases(ks)
          /\ waiters' = {w \in waiters : w.conn # p} \ (over \cup ExitWaits(gone) \cup LostWaits(gone))
          /\ Speak([conns EXCEPT ![p].st = "gone"], {}, Both(Replies(over, "NOT_FOUND"), ResolveExit(gone)))
    /\ wire' = [wire EXCEPT ![p].msgs = <<>>]
    /\ UNCHANGED <<load, phase, ready, clipboard, stopping, proc>>

NextRound ==
    /\ phase = "collect" /\ \A p \in Peers : Open(p) => ~conns[p].dead
    /\ phase' = "poll"
    /\ UNCHANGED <<load, conns, server, proc, wire, client>>

\* The end of the loop: the programs still running are killed, the last answers are written.
Leave ==
    /\ phase = "poll" /\ Leaving
    /\ phase' = "stopped"
    /\ proc' = [p \in Programs |-> IF \E a \in Children : a.id[1] = p
                                   THEN [proc[p] EXCEPT !.sig = "KILL"] ELSE proc[p]]
    /\ UNCHANGED <<load, conns, server, wire, client>>

-----------------------------------------------------------------------------
(* The messages of a program *)

Peer == buf.conn
Msg == Head(buf.msgs)
Handling == phase = "conns" /\ buf # Idle

Reply(code, about) == [c \in {Peer} |-> Answer(code, about)]

NewApp(id, name, conn, child, state) ==
    [id |-> id, name |-> name, conn |-> conn, child |-> child, state |-> state, exited |-> 0,
     kill |-> "off", canvases |-> {}, next |-> 1]

\* HELLO of a program (the control clients have said theirs): it is the one the server started
\* with its token, if that is still its child and has no connection (attach_app), else a new
\* record with a name no live one has.
Started(p) == <<p, -1>>
Attached(p) == <<p, 0>>
Hello ==
    /\ Handling /\ Msg.op = "hello" /\ conns[Peer].kind = "new"
    /\ LET mine == {a \in Records : a.id = Started(Peer) /\ a.conn = None /\ a.child}
           name == UniqueName(load.base[Peer])
           id == IF mine = {} THEN Attached(Peer) ELSE Started(Peer)
       IN /\ Speak([conns EXCEPT ![Peer].kind = "app", ![Peer].app = id], {Peer}, NoReply)
          /\ apps' = IF mine = {}
                     THEN Append(Named(apps, name), NewApp(id, name, Peer, FALSE, "running"))
                     ELSE With(apps, [AppOf(id) EXCEPT !.conn = Peer, !.state = "running"])
    /\ UNCHANGED <<load, phase, ready, canvases, focus, clipboard, waiters, stopping, proc, wire>>

\* app_message(): nothing is done for a record that is gone.
Me == AppOf(conns[Peer].app)
FromProgram(op) == Handling /\ Msg.op = op /\ Has(conns[Peer].app)

\* A message refused with an ERROR, or without an effect.
Refuse(sends) ==
    /\ Speak(conns, sends, NoReply)
    /\ UNCHANGED <<load, phase, ready, apps, canvases, focus, clipboard, waiters, stopping, proc, wire>>

RecordGone ==
    /\ Handling /\ conns[Peer].kind = "app" /\ ~Has(conns[Peer].app)
    /\ Refuse({})

CreateRefused == Handle(Me, Msg.n) # {} \/ Cardinality(Me.canvases) >= MaxCanvases
CanvasCreate ==
    /\ FromProgram("create")
    /\ LET id == <<Peer, Me.next>>
       IN IF CreateRefused THEN Refuse({Peer})
          ELSE /\ apps' = With(apps, [Me EXCEPT !.canvases = @ \cup {id}, !.next = @ + 1])
               /\ canvases' = [k \in DOMAIN canvases \cup {id} |->
                    IF k = id THEN [app |-> Me.id, handle |-> Msg.n, pixels |-> 0, pending |-> 0, frames |-> 0]
                    ELSE canvases[k]]
               /\ SetFocus(IF focus = <<>> THEN id ELSE focus)
               /\ Speak(conns, {Peer}, NoReply)
               /\ UNCHANGED <<load, phase, ready, clipboard, waiters, stopping, proc, wire>>

CanvasDestroy ==
    /\ FromProgram("destroy")
    /\ LET ks == Handle(Me, Msg.n)
       IN /\ apps' = With(apps, [Me EXCEPT !.canvases = @ \ ks])
          /\ DropCanvases(ks)
          /\ waiters' = waiters \ CanvasWaits(ks)
          /\ Speak(conns, {}, Replies(CanvasWaits(ks), "NOT_FOUND"))
    /\ UNCHANGED <<load, phase, ready, clipboard, stopping, proc, wire>>

\* CANVAS_UPDATE: held until the commit; over the limits, what is held is discarded.
TooMuch(c) == c.pending + Msg.size > 2 * MaxFrame \/ MemoryInUse + Msg.size > MaxMemory
CanvasUpdate ==
    /\ FromProgram("update")
    /\ IF Handle(Me, Msg.n) = {} THEN Refuse({Peer})
       ELSE LET k == CHOOSE l \in Handle(Me, Msg.n) : TRUE
                c == canvases[k]
            IN /\ canvases' = [canvases EXCEPT ![k].pending = IF TooMuch(c) THEN 0 ELSE @ + Msg.size]
               /\ Speak(conns, IF TooMuch(c) THEN {Peer} ELSE {}, NoReply)
               /\ UNCHANGED <<load, phase, ready, apps, focus, clipboard, waiters, stopping, proc, wire>>

\* Mutant: the other canvases are not counted.
CommitOwn(c) == Msg.size = 0 \/ Msg.size > MaxFrame \/ Msg.size > MaxMemory

\* CANVAS_COMMIT: the frame is refused if its size is out of bounds or, being a new size, over
\* the budget; else it is shown, acknowledged, and ends the waits for it.
CommitRefused(c) == \/ Msg.size = 0 \/ Msg.size > MaxFrame
                    \/ Msg.size # c.pixels /\ MemoryInUse - c.pixels + Msg.size > MaxMemory
Commit ==
    /\ FromProgram("commit")
    /\ IF Handle(Me, Msg.n) = {} THEN Refuse({Peer})
       ELSE LET k == CHOOSE l \in Handle(Me, Msg.n) : TRUE
                c == canvases[k]
                shown == [c EXCEPT !.pixels = Msg.size, !.pending = 0, !.frames = @ + 1]
                awake == {IF w.wait = "idle" /\ w.on = k THEN [w EXCEPT !.quiet = FALSE] ELSE w : w \in waiters}
                hits == {w \in awake : \/ w.wait = "ready" /\ w.on = Me.id
                                       \/ w.wait = "frame" /\ w.on = k /\ shown.frames > w.after
                                       \/ w.wait = "size" /\ w.on = k /\ w.after = Msg.size}
            IN IF CommitRefused(c)
               THEN /\ canvases' = [canvases EXCEPT ![k].pending = 0]
                    /\ Speak(conns, {Peer}, NoReply)
                    /\ waiters' = waiters
                    /\ UNCHANGED <<load, phase, ready, apps, focus, clipboard, stopping, proc, wire>>
               ELSE /\ canvases' = [canvases EXCEPT ![k] = shown]
                    /\ waiters' = awake \ hits
                    /\ Speak(conns, {Peer}, Replies(hits, "OK"))
                    /\ UNCHANGED <<load, phase, ready, apps, focus, clipboard, stopping, proc, wire>>

FocusRequest ==
    /\ FromProgram("focus")
    /\ IF Handle(Me, Msg.n) = {} THEN Refuse({})
       ELSE LET k == CHOOSE l \in Handle(Me, Msg.n) : TRUE
            IN /\ SetFocus(k)
               /\ Speak(conns, FocusTold(k), NoReply)
               /\ UNCHANGED <<load, phase, ready, apps, canvases, clipboard, waiters, stopping, proc, wire>>

Connected == {a.conn : a \in Records} \ {None}
ClipboardSet ==
    /\ FromProgram("clip")
    /\ clipboard' = Peer
    /\ Speak(conns, Connected, NoReply)
    /\ UNCHANGED <<load, phase, ready, apps, canvases, focus, waiters, stopping, proc, wire>>

Pong ==
    /\ FromProgram("pong")
    /\ LET hits == {w \in waiters : w.wait = "pong" /\ w.on = Me.id /\ w.after <= Msg.n}
       IN /\ waiters' = waiters \ hits
          /\ Speak(conns, {}, Replies(hits, "OK"))
    /\ UNCHANGED <<load, phase, ready, apps, canvases, focus, clipboard, stopping, proc, wire>>

-----------------------------------------------------------------------------
(* The requests of a control client *)

Ask == load.asks[Peer][client[Peer].asked]
Asked(op) == Handling /\ Msg.op = "request" /\ Ask.op = op
It == CHOOSE t \in Resolve(Ask.name) : TRUE
Found == Resolve(Ask.name) # {} /\ Has(It.app)
FoundCanvas == Resolve(Ask.name) # {} /\ It.canvas # <<>>
TheApp == AppOf(It.app)
Rest == UNCHANGED <<load, phase, ready, clipboard, stopping, wire>>

AnswerNow(code, about) ==
    /\ Speak(conns, {}, Reply(code, about))
    /\ Rest /\ UNCHANGED <<apps, canvases, focus, waiters, proc>>
AnswerLater(wait, on, after, sends) ==
    /\ waiters' = waiters \cup {[conn |-> Peer, wait |-> wait, on |-> on, after |-> after,
                                 due |-> FALSE, quiet |-> FALSE]}
    /\ Speak(conns, sends, NoReply)
    /\ Rest /\ UNCHANGED <<canvases, focus>>

NotFound ==
    /\ Handling /\ Msg.op = "request"
    /\ \/ Ask.op \in {"kill", "wait", "close"} /\ Resolve(Ask.name) = {}
       \/ Ask.op \in {"input", "focus", "resize", "capture"} /\ ~FoundCanvas
    /\ AnswerNow("NOT_FOUND", <<>>)

\* `app_index(app).unwrap()` on a canvas whose record is gone.
Panic ==
    /\ Handling /\ Msg.op = "request" /\ Ask.op \in {"kill", "wait", "close", "input", "resize"}
    /\ Resolve(Ask.name) # {} /\ ~Has(It.app)
    /\ phase' = "panicked"
    /\ UNCHANGED <<load, conns, server, proc, wire, client>>

\* launch: an exited program gives its name up; the process may fail to start.
Launch ==
    /\ Asked("launch")
    /\ LET name == IF Ask.name = <<>> THEN UniqueName(load.base[Ask.prog]) ELSE Ask.name
           a == NewApp(Started(Ask.prog), name, None, TRUE, "starting")
       IN IF LiveName(name) THEN AnswerNow("FAILED", <<>>)
          ELSE /\ \/ /\ proc[Ask.prog].st = None
                     /\ apps' = Append(Named(apps, name), a)
                     /\ proc' = [proc EXCEPT ![Ask.prog].st = "alive"]
                     /\ Speak(conns, {}, Reply("OK", a.id))
                  \/ /\ apps' = Named(apps, name)
                     /\ proc' = proc
                     /\ Speak(conns, {}, Reply("FAILED", <<>>))
               /\ Rest /\ UNCHANGED <<canvases, focus, waiters>>

Signalled(p, sig) == [proc EXCEPT ![p].sig = IF @ = "KILL" THEN @ ELSE sig]

\* kill: an exited program is removed from the list; a child is signalled, killed after its
\* grace, and waited for; another program is only signalled.
Kill ==
    /\ Asked("kill") /\ Found
    /\ LET a == TheApp
       IN IF ~Live(a)
          THEN /\ apps' = SelectSeq(apps, LAMBDA b : b.name # a.name \/ Live(b))
               /\ Speak(conns, {}, Reply("exited", a.id))
               /\ Rest /\ UNCHANGED <<canvases, focus, waiters, proc>>
          ELSE /\ proc' = Signalled(a.id[1], Ask.arg)
               /\ IF a.child
                  THEN /\ apps' = IF Ask.arg = "KILL" THEN apps ELSE With(apps, [a EXCEPT !.kill = "armed"])
                       /\ AnswerLater("exit", a.id, 0, {})
                  ELSE /\ Speak(conns, {}, Reply("OK", a.id))
                       /\ Rest /\ UNCHANGED <<apps, canvases, focus, waiters>>

Drawn(a) == \E k \in CanvasesOf(a) : canvases[k].frames > 0
Wait ==
    /\ Asked("wait") /\ Found
    /\ UNCHANGED apps
    /\ LET a == TheApp
           k == It.canvas
           pings == proc[a.conn].pings + 1
       IN \/ /\ Ask.arg = "ready"
             /\ IF Drawn(a) THEN AnswerNow("OK", a.id)
                ELSE IF ~Live(a) THEN AnswerNow("FAILED", a.id)
                ELSE AnswerLater("ready", a.id, 0, {}) /\ UNCHANGED proc
          \/ /\ Ask.arg = "exit"
             /\ IF ~Live(a) THEN AnswerNow("exited", a.id)
                ELSE AnswerLater("exit", a.id, 0, {}) /\ UNCHANGED proc
          \/ /\ Ask.arg \in {"frame", "idle", "size"}
             /\ IF k = <<>> THEN AnswerNow("NOT_FOUND", a.id)
                ELSE IF Ask.arg = "size" /\ canvases[k].pixels = MaxFrame THEN AnswerNow("OK", k)
                ELSE /\ AnswerLater(Ask.arg, k, IF Ask.arg = "size" THEN MaxFrame ELSE canvases[k].frames, {})
                     /\ UNCHANGED proc
          \/ /\ Ask.arg = "sync"
             /\ IF a.conn = None THEN AnswerNow("FAILED", a.id)
                ELSE /\ AnswerLater("pong", a.id, pings, {a.conn})
                     /\ proc' = [proc EXCEPT ![a.conn].pings = pings]

\* input, focus and resize move the focus or write to the program; capture only reads.
OnCanvas ==
    /\ Handling /\ Msg.op = "request" /\ Ask.op \in {"input", "focus", "resize", "capture"}
    /\ FoundCanvas /\ (Has(It.app) \/ Ask.op \in {"focus", "capture"})
    /\ LET k == It.canvas
           told == IF Ask.op \in {"input", "resize"} THEN ConnOf(It.app) ELSE {}
           moves == Ask.op \in {"input", "focus"}
       IN /\ SetFocus(IF moves THEN k ELSE focus)
          /\ Speak(conns, told \cup (IF moves THEN FocusTold(k) ELSE {}),
                   Reply(IF Ask.op = "capture" /\ canvases[k].frames = 0 THEN "NOT_FOUND" ELSE "OK", k))
    /\ Rest /\ UNCHANGED <<apps, canvases, waiters, proc>>

Close ==
    /\ Asked("close") /\ Found
    /\ Speak(conns, IF CanvasesOf(TheApp) = {} THEN {} ELSE ConnOf(It.app),
             Reply(IF ConnOf(It.app) = {} THEN "FAILED" ELSE "OK", It.app))
    /\ Rest /\ UNCHANGED <<apps, canvases, focus, waiters, proc>>

ControlClipboard ==
    /\ Asked("clipboard")
    /\ clipboard' = Peer
    /\ Speak(conns, Connected, Reply("OK", <<>>))
    /\ UNCHANGED <<load, phase, ready, apps, canvases, focus, waiters, stopping, proc, wire>>

Shutdown ==
    /\ Asked("shutdown")
    /\ proc' = [p \in Programs |-> IF \E a \in Children : a.id[1] = p THEN Signalled(p, "TERM")[p] ELSE proc[p]]
    /\ stopping' = "armed"
    /\ Speak(conns, {}, Reply("OK", <<>>))
    /\ UNCHANGED <<load, phase, ready, apps, canvases, focus, clipboard, waiters, wire>>

-----------------------------------------------------------------------------
(* The peers and time *)

Up == phase \notin {"stopped", "panicked"}

\* A program connects and says HELLO.
Connects(p) ==
    /\ Up /\ conns[p].st = None /\ proc[p].st = "alive"
    /\ conns' = [conns EXCEPT ![p].st = "knocking"]
    /\ \/ wire' = [wire EXCEPT ![p].msgs = <<Message("hello", 0, 0)>>]
       \/ "mute" \in load.may /\ wire' = wire
    /\ UNCHANGED <<load, phase, server, proc, client>>

\* A control client (Control::call) sends its next request once the last one is answered.
Asks(c) ==
    /\ client[c].st = "told" /\ client[c].asked < Len(load.asks[c]) /\ conns[c].st = "open"
    /\ client' = [client EXCEPT ![c] = [st |-> "waiting", asked |-> @.asked + 1, answer |-> NoAnswer]]
    /\ wire' = [wire EXCEPT ![c].msgs = Append(@, Message("request", 0, 0))]
    /\ UNCHANGED <<load, phase, conns, server, proc>>

\* It is interrupted, or finds the server gone.
ServerGone(c) == ~Up \/ conns[c].st = "gone"
Leaves(c) ==
    /\ client[c].st = "waiting" /\ ("quits" \in load.may \/ ServerGone(c))
    /\ client' = [client EXCEPT ![c].st = "done"]
    /\ wire' = [wire EXCEPT ![c].closed = TRUE]
    /\ UNCHANGED <<load, phase, conns, server, proc>>

StartsAlone(p) ==
    /\ p \in load.alone /\ proc[p].st = None
    /\ proc' = [proc EXCEPT ![p].st = "alive"]
    /\ UNCHANGED <<load, phase, conns, server, wire, client>>

\* A program draws, copies, answers pings.
Talks(p) == conns[p].st = "open" /\ conns[p].kind = "app" /\ ~wire[p].closed
Sends(p) ==
    /\ Talks(p) /\ wire[p].left > 0
    /\ \E m \in load.msgs :
        wire' = [wire EXCEPT ![p] = [@ EXCEPT !.msgs = Append(@, m), !.left = @ - 1]]
    /\ UNCHANGED <<load, phase, conns, server, proc, client>>
Pongs(p) ==
    /\ Talks(p) /\ proc[p].pongs < proc[p].pings
    /\ proc' = [proc EXCEPT ![p].pongs = proc[p].pings]
    /\ wire' = [wire EXCEPT ![p].msgs = Append(@, Message("pong", proc[p].pings, 0))]
    /\ UNCHANGED <<load, phase, conns, server, client>>
Disconnects(p) ==
    /\ conns[p].st # None /\ ~wire[p].closed /\ {"forks", "ends"} \subseteq load.may
    /\ wire' = [wire EXCEPT ![p].closed = TRUE, ![p].left = 0]
    /\ UNCHANGED <<load, phase, conns, server, proc, client>>

\* A process ends, by itself or by a signal; a signal of the server's ends its whole group.
Exit(p) ==
    /\ proc[p].st = "alive" /\ (proc[p].sig # None \/ "ends" \in load.may)
    /\ proc' = [proc EXCEPT ![p].st = "exited"]
    /\ \E keeps \in BOOLEAN :
        /\ keeps => "forks" \in load.may /\ proc[p].sig # "KILL" /\ conns[p].st # None
        /\ wire' = IF keeps THEN wire ELSE [wire EXCEPT ![p].closed = TRUE, ![p].left = 0]
    /\ UNCHANGED <<load, phase, conns, server, client>>

\* Time passes.
GraceOver(p) ==
    /\ \E a \in Records : /\ a.id = Started(p) /\ a.kill = "armed"
                          /\ apps' = With(apps, [a EXCEPT !.kill = "due"])
    /\ UNCHANGED <<load, phase, conns, ready, buf, canvases, focus, clipboard, waiters, stopping, proc,
                   wire, client>>
WaitOver(c) ==
    /\ \E w \in waiters : /\ w.conn = c /\ ~w.due
                          /\ \/ waiters' = (waiters \ {w}) \cup {[w EXCEPT !.due = TRUE]}
                             \/ /\ w.wait = "idle" /\ ~w.quiet /\ canvases[w.on].frames > 0
                                /\ waiters' = (waiters \ {w}) \cup {[w EXCEPT !.quiet = TRUE]}
    /\ UNCHANGED <<load, phase, conns, ready, buf, apps, canvases, focus, clipboard, stopping, proc, wire,
                   client>>
StopOver ==
    /\ stopping = "armed"
    /\ stopping' = "due"
    /\ UNCHANGED <<load, phase, conns, ready, buf, apps, canvases, focus, clipboard, waiters, proc, wire,
                   client>>

-----------------------------------------------------------------------------

Init ==
    /\ load \in Loads
    /\ phase = "poll" /\ ready = {} /\ buf = Idle
    /\ conns = [p \in Peers |-> [st |-> IF p \in Programs THEN None ELSE "open", app |-> <<>>, dead |-> FALSE,
                                 kind |-> IF p \in Programs THEN "new" ELSE "control"]]
    /\ apps = <<>> /\ canvases = [k \in {} |-> None] /\ focus = <<>>
    /\ clipboard = None /\ waiters = {} /\ stopping = "off"
    /\ proc = [p \in Programs |-> [st |-> None, sig |-> None, pings |-> 0, pongs |-> 0]]
    /\ wire = [p \in Peers |-> [msgs |-> <<>>, closed |-> FALSE,
                                left |-> IF p \in Programs THEN load.sends[p] ELSE 0]]
    /\ client = [c \in Controls |-> [st |-> "told", asked |-> 0, answer |-> NoAnswer]]

Server ==
    \/ Poll \/ Reap \/ Timers \/ NextRound \/ Leave
    \/ \E p \in Peers : Read(p) \/ Collect(p)
    \/ Hello \/ RecordGone \/ CanvasCreate \/ CanvasDestroy \/ CanvasUpdate \/ Commit \/ FocusRequest
    \/ ClipboardSet \/ Pong
    \/ NotFound \/ Panic \/ Launch \/ Kill \/ Wait \/ OnCanvas \/ Close \/ ControlClipboard \/ Shutdown

Next ==
    \/ Server
    \/ \E c \in Controls : Asks(c) \/ Leaves(c) \/ WaitOver(c)
    \/ \E p \in Programs : StartsAlone(p) \/ Connects(p) \/ Sends(p) \/ Pongs(p) \/ Disconnects(p) \/ Exit(p) \/ GraceOver(p)
    \/ StopOver

Spec == Init /\ [][Next]_vars

\* Steps that are never put off for ever: the server's thread runs, deadlines pass, a SIGKILL
\* takes effect, a client notices that its connection is gone.
Runs ==
    \/ Server \/ StopOver
    \/ \E c \in Controls : WaitOver(c) \/ (ServerGone(c) /\ Leaves(c))
    \/ \E p \in Programs : GraceOver(p) \/ (proc[p].sig = "KILL" /\ Exit(p))
FairSpec == Spec /\ WF_vars(Runs)

-----------------------------------------------------------------------------
(* Properties *)

\* The server's tables hold what the code's types say; no program has more canvases than
\* max_canvases.
TypeOK ==
    /\ load \in Loads
    /\ phase \in {"poll", "reap", "conns", "collect", "stopped", "panicked"}
    /\ ready \subseteq Peers /\ buf.conn \in Peers \cup {None}
    /\ \A p \in Peers : /\ conns[p].st \in {None, "knocking", "open", "gone"}
                        /\ conns[p].kind \in {"new", "app", "control"} /\ conns[p].dead \in BOOLEAN
                        /\ wire[p].left \in Nat /\ wire[p].closed \in BOOLEAN
    /\ \A a \in Records : /\ a.state \in {"starting", "running", "exited"}
                          /\ a.kill \in {"off", "armed", "due"} /\ a.conn \in Programs \cup {None}
                          /\ Cardinality(a.canvases) <= MaxCanvases
    /\ \A k \in DOMAIN canvases : canvases[k].pixels \in 0..MaxFrame /\ canvases[k].pending \in 0..2 * MaxFrame
    /\ \A w \in waiters : w.conn \in Controls /\ w.wait \in {"ready", "exit", "pong", "frame", "idle", "size"}
    /\ stopping \in {"off", "armed", "due"} /\ clipboard \in Peers \cup {None}
    /\ \A p \in Programs : proc[p].st \in {None, "alive", "exited"} /\ proc[p].sig \in {None, "TERM", "KILL"}
    /\ \A c \in Controls : client[c].st \in {"told", "waiting", "done"}

\* The frames shown and the updates held for all programs together never pass max_memory,
\* though an update and a commit are each checked for one canvas.
PixelBudget == MemoryInUse <= MaxMemory

\* A client told that a program the server started has exited (`wait --exit`, `kill`) is told
\* the truth: the process is gone, whatever its connection did.  When the server has stopped, every
\* program it started has exited or has been killed: also one launched after the shutdown began.
ExitTruthful ==
    /\ \A c \in Controls, p \in Programs :
        client[c].answer = Answer("exited", Started(p)) => proc[p].st = "exited"
    /\ phase = "stopped" => \A p \in Programs :
        proc[p].st = "alive" /\ p \notin load.alone => proc[p].sig = "KILL"

\* A program the server started is in its list, to be reaped and killed, as long as it runs,
\* though exited programs give up their names and their records; no two live ones share a name.
\* The focus is a canvas, and a canvas is in the list of its program, which is connected,
\* unless the program's record was discarded after its process exited.
TablesKept ==
    /\ TypeOK
    /\ \A p \in Programs : proc[p].st = "alive" /\ p \notin load.alone => \E a \in Children : a.id = Started(p)
    /\ \A a, b \in Records : Live(a) /\ Live(b) /\ a.name = b.name => a.id = b.id
    /\ focus # <<>> => focus \in DOMAIN canvases
    /\ \A a \in Records : a.canvases \subseteq DOMAIN canvases
    /\ \A k \in DOMAIN canvases : LET id == canvases[k].app IN
        IF Has(id) THEN k \in AppOf(id).canvases /\ AppOf(id).conn = k[1]
        ELSE id = Started(k[1]) /\ proc[k[1]].st = "exited"

\* A request is answered in the end, or its client finds the server gone: every wait has a
\* deadline, and the ways a program goes away answer the waits on it.  A program told to end that does
\* not is killed after its grace, also when nothing else happens that would wake the server.
WaitsEnd ==
    /\ \A c \in Controls : client[c].st = "waiting" ~> client[c].st # "waiting"
    /\ \A p \in Programs :
        (\E a \in Records : a.id = Started(p) /\ a.kill = "armed") ~> (proc[p].st = "exited" \/ phase = "panicked")
=============================================================================
