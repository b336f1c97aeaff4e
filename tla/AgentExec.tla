------------------------------ MODULE AgentExec -----------------------------
(***************************************************************************)
(* One command run in the guest: agent::run of engine/src/agent.rs on the  *)
(* host, serve() of userspace/rootfs/collabo-agentd.c in the guest, the    *)
(* vsock connection between them and the command itself (external).        *)
(*                                                                         *)
(* The connection is two bounded FIFO queues, which is what VsockStream    *)
(* shows of it: `down` holds frames, `up` holds pieces of frames, because  *)
(* a read of the host may time out between two pieces.  A frame to the     *)
(* host is three pieces, the two halves of its 5-byte header and its       *)
(* payload.  Arguments, environment and directory are one frame "A".       *)
(* Neither end vanishes by itself, so two error paths have no action: an   *)
(* end of the stream where run() expects a header, and one where serve()   *)
(* expects the start.  AnswerBeforeEnd says that neither is reached.       *)
(***************************************************************************)
EXTENDS Integers, Sequences

CONSTANTS
    Outs,           \* the command's output pipes: "1" is stdout, "2" is stderr
    Inputs,         \* the lengths stdin may have, in chunks of 32 KiB
    Outputs,        \* bound: writes of the command to each output pipe
    HasTimeout,     \* whether the caller gave a timeout
    Heirs,          \* "alive": a descendant of the command keeps its output pipes open; "none"
    DownRoom,       \* frames the guest's window and socket buffer hold
    UpRoom,         \* pieces the host's window holds
    PipeRoom,       \* chunks a pipe holds
    GRACE           \* rounds of the pump after the command's exit: 20

ASSUME AgentAssumption ==
    /\ Outs \subseteq {"1", "2"} /\ Outs # {}
    /\ Inputs \subseteq Nat /\ Inputs # {} /\ Outputs \in Nat
    /\ HasTimeout \in BOOLEAN /\ Heirs \in SUBSET {"none", "alive"} /\ Heirs # {}
    /\ {DownRoom, UpRoom, PipeRoom, GRACE} \subseteq Nat \ {0}

VARIABLES
    host,       \* run(): where it is, stdin's length, frames left to write, the frame it is in, killed,
                \* the deadline, result
    down, up,   \* the connection, and who has closed its end
    hostClosed, guestClosed,
    agent,      \* serve()'s locals
    child,      \* the command: its state, whether it still reads stdin, and its descendant
    stdin, out, \* the pipes
    written,    \* history: how much the command wrote to each pipe
    got,        \* history: what on_stdout and on_stderr were handed
    fed         \* history: what the command read from its stdin

vars == <<host, down, up, hostClosed, guestClosed, agent, child, stdin, out, written, got, fed>>
guestVars == <<agent, child, stdin, out, written, fed>>

Frame(type, v) == [type |-> type, v |-> v]
\* send_frame's bytes, as the host may receive them.
Pieces(type, status, data) ==
    [i \in 1..3 |-> [part |-> i, type |-> type, status |-> status, data |-> data]]
Numbers(from, to) == [i \in 1..(to - from) |-> from + i]

Init ==
    /\ \E n \in Inputs :
          host = [pc |-> "write", input |-> n,
                  todo |-> <<Frame("A", 0), Frame("S", 0)>>
                           \o [i \in 1..n |-> Frame("I", i)] \o <<Frame("I", 0)>>,
                  part |-> 0, killed |-> FALSE, deadline |-> "none", result |-> "none"]
    /\ down = <<>> /\ up = <<>> /\ hostClosed = FALSE /\ guestClosed = FALSE
    /\ agent = [pc |-> "args", argv |-> FALSE, sock_open |-> TRUE, pending |-> <<>>, stdin_fd |-> TRUE,
                fds_out |-> Outs, exited |-> FALSE, grace |-> 0, status |-> "none",
                ready |-> {}, sending |-> <<>>]
    /\ child = [state |-> "none", reads |-> TRUE, heir |-> "none"]
    /\ stdin = <<>> /\ out = [k \in Outs |-> <<>>]
    /\ written = [k \in Outs |-> 0] /\ got = [k \in Outs |-> <<>>] /\ fed = <<>>

-----------------------------------------------------------------------------
(* agent::run *)

\* run() returns and its caller drops the stream.
Return(result) ==
    /\ host' = [host EXCEPT !.pc = "done", !.result = result]
    /\ hostClosed' = TRUE

\* write_all of the next frame: it waits for room, and fails once the agent has closed.
HostWrite ==
    /\ host.pc = "write" /\ host.todo # <<>> /\ ~guestClosed /\ Len(down) < DownRoom
    /\ down' = Append(down, Head(host.todo))
    /\ host' = [host EXCEPT !.todo = Tail(@)]
    /\ UNCHANGED <<up, hostClosed, guestClosed, guestVars, got>>

\* Mutant: no deadline is set.
DeadlineUnset == host.deadline

\* set_deadline before the first read; the kill has set its own.
Deadline == IF HasTimeout /\ ~host.killed THEN "ahead" ELSE host.deadline

\* Everything is written: only now is the deadline set, and output read.
HostStartReading ==
    /\ host.pc = "write" /\ host.todo = <<>>
    /\ host' = [host EXCEPT !.pc = "read", !.deadline = Deadline]
    /\ UNCHANGED <<down, up, hostClosed, guestClosed, guestVars, got>>

HostWriteFails ==
    /\ host.pc = "write" /\ host.todo # <<>> /\ guestClosed
    /\ Return("error")
    /\ UNCHANGED <<down, up, guestClosed, guestVars, got>>

\* read_exact takes the next piece; a complete frame is acted on.
HostRead ==
    /\ host.pc = "read" /\ up # <<>>
    /\ up' = Tail(up)
    /\ LET p == Head(up)
       IN  IF p.part # host.part + 1
           THEN Return("error") /\ got' = got     \* bytes of an earlier header were lost
           ELSE CASE p.part < 3 ->
                       host' = [host EXCEPT !.part = p.part] /\ UNCHANGED <<hostClosed, got>>
                  [] p.part = 3 /\ p.type \in Outs ->
                       /\ host' = [host EXCEPT !.part = 0]
                       /\ got' = [got EXCEPT ![p.type] = @ \o p.data]
                       /\ UNCHANGED hostClosed
                  [] p.part = 3 /\ p.type = "X" -> Return(p.status) /\ got' = got
                  [] OTHER -> Return("error") /\ got' = got
    /\ UNCHANGED <<down, guestClosed, guestVars>>

\* ReadTimeout: while a header is awaited the first one kills the command; any other is run()'s result.
HostTimeout ==
    /\ host.pc = "read" /\ up = <<>> /\ ~guestClosed /\ host.deadline = "passed"
    /\ IF host.part < 2 /\ ~host.killed
       THEN /\ host' = [host EXCEPT !.pc = "write", !.todo = <<Frame("K", 9)>>, !.part = 0,
                                    !.killed = TRUE, !.deadline = "ahead"]
            /\ UNCHANGED hostClosed
       ELSE Return("timeout")
    /\ UNCHANGED <<down, up, guestClosed, guestVars, got>>

DeadlinePasses ==
    /\ host.deadline = "ahead"
    /\ host' = [host EXCEPT !.deadline = "passed"]
    /\ UNCHANGED <<down, up, hostClosed, guestClosed, guestVars, got>>

-----------------------------------------------------------------------------
(* serve(): the frames before the start *)

hostVars == <<host, hostClosed, got>>

\* goto out: the connection is closed.
AgentOut == agent' = [agent EXCEPT !.pc = "closed"] /\ guestClosed' = TRUE

AgentArgs ==
    /\ agent.pc = "args" /\ down # <<>>
    /\ down' = Tail(down)
    /\ LET f == Head(down)
       IN  \/ /\ f.type # "S"
              /\ agent' = [agent EXCEPT !.argv = @ \/ f.type = "A"]
              /\ UNCHANGED child
           \/ /\ f.type = "S" /\ agent.argv           \* posix_spawnp succeeds
              /\ agent' = [agent EXCEPT !.pc = "poll"]
              /\ \E h \in Heirs : child' = [child EXCEPT !.state = "running", !.heir = h]
           \/ /\ f.type = "S"                         \* no command, no pipe, or no such program
              /\ agent' = [agent EXCEPT !.pc = "bye", !.sending = Pieces("F", "none", <<>>)]
              /\ UNCHANGED child
    /\ UNCHANGED <<hostVars, up, guestClosed, stdin, out, written, fed>>

\* send_frame: the next piece goes out when the host's window has room.
AgentSend ==
    /\ agent.sending # <<>> /\ ~hostClosed /\ Len(up) < UpRoom
    /\ up' = Append(up, Head(agent.sending))
    /\ agent' = [agent EXCEPT !.sending = Tail(@)]
    /\ UNCHANGED <<hostVars, down, guestClosed, child, stdin, out, written, fed>>

\* The host is gone: the write fails and, in the pump, the socket is not looked at again.
AgentSendFails ==
    /\ agent.sending # <<>> /\ hostClosed
    /\ agent' = [agent EXCEPT !.sending = <<>>, !.sock_open = FALSE]
    /\ UNCHANGED <<hostVars, down, up, guestClosed, child, stdin, out, written, fed>>

-----------------------------------------------------------------------------
(* serve(): the pump *)

\* Every holder of the pipe's writing end is gone.
Ended == child.state # "running" /\ child.heir # "alive"

\* Mutant: the socket is read while stdin is pending.
ReadyAlways ==
    (IF agent.sock_open /\ (down # <<>> \/ hostClosed) THEN {"sock"} ELSE {})
    \union {k \in agent.fds_out : out[k] # <<>> \/ Ended}
    \union (IF agent.pending # <<>> /\ agent.stdin_fd /\ (Len(stdin) < PipeRoom \/ ~child.reads)
            THEN {"in"} ELSE {})

\* What poll finds ready.
Ready ==
    (IF agent.sock_open /\ agent.pending = <<>> /\ (down # <<>> \/ hostClosed) THEN {"sock"} ELSE {})
    \union {k \in agent.fds_out : out[k] # <<>> \/ Ended}
    \union (IF agent.pending # <<>> /\ agent.stdin_fd /\ (Len(stdin) < PipeRoom \/ ~child.reads)
            THEN {"in"} ELSE {})

\* Mutant: the pump ends with the command.
DrainedAtExit == agent.exited

\* The pump is done: both pipes are at their end and the command has been waited for.
Drained == agent.fds_out = {} /\ agent.exited

AgentPoll ==
    /\ agent.pc = "poll" /\ agent.sending = <<>>
    /\ agent' = IF Drained THEN [agent EXCEPT !.pc = "exit"]
                ELSE [agent EXCEPT !.pc = "wait", !.ready = Ready]
    /\ UNCHANGED <<hostVars, down, up, guestClosed, child, stdin, out, written, fed>>

\* ++grace > 20, and what waitpid says of a command that has ended.
GraceOver == agent.grace >= GRACE
WaitStatus == child.state

\* waitpid(WNOHANG), or one more round of the grace period.
AgentWait ==
    /\ agent.pc = "wait"
    /\ agent' = CASE ~agent.exited /\ child.state # "running" ->
                       [agent EXCEPT !.pc = "out", !.exited = TRUE, !.status = WaitStatus]
                  [] ~agent.exited /\ child.state = "running" -> [agent EXCEPT !.pc = "out"]
                  [] agent.exited /\ GraceOver -> [agent EXCEPT !.pc = "exit"]
                  [] OTHER -> [agent EXCEPT !.pc = "out", !.grace = @ + 1]
    /\ UNCHANGED <<hostVars, down, up, guestClosed, child, stdin, out, written, fed>>

\* Read what a pipe holds and send it, or close the pipe at its end.
AgentReadOut(k) ==
    /\ agent.pc = "out" /\ agent.sending = <<>> /\ k \in agent.ready
    /\ k = "1" \/ "1" \notin agent.ready
    /\ agent' = [agent EXCEPT
                    !.ready = @ \ {k},
                    !.sending = IF out[k] = <<>> THEN <<>> ELSE Pieces(k, "none", out[k]),
                    !.fds_out = IF out[k] = <<>> THEN @ \ {k} ELSE @]
    /\ out' = [out EXCEPT ![k] = <<>>]
    /\ UNCHANGED <<hostVars, down, up, guestClosed, child, stdin, written, fed>>

\* Feed the command's stdin; the rest is dropped when it does not read any more.
AgentFeed ==
    /\ agent.pc = "out" /\ agent.sending = <<>> /\ agent.ready \intersect Outs = {}
    /\ LET feeds == "in" \in agent.ready
           room == Len(stdin) < PipeRoom
       IN  /\ stdin' = IF feeds /\ room /\ child.reads THEN stdin \o agent.pending ELSE stdin
           /\ agent' = [agent EXCEPT
                          !.pending = IF feeds /\ (room \/ ~child.reads) THEN <<>> ELSE @,
                          !.pc = IF "sock" \in agent.ready THEN "sock" ELSE "poll"]
    /\ UNCHANGED <<hostVars, down, up, guestClosed, child, out, written, fed>>

\* kill(-pid) and kill(pid).
Killed == [state |-> IF child.state = "running" THEN "killed" ELSE child.state, reads |-> FALSE,
           heir |-> IF child.heir = "alive" THEN "dead" ELSE child.heir]

\* A frame from the host: stdin, its end, or a signal.
AgentFrame ==
    /\ agent.pc = "sock" /\ down # <<>>
    /\ down' = Tail(down)
    /\ LET f == Head(down)
       IN  /\ agent' = [agent EXCEPT
                          !.pc = "poll",
                          !.pending = IF f.type = "I" /\ f.v # 0 /\ agent.stdin_fd THEN <<f.v>> ELSE @,
                          !.stdin_fd = @ /\ ~(f.type = "I" /\ f.v = 0)]
           /\ child' = IF f.type = "K" THEN Killed ELSE child
    /\ UNCHANGED <<hostVars, up, guestClosed, stdin, out, written, fed>>

\* "host gone: stop the command".
AgentHostGone ==
    /\ agent.pc = "sock" /\ down = <<>>
    /\ agent' = [agent EXCEPT !.pc = "poll", !.sock_open = FALSE]
    /\ child' = Killed
    /\ UNCHANGED <<hostVars, down, up, guestClosed, stdin, out, written, fed>>

\* The exit status goes out after everything read from the pipes.
AgentExit ==
    /\ agent.pc = "exit"
    /\ agent' = [agent EXCEPT !.pc = "bye", !.stdin_fd = FALSE, !.fds_out = {},
                              !.sending = Pieces("X", agent.status, <<>>)]
    /\ UNCHANGED <<hostVars, down, up, guestClosed, child, stdin, out, written, fed>>

\* Mutant: the connection is closed with the last frame still to be sent.
AgentByeEarly ==
    /\ agent.pc = "bye"
    /\ AgentOut
    /\ UNCHANGED <<hostVars, down, up, child, stdin, out, written, fed>>

AgentBye ==
    /\ agent.pc = "bye" /\ agent.sending = <<>>
    /\ AgentOut
    /\ UNCHANGED <<hostVars, down, up, child, stdin, out, written, fed>>

-----------------------------------------------------------------------------
(* The command (external) *)

ChildRead ==
    /\ child.state = "running" /\ child.reads /\ stdin # <<>>
    /\ fed' = Append(fed, Head(stdin)) /\ stdin' = Tail(stdin)
    /\ UNCHANGED <<hostVars, down, up, guestClosed, agent, child, out, written>>

ChildWrite(k) ==
    /\ child.state = "running" \/ child.heir = "alive"
    /\ k \in agent.fds_out /\ written[k] < Outputs /\ Len(out[k]) < PipeRoom
    /\ written' = [written EXCEPT ![k] = @ + 1]
    /\ out' = [out EXCEPT ![k] = Append(@, written[k] + 1)]
    /\ UNCHANGED <<hostVars, down, up, guestClosed, agent, child, stdin, fed>>

ChildClosesStdin ==
    /\ child.state = "running" /\ child.reads
    /\ child' = [child EXCEPT !.reads = FALSE]
    /\ UNCHANGED <<hostVars, down, up, guestClosed, agent, stdin, out, written, fed>>

ChildExits ==
    /\ child.state = "running"
    /\ child' = [child EXCEPT !.state = "exited", !.reads = FALSE]
    /\ UNCHANGED <<hostVars, down, up, guestClosed, agent, stdin, out, written, fed>>

-----------------------------------------------------------------------------
Host == HostWrite \/ HostStartReading \/ HostWriteFails \/ HostRead \/ HostTimeout

Agent ==
    \/ AgentArgs \/ AgentSend \/ AgentSendFails
    \/ AgentPoll \/ AgentWait \/ (\E k \in Outs : AgentReadOut(k))
    \/ AgentFeed \/ AgentFrame \/ AgentHostGone \/ AgentExit \/ AgentBye

Copies == ChildRead \/ \E k \in Outs : ChildWrite(k)

Next == Host \/ DeadlinePasses \/ Agent \/ Copies \/ ChildClosesStdin \/ ChildExits

Spec == Init /\ [][Next]_vars

\* The host's thread and the agent's thread are scheduled, and time passes.  The command may hang.
FairSpec == Spec /\ WF_vars(Host) /\ WF_vars(DeadlinePasses) /\ WF_vars(Agent)

-----------------------------------------------------------------------------
(* Properties *)

Frames == [type : {"A", "S", "I", "K"}, v : Nat]
PieceSet == [part : 1..3, type : {"1", "2", "X", "F"}, status : {"none", "exited", "killed"}, data : Seq(Nat)]

\* Every variable keeps its type, and no queue or pipe is filled past its room.
TypeOK ==
    /\ host \in [pc : {"write", "read", "done"}, input : Inputs, todo : Seq(Frames), part : 0..2, killed : BOOLEAN,
                 deadline : {"none", "ahead", "passed"},
                 result : {"none", "error", "timeout", "exited", "killed"}]
    /\ down \in Seq(Frames) /\ Len(down) <= DownRoom
    /\ up \in Seq(PieceSet) /\ Len(up) <= UpRoom
    /\ hostClosed \in BOOLEAN /\ guestClosed \in BOOLEAN
    /\ agent \in [pc : {"args", "poll", "wait", "out", "sock", "exit", "bye", "closed"}, argv : BOOLEAN,
                  sock_open : BOOLEAN, pending : Seq(1..host.input), stdin_fd : BOOLEAN, fds_out : SUBSET Outs,
                  exited : BOOLEAN, grace : 0..GRACE, status : {"none", "exited", "killed"},
                  ready : SUBSET (Outs \union {"sock", "in"}), sending : Seq(PieceSet)]
    /\ child \in [state : {"none", "running", "exited", "killed"}, reads : BOOLEAN,
                  heir : {"none", "alive", "dead"}]
    /\ stdin \in Seq(1..host.input) /\ Len(stdin) <= PipeRoom
    /\ \A k \in Outs : out[k] \in Seq(Nat) /\ Len(out[k]) <= PipeRoom
    /\ written \in [Outs -> 0..Outputs] /\ got \in [Outs -> Seq(Nat)] /\ fed \in Seq(1..host.input)

\* Neither end finds the connection closed where it expects a frame: serve() closes only behind the
\* status or the error that ends run(), and run() returns only after it has written the start.
AnswerBeforeEnd ==
    /\ host.pc = "read" /\ guestClosed => up # <<>>
    /\ agent.pc = "args" /\ hostClosed => down # <<>>

\* run() reports how the command ended only when it has ended that way.  The callbacks get each
\* pipe's output in order and without gaps, and all of it by then, whenever the command wrote it (also
\* just before it exited or was killed), unless a descendant keeps the pipes open past the grace period.
AnswerTruthful ==
    /\ TypeOK
    /\ host.result \in {"exited", "killed"} => child.state = host.result
    /\ \A k \in Outs :
        /\ got[k] = Numbers(0, Len(got[k]))
        /\ host.result \in {"exited", "killed"} /\ child.heir = "none" => Len(got[k]) = written[k]

\* The command reads its stdin in order and without gaps, however slowly it reads.
StdinInOrder == fed = Numbers(0, Len(fed))

\* With a timeout, run() returns whatever the command does, when all it writes before it sets the
\* deadline and reads fits into the connection.  "host gone: stop the command": the command ends once
\* run() has sent it the kill or has gone away, if it has written nothing (no frame is then being sent
\* to a host that is gone) and its stdin is no more than its pipe holds (the agent reads no frame while
\* a chunk waits for the pipe).
RunEnds ==
    /\ (host.input + 3 <= DownRoom) ~> (host.pc = "done")
    /\ ((host.killed \/ host.pc = "done") /\ host.input <= PipeRoom) ~>
          (child.state # "running" \/ \E k \in Outs : written[k] > 0)
=============================================================================
