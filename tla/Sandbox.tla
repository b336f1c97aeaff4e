------------------------------- MODULE Sandbox ------------------------------
(***************************************************************************)
(* A sandbox from the app's first call to the end of the process: the      *)
(* client library (dart/collabo_core/lib/src/sandbox.dart), the server of  *)
(* the control protocol (engine/src/protocol.rs: serve, dispatch, start    *)
(* and the methods), which answers every request on a thread of its own,   *)
(* and the machine (MachineLoop).  The two pipes keep their order.         *)
(*                                                                         *)
(* The library makes a sandbox with one `start` and hands it to the app    *)
(* when that has been answered; a question of the guest is answered as     *)
(* soon as it is shown.  The library and the app are external: they are    *)
(* not engine code, and the app may call what it likes.                    *)
(***************************************************************************)
EXTENDS MachineLoop

CONSTANT
    Calls       \* bound: requests the app makes (a load says after how many, and which, after start)

ASSUME SandboxAssumption ==
    Calls \in Nat /\ \A l \in Loads : l.calls \in 1..Calls /\ l.methods \subseteq {"exec", "write", "reply", "stop"}

VARIABLES
    app,        \* the library: calls made, pending, answers, whether the app is there, done
    stdin,      \* requests in the pipe
    reader,     \* serve: "read", "join", "ending", "sleep", "returned"
    worker,     \* the thread of each request
    running,    \* the server's `running` is set
    proc,       \* the process is "up" or "gone"
    question    \* a question of the guest: "none", "shown", "taken", "answered" or "refused"

serverVars == <<app, stdin, reader, worker, running, proc, question>>
vars == <<machineVars, serverVars>>

Ids == 1..Calls
Reply(id, result) == [event |-> "", id |-> id, arg |-> result]

Init ==
    /\ MachineInit
    /\ app = [here |-> TRUE, made |-> 0, pending |-> {}, method |-> [i \in Ids |-> "none"],
              result |-> [i \in Ids |-> "none"], after |-> [i \in Ids |-> {}], done |-> "none"]
    /\ stdin = <<>> /\ reader = "read" /\ worker = [i \in Ids |-> [pc |-> "none", result |-> "ok"]]
    /\ running = FALSE /\ proc = "up" /\ question = "none"

\* The process ends, and with it its threads and its machine; the pipe keeps what was written.
Gone ==
    /\ proc = "up" /\ proc' = "gone"
    /\ machine' = "off" /\ reason' = "none" /\ requests' = <<>> /\ typed' = <<>>
    /\ device' = [d \in Devices |-> Idle] /\ waking' = 0 /\ cpu' = "none" /\ printed' = 0
    /\ stdin' = <<>> /\ reader' = "returned" /\ worker' = [i \in Ids |-> [pc |-> "none", result |-> "ok"]]
    /\ running' = FALSE
    /\ UNCHANGED <<load, stdout, app, question>>

-----------------------------------------------------------------------------
(* The library *)

\* _callWithId; `after`, history: what had been answered when the call was made.
Calling(method) ==
    LET id == app.made + 1
    IN  /\ app.here /\ app.done = "none" /\ id <= load.calls
        /\ app' = [app EXCEPT !.made = id, !.pending = @ \union {id}, !.method[id] = method,
                              !.after[id] = {i \in Ids : app.result[i] = "ok"}]
        /\ stdin' = IF proc = "up" THEN Append(stdin, id) ELSE stdin

\* start is the first call; the app has the sandbox once it is answered.
AppCalls(method) ==
    /\ \/ method = "start" /\ app.made = 0
       \/ method # "reply" /\ app.result[1] = "ok"
    /\ Calling(method)
    /\ UNCHANGED <<machineVars, reader, worker, running, proc, question>>

\* _answerPermission and _answerHostCall.
AppReplies ==
    /\ question = "shown" /\ question' = "taken"
    /\ "reply" \in load.methods /\ Calling("reply")
    /\ UNCHANGED <<machineVars, reader, worker, running, proc>>

\* Mutant: the calls that wait are forgotten and never completed.
FinishOnly(this, why) == IF this.done # "none" THEN this ELSE [this EXCEPT !.done = why]

\* _finish: once; the calls that wait end with an error.
Finish(this, why) ==
    IF this.done # "none" THEN this
    ELSE [this EXCEPT !.done = why, !.pending = {},
                      !.result = [i \in Ids |-> IF i \in this.pending THEN "error" ELSE @[i]]]

\* _onLine.
AppLine ==
    /\ app.here /\ stdout # <<>> /\ stdout' = Tail(stdout)
    /\ LET line == Head(stdout)
       IN  /\ app' = CASE line.event = "" ->
                             IF line.id \in app.pending
                             THEN [app EXCEPT !.pending = @ \ {line.id}, !.result[line.id] = line.arg]
                             ELSE app
                       [] line.event = "exit" -> Finish(app, line.arg)
                       [] OTHER -> app
           /\ question' = IF line.event = "permission" THEN "shown" ELSE question
    /\ UNCHANGED <<load, machine, reason, requests, typed, device, waking, cpu, printed, stdin, reader, worker, running, proc>>

\* _onRuntimeGone: exitCode completes, whether or not the lines before it have been read.
AppSeesEnd ==
    /\ app.here /\ proc = "gone" /\ app.done = "none"
    /\ app' = Finish(app, "runtime-exited")
    /\ UNCHANGED <<machineVars, stdin, reader, worker, running, proc, question>>

\* process.kill: start failed or took too long, or stop's done did.
AppKills ==
    /\ app.here /\ Gone
    /\ \/ app.made >= 1 /\ app.result[1] # "ok"
       \/ \E i \in Ids : app.method[i] = "stop" /\ app.done = "none"

\* The app exits: its ends of the pipes close, and the library goes with it.
AppLeaves ==
    /\ app.here /\ stdout' = <<>>
    /\ app' = [app EXCEPT !.here = FALSE, !.pending = {}, !.result = [i \in Ids |-> "none"], !.done = "none",
                          !.after = [i \in Ids |-> {}]]
    /\ UNCHANGED <<load, machine, reason, requests, typed, device, waking, cpu, printed, stdin, reader, worker, running, proc, question>>

-----------------------------------------------------------------------------
(* serve *)

\* A line is read, and a thread answers it; after `stop` the thread is joined.
ServeLine ==
    /\ proc = "up" /\ reader = "read" /\ stdin # <<>> /\ stdin' = Tail(stdin)
    /\ worker' = [worker EXCEPT ![Head(stdin)].pc = app.method[Head(stdin)]]
    /\ reader' = IF app.method[Head(stdin)] = "stop" THEN "join" ELSE "read"
    /\ UNCHANGED <<machineVars, app, running, proc, question>>

ServeJoin ==
    /\ proc = "up" /\ reader = "join" /\ reader' = "ending"
    /\ \E i \in Ids : app.method[i] = "stop" /\ worker[i].pc = "done"
    /\ UNCHANGED <<machineVars, app, stdin, worker, running, proc, question>>

\* Mutant: the end of stdin is waited out while a guest runs.
ServeEofIdle ==
    /\ proc = "up" /\ reader = "read" /\ stdin = <<>> /\ ~app.here /\ ~running
    /\ reader' = "ending"
    /\ UNCHANGED <<machineVars, app, stdin, worker, running, proc, question>>

\* stdin has ended.
ServeEof ==
    /\ proc = "up" /\ reader = "read" /\ stdin = <<>> /\ ~app.here
    /\ reader' = "ending"
    /\ UNCHANGED <<machineVars, app, stdin, worker, running, proc, question>>

\* The machine is stopped, if start has got as far as `running`.
ServeStops ==
    /\ proc = "up" /\ reader = "ending" /\ reader' = "sleep"
    /\ IF running THEN Stop ELSE UNCHANGED requests
    /\ UNCHANGED <<load, machine, reason, typed, device, waking, cpu, printed, stdout>>
    /\ UNCHANGED <<app, stdin, worker, running, proc, question>>

\* serve returns after its 50 ms, and the process ends with main.
ServeReturns == reader = "sleep" /\ Gone

\* The machine's thread ends the process after the exit event.
ProcessExits == machine = "told" /\ Gone

-----------------------------------------------------------------------------
(* The thread of a request *)

At(i, pc) == proc = "up" /\ worker[i].pc = pc
Go(i, pc) == worker' = [worker EXCEPT ![i].pc = pc]
Fail(i) == worker' = [worker EXCEPT ![i] = [pc |-> "respond", result |-> "error"]]

\* already-started and the checks of the configuration.
StartChecks(i) ==
    /\ At(i, "start")
    /\ IF running THEN Fail(i) ELSE Fail(i) \/ Go(i, "boot")
    /\ UNCHANGED <<machineVars, app, stdin, reader, running, proc, question>>

\* Services, devices and images; any of them may fail, and then nothing has been booted.
StartFails(i) ==
    /\ At(i, "boot") /\ Fail(i)
    /\ UNCHANGED <<machineVars, app, stdin, reader, running, proc, question>>

StartBoots(i) ==
    /\ At(i, "boot") /\ Boot /\ Go(i, "agent")
    /\ UNCHANGED <<load, reason, requests, typed, device, waking, cpu, printed, stdout>>
    /\ UNCHANGED <<app, stdin, reader, running, proc, question>>

\* agent::connect: the agent answers, or the 60 s are over.
StartAgent(i) ==
    /\ At(i, "agent")
    /\ (machine = "up" /\ Go(i, "publish")) \/ Fail(i)
    /\ UNCHANGED <<machineVars, app, stdin, reader, running, proc, question>>

StartPublishes(i) ==
    /\ At(i, "publish") /\ running' = TRUE /\ Go(i, "ready")
    /\ UNCHANGED <<machineVars, app, stdin, reader, proc, question>>

StartReady(i) ==
    /\ At(i, "ready") /\ stdout' = Append(stdout, Event("ready", "")) /\ Go(i, "respond")
    /\ UNCHANGED <<load, machine, reason, requests, typed, device, waking, cpu, printed>>
    /\ UNCHANGED <<app, stdin, reader, running, proc, question>>

\* exec, readFile and writeFile: AgentExec has what happens in between.
Exec(i) ==
    /\ At(i, "exec")
    /\ Fail(i) \/ (running /\ Go(i, "respond"))
    /\ UNCHANGED <<machineVars, app, stdin, reader, running, proc, question>>

\* Mutant: the write is answered first and typed by a thread of its own.
ConsoleWriteLater(i) ==
    /\ \/ At(i, "write") /\ Go(i, "respond") /\ UNCHANGED machineVars
       \/ At(i, "done") /\ app.method[i] = "write" /\ Type(i) /\ Go(i, "typed")
    /\ UNCHANGED <<app, stdin, reader, running, proc, question>>

\* console.write.
ConsoleWrite(i) ==
    /\ At(i, "write")
    /\ IF running THEN Type(i) /\ Go(i, "respond") ELSE Fail(i) /\ UNCHANGED machineVars
    /\ UNCHANGED <<app, stdin, reader, running, proc, question>>

\* reply: the question is looked up in the running sandbox.
ReplyMethod(i) ==
    /\ At(i, "reply")
    /\ IF running THEN question' = "answered" /\ Go(i, "respond") ELSE question' = "refused" /\ Fail(i)
    /\ UNCHANGED <<machineVars, app, stdin, reader, running, proc>>

StopMethod(i) ==
    /\ At(i, "stop") /\ Go(i, "respond")
    /\ IF running THEN Stop ELSE UNCHANGED requests
    /\ UNCHANGED <<load, machine, reason, typed, device, waking, cpu, printed, stdout>>
    /\ UNCHANGED <<app, stdin, reader, running, proc, question>>

\* The answer is written.
Answers(i) ==
    /\ At(i, "respond") /\ stdout' = Append(stdout, Reply(i, worker[i].result)) /\ Go(i, "done")
    /\ UNCHANGED <<load, machine, reason, requests, typed, device, waking, cpu, printed>>
    /\ UNCHANGED <<app, stdin, reader, running, proc, question>>

\* A service of the machine asks the app.
GuestAsks ==
    /\ proc = "up" /\ machine = "up" /\ "reply" \in load.methods /\ question = "none" /\ question' = "asked"
    /\ stdout' = Append(stdout, Event("permission", ""))
    /\ UNCHANGED <<load, machine, reason, requests, typed, device, waking, cpu, printed>>
    /\ UNCHANGED <<app, stdin, reader, worker, running, proc>>

-----------------------------------------------------------------------------

Start(i) ==
    StartChecks(i) \/ StartFails(i) \/ StartBoots(i) \/ StartAgent(i) \/ StartPublishes(i) \/ StartReady(i)
Work(i) == Start(i) \/ Exec(i) \/ ConsoleWrite(i) \/ ReplyMethod(i) \/ StopMethod(i) \/ Answers(i)
Serve == ServeLine \/ ServeJoin \/ ServeEof \/ ServeStops \/ ServeReturns
Machine == proc = "up" /\ MachineStep /\ UNCHANGED serverVars

Next ==
    \/ \E method \in load.methods \union {"start"} : AppCalls(method)
    \/ AppReplies \/ AppLine \/ AppSeesEnd \/ AppKills \/ AppLeaves
    \/ Serve \/ ProcessExits \/ GuestAsks \/ Machine
    \/ \E i \in Ids : Work(i)

Spec == Init /\ [][Next]_vars

\* The engine's threads and the client's event loop: what they do is finite in a load, so it is enough
\* that one of them runs whenever one can.  The guest need not do anything, the app need not call,
\* leave or kill.
Runs ==
    \/ AppLine \/ AppSeesEnd \/ Serve \/ ProcessExits
    \/ proc = "up" /\ (Main \/ Tell) /\ UNCHANGED serverVars
    \/ \E i \in Ids : Work(i)

FairSpec == Spec /\ WF_vars(Runs)

-----------------------------------------------------------------------------
(* Properties *)

\* The state of the library, the server and the machine has its type.
TypeOK ==
    /\ machine \in {"off", "up", "ended", "told"} /\ reason \in Reasons \union {"none"}
    /\ waking \in 0..load.packets /\ cpu \in {"none", "asked", "runs", "gone"} /\ printed \in 0..load.prints
    /\ \A d \in Devices : device[d].offered \in 0..device[d].offers /\ device[d].offers \in 0..load.offers[d]
    /\ app.pending \subseteq 1..app.made /\ app.made \in 0..load.calls
    /\ app.done \in Reasons \union {"none", "runtime-exited"}
    /\ reader \in {"read", "join", "ending", "sleep", "returned"}
    /\ running \in BOOLEAN /\ proc \in {"up", "gone"}
    /\ question \in {"none", "asked", "shown", "taken", "answered", "refused"}

\* The writes that had been answered when call y was made.
Prior(y) == {x \in Ids : y \in Ids /\ x \in app.after[y] /\ app.method[x] = "write"}

Elements(s) == {s[i] : i \in 1..Len(s)}

\* What s holds stands behind its prior writes, which are in s or among what is ahead of s.
InOrder(ahead, s) ==
    \A j \in 1..Len(s) : \A x \in Prior(s[j]) : x \in ahead \/ \E i \in 1..(j - 1) : s[i] = x

\* The input of each request in the channel (0: the request is another).
Inputs == [i \in 1..Len(requests) |-> requests[i].input]

\* What the app has typed with a write that was answered stays ahead of all it types after that:
\* console.write hands the bytes over before it answers, each on a thread of its own, and nothing on
\* the way to the guest's buffers (console_input's channel, the machine's, write_input's queue) drops
\* or reorders them.
TypedInOrder ==
    machine = "up" =>
        LET got == device["console"].got
            queued == device["console"].queued
        IN  /\ InOrder({}, got)
            /\ InOrder(Elements(got), queued)
            /\ InOrder(Elements(got) \union Elements(queued), Inputs)
            /\ InOrder(Elements(got) \union Elements(queued) \union Elements(Inputs), typed)

\* The end is told last and once: when the app has learnt from the exit event how the sandbox ended
\* and its streams are closed, no more console output arrives, because only the machine's own thread
\* writes either.
ExitIsLast ==
    TypeOK /\ (app.done \in Reasons => \A i \in 1..Len(stdout) : stdout[i].event \notin {"console", "exit"})

\* Every call of the app ends, with its answer or with the sandbox (each request has its thread, stop
\* ends the process, and _finish completes what waits).
CallsEnd == app.pending # {} ~> app.pending = {}

\* "so no sandbox outlives its owner": the process ends once the app has gone, whatever its requests
\* and its machine are doing.
NoOrphan == ~app.here ~> proc = "gone"
=============================================================================
