----------------------------- MODULE Permissions ----------------------------
(***************************************************************************)
(* Questions to the app: the bridge of engine/src/hostfn.rs (ask_app,      *)
(* reply, close), the three places that remember an answer (the network    *)
(* asker of protocol.rs, permitted() of sshagent.rs, the open of           *)
(* serial.rs) and policy.update, which changes the policy and forgets the  *)
(* answers.  Every request of the guest, every reply and every update of   *)
(* the app runs on a thread of its own.                                    *)
(*                                                                         *)
(* One instance is about one Kind of request, because each kind has its    *)
(* own policy and answers.  What the policy says of a target is its mode:  *)
(* "off", "ask" or "allow"; `rest` is another setting of the same policy   *)
(* (the ssh-agent's socket, the serial ports' list).                       *)
(***************************************************************************)
EXTENDS Integers, FiniteSets

CONSTANTS
    Kind,           \* "network", "ssh-agent", "serial", "exec" or "call"
    Requests,       \* the guest's requests, each on a thread of its own
    Targets,        \* host:port, key fingerprints, device paths
    Updates,        \* the app's policy.update requests
    Modes,          \* the modes the policy may have
    NoRequest

ASSUME PermissionsAssumption ==
    /\ Kind \in {"network", "ssh-agent", "serial", "exec", "call"}
    /\ IsFiniteSet(Requests) /\ IsFiniteSet(Updates) /\ NoRequest \notin Requests
    /\ Modes \subseteq {"off", "ask", "allow"} /\ "ask" \in Modes

VARIABLES
    policy,     \* the policy behind its RwLock
    answers,    \* what the app said, and history: after how many updates it was asked and stored
    next_id, waiting,
    closed,     \* close() has run
    req,        \* the requests' threads
    chan,       \* what each request's channel holds
    reply,      \* the app's answer to each request's question, and the thread that delivers it
    upd,        \* the updates' threads
    updated     \* history: how many updates have returned

vars == <<policy, answers, next_id, waiting, closed, req, chan, reply, upd, updated>>

Ids == 1..Cardinality(Requests)
Unknown == [known |-> FALSE, allow |-> FALSE, asked |-> 0, stored |-> 0]
Empty == [full |-> FALSE, allow |-> FALSE, remember |-> FALSE]

Remembers == Kind \in {"network", "ssh-agent", "serial"}

\* The ssh-agent's and the serial ports' policies are copied, changed and written back; the others
\* change under their lock.
Copied == Kind \in {"ssh-agent", "serial"}

Init ==
    /\ policy \in {[mode |-> m, rest |-> "first"] : m \in Modes}
    /\ answers = [t \in Targets |-> Unknown]
    /\ next_id = 1 /\ waiting = [i \in Ids |-> NoRequest] /\ closed = FALSE
    /\ req \in [Requests -> {[pc |-> "idle", target |-> t, began |-> 0, id |-> 0, asked |-> 0, stored |-> 0,
                              allow |-> FALSE, remember |-> FALSE, by |-> "nobody"] : t \in Targets}]
    /\ chan = [r \in Requests |-> Empty]
    /\ reply = [r \in Requests |-> [pc |-> "none", to |-> NoRequest, allow |-> FALSE, remember |-> FALSE]]
    /\ upd = [u \in Updates |-> [pc |-> "idle", fields |-> {}, mode |-> "ask",
                                base |-> [mode |-> "ask", rest |-> "first"]]]
    /\ updated = 0

-----------------------------------------------------------------------------
(* A request of the guest *)

Done(r, allow) == [req[r] EXCEPT !.pc = "done", !.allow = allow]

\* The request takes its copy of the policy, which decides unless it says "ask".
Begin(r) ==
    /\ req[r].pc = "idle"
    /\ LET this == [req[r] EXCEPT !.began = updated]
       IN  req' = [req EXCEPT ![r] =
              CASE policy.mode = "off"   -> [this EXCEPT !.pc = "done"]
                [] policy.mode = "allow" -> [this EXCEPT !.pc = "done", !.allow = TRUE, !.by = "policy"]
                [] OTHER -> [this EXCEPT !.pc = IF Remembers THEN "lookup" ELSE "register"]]
    /\ UNCHANGED <<policy, answers, next_id, waiting, closed, chan, reply, upd, updated>>

\* An answer the app gave before, under the lock of the answers.
Lookup(r) ==
    /\ req[r].pc = "lookup"
    /\ LET known == answers[req[r].target]
       IN  req' = [req EXCEPT ![r] = IF known.known
                                     THEN [Done(r, known.allow) EXCEPT !.by = "memory", !.asked = known.asked,
                                                                      !.stored = known.stored]
                                     ELSE [@ EXCEPT !.pc = "register"]]
    /\ UNCHANGED <<policy, answers, next_id, waiting, closed, chan, reply, upd, updated>>

\* fetch_add(1).
NextId == next_id + 1

\* Mutant: the sender is never stored.
RegisterUnseen(r) ==
    /\ req[r].pc = "register"
    /\ next_id' = NextId
    /\ req' = [req EXCEPT ![r].pc = "ask", ![r].id = next_id]
    /\ UNCHANGED <<policy, answers, waiting, closed, chan, reply, upd, updated>>

\* ask_app: the sender goes into `waiting` before the app hears of the question.
Register(r) ==
    /\ req[r].pc = "register"
    /\ next_id' = NextId
    /\ waiting' = [waiting EXCEPT ![next_id] = r]
    /\ req' = [req EXCEPT ![r].pc = "ask", ![r].id = next_id]
    /\ UNCHANGED <<policy, answers, closed, chan, reply, upd, updated>>

\* The event is written to the app.
Ask(r) ==
    /\ req[r].pc = "ask"
    /\ req' = [req EXCEPT ![r].pc = "wait", ![r].asked = updated]
    /\ reply' = [reply EXCEPT ![r].pc = "asked"]
    /\ UNCHANGED <<policy, answers, next_id, waiting, closed, chan, upd, updated>>

\* recv_timeout returns the reply.
Receive(r) ==
    /\ req[r].pc = "wait" /\ chan[r].full
    /\ req' = [req EXCEPT ![r].pc = IF Remembers THEN "remember" ELSE "done",
                          ![r].allow = chan[r].allow, ![r].remember = chan[r].remember, ![r].by = "app"]
    /\ chan' = [chan EXCEPT ![r] = Empty]
    /\ UNCHANGED <<policy, answers, next_id, waiting, closed, reply, upd, updated>>

\* recv_timeout gives up: the time has passed, or every sender is gone.
GiveUp(r) ==
    /\ req[r].pc = "wait" /\ ~chan[r].full
    /\ req' = [req EXCEPT ![r].pc = "giveup"]
    /\ UNCHANGED <<policy, answers, next_id, waiting, closed, chan, reply, upd, updated>>

\* Mutant: the sender stays in the map.
LeftWaiting(r) == waiting

\* What is left in the map when a request gives up.
Withdrawn(r) == [waiting EXCEPT ![req[r].id] = NoRequest]

\* The sender is taken back, and the receiver dropped.
Withdraw(r) ==
    /\ req[r].pc = "giveup"
    /\ waiting' = Withdrawn(r)
    /\ req' = [req EXCEPT ![r] = Done(r, FALSE)]
    /\ chan' = [chan EXCEPT ![r] = Empty]
    /\ UNCHANGED <<policy, answers, next_id, closed, reply, upd, updated>>

\* Mutant: every answer is kept.
KeepsAlways(r) == TRUE

\* Whether the app said that its answer holds for the session.
Keeps(r) == req[r].remember

\* Keep the answer for the session when the app said so.
Remember(r) ==
    /\ req[r].pc = "remember"
    /\ answers' = IF Keeps(r)
                  THEN [answers EXCEPT ![req[r].target] =
                           [known |-> TRUE, allow |-> req[r].allow, asked |-> req[r].asked,
                            stored |-> updated]]
                  ELSE answers
    /\ req' = [req EXCEPT ![r].pc = "done"]
    /\ UNCHANGED <<policy, next_id, waiting, closed, chan, reply, upd, updated>>

-----------------------------------------------------------------------------
(* The app *)

\* The app answers a question it has seen: the `reply` request's thread starts.
AppAnswers(r) ==
    /\ reply[r].pc = "asked"
    /\ \E allow, remember \in BOOLEAN :
          reply' = [reply EXCEPT ![r].pc = "take", ![r].allow = allow, ![r].remember = remember]
    /\ UNCHANGED <<policy, answers, next_id, waiting, closed, req, chan, upd, updated>>

\* The map after the sender for this id has been taken out of it.
TakeSender(r) == [waiting EXCEPT ![req[r].id] = NoRequest]

\* reply() takes the sender out of the map.
ReplyTake(r) ==
    /\ reply[r].pc = "take"
    /\ waiting' = TakeSender(r)
    /\ LET to == waiting[req[r].id]
       IN  reply' = [reply EXCEPT ![r].to = to, ![r].pc = IF to = NoRequest THEN "unknown" ELSE "send"]
    /\ UNCHANGED <<policy, answers, next_id, closed, req, chan, upd, updated>>

\* It sends outside the lock: this fails only when the receiver has been dropped.
ReplySend(r) ==
    /\ reply[r].pc = "send"
    /\ LET to == reply[r].to
           alive == req[to].pc \in {"ask", "wait", "giveup"}
       IN  /\ chan' = IF alive THEN [chan EXCEPT ![to] = [full |-> TRUE, allow |-> reply[r].allow,
                                                          remember |-> reply[r].remember]]
                      ELSE chan
           /\ reply' = [reply EXCEPT ![r].pc = IF alive THEN "ok" ELSE "unknown"]
    /\ UNCHANGED <<policy, answers, next_id, waiting, closed, req, upd, updated>>

Merged(base, u) ==
    [mode |-> IF "mode" \in upd[u].fields THEN upd[u].mode ELSE base.mode,
     rest |-> IF "rest" \in upd[u].fields THEN u ELSE base.rest]

\* policy.update arrives, with what it mentions; a copied policy is read now.
Update(u) ==
    /\ upd[u].pc = "idle"
    /\ \E fields \in SUBSET {"mode", "rest"} \ {{}} :
       \E mode \in IF "mode" \in fields THEN Modes ELSE {"ask"} :
          upd' = [upd EXCEPT ![u] = [pc |-> "write", fields |-> fields, mode |-> mode,
                                     base |-> IF Copied THEN policy ELSE @.base]]
    /\ UNCHANGED <<policy, answers, next_id, waiting, closed, req, chan, reply, updated>>

\* The policy changes.
UpdateWrite(u) ==
    /\ upd[u].pc = "write"
    /\ policy' = Merged(IF Copied THEN upd[u].base ELSE policy, u)
    /\ upd' = [upd EXCEPT ![u].pc = "clear"]
    /\ UNCHANGED <<answers, next_id, waiting, closed, req, chan, reply, updated>>

\* Mutant: the answers stay.
AnswersKept == answers

Forgotten == [t \in Targets |-> Unknown]

\* The answers are cleared under their own lock, and the update returns.
UpdateClear(u) ==
    /\ upd[u].pc = "clear"
    /\ answers' = Forgotten
    /\ updated' = updated + 1
    /\ upd' = [upd EXCEPT ![u].pc = "done"]
    /\ UNCHANGED <<policy, next_id, waiting, closed, req, chan, reply>>

\* The control connection ends: every waiting call fails.
Close ==
    /\ ~closed
    /\ closed' = TRUE
    /\ waiting' = [i \in Ids |-> NoRequest]
    /\ UNCHANGED <<policy, answers, next_id, req, chan, reply, upd, updated>>

-----------------------------------------------------------------------------
Request(r) ==
    \/ Begin(r) \/ Lookup(r) \/ Register(r) \/ Ask(r)
    \/ Receive(r) \/ GiveUp(r) \/ Withdraw(r) \/ Remember(r)

Next ==
    \/ \E r \in Requests : Request(r) \/ AppAnswers(r) \/ ReplyTake(r) \/ ReplySend(r)
    \/ \E u \in Updates : Update(u) \/ UpdateWrite(u) \/ UpdateClear(u)
    \/ Close

Spec == Init /\ [][Next]_vars

-----------------------------------------------------------------------------
(* Properties *)

Threads == Requests \union {NoRequest}

\* Every variable keeps its type, no request takes more than one id, and no update is applied twice.
TypeOK ==
    /\ policy \in [mode : Modes, rest : Updates \union {"first"}]
    /\ answers \in [Targets -> [known : BOOLEAN, allow : BOOLEAN, asked : Nat, stored : Nat]]
    /\ next_id \in 1..(Cardinality(Requests) + 1) /\ waiting \in [Ids -> Threads] /\ closed \in BOOLEAN
    /\ req \in [Requests -> [pc : {"idle", "lookup", "register", "ask", "wait", "giveup", "remember", "done"},
                             target : Targets, began : Nat, id : Nat, asked : Nat, stored : Nat,
                             allow : BOOLEAN, remember : BOOLEAN,
                             by : {"nobody", "policy", "memory", "app"}]]
    /\ chan \in [Requests -> [full : BOOLEAN, allow : BOOLEAN, remember : BOOLEAN]]
    /\ reply \in [Requests -> [pc : {"none", "asked", "take", "send", "ok", "unknown"}, to : Threads,
                               allow : BOOLEAN, remember : BOOLEAN]]
    /\ upd \in [Updates -> [pc : {"idle", "write", "clear", "done"}, fields : SUBSET {"mode", "rest"},
                            mode : Modes, base : [mode : Modes, rest : Updates \union {"first"}]]]
    /\ updated \in 0..Cardinality(Updates)

\* A request is decided by the app's answer to its own question, or by one the app gave for the
\* same target and told the engine to remember: ids never lead a reply to another request.
AnsweredByApp ==
    \A r \in Requests :
        /\ req[r].by = "app" => reply[r].pc = "ok" /\ req[r].allow = reply[r].allow
        /\ req[r].by = "memory" =>
              \E q \in Requests : /\ req[q].target = req[r].target /\ req[q].by = "app"
                                  /\ reply[q].remember /\ reply[q].allow = req[r].allow

\* `waiting` holds a sender only for a request that is still in ask_app: replies, timeouts and
\* close() leave nothing behind, in whatever order they come.
WaitingIsLive ==
    TypeOK /\ \A i \in Ids : waiting[i] # NoRequest =>
        req[waiting[i]].id = i /\ req[waiting[i]].pc \in {"ask", "wait", "giveup"}

\* "unknown-id" is said only of a question that its request has given up (or that close() has
\* ended), and such an answer decides nothing.
RejectedIsUnused ==
    \A r \in Requests : reply[r].pc = "unknown" =>
        req[r].by # "app" /\ (req[r].pc \in {"giveup", "done"} \/ closed)

\* An answer stored before a policy.update has returned decides no request that begins after it.
ForgetsStored ==
    \A r \in Requests : req[r].by = "memory" => req[r].stored >= req[r].began
=============================================================================
