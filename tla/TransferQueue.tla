--------------------------- MODULE TransferQueue ---------------------------
(***************************************************************************)
(* The transfer queue of git-lfs (tools/rust/git-lfs/src/tq.rs).  The      *)
(* thread that owns the queue adds objects, sends them to the batch API in *)
(* batches and hands what the server wants moved to an adapter; the        *)
(* adapter's workers take jobs from one channel, and all but the first     *)
(* wait at a gate until it has got past authentication.  What fails is     *)
(* tried again, up to MaxRetries times.                                    *)
(*                                                                         *)
(* The server is external: it may answer any object of a batch in any way. *)
(* Times are left out: of what waits to be tried again any part may be     *)
(* ready.  So is the order of a batch (by size): the workers take any job. *)
(***************************************************************************)
EXTENDS Integers, Sequences, FiniteSets, Functions

CONSTANTS
    Adds,           \* the objects added, in order; an object may be added under several names
    Directions,     \* of a queue: "upload", "download"
    Missing,        \* objects of an upload that are not here
    BatchSize, MaxRetries,
    Workers,        \* concurrent_transfers
    Adapters        \* what the server may choose from: "basic", "tus", "ssh", "custom"

Oids == {Adds[i] : i \in 1..Len(Adds)}

ASSUME QueueAssumption ==
    /\ Adds \in Seq(Oids) /\ Directions \subseteq {"upload", "download"} /\ BatchSize \in Nat \ {0} /\ MaxRetries \in Nat
    /\ Workers \in Nat \ {0} /\ Adapters \subseteq {"basic", "tus", "ssh", "custom"} /\ Adapters # {}

VARIABLES
    direction,
    pc,         \* where the owner is
    added,      \* how many of Adds have been added
    incoming, pending,  \* sequences of objects
    batch,      \* the objects of the batch that is out, and then those that go to the adapter
    completed,  \* objects transferred
    notified,   \* how often the watchers have heard of each of Adds
    fate,       \* history: what became of an object
    retry_count, retries, aborted,
    adapter,    \* the adapter begun, or "none"
    chosen,     \* adapter_name
    jobs, results,  \* channels
    worker, gate

ownerVars == <<direction, pc, added, incoming, pending, batch, completed, notified, fate, retry_count, retries, aborted, adapter, chosen>>
workerVars == <<jobs, results, worker, gate>>
vars == <<ownerVars, workerVars>>

WorkerIds == 0..(Workers - 1)

Init ==
    /\ direction \in Directions /\ pc = "adding" /\ added = 0 /\ incoming = <<>> /\ pending = <<>> /\ batch = {} /\ completed = {}
    /\ notified = [i \in 1..Len(Adds) |-> 0] /\ fate = [o \in Oids |-> "none"]
    /\ retry_count = [o \in Oids |-> 0] /\ retries = {} /\ aborted = FALSE
    /\ adapter = "none" /\ chosen = "basic" /\ jobs = {} /\ results = {}
    /\ worker = [w \in WorkerIds |-> [pc |-> "none", job |-> "none", auth |-> FALSE]] /\ gate = FALSE

-----------------------------------------------------------------------------
(* The owner: add and wait *)

Named(o) == {i \in 1..added : Adds[i] = o}

\* Mutant: a name that comes after its object is transferred is not told.
AddedLateUntold(i) == notified

\* A name that comes after its object is transferred is told at once.
AddedLate(i) == [notified EXCEPT ![i] = @ + 1]

\* add: an object already there gets one more name; a full batch is processed.
Add ==
    /\ pc = "adding" /\ added < Len(Adds) /\ added' = added + 1
    /\ LET i == added + 1  o == Adds[i]
           full == Len(incoming) + 1 >= BatchSize /\ ~aborted
       IN  IF Named(o) # {}
           THEN /\ notified' = IF o \in completed THEN AddedLate(i) ELSE notified
                /\ UNCHANGED <<pc, incoming, batch>>
           ELSE /\ incoming' = IF full THEN <<>> ELSE Append(incoming, o)
                /\ batch' = IF full THEN Range(incoming) \union {o} ELSE batch
                /\ pc' = IF full THEN "batch" ELSE pc
                /\ UNCHANGED notified
    /\ UNCHANGED <<direction, pending, completed, fate, retry_count, retries, aborted, adapter, chosen, workerVars>>

Wait ==
    /\ pc = "adding" /\ added = Len(Adds) /\ pc' = "wait"
    /\ UNCHANGED <<direction, added, incoming, pending, batch, completed, notified, fate, retry_count, retries, aborted, adapter, chosen, workerVars>>

\* How many of the positions in I come up to i, and what s has at them, in its order.
Rank(I, i) == Cardinality({j \in I : j <= i})
Keep(s, I) == [k \in 1..Cardinality(I) |-> s[CHOOSE i \in I : Rank(I, i) = k]]

\* The positions of the first BatchSize of what is ready.
FirstOf(ready) == {i \in ready : Rank(ready, i) <= BatchSize}

\* Mutant: what is ready beyond the batch is not kept.
RestDropped(all, ready) == Keep(all, DOMAIN all \ ready)

\* What is not ready yet, then what is ready beyond the batch.
Rest(all, ready) == Keep(all, DOMAIN all \ ready) \o Keep(all, ready \ FirstOf(ready))

\* One turn of wait's loop: of what is to be tried again some is ready, at the latest after the sleep.
WaitNext ==
    /\ pc = "wait" /\ ~aborted
    /\ LET all == pending \o incoming
       IN  \E delayed \in SUBSET {i \in DOMAIN all : retry_count[all[i]] > 0} :
               LET ready == DOMAIN all \ delayed
               IN  /\ ready # {}
                   /\ batch' = {all[i] : i \in FirstOf(ready)} /\ pending' = Rest(all, ready)
    /\ incoming' = <<>> /\ pc' = "batch"
    /\ UNCHANGED <<direction, added, completed, notified, fate, retry_count, retries, aborted, adapter, chosen, workerVars>>

\* The loop ends: nothing is left, or the queue is aborted.
WaitEnds ==
    /\ pc = "wait" /\ (aborted \/ pending \o incoming = <<>>)
    /\ pc' = "ending"
    /\ UNCHANGED <<direction, added, incoming, pending, batch, completed, notified, fate, retry_count, retries, aborted, adapter, chosen, workerVars>>

Joined == \A w \in WorkerIds : worker[w].pc \in {"none", "stopped"}

\* finish_adapter: the channel of jobs is closed and every worker joined.
FinishAdapter ==
    /\ pc \in {"ending", "switch"} /\ (adapter = "none" \/ Joined)
    /\ adapter' = "none" /\ worker' = [w \in WorkerIds |-> [pc |-> "none", job |-> "none", auth |-> FALSE]]
    /\ pc' = IF pc = "ending" THEN "ended" ELSE "transfer"
    /\ UNCHANGED <<direction, added, incoming, pending, batch, completed, notified, fate, retry_count, retries, aborted, chosen, jobs, results, gate>>

-----------------------------------------------------------------------------
(* A batch *)

CanRetryCount(o) == retry_count[o] < MaxRetries

Back == IF added < Len(Adds) THEN "adding" ELSE "wait"
Sequence(S) == CHOOSE s \in [1..Cardinality(S) -> S] : IsInjective(s) /\ Range(s) = S

\* enqueue_retry.
EnqueueRetry(S) ==
    /\ retry_count' = [o \in Oids |-> IF o \in S THEN retry_count[o] + 1 ELSE retry_count[o]]
    /\ pending' = pending \o Sequence(S)

\* What of the batch can be tried again after an error of the batch request.
Retried(kind) == IF kind \in {"retriable", "later"} THEN {o \in batch : CanRetryCount(o)} ELSE {}

\* The batch request fails: what cannot be tried again is an error.
BatchFails ==
    /\ pc = "batch"
    /\ \E kind \in {"retriable", "later", "fatal"} :
           /\ EnqueueRetry(Retried(kind))
           /\ fate' = [o \in Oids |-> IF o \in batch \ Retried(kind) THEN "error" ELSE fate[o]]
    /\ batch' = {} /\ pc' = Back
    /\ UNCHANGED <<direction, added, incoming, completed, notified, retries, aborted, adapter, chosen, workerVars>>

\* What the server says of each object: its own error, that it has it (noop), nothing, or an action,
\* which may have expired.
Answers == {"error", "noop", "omitted", "expired", "action"}

\* An object to upload is neither here nor there: the queue stops.
BatchMissing(answer) ==
    /\ direction = "upload" /\ \E o \in batch \intersect Missing : answer[o] \in {"expired", "action"}
    /\ aborted' = TRUE
    /\ fate' = [o \in Oids |-> IF o \in batch \intersect Missing THEN "error" ELSE fate[o]]
    /\ batch' = {} /\ pc' = Back
    /\ UNCHANGED <<pending, retry_count, chosen>>

\* The objects with an action go to the adapter; an expired action is asked for again.
BatchTaken(answer) ==
    LET again == {o \in batch : answer[o] = "expired" /\ CanRetryCount(o)}
        chosenOf(o) == CASE answer[o] = "error"   -> "error"
                         [] answer[o] = "noop"    -> "skipped"
                         [] answer[o] = "omitted" -> "omitted"
                         [] answer[o] = "expired" /\ o \notin again -> "error"
                         [] OTHER -> fate[o]
    IN  /\ ~(direction = "upload" /\ \E o \in batch \intersect Missing : answer[o] \in {"expired", "action"})
        /\ EnqueueRetry(again)
        /\ fate' = [o \in Oids |-> IF o \in batch THEN chosenOf(o) ELSE fate[o]]
        /\ batch' = {o \in batch : answer[o] = "action"}
        /\ \/ /\ \A o \in batch : answer[o] = "omitted"
              /\ pc' = Back /\ UNCHANGED chosen
           \/ /\ \E o \in batch : answer[o] # "omitted"
              /\ \E name \in Adapters : chosen' = name
              /\ pc' = IF adapter \notin {"none", chosen'} THEN "switch" ELSE "transfer"
        /\ UNCHANGED aborted

BatchAnswers ==
    /\ pc = "batch" /\ \E answer \in [batch -> Answers] : BatchMissing(answer) \/ BatchTaken(answer)
    /\ UNCHANGED <<direction, added, incoming, completed, notified, retries, adapter, workerVars>>

\* Adapter::begin, if there are transfers and none is begun: the first worker has the gate's key.  A
\* custom adapter's process may not start: everything is an error.
Begin ==
    /\ pc = "transfer" /\ batch # {} /\ adapter = "none"
    /\ \/ /\ adapter' = chosen /\ gate' = FALSE
          /\ worker' = [w \in WorkerIds |-> [pc |-> IF w = 0 THEN "take" ELSE "gate", job |-> "none", auth |-> w = 0]]
          /\ UNCHANGED <<pc, batch, fate>>
       \/ /\ chosen \in {"ssh", "custom"} /\ fate' = [o \in Oids |-> IF o \in batch THEN "error" ELSE fate[o]]
          /\ batch' = {} /\ pc' = Back
          /\ UNCHANGED <<adapter, worker, gate>>
    /\ UNCHANGED <<direction, added, incoming, pending, completed, notified, retry_count, retries, aborted, chosen, jobs, results>>

\* add_to_adapter: what an upload does not find here is an error, the rest becomes jobs.
Submit ==
    /\ pc = "transfer" /\ (batch = {} \/ adapter # "none")
    /\ LET absent == IF direction = "upload" THEN batch \intersect Missing ELSE {}
       IN  /\ fate' = [o \in Oids |-> IF o \in absent THEN "error" ELSE fate[o]]
           /\ jobs' = batch \ absent /\ batch' = batch \ absent
    /\ pc' = "collect" /\ retries' = {}
    /\ UNCHANGED <<direction, added, incoming, pending, completed, notified, retry_count, aborted, adapter, chosen, results, worker, gate>>

\* handle_result.
Collect ==
    /\ pc = "collect" /\ \E r \in results :
         LET o == r.job
             again == r.result \in {"retriable", "later"} /\ CanRetryCount(o)
         IN  /\ results' = results \ {r} /\ batch' = batch \ {o}
             /\ retries' = IF again THEN retries \union {o} ELSE retries
             /\ completed' = IF r.result = "ok" THEN completed \union {o} ELSE completed
             /\ notified' = [i \in 1..Len(Adds) |->
                                IF r.result = "ok" /\ i \in Named(o) THEN notified[i] + 1 ELSE notified[i]]
             /\ fate' = [fate EXCEPT ![o] = CASE again -> @
                                              [] r.result = "ok" -> "done"
                                              [] r.result = "unprocessable" -> "unsupported"
                                              [] OTHER -> "error"]
    /\ UNCHANGED <<direction, pc, added, incoming, pending, retry_count, aborted, adapter, chosen, jobs, worker, gate>>

\* All results are in: what is to be tried again joins the pending ones.
Collected ==
    /\ pc = "collect" /\ batch = {} /\ EnqueueRetry(retries) /\ retries' = {} /\ pc' = Back
    /\ UNCHANGED <<direction, added, incoming, batch, completed, notified, fate, aborted, adapter, chosen, workerVars>>

-----------------------------------------------------------------------------
(* A worker *)

\* What a transfer may come to, and whether it calls auth_ok on the way.
Outcome(results_, auths) == [result : results_, auth : auths]

\* basic_download and download: auth_ok once the body has arrived; then its hash may be wrong.
BasicDownload ==
    Outcome({"retriable", "later", "fatal"}, {FALSE}) \union Outcome({"ok", "fatal"}, {TRUE})

\* basic_upload and verify_upload: auth_ok when the body starts.
BasicUpload ==
    Outcome({"retriable", "later", "fatal", "unprocessable"}, BOOLEAN) \union Outcome({"ok"}, {TRUE})

\* tus_upload: nothing is sent when the server has it all.
TusUpload == Outcome({"retriable", "fatal"}, BOOLEAN) \union Outcome({"ok"}, BOOLEAN)

\* ssh_download and ssh_upload: auth_ok before anything else.
SshTransfer == Outcome({"ok", "retriable", "fatal"}, {TRUE})

\* custom_transfer: auth_ok with the first progress, or at the end.
CustomTransfer == Outcome({"ok"}, {TRUE}) \union Outcome({"fatal"}, BOOLEAN) \union Outcome({"retriable"}, {FALSE})

\* do_transfer.
DoTransfer ==
    CASE adapter = "basic" /\ direction = "download" -> BasicDownload
      [] adapter = "basic" /\ direction = "upload" -> BasicUpload
      [] adapter = "tus" -> TusUpload
      [] adapter = "ssh" -> SshTransfer
      [] OTHER -> CustomTransfer

\* AuthGate::wait.
PassGate(w) ==
    /\ worker[w].pc = "gate" /\ gate
    /\ worker' = [worker EXCEPT ![w].pc = "take"]
    /\ UNCHANGED <<ownerVars, jobs, results, gate>>

Take(w) ==
    /\ worker[w].pc = "take"
    /\ \E o \in jobs : jobs' = jobs \ {o} /\ worker' = [worker EXCEPT ![w].pc = "busy", ![w].job = o]
    /\ UNCHANGED <<ownerVars, results, gate>>

\* do_transfer, with the first auth_ok of the first worker, and the result.
Transfer(w) ==
    /\ worker[w].pc = "busy"
    /\ \E outcome \in DoTransfer :
           /\ results' = results \union {[job |-> worker[w].job, result |-> outcome.result]}
           /\ gate' = (gate \/ (worker[w].auth /\ outcome.auth))
           /\ worker' = [worker EXCEPT ![w] = [pc |-> "take", job |-> "none", auth |-> @.auth /\ ~outcome.auth]]
    /\ UNCHANGED <<ownerVars, jobs>>

\* Mutant: a worker that stops keeps the gate shut.
StoppedShut(w) == gate

\* A worker that never came past authentication opens the gate when it stops.
Stopped(w) == gate \/ worker[w].auth

\* The channel is closed: the adapter ends.
StopWorker(w) ==
    /\ worker[w].pc = "take" /\ jobs = {} /\ pc \in {"ending", "switch"}
    /\ worker' = [worker EXCEPT ![w].pc = "stopped"] /\ gate' = Stopped(w)
    /\ UNCHANGED <<ownerVars, jobs, results>>

Owner ==
    \/ Add \/ Wait \/ WaitNext \/ WaitEnds \/ FinishAdapter
    \/ BatchFails \/ BatchAnswers \/ Begin \/ Submit \/ Collect \/ Collected
Work(w) == PassGate(w) \/ Take(w) \/ Transfer(w) \/ StopWorker(w)
Next == Owner \/ \E w \in WorkerIds : Work(w)
Spec == Init /\ [][Next]_vars

\* The owner's thread and every worker's run.
FairSpec == Spec /\ WF_vars(Owner) /\ \A w \in WorkerIds : WF_vars(Work(w))

-----------------------------------------------------------------------------
(* Properties *)

\* The queue's state has its type; no object is tried more often than MaxRetries allows.
TypeOK ==
    /\ pc \in {"adding", "wait", "batch", "switch", "transfer", "collect", "ending", "ended"}
    /\ added \in 0..Len(Adds) /\ Range(incoming) \union Range(pending) \union batch \subseteq Oids
    /\ completed \subseteq Oids /\ notified \in [1..Len(Adds) -> 0..1]
    /\ fate \in [Oids -> {"none", "done", "error", "skipped", "omitted", "unsupported"}]
    /\ retry_count \in [Oids -> 0..MaxRetries] /\ retries \subseteq Oids /\ aborted \in BOOLEAN
    /\ adapter \in Adapters \union {"none"} /\ chosen \in Adapters \union {"basic"}
    /\ jobs \subseteq batch /\ gate \in BOOLEAN

\* An object is in one place and has its number of tries: what has been added is waiting, or in the
\* batch that is out, or has its one fate; nothing the queue splits, retries or collects is lost or
\* tried twice at a time.  Only an abort drops what was still waiting.
Accounted ==
    LET waiting == incoming \o pending
        unsettled == {o \in Oids : Named(o) # {} /\ fate[o] = "none"}
    IN  /\ TypeOK /\ IsInjective(waiting)
        /\ Range(waiting) \intersect (batch \union retries) = {} /\ batch \intersect retries = {}
        /\ aborted \/ Range(waiting) \union batch \union retries = unsettled

\* The watchers hear once of every name of an object that was transferred, the names added before and
\* those added after it, and of no other.
NotifiedOnce == \A i \in 1..added : notified[i] = IF Adds[i] \in completed THEN 1 ELSE 0

\* wait returns: retries end, no worker waits at the gate for ever, and the workers are joined.
WaitReturns == <>(pc = "ended")
=============================================================================
