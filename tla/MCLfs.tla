------------------------------- MODULE MCLfs --------------------------------
(***************************************************************************)
(* git-lfs on small instances: a queue of objects, one of which has two    *)
(* names, or the downloads of one object by two processes.                 *)
(***************************************************************************)
EXTENDS TransferQueue, PartFile

VARIABLE side   \* which of the two a behaviour is of

MCAdds == <<"a", "b", "a", "c">>

LfsInit == side \in {"queue", "part"} /\ Init /\ PartInit

LfsNext ==
    \/ side = "queue" /\ Next /\ UNCHANGED <<side, partVars>>
    \/ side = "part" /\ PartNext /\ UNCHANGED <<side, vars>>

\* As in the two specifications, each on its side.
LfsSpec ==
    /\ LfsInit /\ [][LfsNext]_<<side, vars, partVars>>
    /\ WF_vars(side = "queue" /\ Owner) /\ \A w \in WorkerIds : WF_vars(side = "queue" /\ Work(w))
    /\ \A p \in Procs : WF_partVars(side = "part" /\ Attempt(p))

\* wait returns on a queue (WaitReturns): retries end, no worker waits at the gate for ever, and
\* finish_adapter joins the workers.
QueueReturns == side = "queue" => WaitReturns
=============================================================================
