------------------------------ MODULE PartFile ------------------------------
(***************************************************************************)
(* A download of git-lfs that goes on where an earlier one stopped         *)
(* (basic_download and download of tools/rust/git-lfs/src/tq.rs).  What an *)
(* attempt got is kept as <oid>.part; the next attempt renames it to a     *)
(* file of its own, asks for the rest and hashes what it has and what it   *)
(* gets.  Several processes may download one object at a time.             *)
(*                                                                         *)
(* A file is a sequence of bytes; the object is Size right ones.  The      *)
(* server is external: it may send wrong, too few or too many bytes, break *)
(* off, or refuse the range, until (if ever) it is mended.                 *)
(***************************************************************************)
EXTENDS Integers, Sequences

CONSTANTS
    Procs,      \* processes that download the object
    Size,       \* bytes of the object
    Attempts    \* bound: attempts while the server is not mended

ASSUME PartAssumption == Size \in Nat \ {0} /\ Attempts \in Nat

VARIABLES
    part,       \* <oid>.part: <<>> also when there is none
    proc,       \* each process: where it is, its file, the bytes its hasher has seen, where it began
    placed,     \* the object is in the store
    mended,     \* the server sends what is asked for from now on
    attempts

partVars == <<part, proc, placed, mended, attempts>>

Byte == {"right", "wrong"}
Object == [i \in 1..Size |-> "right"]
Files(n) == UNION {[1..k -> Byte] : k \in 0..n}
Idle == [pc |-> "idle", file |-> <<>>, hashed |-> <<>>, from |-> 0]

PartInit ==
    /\ part = <<>> /\ proc = [p \in Procs |-> Idle] /\ placed = <<>>
    /\ mended = FALSE /\ attempts = 0

\* Mutant: what is nearly complete is resumed too.
ResumesAll(file) == file # <<>>

\* A file that lacks more than its last byte is worth resuming; any other is emptied.
Resumes(file) == Len(file) > 0 /\ Len(file) < Size - 1

\* basic_download: the part becomes this process's file and is hashed.
BeginPart(p) ==
    /\ proc[p].pc = "idle" /\ placed = <<>> /\ (mended \/ attempts < Attempts)
    /\ attempts' = IF mended THEN attempts ELSE attempts + 1
    /\ LET kept == IF Resumes(part) THEN part ELSE <<>>
       IN  proc' = [proc EXCEPT ![p] = [pc |-> "request", file |-> kept, hashed |-> kept, from |-> Len(kept)]]
    /\ part' = <<>>
    /\ UNCHANGED <<placed, mended>>

\* What a body may hold: of a mended server, the bytes asked for.
Bodies(from) == IF mended THEN {SubSeq(Object, from + 1, Size)} ELSE Files(Size - from + 1)

\* The failed attempt's file is kept as the part.
Fail(p) ==
    /\ part' = proc[p].file /\ proc' = [proc EXCEPT ![p] = Idle]
    /\ UNCHANGED <<placed, mended, attempts>>

\* A body for the range asked for (206, or 200 for the whole).
Body(p) ==
    /\ proc[p].pc = "request"
    /\ \E body \in Bodies(proc[p].from) : \E broken \in IF mended THEN {FALSE} ELSE BOOLEAN :
           proc' = [proc EXCEPT ![p].pc = IF broken THEN "failed" ELSE "check", ![p].file = @ \o body,
                                ![p].hashed = @ \o body]
    /\ UNCHANGED <<part, placed, mended, attempts>>

\* Mutant: the hasher goes on when the file is emptied.
RestartedUnhashed(this) == [this EXCEPT !.file = <<>>, !.from = 0]

\* The file is emptied and the hasher begins again.
Restarted(this) == [this EXCEPT !.file = <<>>, !.hashed = <<>>, !.from = 0]

\* 200 for a range: the whole body comes instead; if it breaks off, the whole is asked for again.
WholeBody(p) ==
    /\ proc[p].pc = "request" /\ proc[p].from > 0
    /\ \E body \in Bodies(0) \ {<<>>} : \E broken \in IF mended THEN {FALSE} ELSE BOOLEAN :
           LET this == Restarted(proc[p])
           IN  proc' = [proc EXCEPT ![p] =
                  IF broken THEN this
                  ELSE [this EXCEPT !.pc = "check", !.file = @ \o body, !.hashed = @ \o body]]
    /\ UNCHANGED <<part, placed, mended, attempts>>

\* Another status or start for a range, or 416: asked again for the whole.
Refused(p) ==
    /\ proc[p].pc = "request" /\ proc[p].from > 0
    /\ proc' = [proc EXCEPT ![p] = Restarted(@)]
    /\ UNCHANGED <<part, placed, mended, attempts>>

\* No response, or an error status: the file stays as it is.
NoBody(p) ==
    /\ proc[p].pc = "request" /\ ~mended /\ Fail(p)

BrokenOff(p) == proc[p].pc = "failed" /\ Fail(p)

\* The hash is the object's: the file is renamed into place.
Place(p) ==
    /\ proc[p].pc = "check" /\ proc[p].hashed = Object
    /\ placed' = proc[p].file /\ proc' = [proc EXCEPT ![p] = Idle]
    /\ UNCHANGED <<part, mended, attempts>>

Mismatch(p) == proc[p].pc = "check" /\ proc[p].hashed # Object /\ Fail(p)

\* The process is killed: its file is left under a name nothing looks for.
Killed(p) ==
    /\ proc[p].pc # "idle" /\ ~mended /\ proc' = [proc EXCEPT ![p] = Idle]
    /\ UNCHANGED <<part, placed, mended, attempts>>

Mend == ~mended /\ mended' = TRUE /\ UNCHANGED <<part, proc, placed, attempts>>

Attempt(p) ==
    BeginPart(p) \/ Body(p) \/ WholeBody(p) \/ Refused(p) \/ NoBody(p) \/ BrokenOff(p) \/ Place(p) \/ Mismatch(p)
PartNext == Mend \/ \E p \in Procs : Attempt(p) \/ Killed(p)
PartSpec == PartInit /\ [][PartNext]_partVars

\* Whoever downloads goes on trying.
PartFairSpec == PartSpec /\ \A p \in Procs : WF_partVars(Attempt(p))

-----------------------------------------------------------------------------

\* What is in the store is the object, although what is hashed is the stream and not the file: the two
\* stay the same through a resume, a whole body for a range and a refused range.
PlacedIsObject ==
    /\ placed \in {<<>>, Object}
    /\ \A p \in Procs : proc[p].pc \in {"request", "check"} => proc[p].hashed = proc[p].file

\* A spoilt part is given up: once the server is mended the object arrives, whatever earlier attempts
\* left behind.
Arrives == mended ~> placed # <<>>
=============================================================================
