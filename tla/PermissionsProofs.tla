-------------------------- MODULE PermissionsProofs --------------------------
(***************************************************************************)
(* What the bridge promises about questions to the app, for every kind of  *)
(* request and every number of requests, targets and updates.              *)
(***************************************************************************)
EXTENDS Permissions, FiniteSetTheorems, TLAPS

-----------------------------------------------------------------------------
(* The inductive invariant *)

\* The requests that have been given an id, and the updates that have returned.
Numbered == {r \in Requests : req[r].id # 0}
Returned == {u \in Updates : upd[u].pc = "done"}

\* Ids are given out one by one and never twice.
IdsUnique ==
    /\ next_id = Cardinality(Numbered) + 1
    /\ \A r \in Requests : req[r].id < next_id
    /\ \A r, q \in Requests : req[r].id # 0 /\ req[r].id = req[q].id => r = q

\* The targets and answers for which the app said that the answer holds for the session.
Given == {<<req[q].target, reply[q].allow>> : q \in {p \in Requests : req[p].by = "app" /\ reply[p].remember}}

\* How far a request's question has come, and its reply: the reply's thread holds the sender of the
\* request that asked, what is in the channel is what the app said, and while nobody has taken the
\* sender of a request that waits, it is in the map.
QuestionKept(r) ==
    /\ req[r].pc \in {"idle", "lookup", "register"} => req[r].id = 0
    /\ req[r].pc \in {"ask", "wait", "giveup", "remember"} => req[r].id # 0
    /\ reply[r].pc # "none" => req[r].id # 0 /\ req[r].pc \in {"wait", "giveup", "remember", "done"}
    /\ reply[r].pc = "send" => reply[r].to = r
    /\ reply[r].pc \in {"send", "ok", "unknown"} => waiting[req[r].id] = NoRequest
    /\ chan[r].full =>
          reply[r].pc = "ok" /\ chan[r].allow = reply[r].allow /\ chan[r].remember = reply[r].remember
    /\ req[r].pc \in {"ask", "wait", "giveup"} /\ reply[r].pc \in {"none", "asked", "take"} /\ ~closed =>
          waiting[req[r].id] = r

\* Who has decided a request, and from what.
DecisionKept(r) ==
    /\ req[r].by = "app" =>
          reply[r].pc = "ok" /\ req[r].allow = reply[r].allow /\ req[r].remember = reply[r].remember
    /\ req[r].by = "memory" => <<req[r].target, req[r].allow>> \in Given /\ req[r].stored >= req[r].began
    /\ req[r].by # "nobody" => req[r].pc \in {"remember", "done"}
    /\ req[r].pc = "remember" => req[r].by = "app"
    /\ reply[r].pc = "unknown" => req[r].by # "app" /\ (req[r].pc \in {"giveup", "done"} \/ closed)
    /\ req[r].began <= updated

\* An answer that is remembered was given, and stored after the last update that has returned.
AnswersFresh ==
    /\ updated = Cardinality(Returned)
    /\ \A t \in Targets : answers[t].known => answers[t].stored = updated /\ <<t, answers[t].allow>> \in Given

PermInv ==
    /\ WaitingIsLive /\ IdsUnique /\ AnswersFresh
    /\ \A r \in Requests : QuestionKept(r) /\ DecisionKept(r)

-----------------------------------------------------------------------------
(* Types *)

RequestState == [pc : {"idle", "lookup", "register", "ask", "wait", "giveup", "remember", "done"},
                 target : Targets, began : Nat, id : Nat, asked : Nat, stored : Nat,
                 allow : BOOLEAN, remember : BOOLEAN, by : {"nobody", "policy", "memory", "app"}]
ChannelState == [full : BOOLEAN, allow : BOOLEAN, remember : BOOLEAN]
ReplyState == [pc : {"none", "asked", "take", "send", "ok", "unknown"}, to : Threads,
               allow : BOOLEAN, remember : BOOLEAN]
Answer == [known : BOOLEAN, allow : BOOLEAN, asked : Nat, stored : Nat]
Policy == [mode : Modes, rest : Updates \union {"first"}]
UpdateState == [pc : {"idle", "write", "clear", "done"}, fields : SUBSET {"mode", "rest"},
                mode : Modes, base : Policy]

\* What TypeOK says of the requests, the replies, the channels and the answers.
Typed ==
    /\ req \in [Requests -> RequestState] /\ chan \in [Requests -> ChannelState]
    /\ reply \in [Requests -> ReplyState] /\ answers \in [Targets -> Answer]
    /\ waiting \in [Ids -> Threads] /\ closed \in BOOLEAN /\ next_id \in Nat \ {0} /\ updated \in Nat

LEMMA CountsBounded ==
    /\ Cardinality(Requests) \in Nat /\ Cardinality(Updates) \in Nat
    /\ Cardinality(Numbered) \in 0..Cardinality(Requests) /\ IsFiniteSet(Numbered)
    /\ Cardinality(Returned) \in 0..Cardinality(Updates) /\ IsFiniteSet(Returned)
    /\ Cardinality(Numbered) = Cardinality(Requests) => Numbered = Requests
<1>1. Numbered \in SUBSET Requests /\ Returned \in SUBSET Updates
  BY DEF Numbered, Returned
<1>2. IsFiniteSet(Requests) /\ IsFiniteSet(Updates)
  BY PermissionsAssumption
<1>3. IsFiniteSet(Numbered) /\ Cardinality(Numbered) <= Cardinality(Requests)
      /\ (Cardinality(Numbered) = Cardinality(Requests) => Numbered = Requests)
  BY <1>1, <1>2, FS_Subset
<1>4. IsFiniteSet(Returned) /\ Cardinality(Returned) <= Cardinality(Updates)
  BY <1>1, <1>2, FS_Subset
<1>5. /\ Cardinality(Requests) \in Nat /\ Cardinality(Updates) \in Nat
      /\ Cardinality(Numbered) \in Nat /\ Cardinality(Returned) \in Nat
  BY <1>2, <1>3, <1>4, FS_CardinalityType
<1> QED  BY <1>3, <1>4, <1>5

LEMMA TypeParts ==
    TypeOK <=> /\ Typed /\ policy \in Policy /\ upd \in [Updates -> UpdateState]
               /\ next_id <= Cardinality(Requests) + 1 /\ updated <= Cardinality(Updates)
<1>1. Cardinality(Requests) \in Nat /\ Cardinality(Updates) \in Nat
  BY CountsBounded
<1>2. /\ next_id \in 1..(Cardinality(Requests) + 1) <=> next_id \in Nat \ {0} /\ next_id <= Cardinality(Requests) + 1
      /\ updated \in 0..Cardinality(Updates) <=> updated \in Nat /\ updated <= Cardinality(Updates)
  BY <1>1
<1> QED  BY <1>2, Zenon DEF TypeOK, Typed, RequestState, ChannelState, ReplyState, Answer, Policy, UpdateState

LEMMA TypePartsNext ==
    (TypeOK <=> /\ Typed /\ policy \in Policy /\ upd \in [Updates -> UpdateState]
                /\ next_id <= Cardinality(Requests) + 1 /\ updated <= Cardinality(Updates))'
BY TypeParts, PTL

\* The invariant, its types in the form the proofs use.
LEMMA InvTypes ==
    PermInv => /\ TypeOK /\ Typed /\ policy \in Policy /\ upd \in [Updates -> UpdateState]
               /\ next_id <= Cardinality(Requests) + 1 /\ updated <= Cardinality(Updates)
BY TypeParts, Zenon DEF PermInv, WaitingIsLive

-----------------------------------------------------------------------------
(* Steps about one question *)

\* A step about the question of r, by the request's thread or by the reply's: it takes nothing out
\* of the map but r's own sender, stores no answer that was not given, and leaves r itself sound.
StepOf(r) ==
    /\ UNCHANGED <<policy, next_id, upd, updated, closed>>
    /\ \A q \in Requests : q # r => req'[q] = req[q] /\ chan'[q] = chan[q] /\ reply'[q] = reply[q]
    /\ req'[r].id = req[r].id /\ req'[r].target = req[r].target
    /\ req[r].by = "app" => req'[r].by = "app" /\ reply'[r] = reply[r]
    /\ \A i \in Ids : waiting'[i] = waiting[i] \/ (i = req[r].id /\ waiting'[i] = NoRequest)
    /\ req[r].id \in Ids /\ waiting'[req[r].id] # NoRequest => req'[r].pc \in {"ask", "wait", "giveup"}
    /\ \A t \in Targets : \/ answers'[t] = answers[t]
                          \/ answers'[t].stored = updated /\ <<t, answers'[t].allow>> \in Given'

LEMMA GivenStays ==
    ASSUME NEW r \in Requests, StepOf(r)
    PROVE  Given \subseteq Given'
<1> SUFFICES ASSUME NEW q \in Requests, req[q].by = "app", reply[q].remember
             PROVE  <<req[q].target, reply[q].allow>> \in Given'
  BY DEF Given
<1>1. /\ req'[q].target = req[q].target /\ req'[q].by = "app"
      /\ reply'[q].remember /\ reply'[q].allow = reply[q].allow
  BY DEF StepOf
<1> QED  BY <1>1 DEF Given

LEMMA StepKeeps ==
    ASSUME PermInv, NEW r \in Requests, StepOf(r), Typed',
           QuestionKept(r)', DecisionKept(r)'
    PROVE  PermInv'
<1>1. Typed /\ TypeOK'
  BY InvTypes, TypePartsNext DEF StepOf
<1>2. WaitingIsLive'
  <2> SUFFICES ASSUME NEW i \in Ids, waiting'[i] # NoRequest
               PROVE  req'[waiting'[i]].id = i /\ req'[waiting'[i]].pc \in {"ask", "wait", "giveup"}
    BY <1>1 DEF WaitingIsLive, Ids
  <2>1. waiting'[i] = waiting[i] /\ waiting[i] \in Requests
    BY <1>1 DEF StepOf, Typed, Threads
  <2>2. req[waiting[i]].id = i /\ req[waiting[i]].pc \in {"ask", "wait", "giveup"}
    BY <2>1 DEF PermInv, WaitingIsLive
  <2>3. CASE waiting[i] = r
    BY <2>1, <2>2, <2>3 DEF StepOf
  <2>4. CASE waiting[i] # r
    BY <2>1, <2>2, <2>4 DEF StepOf
  <2> QED  BY <2>3, <2>4
<1>3. \A q \in Requests : req'[q].id = req[q].id /\ req'[q].target = req[q].target
  BY DEF StepOf
<1>4. IdsUnique'
  <2>1. Numbered' = Numbered
    BY <1>3 DEF Numbered
  <2> QED  BY <2>1, <1>3 DEF PermInv, IdsUnique, StepOf
<1>5. AnswersFresh'
  <2>1. Returned' = Returned
    BY DEF StepOf, Returned
  <2>2. ASSUME NEW t \in Targets, answers'[t].known
        PROVE  answers'[t].stored = updated' /\ <<t, answers'[t].allow>> \in Given'
    <3>1. CASE answers'[t] = answers[t]
      <4>1. answers[t].stored = updated /\ <<t, answers[t].allow>> \in Given
        BY <2>2, <3>1 DEF PermInv, AnswersFresh
      <4>2. <<t, answers[t].allow>> \in Given'
        BY <4>1, GivenStays
      <4> QED  BY <4>1, <4>2, <3>1 DEF StepOf
    <3>2. CASE answers'[t].stored = updated /\ <<t, answers'[t].allow>> \in Given'
      BY <3>2 DEF StepOf
    <3> QED  BY <3>1, <3>2 DEF StepOf
  <2>3. updated' = Cardinality(Returned)'
    BY <2>1 DEF PermInv, AnswersFresh, StepOf
  <2> QED  BY <2>2, <2>3 DEF AnswersFresh
<1>6. ASSUME NEW q \in Requests, q # r PROVE QuestionKept(q)' /\ DecisionKept(q)'
  <2>1. QuestionKept(q) /\ DecisionKept(q)
    BY DEF PermInv
  <2>2. req'[q] = req[q] /\ chan'[q] = chan[q] /\ reply'[q] = reply[q] /\ closed' = closed /\ updated' = updated
    BY <1>6 DEF StepOf
  <2>3. ASSUME req[q].id # 0 PROVE waiting'[req[q].id] = waiting[req[q].id]
    <3>1. req[q].id \in Ids /\ req[q].id # req[r].id
      <4>1. req[q].id \in Nat /\ req[q].id < next_id /\ next_id <= Cardinality(Requests) + 1
        BY <1>1, InvTypes DEF Typed, RequestState, PermInv, IdsUnique
      <4>2. req[q].id # req[r].id
        BY <1>6, <2>3 DEF PermInv, IdsUnique
      <4> QED  BY <4>1, <4>2, <2>3, <1>1, CountsBounded DEF Ids, Typed
    <3> QED  BY <3>1 DEF StepOf
  <2>4. QuestionKept(q)'
    BY <2>1, <2>2, <2>3 DEF QuestionKept
  <2>5. Given \subseteq Given'
    BY GivenStays
  <2>6. DecisionKept(q)'
    BY <2>1, <2>2, <2>5 DEF DecisionKept
  <2> QED  BY <2>4, <2>6
<1> QED  BY <1>2, <1>4, <1>5, <1>6 DEF PermInv

LEMMA BeginKeeps ==
    ASSUME PermInv, NEW r \in Requests, Begin(r)
    PROVE  PermInv'
<1>1. Typed /\ policy \in Policy /\ QuestionKept(r) /\ DecisionKept(r)
  BY InvTypes DEF PermInv
<1>2. /\ UNCHANGED <<policy, answers, next_id, waiting, closed, chan, reply, upd, updated>>
      /\ req[r].pc = "idle" /\ req[r] \in RequestState /\ updated \in Nat
  BY <1>1 DEF Begin, Typed
<1>3. PICK new \in RequestState :
        /\ req' = [req EXCEPT ![r] = new] /\ new.target = req[r].target /\ new.id = req[r].id
        /\ new.began = updated /\ new.pc \in {"lookup", "register", "done"}
        /\ new.by \in {req[r].by, "policy"} /\ (new.pc # "done" => new.by = req[r].by)
  <2> DEFINE this == [req[r] EXCEPT !.began = updated]
  <2> DEFINE new == CASE policy.mode = "off"   -> [this EXCEPT !.pc = "done"]
                      [] policy.mode = "allow" -> [this EXCEPT !.pc = "done", !.allow = TRUE, !.by = "policy"]
                      [] OTHER -> [this EXCEPT !.pc = IF Remembers THEN "lookup" ELSE "register"]
  <2>1. this \in RequestState /\ this.began = updated /\ this.target = req[r].target /\ this.id = req[r].id
        /\ this.by = req[r].by
    BY <1>2 DEF RequestState
  <2>2. /\ new \in RequestState /\ new.target = this.target /\ new.id = this.id
        /\ new.began = this.began /\ new.pc \in {"lookup", "register", "done"}
        /\ new.by \in {this.by, "policy"} /\ (new.pc # "done" => new.by = this.by)
    <3> HIDE DEF this
    <3> QED  BY <2>1, Zenon DEF RequestState
  <2>3. req' = [req EXCEPT ![r] = new]
    BY DEF Begin
  <2> HIDE DEF new, this
  <2> QED  BY <2>1, <2>2, <2>3, Zenon
<1>4. /\ req[r].id = 0 /\ req[r].by = "nobody" /\ reply[r].pc = "none" /\ ~chan[r].full
  BY <1>1, <1>2 DEF QuestionKept, DecisionKept, Typed, ReplyState, ChannelState
<1>5. Typed' /\ req'[r] = new
  BY <1>1, <1>2, <1>3 DEF Typed
<1>6. StepOf(r)
  <2>1. req[r].id \notin Ids
    BY <1>4 DEF Ids
  <2>2. \A q \in Requests : q # r => req'[q] = req[q] /\ chan'[q] = chan[q] /\ reply'[q] = reply[q]
    BY <1>1, <1>2, <1>3 DEF Typed
  <2> QED  BY <2>1, <2>2, <1>2, <1>3, <1>4, <1>5 DEF StepOf
<1>7. QuestionKept(r)' /\ DecisionKept(r)'
  BY <1>1, <1>2, <1>3, <1>4, <1>5 DEF QuestionKept, DecisionKept
<1> QED  BY <1>5, <1>6, <1>7, StepKeeps

LEMMA LookupKeeps ==
    ASSUME PermInv, NEW r \in Requests, Lookup(r)
    PROVE  PermInv'
<1> DEFINE known == answers[req[r].target]
<1>1. Typed /\ QuestionKept(r) /\ DecisionKept(r)
  BY InvTypes DEF PermInv
<1>2. /\ UNCHANGED <<policy, answers, next_id, waiting, closed, chan, reply, upd, updated>>
      /\ req[r].pc = "lookup" /\ req[r] \in RequestState /\ req[r].target \in Targets /\ known \in Answer
  BY <1>1 DEF Lookup, Typed, RequestState
<1>3. PICK new \in RequestState :
        /\ req' = [req EXCEPT ![r] = new] /\ new.target = req[r].target /\ new.id = req[r].id
        /\ new.began = req[r].began
        /\ \/ new.pc = "register" /\ new.by = req[r].by
           \/ new.pc = "done" /\ new.by = "memory" /\ known.known /\ new.allow = known.allow /\ new.stored = known.stored
  <2> DEFINE new == IF known.known
                    THEN [[req[r] EXCEPT !.pc = "done", !.allow = known.allow]
                             EXCEPT !.by = "memory", !.asked = known.asked, !.stored = known.stored]
                    ELSE [req[r] EXCEPT !.pc = "register"]
  <2>1. req' = [req EXCEPT ![r] = new]
    BY <1>1 DEF Lookup, Done, Typed
  <2>2. /\ new \in RequestState /\ new.target = req[r].target /\ new.id = req[r].id /\ new.began = req[r].began
        /\ \/ new.pc = "register" /\ new.by = req[r].by
           \/ new.pc = "done" /\ new.by = "memory" /\ known.known /\ new.allow = known.allow /\ new.stored = known.stored
    <3> HIDE DEF known
    <3> QED  BY <1>2, Zenon DEF RequestState, Answer
  <2> HIDE DEF new
  <2> QED  BY <2>1, <2>2, Zenon
<1>4. /\ req[r].id = 0 /\ req[r].by = "nobody" /\ reply[r].pc = "none" /\ ~chan[r].full
  BY <1>1, <1>2 DEF QuestionKept, DecisionKept, Typed, ReplyState, ChannelState
<1>5. Typed' /\ req'[r] = new
  BY <1>1, <1>2, <1>3 DEF Typed
<1>6. StepOf(r)
  <2>1. req[r].id \notin Ids
    BY <1>4 DEF Ids
  <2>2. \A q \in Requests : q # r => req'[q] = req[q] /\ chan'[q] = chan[q] /\ reply'[q] = reply[q]
    BY <1>1, <1>2, <1>3 DEF Typed
  <2> QED  BY <2>1, <2>2, <1>2, <1>3, <1>4, <1>5 DEF StepOf
<1>7. QuestionKept(r)'
  BY <1>1, <1>2, <1>3, <1>4, <1>5 DEF QuestionKept
<1>8. known.known => known.stored = updated /\ <<req[r].target, known.allow>> \in Given
  BY <1>2 DEF PermInv, AnswersFresh
<1>9. DecisionKept(r)'
  <2>1. Given \subseteq Given'
    BY <1>6, GivenStays
  <2>2. updated \in Nat /\ req[r].began \in Nat
    BY <1>1, <1>2 DEF Typed, RequestState
  <2> HIDE DEF known
  <2> QED  BY <1>1, <1>2, <1>3, <1>4, <1>5, <1>8, <2>1, <2>2 DEF DecisionKept
<1> QED  BY <1>5, <1>6, <1>7, <1>9, StepKeeps

LEMMA AskKeeps ==
    ASSUME PermInv, NEW r \in Requests, Ask(r)
    PROVE  PermInv'
<1>1. Typed /\ QuestionKept(r) /\ DecisionKept(r)
  BY InvTypes DEF PermInv
<1>2. /\ UNCHANGED <<policy, answers, next_id, waiting, closed, chan, upd, updated>>
      /\ req[r].pc = "ask" /\ req[r] \in RequestState /\ reply[r] \in ReplyState /\ updated \in Nat
  BY <1>1 DEF Ask, Typed
<1>3. /\ req' = [req EXCEPT ![r] = [req[r] EXCEPT !.pc = "wait", !.asked = updated]]
      /\ reply' = [reply EXCEPT ![r] = [reply[r] EXCEPT !.pc = "asked"]]
  BY <1>1, Zenon DEF Ask, Typed
<1>4. /\ [req[r] EXCEPT !.pc = "wait", !.asked = updated] \in RequestState
      /\ [reply[r] EXCEPT !.pc = "asked"] \in ReplyState
  BY <1>2, Zenon DEF RequestState, ReplyState
<1>5. Typed'
  BY <1>1, <1>2, <1>3, <1>4 DEF Typed
<1>6. /\ req'[r].pc = "wait" /\ req'[r].id = req[r].id /\ req'[r].target = req[r].target /\ req'[r].by = req[r].by
      /\ req'[r].began = req[r].began /\ reply'[r].pc = "asked"
  BY <1>1, <1>2, <1>3 DEF Typed, RequestState, ReplyState
<1>7. req[r].by = "nobody" /\ reply[r].pc = "none" /\ ~chan[r].full
  BY <1>1, <1>2 DEF QuestionKept, DecisionKept
<1>8. StepOf(r)
  <2>1. \A q \in Requests : q # r => req'[q] = req[q] /\ chan'[q] = chan[q] /\ reply'[q] = reply[q]
    BY <1>1, <1>2, <1>3 DEF Typed
  <2> QED  BY <2>1, <1>2, <1>6, <1>7 DEF StepOf
<1>9. QuestionKept(r)' /\ DecisionKept(r)'
  BY <1>1, <1>2, <1>6, <1>7 DEF QuestionKept, DecisionKept
<1> QED  BY <1>5, <1>8, <1>9, StepKeeps

LEMMA ReceiveKeeps ==
    ASSUME PermInv, NEW r \in Requests, Receive(r)
    PROVE  PermInv'
<1>1. Typed /\ QuestionKept(r) /\ DecisionKept(r)
  BY InvTypes DEF PermInv
<1>2. /\ UNCHANGED <<policy, answers, next_id, waiting, closed, reply, upd, updated>>
      /\ req[r].pc = "wait" /\ chan[r].full /\ req[r] \in RequestState /\ chan[r] \in ChannelState
  BY <1>1 DEF Receive, Typed
<1>3. PICK new \in RequestState :
        /\ req' = [req EXCEPT ![r] = new] /\ new.target = req[r].target /\ new.id = req[r].id
        /\ new.began = req[r].began /\ new.pc \in {"remember", "done"} /\ new.by = "app"
        /\ new.allow = chan[r].allow /\ new.remember = chan[r].remember
  <2> DEFINE new == [req[r] EXCEPT !.pc = IF Remembers THEN "remember" ELSE "done", !.allow = chan[r].allow,
                                   !.remember = chan[r].remember, !.by = "app"]
  <2>1. req' = [req EXCEPT ![r] = new]
    BY <1>1, Zenon DEF Receive, Typed
  <2>2. /\ new \in RequestState /\ new.target = req[r].target /\ new.id = req[r].id
        /\ new.began = req[r].began /\ new.pc \in {"remember", "done"} /\ new.by = "app"
        /\ new.allow = chan[r].allow /\ new.remember = chan[r].remember
    BY <1>2, Zenon DEF RequestState, ChannelState
  <2> HIDE DEF new
  <2> QED  BY <2>1, <2>2, Zenon
<1>4. chan' = [chan EXCEPT ![r] = Empty] /\ Empty \in ChannelState /\ Empty.full = FALSE
  BY DEF Receive, Empty, ChannelState
<1>5. Typed' /\ req'[r] = new /\ chan'[r] = Empty
  BY <1>1, <1>2, <1>3, <1>4 DEF Typed
<1>6. reply[r].pc = "ok" /\ chan[r].allow = reply[r].allow /\ chan[r].remember = reply[r].remember
      /\ waiting[req[r].id] = NoRequest /\ req[r].by = "nobody" /\ req[r].id # 0
  BY <1>1, <1>2 DEF QuestionKept, DecisionKept
<1>7. StepOf(r)
  <2>1. \A q \in Requests : q # r => req'[q] = req[q] /\ chan'[q] = chan[q] /\ reply'[q] = reply[q]
    BY <1>1, <1>2, <1>3, <1>4 DEF Typed
  <2> QED  BY <2>1, <1>2, <1>3, <1>5, <1>6 DEF StepOf
<1>8. QuestionKept(r)' /\ DecisionKept(r)'
  BY <1>1, <1>2, <1>3, <1>4, <1>5, <1>6 DEF QuestionKept, DecisionKept
<1> QED  BY <1>5, <1>7, <1>8, StepKeeps

LEMMA GiveUpKeeps ==
    ASSUME PermInv, NEW r \in Requests, GiveUp(r)
    PROVE  PermInv'
<1>1. Typed /\ QuestionKept(r) /\ DecisionKept(r)
  BY InvTypes DEF PermInv
<1>2. /\ UNCHANGED <<policy, answers, next_id, waiting, closed, chan, reply, upd, updated>>
      /\ req[r].pc = "wait" /\ req[r] \in RequestState
  BY <1>1 DEF GiveUp, Typed
<1>3. PICK new \in RequestState :
        /\ req' = [req EXCEPT ![r] = new] /\ new.target = req[r].target /\ new.id = req[r].id
        /\ new.began = req[r].began /\ new.pc = "giveup" /\ new.by = req[r].by
  <2> DEFINE new == [req[r] EXCEPT !.pc = "giveup"]
  <2>1. req' = [req EXCEPT ![r] = new]
    BY <1>1 DEF GiveUp, Typed
  <2>2. /\ new \in RequestState /\ new.target = req[r].target /\ new.id = req[r].id
        /\ new.began = req[r].began /\ new.pc = "giveup" /\ new.by = req[r].by
    BY <1>2 DEF RequestState
  <2> HIDE DEF new
  <2> QED  BY <2>1, <2>2, Zenon
<1>4. Typed' /\ req'[r] = new
  BY <1>1, <1>2, <1>3 DEF Typed
<1>5. req[r].by = "nobody"
  BY <1>1, <1>2 DEF DecisionKept
<1>6. StepOf(r)
  <2>1. \A q \in Requests : q # r => req'[q] = req[q] /\ chan'[q] = chan[q] /\ reply'[q] = reply[q]
    BY <1>1, <1>2, <1>3 DEF Typed
  <2> QED  BY <2>1, <1>2, <1>3, <1>4, <1>5 DEF StepOf
<1>7. QuestionKept(r)' /\ DecisionKept(r)'
  BY <1>1, <1>2, <1>3, <1>4, <1>5 DEF QuestionKept, DecisionKept
<1> QED  BY <1>4, <1>6, <1>7, StepKeeps

\* The entry of r in the map, once r has an id: it is there, and taking it out changes nothing else.
LEMMA OwnEntry ==
    ASSUME PermInv, NEW r \in Requests, req[r].id # 0
    PROVE  /\ req[r].id \in Ids /\ waiting[req[r].id] \in {r, NoRequest}
           /\ [waiting EXCEPT ![req[r].id] = NoRequest] \in [Ids -> Threads]
           /\ [waiting EXCEPT ![req[r].id] = NoRequest][req[r].id] = NoRequest
           /\ \A i \in Ids : [waiting EXCEPT ![req[r].id] = NoRequest][i] = waiting[i] \/ i = req[r].id
<1>1. Typed /\ next_id <= Cardinality(Requests) + 1 /\ req[r].id \in Nat /\ req[r].id < next_id
  BY InvTypes DEF PermInv, IdsUnique, Typed, RequestState
<1>2. req[r].id \in Ids
  BY <1>1, CountsBounded DEF Ids, Typed
<1>3. waiting[req[r].id] # NoRequest =>
        waiting[req[r].id] \in Requests /\ req[waiting[req[r].id]].id = req[r].id
  BY <1>1, <1>2 DEF PermInv, WaitingIsLive, Typed, Threads
<1>4. waiting[req[r].id] \in {r, NoRequest}
  BY <1>3 DEF PermInv, IdsUnique
<1> QED  BY <1>1, <1>2, <1>4 DEF Typed, Threads

LEMMA WithdrawKeeps ==
    ASSUME PermInv, NEW r \in Requests, Withdraw(r)
    PROVE  PermInv'
<1>1. Typed /\ QuestionKept(r) /\ DecisionKept(r)
  BY InvTypes DEF PermInv
<1>2. /\ UNCHANGED <<policy, answers, next_id, closed, reply, upd, updated>>
      /\ req[r].pc = "giveup" /\ req[r] \in RequestState
      /\ waiting' = [waiting EXCEPT ![req[r].id] = NoRequest]
  BY <1>1 DEF Withdraw, Withdrawn, Typed
<1>3. PICK new \in RequestState :
        /\ req' = [req EXCEPT ![r] = new] /\ new.target = req[r].target /\ new.id = req[r].id
        /\ new.began = req[r].began /\ new.pc = "done" /\ new.by = req[r].by
  <2> DEFINE new == [req[r] EXCEPT !.pc = "done", !.allow = FALSE]
  <2>1. req' = [req EXCEPT ![r] = new]
    BY <1>1 DEF Withdraw, Done, Typed
  <2>2. /\ new \in RequestState /\ new.target = req[r].target /\ new.id = req[r].id
        /\ new.began = req[r].began /\ new.pc = "done" /\ new.by = req[r].by
    BY <1>2, Zenon DEF RequestState
  <2> HIDE DEF new
  <2> QED  BY <2>1, <2>2, Zenon
<1>4. chan' = [chan EXCEPT ![r] = Empty] /\ Empty \in ChannelState /\ Empty.full = FALSE
  BY DEF Withdraw, Empty, ChannelState
<1>5. req[r].by = "nobody" /\ req[r].id # 0
  BY <1>1, <1>2 DEF QuestionKept, DecisionKept
<1>6. Typed' /\ req'[r] = new /\ chan'[r] = Empty /\ waiting'[req[r].id] = NoRequest
  BY <1>1, <1>2, <1>3, <1>4, <1>5, OwnEntry DEF Typed
<1>7. StepOf(r)
  <2>1. \A q \in Requests : q # r => req'[q] = req[q] /\ chan'[q] = chan[q] /\ reply'[q] = reply[q]
    BY <1>1, <1>2, <1>3, <1>4 DEF Typed
  <2>2. \A i \in Ids : waiting'[i] = waiting[i] \/ (i = req[r].id /\ waiting'[i] = NoRequest)
    BY <1>2, <1>5, <1>6, OwnEntry, Zenon
  <2> QED  BY <2>1, <2>2, <1>2, <1>3, <1>5, <1>6 DEF StepOf
<1>8. QuestionKept(r)' /\ DecisionKept(r)'
  BY <1>1, <1>2, <1>3, <1>4, <1>5, <1>6 DEF QuestionKept, DecisionKept
<1> QED  BY <1>6, <1>7, <1>8, StepKeeps

LEMMA RememberKeeps ==
    ASSUME PermInv, NEW r \in Requests, Remember(r)
    PROVE  PermInv'
<1> DEFINE kept == [known |-> TRUE, allow |-> req[r].allow, asked |-> req[r].asked, stored |-> updated]
<1>1. Typed /\ QuestionKept(r) /\ DecisionKept(r)
  BY InvTypes DEF PermInv
<1>2. /\ UNCHANGED <<policy, next_id, waiting, closed, chan, reply, upd, updated>>
      /\ req[r].pc = "remember" /\ req[r] \in RequestState /\ req[r].target \in Targets /\ updated \in Nat
  BY <1>1 DEF Remember, Typed, RequestState
<1>3. answers' = IF req[r].remember THEN [answers EXCEPT ![req[r].target] = kept] ELSE answers
  BY DEF Remember, Keeps
<1>4. kept \in Answer /\ kept.stored = updated /\ kept.allow = req[r].allow
  BY <1>2 DEF RequestState, Answer
<1> HIDE DEF kept
<1>5. PICK new \in RequestState :
        /\ req' = [req EXCEPT ![r] = new] /\ new.target = req[r].target /\ new.id = req[r].id
        /\ new.began = req[r].began /\ new.pc = "done" /\ new.by = req[r].by
        /\ new.allow = req[r].allow /\ new.remember = req[r].remember
  <2> DEFINE new == [req[r] EXCEPT !.pc = "done"]
  <2>1. req' = [req EXCEPT ![r] = new]
    BY <1>1 DEF Remember, Typed
  <2>2. /\ new \in RequestState /\ new.target = req[r].target /\ new.id = req[r].id
        /\ new.began = req[r].began /\ new.pc = "done" /\ new.by = req[r].by
        /\ new.allow = req[r].allow /\ new.remember = req[r].remember
    BY <1>2 DEF RequestState
  <2> HIDE DEF new
  <2> QED  BY <2>1, <2>2, Zenon
<1>6. Typed' /\ req'[r] = new
  BY <1>1, <1>2, <1>3, <1>4, <1>5 DEF Typed
<1>7. /\ req[r].by = "app" /\ reply[r].pc = "ok" /\ req[r].allow = reply[r].allow
      /\ req[r].remember = reply[r].remember /\ req[r].id # 0 /\ waiting[req[r].id] = NoRequest
  BY <1>1, <1>2 DEF QuestionKept, DecisionKept
<1>8. req[r].remember => <<req[r].target, req[r].allow>> \in Given'
  <2> SUFFICES ASSUME req[r].remember PROVE <<req[r].target, req[r].allow>> \in Given'
    OBVIOUS
  <2>1. /\ req'[r].by = "app" /\ reply'[r].remember /\ req'[r].target = req[r].target
        /\ reply'[r].allow = req[r].allow
    BY <1>2, <1>5, <1>6, <1>7
  <2> QED  BY <2>1 DEF Given
<1>9. \A t \in Targets : \/ answers'[t] = answers[t]
                         \/ answers'[t].stored = updated /\ <<t, answers'[t].allow>> \in Given'
  BY <1>1, <1>2, <1>3, <1>4, <1>8 DEF Typed
<1>10. StepOf(r)
  <2>1. \A q \in Requests : q # r => req'[q] = req[q] /\ chan'[q] = chan[q] /\ reply'[q] = reply[q]
    BY <1>1, <1>2, <1>5 DEF Typed
  <2> QED  BY <2>1, <1>2, <1>5, <1>6, <1>7, <1>9 DEF StepOf
<1>11. QuestionKept(r)' /\ DecisionKept(r)'
  BY <1>1, <1>2, <1>5, <1>6, <1>7 DEF QuestionKept, DecisionKept
<1> QED  BY <1>6, <1>10, <1>11, StepKeeps

-----------------------------------------------------------------------------
(* Steps of a reply *)

LEMMA AppAnswersKeeps ==
    ASSUME PermInv, NEW r \in Requests, AppAnswers(r)
    PROVE  PermInv'
<1>1. Typed /\ QuestionKept(r) /\ DecisionKept(r)
  BY InvTypes DEF PermInv
<1>2. /\ UNCHANGED <<policy, answers, next_id, waiting, closed, req, chan, upd, updated>>
      /\ reply[r].pc = "asked" /\ reply[r] \in ReplyState
  BY <1>1 DEF AppAnswers, Typed
<1>3. PICK new \in ReplyState : reply' = [reply EXCEPT ![r] = new] /\ new.pc = "take"
  <2>1. PICK allow, remember \in BOOLEAN :
          reply' = [reply EXCEPT ![r] = [reply[r] EXCEPT !.pc = "take", !.allow = allow, !.remember = remember]]
    BY <1>1, Zenon DEF AppAnswers, Typed
  <2>2. [reply[r] EXCEPT !.pc = "take", !.allow = allow, !.remember = remember] \in ReplyState
        /\ [reply[r] EXCEPT !.pc = "take", !.allow = allow, !.remember = remember].pc = "take"
    BY <1>2, Zenon DEF ReplyState
  <2> QED  BY <2>1, <2>2, Zenon
<1>4. Typed' /\ reply'[r] = new
  BY <1>1, <1>2, <1>3 DEF Typed
<1>5. req[r].by # "app" /\ ~chan[r].full
  BY <1>1, <1>2, Zenon DEF QuestionKept, DecisionKept
<1>6. req[r].id \in Ids /\ waiting[req[r].id] # NoRequest => req[r].pc \in {"ask", "wait", "giveup"}
  BY <1>1, <1>2, OwnEntry, Zenon DEF QuestionKept, PermInv, WaitingIsLive
<1>7. StepOf(r)
  <2>1. \A q \in Requests : q # r => req'[q] = req[q] /\ chan'[q] = chan[q] /\ reply'[q] = reply[q]
    BY <1>1, <1>2, <1>3, Zenon DEF Typed
  <2> QED  BY <2>1, <1>2, <1>5, <1>6 DEF StepOf
<1>8. Given \subseteq Given'
  BY <1>7, GivenStays
<1>9. QuestionKept(r)' /\ DecisionKept(r)'
  BY <1>1, <1>2, <1>3, <1>4, <1>5, <1>8 DEF QuestionKept, DecisionKept
<1> QED  BY <1>4, <1>7, <1>9, StepKeeps

LEMMA ReplyTakeKeeps ==
    ASSUME PermInv, NEW r \in Requests, ReplyTake(r)
    PROVE  PermInv'
<1> DEFINE to == waiting[req[r].id]
<1>1. Typed /\ QuestionKept(r) /\ DecisionKept(r)
  BY InvTypes DEF PermInv
<1>2. /\ UNCHANGED <<policy, answers, next_id, closed, req, chan, upd, updated>>
      /\ reply[r].pc = "take" /\ reply[r] \in ReplyState
      /\ waiting' = [waiting EXCEPT ![req[r].id] = NoRequest]
  BY <1>1, Zenon DEF ReplyTake, TakeSender, Typed
<1>3. req[r].by # "app" /\ ~chan[r].full /\ req[r].id # 0
  BY <1>1, <1>2 DEF QuestionKept, DecisionKept
<1>4. to \in {r, NoRequest} /\ req[r].id \in Ids
  BY <1>3, OwnEntry
<1>5. PICK new \in ReplyState :
        /\ reply' = [reply EXCEPT ![r] = new] /\ new.to = to
        /\ new.pc = IF to = NoRequest THEN "unknown" ELSE "send"
  <2> DEFINE new == [reply[r] EXCEPT !.to = to, !.pc = IF to = NoRequest THEN "unknown" ELSE "send"]
  <2>1. reply' = [reply EXCEPT ![r] = new]
    BY <1>1, Zenon DEF ReplyTake, Typed
  <2>2. new \in ReplyState /\ new.to = to /\ new.pc = IF to = NoRequest THEN "unknown" ELSE "send"
    <3> HIDE DEF to
    <3> QED  BY <1>2, <1>4, Zenon DEF ReplyState, Threads
  <2> HIDE DEF new
  <2> QED  BY <2>1, <2>2, Zenon
<1>6. Typed' /\ reply'[r] = new /\ waiting'[req[r].id] = NoRequest
  BY <1>1, <1>2, <1>3, <1>5, OwnEntry DEF Typed
<1>7. StepOf(r)
  <2>1. \A q \in Requests : q # r => req'[q] = req[q] /\ chan'[q] = chan[q] /\ reply'[q] = reply[q]
    BY <1>1, <1>2, <1>5 DEF Typed
  <2>2. \A i \in Ids : waiting'[i] = waiting[i] \/ (i = req[r].id /\ waiting'[i] = NoRequest)
    BY <1>2, <1>3, <1>6, OwnEntry, Zenon
  <2> QED  BY <2>1, <2>2, <1>2, <1>3, <1>6 DEF StepOf
<1>8. Given \subseteq Given'
  BY <1>7, GivenStays
<1>9. to = NoRequest => req[r].pc \in {"giveup", "done"} \/ closed
  BY <1>1, <1>2, <1>3, PermissionsAssumption, Zenon DEF QuestionKept, DecisionKept
<1>10. QuestionKept(r)'
  BY <1>1, <1>2, <1>3, <1>4, <1>5, <1>6, PermissionsAssumption, Zenon DEF QuestionKept
<1>11. DecisionKept(r)'
  BY <1>1, <1>2, <1>3, <1>5, <1>6, <1>8, <1>9 DEF DecisionKept
<1> QED  BY <1>6, <1>7, <1>10, <1>11, StepKeeps

LEMMA ReplySendKeeps ==
    ASSUME PermInv, NEW r \in Requests, ReplySend(r)
    PROVE  PermInv'
<1> DEFINE alive == req[r].pc \in {"ask", "wait", "giveup"}
<1> DEFINE sent == [full |-> TRUE, allow |-> reply[r].allow, remember |-> reply[r].remember]
<1>1. Typed /\ QuestionKept(r) /\ DecisionKept(r)
  BY InvTypes DEF PermInv
<1>2. /\ UNCHANGED <<policy, answers, next_id, waiting, closed, req, upd, updated>>
      /\ reply[r].pc = "send" /\ reply[r] \in ReplyState /\ reply[r].to = r
  BY <1>1 DEF ReplySend, Typed, QuestionKept
<1>3. /\ req[r].by # "app" /\ ~chan[r].full /\ req[r].id # 0 /\ waiting[req[r].id] = NoRequest
      /\ req[r].pc \in {"wait", "giveup", "done"}
  BY <1>1, <1>2 DEF QuestionKept, DecisionKept
<1>4. chan' = IF alive THEN [chan EXCEPT ![r] = sent] ELSE chan
  BY <1>2 DEF ReplySend
<1>5. sent \in ChannelState /\ sent.full /\ sent.allow = reply[r].allow /\ sent.remember = reply[r].remember
  BY <1>2 DEF ReplyState, ChannelState
<1> HIDE DEF sent
<1>6. PICK new \in ReplyState :
        /\ reply' = [reply EXCEPT ![r] = new] /\ new.pc = IF alive THEN "ok" ELSE "unknown"
        /\ new.allow = reply[r].allow /\ new.remember = reply[r].remember
  <2> DEFINE new == [reply[r] EXCEPT !.pc = IF alive THEN "ok" ELSE "unknown"]
  <2>1. reply' = [reply EXCEPT ![r] = new]
    BY <1>1, <1>2 DEF ReplySend, Typed
  <2>2. /\ new \in ReplyState /\ new.pc = IF alive THEN "ok" ELSE "unknown"
        /\ new.allow = reply[r].allow /\ new.remember = reply[r].remember
    BY <1>2 DEF ReplyState
  <2> HIDE DEF new
  <2> QED  BY <2>1, <2>2, Zenon
<1>7. Typed' /\ reply'[r] = new /\ chan'[r] = IF alive THEN sent ELSE chan[r]
  BY <1>1, <1>2, <1>4, <1>5, <1>6 DEF Typed
<1>8. StepOf(r)
  <2>1. \A q \in Requests : q # r => req'[q] = req[q] /\ chan'[q] = chan[q] /\ reply'[q] = reply[q]
    BY <1>1, <1>2, <1>4, <1>6, Zenon DEF Typed
  <2> QED  BY <2>1, <1>2, <1>3 DEF StepOf
<1>9. Given \subseteq Given'
  BY <1>8, GivenStays
<1>10. QuestionKept(r)'
  BY <1>1, <1>2, <1>3, <1>5, <1>6, <1>7, Zenon DEF QuestionKept
<1>11. DecisionKept(r)'
  BY <1>1, <1>2, <1>3, <1>6, <1>7, <1>9 DEF DecisionKept
<1> QED  BY <1>7, <1>8, <1>10, <1>11, StepKeeps

-----------------------------------------------------------------------------
(* The other steps *)

\* Every request but r is as it was, and the map holds a new sender at the new id.
LEMMA RegisterKeeps ==
    ASSUME PermInv, NEW r \in Requests, Register(r)
    PROVE  PermInv'
<1>1. Typed /\ QuestionKept(r) /\ DecisionKept(r)
  BY InvTypes DEF PermInv
<1>2. /\ UNCHANGED <<policy, answers, closed, chan, reply, upd, updated>>
      /\ req[r].pc = "register" /\ req[r] \in RequestState
      /\ next_id' = next_id + 1 /\ waiting' = [waiting EXCEPT ![next_id] = r]
  BY <1>1 DEF Register, NextId, Typed
<1>3. /\ req[r].id = 0 /\ req[r].by = "nobody" /\ reply[r].pc = "none" /\ ~chan[r].full
  BY <1>1, <1>2 DEF QuestionKept, DecisionKept, Typed, ReplyState, ChannelState
<1>4. PICK new \in RequestState :
        /\ req' = [req EXCEPT ![r] = new] /\ new.target = req[r].target /\ new.id = next_id
        /\ new.began = req[r].began /\ new.pc = "ask" /\ new.by = req[r].by
  <2> DEFINE new == [req[r] EXCEPT !.pc = "ask", !.id = next_id]
  <2>1. req' = [req EXCEPT ![r] = new]
    BY <1>1, Zenon DEF Register, Typed
  <2>2. /\ new \in RequestState /\ new.target = req[r].target /\ new.id = next_id
        /\ new.began = req[r].began /\ new.pc = "ask" /\ new.by = req[r].by
    BY <1>1, <1>2, Zenon DEF RequestState, Typed
  <2> HIDE DEF new
  <2> QED  BY <2>1, <2>2, Zenon
<1>5. Numbered' = Numbered \union {r} /\ r \notin Numbered
  BY <1>1, <1>3, <1>4 DEF Numbered, Typed
<1>6. Cardinality(Numbered') = Cardinality(Numbered) + 1
  BY <1>5, CountsBounded, FS_AddElement, Zenon
<1>7. next_id = Cardinality(Numbered) + 1 /\ Cardinality(Numbered) < Cardinality(Requests)
  BY <1>5, CountsBounded DEF PermInv, IdsUnique
<1>8. next_id \in Ids
  BY <1>1, <1>7, CountsBounded DEF Ids, Typed
<1>9. Typed' /\ req'[r] = new
  BY <1>1, <1>2, <1>4, <1>8 DEF Typed, Threads
<1>10. TypeOK'
  <2>1. next_id' <= Cardinality(Requests) + 1
    BY <1>2, <1>7, CountsBounded
  <2> QED  BY <1>2, <1>9, <2>1, InvTypes, TypePartsNext
<1>11. \A q \in Requests : q # r => req'[q] = req[q]
  BY <1>1, <1>4 DEF Typed
<1>12. \A q \in Requests : req[q].id \in Nat /\ req[q].id < next_id
  BY <1>1 DEF PermInv, IdsUnique, Typed, RequestState
<1>13. IdsUnique'
  <2>1. next_id' = Cardinality(Numbered') + 1
    BY <1>2, <1>6, <1>7
  <2>2. next_id \in Nat
    BY <1>1 DEF Typed
  <2>3. \A q \in Requests : req'[q].id < next_id'
    BY <1>2, <1>4, <1>9, <1>11, <1>12, <2>2
  <2>4. \A p, q \in Requests : req'[p].id # 0 /\ req'[p].id = req'[q].id => p = q
    <3> SUFFICES ASSUME NEW p \in Requests, NEW q \in Requests, req'[p].id # 0, req'[p].id = req'[q].id
                 PROVE  p = q
      OBVIOUS
    <3>1. CASE p # r /\ q # r
      BY <3>1, <1>11 DEF PermInv, IdsUnique
    <3>2. CASE p = r \/ q = r
      BY <3>2, <1>4, <1>9, <1>11, <1>12, <2>2
    <3> QED  BY <3>1, <3>2
  <2> QED  BY <2>1, <2>3, <2>4 DEF IdsUnique
<1>14. WaitingIsLive'
  <2> SUFFICES ASSUME NEW i \in Ids, waiting'[i] # NoRequest
               PROVE  req'[waiting'[i]].id = i /\ req'[waiting'[i]].pc \in {"ask", "wait", "giveup"}
    BY <1>10 DEF WaitingIsLive, Ids
  <2>1. CASE i = next_id
    BY <2>1, <1>1, <1>2, <1>4, <1>9 DEF Typed
  <2>2. CASE i # next_id
    <3>1. waiting'[i] = waiting[i] /\ waiting[i] \in Requests
      BY <2>2, <1>1, <1>2 DEF Typed, Threads
    <3>2. req[waiting[i]].id = i /\ req[waiting[i]].pc \in {"ask", "wait", "giveup"}
      BY <3>1 DEF PermInv, WaitingIsLive
    <3>3. waiting[i] # r
      BY <3>2, <1>2
    <3> QED  BY <3>1, <3>2, <3>3, <1>11
  <2> QED  BY <2>1, <2>2
<1>15. Given' = Given
  <2>1. \A q \in Requests : req'[q].target = req[q].target /\ req'[q].by = req[q].by
    BY <1>4, <1>9, <1>11
  <2>2. {p \in Requests : req'[p].by = "app" /\ reply'[p].remember} = {p \in Requests : req[p].by = "app" /\ reply[p].remember}
    BY <2>1, <1>2
  <2> QED  BY <2>1, <2>2, <1>2 DEF Given
<1>16. AnswersFresh'
  <2>1. Returned' = Returned
    BY <1>2, Zenon DEF Returned
  <2> QED  BY <2>1, <1>2, <1>15 DEF PermInv, AnswersFresh
<1>17. QuestionKept(r)' /\ DecisionKept(r)'
  <2>1. waiting'[next_id] = r /\ next_id # 0
    BY <1>1, <1>2, <1>8 DEF Typed
  <2> QED  BY <2>1, <1>1, <1>2, <1>3, <1>4, <1>9 DEF QuestionKept, DecisionKept
<1>18. ASSUME NEW q \in Requests, q # r PROVE QuestionKept(q)' /\ DecisionKept(q)'
  <2>1. QuestionKept(q) /\ DecisionKept(q)
    BY DEF PermInv
  <2>2. req'[q] = req[q] /\ chan'[q] = chan[q] /\ reply'[q] = reply[q] /\ closed' = closed /\ updated' = updated
    BY <1>2, <1>11, <1>18
  <2>3. req[q].id # 0 => waiting'[req[q].id] = waiting[req[q].id]
    <3>1. req[q].id # next_id /\ (req[q].id # 0 => req[q].id \in Ids)
      BY <1>1, <1>8, <1>12, CountsBounded, SMTT(30) DEF Ids, Typed
    <3> QED  BY <3>1, <1>1, <1>2 DEF Typed
  <2>4. QuestionKept(q)'
    BY <2>1, <2>2, <2>3, Zenon DEF QuestionKept
  <2>5. DecisionKept(q)'
    BY <2>1, <2>2, <1>15 DEF DecisionKept
  <2> QED  BY <2>4, <2>5
<1> QED  BY <1>13, <1>14, <1>16, <1>17, <1>18 DEF PermInv

\* A step that changes the policy or an update's own thread touches no question.
LEMMA PolicyKeeps ==
    ASSUME PermInv, UNCHANGED <<answers, next_id, waiting, closed, req, chan, reply, updated>>,
           policy' \in Policy, upd' \in [Updates -> UpdateState], Returned' = Returned
    PROVE  PermInv'
<1>1. TypeOK'
  <2>1. Typed'
    BY InvTypes DEF Typed
  <2> QED  BY <2>1, InvTypes, TypePartsNext
<1>2. WaitingIsLive' /\ IdsUnique' /\ Given' = Given
  BY <1>1 DEF PermInv, WaitingIsLive, IdsUnique, Numbered, Given, Ids
<1>3. AnswersFresh'
  BY <1>2, Zenon DEF PermInv, AnswersFresh
<1>4. ASSUME NEW r \in Requests PROVE QuestionKept(r)' /\ DecisionKept(r)'
  <2>1. QuestionKept(r) /\ DecisionKept(r)
    BY DEF PermInv
  <2> QED  BY <2>1, <1>2, Zenon DEF QuestionKept, DecisionKept
<1> QED  BY <1>2, <1>3, <1>4 DEF PermInv

LEMMA UpdateKeeps ==
    ASSUME PermInv, NEW u \in Updates, Update(u)
    PROVE  PermInv'
<1>1. policy \in Policy /\ upd \in [Updates -> UpdateState] /\ upd[u] \in UpdateState
  BY InvTypes
<1>2. PICK fields \in SUBSET {"mode", "rest"} \ {{}} : \E mode \in IF "mode" \in fields THEN Modes ELSE {"ask"} :
        upd' = [upd EXCEPT ![u] = [pc |-> "write", fields |-> fields, mode |-> mode,
                                   base |-> IF Copied THEN policy ELSE @.base]]
  BY Zenon DEF Update
<1>3. PICK mode \in IF "mode" \in fields THEN Modes ELSE {"ask"} :
        upd' = [upd EXCEPT ![u] = [pc |-> "write", fields |-> fields, mode |-> mode,
                                   base |-> IF Copied THEN policy ELSE upd[u].base]]
  BY <1>1, <1>2, Zenon
<1> DEFINE new == [pc |-> "write", fields |-> fields, mode |-> mode, base |-> IF Copied THEN policy ELSE upd[u].base]
<1>4. mode \in Modes
  BY <1>3, PermissionsAssumption
<1>5. new \in UpdateState /\ new.pc = "write"
  BY <1>1, <1>2, <1>4, Zenon DEF UpdateState
<1>6. upd' = [upd EXCEPT ![u] = new]
  BY <1>3
<1> HIDE DEF new
<1>7. upd' \in [Updates -> UpdateState] /\ \A v \in Updates : upd'[v] = IF v = u THEN new ELSE upd[v]
  BY <1>1, <1>5, <1>6, Zenon
<1>8. UNCHANGED <<policy, answers, next_id, waiting, closed, req, chan, reply, updated>> /\ upd[u].pc = "idle"
  BY DEF Update
<1>9. Returned' = Returned
  BY <1>5, <1>7, <1>8 DEF Returned
<1> QED  BY <1>1, <1>7, <1>8, <1>9, PolicyKeeps

LEMMA UpdateWriteKeeps ==
    ASSUME PermInv, NEW u \in Updates, UpdateWrite(u)
    PROVE  PermInv'
<1>1. policy \in Policy /\ upd \in [Updates -> UpdateState] /\ upd[u] \in UpdateState
  BY InvTypes
<1>2. /\ UNCHANGED <<answers, next_id, waiting, closed, req, chan, reply, updated>> /\ upd[u].pc = "write"
      /\ policy' = Merged(IF Copied THEN upd[u].base ELSE policy, u)
      /\ upd' = [upd EXCEPT ![u] = [upd[u] EXCEPT !.pc = "clear"]]
  BY <1>1 DEF UpdateWrite
<1>3. [upd[u] EXCEPT !.pc = "clear"] \in UpdateState /\ [upd[u] EXCEPT !.pc = "clear"].pc = "clear"
  BY <1>1 DEF UpdateState
<1>4. upd' \in [Updates -> UpdateState] /\ Returned' = Returned
  BY <1>1, <1>2, <1>3 DEF Returned
<1>5. policy' \in Policy
  <2> DEFINE base == IF Copied THEN upd[u].base ELSE policy
  <2>1. base \in Policy
    BY <1>1 DEF UpdateState
  <2>2. PICK b \in Policy : policy' = Merged(b, u)
    BY <1>2, <2>1
  <2>3. b.mode \in Modes /\ b.rest \in Updates \union {"first"}
    BY <2>2 DEF Policy
  <2>4. upd[u].mode \in Modes
    BY <1>1 DEF UpdateState
  <2> QED  BY <2>2, <2>3, <2>4 DEF Merged, Policy
<1> QED  BY <1>2, <1>4, <1>5, PolicyKeeps

LEMMA UpdateClearKeeps ==
    ASSUME PermInv, NEW u \in Updates, UpdateClear(u)
    PROVE  PermInv'
<1>1. Typed /\ policy \in Policy /\ upd \in [Updates -> UpdateState] /\ upd[u] \in UpdateState
  BY InvTypes
<1>2. /\ UNCHANGED <<policy, next_id, waiting, closed, req, chan, reply>> /\ upd[u].pc = "clear"
      /\ answers' = [t \in Targets |-> Unknown] /\ updated' = updated + 1
      /\ upd' = [upd EXCEPT ![u] = [upd[u] EXCEPT !.pc = "done"]]
  BY <1>1 DEF UpdateClear, Forgotten
<1>3. [upd[u] EXCEPT !.pc = "done"] \in UpdateState /\ [upd[u] EXCEPT !.pc = "done"].pc = "done"
  BY <1>1 DEF UpdateState
<1>4. upd' \in [Updates -> UpdateState] /\ Returned' = Returned \union {u} /\ u \notin Returned
  BY <1>1, <1>2, <1>3 DEF Returned
<1>5. Cardinality(Returned') = Cardinality(Returned) + 1
  BY <1>4, CountsBounded, FS_AddElement, Zenon
<1>6. Cardinality(Returned') <= Cardinality(Updates)
  <2>1. Returned' \in SUBSET Updates
    BY <1>4 DEF Returned
  <2> QED  BY <2>1, FS_Subset, PermissionsAssumption
<1>7. updated = Cardinality(Returned) /\ updated \in Nat
  BY <1>1 DEF PermInv, AnswersFresh, Typed
<1>8. Unknown \in Answer /\ Unknown.known = FALSE
  BY DEF Unknown, Answer
<1>9. Typed'
  BY <1>1, <1>2, <1>7, <1>8 DEF Typed
<1>10. TypeOK'
  BY <1>1, <1>2, <1>4, <1>5, <1>6, <1>7, <1>9, InvTypes, TypePartsNext
<1>11. WaitingIsLive' /\ IdsUnique' /\ Given' = Given
  BY <1>2, <1>10 DEF PermInv, WaitingIsLive, IdsUnique, Numbered, Given, Ids
<1>12. AnswersFresh'
  BY <1>2, <1>5, <1>7, <1>8 DEF AnswersFresh
<1>13. ASSUME NEW r \in Requests PROVE QuestionKept(r)' /\ DecisionKept(r)'
  <2>1. QuestionKept(r) /\ DecisionKept(r) /\ req[r].began \in Nat
    BY <1>1 DEF PermInv, Typed, RequestState
  <2>2. req[r].began <= updated => req[r].began <= updated'
    BY <1>2, <1>7, <2>1
  <2> QED  BY <2>1, <2>2, <1>2, <1>11 DEF QuestionKept, DecisionKept
<1> QED  BY <1>11, <1>12, <1>13 DEF PermInv

LEMMA CloseKeeps ==
    ASSUME PermInv, Close
    PROVE  PermInv'
<1>1. Typed
  BY InvTypes
<1>2. /\ UNCHANGED <<policy, answers, next_id, req, chan, reply, upd, updated>>
      /\ closed' = TRUE /\ waiting' = [i \in Ids |-> NoRequest]
  BY DEF Close
<1>3. Typed'
  BY <1>1, <1>2 DEF Typed, Threads
<1>4. TypeOK'
  BY <1>2, <1>3, InvTypes, TypePartsNext, Zenon
<1>5. WaitingIsLive' /\ IdsUnique' /\ Given' = Given
  BY <1>2, <1>4 DEF PermInv, WaitingIsLive, IdsUnique, Numbered, Given, Ids
<1>6. AnswersFresh'
  BY <1>2, <1>5, Zenon DEF PermInv, AnswersFresh, Returned
<1>7. ASSUME NEW r \in Requests PROVE QuestionKept(r)' /\ DecisionKept(r)'
  <2>1. QuestionKept(r) /\ DecisionKept(r)
    BY DEF PermInv
  <2>2. req[r].id # 0 => waiting'[req[r].id] = NoRequest
    BY <1>2, OwnEntry
  <2> QED  BY <2>1, <2>2, <1>2, <1>5 DEF QuestionKept, DecisionKept
<1> QED  BY <1>5, <1>6, <1>7 DEF PermInv

LEMMA InitPermInv == Init => PermInv
<1> SUFFICES ASSUME Init PROVE PermInv
  BY Zenon
<1>1. PICK m \in Modes : policy = [mode |-> m, rest |-> "first"]
  BY Zenon DEF Init
<1>2. ASSUME NEW r \in Requests
      PROVE  /\ req[r] \in RequestState
             /\ req[r].pc = "idle" /\ req[r].id = 0 /\ req[r].by = "nobody" /\ req[r].began = 0
             /\ reply[r].pc = "none" /\ ~chan[r].full
  <2>1. PICK t \in Targets :
          req[r] = [pc |-> "idle", target |-> t, began |-> 0, id |-> 0, asked |-> 0, stored |-> 0,
                    allow |-> FALSE, remember |-> FALSE, by |-> "nobody"]
    BY Zenon DEF Init
  <2>2. chan[r] = Empty /\ reply[r] = [pc |-> "none", to |-> NoRequest, allow |-> FALSE, remember |-> FALSE]
    BY Zenon DEF Init
  <2> QED  BY <2>1, <2>2 DEF Empty, RequestState
<1>3. \A u \in Updates : upd[u].pc # "done"
  BY Zenon DEF Init
<1>4. next_id = 1 /\ updated = 0 /\ closed = FALSE /\ waiting = [i \in Ids |-> NoRequest]
  BY DEF Init
<1>5. Numbered = {} /\ Returned = {}
  BY <1>2, <1>3 DEF Numbered, Returned
<1>6. Cardinality(Numbered) = 0 /\ Cardinality(Returned) = 0
  BY <1>5, FS_EmptySet
<1>7. Typed
  <2>1. answers \in [Targets -> Answer]
    BY Zenon DEF Init, Answer, Unknown
  <2>2. chan \in [Requests -> ChannelState]
    BY Zenon DEF Init, ChannelState, Empty
  <2>3. reply \in [Requests -> ReplyState]
    BY Zenon DEF Init, ReplyState, Threads
  <2>4. req \in [Requests -> RequestState]
    BY <1>2 DEF Init
  <2>5. waiting \in [Ids -> Threads]
    BY <1>4 DEF Threads
  <2>6. next_id \in Nat \ {0} /\ updated \in Nat
    BY <1>4
  <2>7. closed \in BOOLEAN
    BY <1>4, Zenon
  <2> QED  BY <2>1, <2>2, <2>3, <2>4, <2>5, <2>6, <2>7, Zenon DEF Typed
<1>8. policy \in Policy /\ upd \in [Updates -> UpdateState]
  BY <1>1, PermissionsAssumption DEF Init, Policy, UpdateState
<1>9. TypeOK
  BY <1>4, <1>7, <1>8, TypeParts, CountsBounded
<1>10. WaitingIsLive
  BY <1>4, <1>9, Zenon DEF WaitingIsLive
<1>11. IdsUnique /\ AnswersFresh
  <2>1. IdsUnique
    BY <1>2, <1>4, <1>6 DEF IdsUnique
  <2>2. \A t \in Targets : answers[t] = Unknown
    BY DEF Init
  <2>3. ~Unknown.known
    BY Zenon DEF Unknown
  <2>4. updated = Cardinality(Returned)
    BY <1>4, <1>6
  <2> QED  BY <2>1, <2>2, <2>3, <2>4, Zenon DEF AnswersFresh
<1>12. \A r \in Requests : QuestionKept(r) /\ DecisionKept(r)
  BY <1>2, <1>4 DEF QuestionKept, DecisionKept
<1> QED  BY <1>10, <1>11, <1>12 DEF PermInv

LEMMA NextPermInv == PermInv /\ [Next]_vars => PermInv'
<1> SUFFICES ASSUME PermInv, [Next]_vars PROVE PermInv'
  OBVIOUS
<1>1. ASSUME NEW r \in Requests, Request(r) PROVE PermInv'
  BY <1>1, BeginKeeps, LookupKeeps, RegisterKeeps, AskKeeps, ReceiveKeeps, GiveUpKeeps, WithdrawKeeps,
     RememberKeeps DEF Request
<1>2. ASSUME NEW r \in Requests, AppAnswers(r) \/ ReplyTake(r) \/ ReplySend(r) PROVE PermInv'
  BY <1>2, AppAnswersKeeps, ReplyTakeKeeps, ReplySendKeeps
<1>3. ASSUME NEW u \in Updates, Update(u) \/ UpdateWrite(u) \/ UpdateClear(u) PROVE PermInv'
  BY <1>3, UpdateKeeps, UpdateWriteKeeps, UpdateClearKeeps
<1>4. CASE Close
  BY <1>4, CloseKeeps
<1>5. CASE UNCHANGED vars
  <2>1. policy' \in Policy /\ upd' \in [Updates -> UpdateState] /\ Returned' = Returned
    BY <1>5, InvTypes DEF vars, Returned
  <2> QED  BY <1>5, <2>1, PolicyKeeps DEF vars
<1> QED  BY <1>1, <1>2, <1>3, <1>4, <1>5 DEF Next

LEMMA PermInvImplies == PermInv => AnsweredByApp /\ WaitingIsLive /\ RejectedIsUnused /\ ForgetsStored
<1> SUFFICES ASSUME PermInv PROVE AnsweredByApp /\ WaitingIsLive /\ RejectedIsUnused /\ ForgetsStored
  OBVIOUS
<1>1. \A r \in Requests : DecisionKept(r)
  BY DEF PermInv
<1>2. ASSUME NEW r \in Requests, req[r].by = "memory"
      PROVE  \E q \in Requests : /\ req[q].target = req[r].target /\ req[q].by = "app"
                                 /\ reply[q].remember /\ reply[q].allow = req[r].allow
  <2>1. <<req[r].target, req[r].allow>> \in Given
    BY <1>1, <1>2 DEF DecisionKept
  <2> QED  BY <2>1 DEF Given
<1>3. AnsweredByApp
  BY <1>1, <1>2, Zenon DEF AnsweredByApp, DecisionKept
<1>4. RejectedIsUnused
  BY <1>1, Zenon DEF RejectedIsUnused, DecisionKept
<1>5. ForgetsStored
  BY <1>1, Zenon DEF ForgetsStored, DecisionKept
<1> QED  BY <1>3, <1>4, <1>5 DEF PermInv

LEMMA PermInvHolds == Spec => []PermInv
BY InitPermInv, NextPermInv, PTL DEF Spec

\* A request is decided only by the app's answer to its own question or by one the app gave for the
\* same target and said to remember (ask_app, reply and the lookups of protocol.rs, sshagent.rs and
\* serial.rs): however replies, timeouts, close() and updates interleave.
THEOREM AnsweredByAppHolds == Spec => []AnsweredByApp
BY PermInvHolds, PermInvImplies, PTL

\* The map of hostfn.rs never keeps the sender of a request that has left ask_app.
THEOREM WaitingIsLiveHolds == Spec => []WaitingIsLive
BY PermInvHolds, PermInvImplies, PTL

\* reply() says "unknown-id" only of a question that was given up or ended by close(), and its answer
\* decides nothing.
THEOREM RejectedIsUnusedHolds == Spec => []RejectedIsUnused
BY PermInvHolds, PermInvImplies, PTL

\* No request that begins after policy.update has returned is decided by an answer stored before it.
THEOREM ForgetsStoredHolds == Spec => []ForgetsStored
BY PermInvHolds, PermInvImplies, PTL
=============================================================================
