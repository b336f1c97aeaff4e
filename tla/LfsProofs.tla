----------------------------- MODULE LfsProofs ------------------------------
(***************************************************************************)
(* Proofs about git-lfs: what the transfer queue holds and tells, for      *)
(* every list of objects, size of a batch, number of workers, of retries   *)
(* and set of adapters, and what a download puts into the store, for every *)
(* size, every set of processes and every number of attempts.              *)
(***************************************************************************)
EXTENDS TransferQueue, PartFile, FiniteSetTheorems, TLAPS

-----------------------------------------------------------------------------
(* Lists without repetition *)

Distinct(s, S) == s \in Seq(Oids) /\ IsInjective(s) /\ Range(s) = S

\* The empty list.
LEMMA EmptyDistinct == Distinct(<<>>, {})
BY DEF Distinct, IsInjective, Range

\* A list has distinct elements exactly if no two positions hold the same one.
LEMMA DistinctFacts ==
    ASSUME NEW s, NEW S, Distinct(s, S)
    PROVE  /\ s \in Seq(Oids) /\ Len(s) \in Nat /\ DOMAIN s = 1..Len(s) /\ S \subseteq Oids
           /\ \A i, j \in 1..Len(s) : s[i] = s[j] => i = j
           /\ \A i \in 1..Len(s) : s[i] \in S
           /\ \A o \in S : \E i \in 1..Len(s) : s[i] = o
<1>1. s \in Seq(Oids) /\ IsInjective(s) /\ Range(s) = S
  BY Zenon DEF Distinct
<1>2. Len(s) \in Nat /\ DOMAIN s = 1..Len(s) /\ \A i \in 1..Len(s) : s[i] \in Oids
  BY <1>1
<1>3. \A i, j \in 1..Len(s) : s[i] = s[j] => i = j
  BY <1>1, <1>2, Zenon DEF IsInjective
<1>4. /\ \A i \in 1..Len(s) : s[i] \in S
      /\ \A o \in S : \E i \in 1..Len(s) : s[i] = o
  BY <1>1, <1>2, Zenon DEF Range
<1> QED  BY <1>1, <1>2, <1>3, <1>4

\* The converse.
Lists(s, n, S) ==
    /\ s \in Seq(Oids) /\ Len(s) = n
    /\ \A i, j \in 1..n : s[i] = s[j] => i = j
    /\ \A i \in 1..n : s[i] \in S
    /\ \A o \in S : \E i \in 1..n : s[i] = o

\* What the other direction needs, in one definition.
LEMMA DistinctMade == \A s, n, S : Lists(s, n, S) => Distinct(s, S)
<1> SUFFICES ASSUME NEW s, NEW n, NEW S, Lists(s, n, S) PROVE Distinct(s, S)
  BY Zenon
<1>0. /\ s \in Seq(Oids) /\ Len(s) = n /\ \A i, j \in 1..n : s[i] = s[j] => i = j
  BY Zenon DEF Lists
<1>1. DOMAIN s = 1..n
  BY <1>0
<1>2. IsInjective(s)
  BY <1>0, <1>1, Zenon DEF IsInjective
<1>3. Range(s) = S
  <2>1. \A i \in 1..n : s[i] \in S
    BY Zenon DEF Lists
  <2>2. \A o \in S : \E i \in 1..n : s[i] = o
    BY Zenon DEF Lists
  <2> QED  BY <1>1, <2>1, <2>2 DEF Range
<1> QED  BY <1>0, <1>2, <1>3, Zenon DEF Distinct

\* add puts an object at the end of incoming.
LEMMA AppendDistinct ==
    ASSUME NEW s, NEW S, Distinct(s, S), NEW o \in Oids, o \notin S
    PROVE  Distinct(Append(s, o), S \union {o})
<1>1. /\ s \in Seq(Oids) /\ Len(s) \in Nat
      /\ \A i, j \in 1..Len(s) : s[i] = s[j] => i = j
      /\ \A i \in 1..Len(s) : s[i] \in S
      /\ \A x \in S : \E i \in 1..Len(s) : s[i] = x
  BY DistinctFacts, Zenon
<1>2. PICK t : t = Append(s, o)
  BY Zenon
<1>3. PICK n \in Nat : n = Len(s)
  BY <1>1, Zenon
<1>4. t \in Seq(Oids) /\ Len(t) = n + 1 /\ t[n + 1] = o /\ \A i \in 1..n : t[i] = s[i]
  BY <1>1, <1>2, <1>3
<1>5. \A i, j \in 1..(n + 1) : t[i] = t[j] => i = j
  <2> SUFFICES ASSUME NEW i \in 1..(n + 1), NEW j \in 1..(n + 1), t[i] = t[j] PROVE i = j
    BY Zenon
  <2>1. (i \in 1..n \/ i = n + 1) /\ (j \in 1..n \/ j = n + 1)
    OBVIOUS
  <2>2. \A k \in 1..n : t[k] = s[k] /\ t[k] # o
    BY <1>1, <1>3, <1>4, Zenon
  <2>3. CASE i \in 1..n /\ j \in 1..n
    BY <1>1, <1>3, <2>2, <2>3, Zenon
  <2>4. CASE i = n + 1 \/ j = n + 1
    BY <1>4, <2>1, <2>2, <2>4, Zenon
  <2> QED  BY <2>1, <2>3, <2>4, Zenon
<1>6. \A i \in 1..(n + 1) : t[i] \in S \union {o}
  <2> TAKE i \in 1..(n + 1)
  <2>1. i \in 1..n \/ i = n + 1
    OBVIOUS
  <2> QED  BY <1>1, <1>3, <1>4, <2>1, Zenon
<1>7. \A x \in S \union {o} : \E i \in 1..(n + 1) : t[i] = x
  <2>1. n + 1 \in 1..(n + 1) /\ \A i \in 1..n : i \in 1..(n + 1)
    OBVIOUS
  <2> QED  BY <1>1, <1>3, <1>4, <2>1
<1>8. Lists(t, n + 1, S \union {o})
  BY <1>4, <1>5, <1>6, <1>7, Zenon DEF Lists
<1> QED  BY <1>2, <1>8, DistinctMade, Zenon

\* Two lists that share nothing, one after the other.
LEMMA ConcatDistinct ==
    ASSUME NEW s, NEW S, Distinct(s, S), NEW t, NEW T, Distinct(t, T), S \intersect T = {}
    PROVE  Distinct(s \o t, S \union T)
<1>1. /\ s \in Seq(Oids) /\ Len(s) \in Nat
      /\ \A i, j \in 1..Len(s) : s[i] = s[j] => i = j
      /\ \A i \in 1..Len(s) : s[i] \in S
      /\ \A x \in S : \E i \in 1..Len(s) : s[i] = x
  BY DistinctFacts, Zenon
<1>2. /\ t \in Seq(Oids) /\ Len(t) \in Nat
      /\ \A i, j \in 1..Len(t) : t[i] = t[j] => i = j
      /\ \A i \in 1..Len(t) : t[i] \in T
      /\ \A x \in T : \E i \in 1..Len(t) : t[i] = x
  BY DistinctFacts, Zenon
<1>3. PICK u : u = s \o t
  BY Zenon
<1>4. PICK m \in Nat, n \in Nat : m = Len(s) /\ n = Len(t)
  BY <1>1, <1>2, Zenon
<1>5. /\ u \in Seq(Oids) /\ Len(u) = m + n
      /\ \A i \in 1..m : u[i] = s[i]
      /\ \A i \in 1..n : u[m + i] = t[i]
  BY <1>1, <1>2, <1>3, <1>4
<1>6. \A i \in 1..(m + n) : i \in 1..m \/ \E k \in 1..n : i = m + k
  <2> TAKE i \in 1..(m + n)
  <2>1. CASE i > m
    <3>1. i - m \in 1..n /\ i = m + (i - m)
      BY <2>1
    <3> QED  BY <3>1
  <2> QED  BY <2>1
<1>7. \A i, j \in 1..(m + n) : u[i] = u[j] => i = j
  <2> SUFFICES ASSUME NEW i \in 1..(m + n), NEW j \in 1..(m + n), u[i] = u[j] PROVE i = j
    BY Zenon
  <2>1. \A x : ~(x \in S /\ x \in T)
    BY Zenon
  <2>2. (i \in 1..m \/ \E k \in 1..n : i = m + k) /\ (j \in 1..m \/ \E k \in 1..n : j = m + k)
    BY <1>6, Zenon
  <2> QED  BY <1>1, <1>2, <1>4, <1>5, <2>1, <2>2
<1>8. \A i \in 1..(m + n) : u[i] \in S \union T
  <2> TAKE i \in 1..(m + n)
  <2> QED  BY <1>1, <1>2, <1>4, <1>5, <1>6
<1>9. \A x \in S \union T : \E i \in 1..(m + n) : u[i] = x
  <2>1. (\A i \in 1..m : i \in 1..(m + n)) /\ \A i \in 1..n : m + i \in 1..(m + n)
    OBVIOUS
  <2>2. ASSUME NEW x \in S PROVE \E i \in 1..(m + n) : u[i] = x
    <3>1. PICK i \in 1..m : s[i] = x
      BY <1>1, <1>4, <2>2, Zenon
    <3> QED  BY <1>5, <2>1, <3>1, Zenon
  <2>3. ASSUME NEW x \in T PROVE \E i \in 1..(m + n) : u[i] = x
    <3>1. PICK i \in 1..n : t[i] = x
      BY <1>2, <1>4, <2>3, Zenon
    <3> QED  BY <1>5, <2>1, <3>1, Zenon
  <2> QED  BY <2>2, <2>3, Zenon
<1>10. Lists(u, m + n, S \union T)
  BY <1>5, <1>7, <1>8, <1>9, Zenon DEF Lists
<1> QED  BY <1>3, <1>10, DistinctMade, Zenon

\* The positions of a list, counted from the first one in a set of them.
LEMMA RankBijection ==
    ASSUME NEW n \in Nat, NEW I \in SUBSET (1..n)
    PROVE  /\ IsFiniteSet(I) /\ Cardinality(I) \in Nat
           /\ \A i \in I : Rank(I, i) \in 1..Cardinality(I)
           /\ \A i, j \in I : Rank(I, i) = Rank(I, j) => i = j
           /\ \A k \in 1..Cardinality(I) : \E i \in I : Rank(I, i) = k
<1>1. IsFiniteSet(I)
  <2>1. 1 \in Int /\ n \in Int
    OBVIOUS
  <2>2. IsFiniteSet(1..n)
    BY <2>1, FS_Interval, Zenon
  <2> QED  BY <2>2, FS_Subset, Zenon
<1>2. PICK c \in Nat : c = Cardinality(I)
  BY <1>1, FS_CardinalityType, Zenon
<1> DEFINE Upto(i) == {j \in I : j <= i}
<1>3. \A i \in I : IsFiniteSet(Upto(i)) /\ Cardinality(Upto(i)) \in Nat /\ Cardinality(Upto(i)) <= c
  <2> TAKE i \in I
  <2>1. Upto(i) \in SUBSET I
    BY Zenon
  <2>2. IsFiniteSet(Upto(i)) /\ Cardinality(Upto(i)) <= Cardinality(I)
    BY <1>1, <2>1, FS_Subset, Zenon
  <2> QED  BY <1>2, <2>2, FS_CardinalityType, Zenon
<1>4. \A i \in I : Upto(i) # {}
  BY SMT
<1>5. \A i, j \in I : i < j => Cardinality(Upto(i)) < Cardinality(Upto(j))
  <2> SUFFICES ASSUME NEW i \in I, NEW j \in I, i < j PROVE Cardinality(Upto(i)) < Cardinality(Upto(j))
    BY Zenon
  <2>0. (\A k \in I : k <= i => k <= j) /\ j <= j /\ ~(j <= i)
    BY SMT
  <2>1. Upto(i) \in SUBSET Upto(j) /\ j \in Upto(j) /\ j \notin Upto(i)
    BY <2>0, Zenon
  <2>2. /\ Cardinality(Upto(i)) <= Cardinality(Upto(j))
        /\ Cardinality(Upto(j)) = Cardinality(Upto(i)) => Upto(j) = Upto(i)
    BY <1>3, <2>1, FS_Subset, Zenon
  <2>3. Cardinality(Upto(i)) # Cardinality(Upto(j))
    BY <2>1, <2>2, Zenon
  <2>4. PICK a \in Nat, b \in Nat : a = Cardinality(Upto(i)) /\ b = Cardinality(Upto(j))
    BY <1>3, Zenon
  <2>5. a < b
    BY <2>2, <2>3, <2>4
  <2> QED  BY <2>4, <2>5, Zenon
<1> DEFINE Ranks == [i \in I |-> Rank(I, i)]
<1>6. \A i \in I : Rank(I, i) = Cardinality(Upto(i))
  BY Zenon DEF Rank
<1>7. \A i \in I : Rank(I, i) \in 1..c
  <2> TAKE i \in I
  <2>1. Cardinality(Upto(i)) # 0
    BY <1>3, <1>4, FS_EmptySet, Zenon
  <2>2. PICK a \in Nat : a = Cardinality(Upto(i)) /\ a <= c
    BY <1>3, Zenon
  <2>3. a \in 1..c
    BY <2>1, <2>2
  <2> QED  BY <1>6, <2>2, <2>3, Zenon
<1>8. \A i, j \in I : Rank(I, i) = Rank(I, j) => i = j
  <2> SUFFICES ASSUME NEW i \in I, NEW j \in I, i # j PROVE Rank(I, i) # Rank(I, j)
    BY Zenon
  <2>1. i < j \/ j < i
    OBVIOUS
  <2>2. PICK a \in Nat, b \in Nat : a = Cardinality(Upto(i)) /\ b = Cardinality(Upto(j))
    BY <1>3, Zenon
  <2>3. a < b \/ b < a
    BY <1>5, <2>1, <2>2, Zenon
  <2>4. a # b
    BY <2>3
  <2> QED  BY <1>6, <2>2, <2>4, Zenon
<1>9. Ranks \in Injection(I, 1..c)
  BY <1>7, <1>8, Zenon DEF Injection, IsInjective
<1>10. IsFiniteSet(1..c) /\ Cardinality(1..c) = c
  <2>1. 1 \in Int /\ c \in Int
    OBVIOUS
  <2>2. IsFiniteSet(1..c) /\ Cardinality(1..c) = IF 1 > c THEN 0 ELSE c - 1 + 1
    BY <2>1, FS_Interval, Zenon
  <2> QED  BY <2>2
<1>11. Ranks \in Surjection(I, 1..c)
  BY <1>2, <1>9, <1>10, FS_Injection, Zenon
<1>12. \A k \in 1..c : \E i \in I : Rank(I, i) = k
  BY <1>11, Zenon DEF Surjection
<1> QED  BY <1>1, <1>2, <1>7, <1>8, <1>12, Zenon

\* What wait keeps of a list has the elements at the positions kept.
LEMMA KeepDistinct ==
    ASSUME NEW s, NEW S, Distinct(s, S), NEW I \in SUBSET DOMAIN s
    PROVE  Distinct(Keep(s, I), {s[i] : i \in I})
<1>1. /\ s \in Seq(Oids) /\ Len(s) \in Nat /\ DOMAIN s = 1..Len(s) /\ S \subseteq Oids
      /\ \A i, j \in 1..Len(s) : s[i] = s[j] => i = j
      /\ \A i \in 1..Len(s) : s[i] \in S
  BY DistinctFacts, Zenon
<1>2. PICK n \in Nat : n = Len(s)
  BY <1>1, Zenon
<1>3. I \in SUBSET (1..n)
  BY <1>1, <1>2, Zenon
<1>4. PICK c \in Nat : c = Cardinality(I)
  BY <1>3, RankBijection, Zenon
<1>5. /\ \A i \in I : Rank(I, i) \in 1..c
      /\ \A i, j \in I : Rank(I, i) = Rank(I, j) => i = j
      /\ \A k \in 1..c : \E i \in I : Rank(I, i) = k
  BY <1>3, <1>4, RankBijection, Zenon
<1> DEFINE At(k) == CHOOSE i \in I : Rank(I, i) = k
<1>6. \A k \in 1..c : At(k) \in I /\ Rank(I, At(k)) = k
  BY <1>5, Zenon
<1>7. \A i \in I : At(Rank(I, i)) = i
  BY <1>5, <1>6, Zenon
<1>8. PICK t : t = Keep(s, I)
  BY Zenon
<1>9. t = [k \in 1..c |-> s[At(k)]]
  BY <1>4, <1>8, Zenon DEF Keep
<1> HIDE DEF At
<1>10. \A k \in 1..c : t[k] = s[At(k)] /\ s[At(k)] \in Oids
  BY <1>1, <1>2, <1>3, <1>6, <1>9, Zenon
<1>11. t \in Seq(Oids) /\ Len(t) = c
  BY <1>9, <1>10
<1>12. \A k, l \in 1..c : t[k] = t[l] => k = l
  <2> SUFFICES ASSUME NEW k \in 1..c, NEW l \in 1..c, t[k] = t[l] PROVE k = l
    BY Zenon
  <2>1. At(k) = At(l)
    BY <1>1, <1>2, <1>3, <1>6, <1>10, Zenon
  <2> QED  BY <1>6, <2>1, Zenon
<1>13. \A k \in 1..c : t[k] \in {s[i] : i \in I}
  BY <1>6, <1>10, Zenon
<1>14. \A o \in {s[i] : i \in I} : \E k \in 1..c : t[k] = o
  <2> TAKE o \in {s[i] : i \in I}
  <2>1. PICK i \in I : o = s[i]
    BY Zenon
  <2>2. t[Rank(I, i)] = o
    BY <1>5, <1>7, <1>10, <2>1, Zenon
  <2> QED  BY <1>5, <2>1, <2>2, Zenon
<1>15. Lists(t, c, {s[i] : i \in I})
  BY <1>11, <1>12, <1>13, <1>14, Zenon DEF Lists
<1> QED  BY <1>8, <1>15, DistinctMade, Zenon

\* There are finitely many objects.
LEMMA OidsFinite == IsFiniteSet(Oids)
<1>1. Len(Adds) \in Nat /\ Adds \in [1..Len(Adds) -> Oids]
  BY QueueAssumption
<1>2. Adds \in Surjection(1..Len(Adds), Oids)
  BY <1>1, Zenon DEF Surjection, Oids
<1>3. IsFiniteSet(1..Len(Adds))
  <2>1. 1 \in Int /\ Len(Adds) \in Int
    BY <1>1
  <2> QED  BY <2>1, FS_Interval, Zenon
<1> QED  BY <1>2, <1>3, FS_Surjection, Zenon

\* The objects that are tried again can be queued in some order.
LEMMA SequenceDistinct ==
    ASSUME NEW S \in SUBSET Oids
    PROVE  Distinct(Sequence(S), S)
<1>1. IsFiniteSet(S)
  BY OidsFinite, FS_Subset, Zenon
<1>2. PICK c \in Nat : c = Cardinality(S)
  BY <1>1, FS_CardinalityType, Zenon
<1>3. PICK f : f \in Bijection(1..c, S)
  BY <1>1, <1>2, FS_CardinalityType, Zenon DEF ExistsBijection
<1>4. f \in [1..c -> S] /\ IsInjective(f) /\ Range(f) = S
  BY <1>3, Zenon DEF Bijection, Injection, Surjection, Range
<1>5. PICK s : s = Sequence(S)
  BY Zenon
<1>6. s \in [1..c -> S] /\ IsInjective(s) /\ Range(s) = S
  BY <1>2, <1>4, <1>5, Zenon DEF Sequence
<1>7. s \in Seq(Oids)
  BY <1>6
<1> QED  BY <1>5, <1>6, <1>7, Zenon DEF Distinct

-----------------------------------------------------------------------------
(* The inductive invariant of the queue *)

Fates == {"none", "done", "error", "skipped", "omitted", "unsupported"}
Waiting == Range(incoming) \union Range(pending)
Places == Waiting \union batch \union retries
Unsettled == {o \in Oids : Named(o) # {} /\ fate[o] = "none"}
Busy(w) == worker[w].pc = "busy"

OwnerTypes ==
    /\ pc \in {"adding", "wait", "batch", "switch", "transfer", "collect", "ending", "ended"}
    /\ added \in 0..Len(Adds) /\ fate \in [Oids -> Fates]
    /\ retry_count \in [Oids -> 0..MaxRetries] /\ aborted \in BOOLEAN
    /\ adapter \in Adapters \union {"none"} /\ chosen \in Adapters \union {"basic"}
WorkerTypes ==
    /\ worker \in [WorkerIds -> [pc : {"none", "gate", "take", "busy", "stopped"}, job : Oids \union {"none"},
                                 auth : BOOLEAN]]
    /\ gate \in BOOLEAN

\* No object is in two places.
Listed ==
    /\ Distinct(incoming, Range(incoming)) /\ Distinct(pending, Range(pending))
    /\ Range(incoming) \intersect Range(pending) = {}
Apart == Waiting \intersect (batch \union retries) = {} /\ batch \intersect retries = {}

\* What is somewhere has been added and is not settled, and the other way round unless the queue is aborted.
SettledAdded == \A o \in Oids : fate[o] # "none" => Named(o) # {}
Known == Places \subseteq Unsettled /\ (aborted \/ Unsettled \subseteq Places) /\ SettledAdded

\* The watchers have heard of the names of completed objects, and of no name that is still to come.
Told ==
    /\ completed = {o \in Oids : fate[o] = "done"}
    /\ notified = [i \in 1..Len(Adds) |-> IF i <= added /\ Adds[i] \in completed THEN 1 ELSE 0]

\* Where the owner is says what may be out.
AtRest == jobs = {} /\ results = {} /\ \A w \in WorkerIds : ~Busy(w)
Phase ==
    /\ pc \in {"adding", "wait", "ending", "ended"} => batch = {}
    /\ pc # "collect" => retries = {} /\ AtRest
    /\ pc \in {"switch", "transfer"} => chosen \in Adapters
    /\ \A o \in retries : CanRetryCount(o)

\* An object of the batch is with the channel of jobs, one worker, or the channel of results.
Flight ==
    /\ jobs \subseteq batch
    /\ \A w \in WorkerIds : Busy(w) => worker[w].job \in batch \ jobs
    /\ \A v, w \in WorkerIds : Busy(v) /\ Busy(w) /\ worker[v].job = worker[w].job => v = w
    /\ \A r \in results : r.job \in batch \ jobs /\ \A w \in WorkerIds : Busy(w) => worker[w].job # r.job
    /\ \A q, r \in results : q.job = r.job => q = r

QueueInv == OwnerTypes /\ WorkerTypes /\ Listed /\ Apart /\ Known /\ Told /\ Phase /\ Flight

\* Init of TransferQueue::new.
LEMMA QueueInit == Init => QueueInv
<1> SUFFICES ASSUME Init PROVE QueueInv
  OBVIOUS
<1>1. Len(Adds) \in Nat /\ Adds \in [1..Len(Adds) -> Oids] /\ MaxRetries \in Nat
  BY QueueAssumption
<1>2. Range(<<>>) = {}
  BY EmptyDistinct, Zenon DEF Distinct
<1>3. OwnerTypes
  <2>1. 0 \in 0..Len(Adds) /\ 0 \in 0..MaxRetries
    BY <1>1
  <2> QED  BY <2>1, Zenon DEF Init, OwnerTypes, Fates
<1>4. WorkerTypes
  BY Zenon DEF Init, WorkerTypes
<1>5. Listed /\ Waiting = {} /\ Places = {}
  BY <1>2, EmptyDistinct, Zenon DEF Init, Listed, Waiting, Places
<1>6. 1..added = {}
  BY DEF Init
<1>7. Unsettled = {} /\ \A o \in Oids : fate[o] = "none"
  BY <1>6, Zenon DEF Init, Unsettled, Named
<1>8. Told
  <2>1. {o \in Oids : fate[o] = "done"} = {}
    BY <1>7, Zenon
  <2>2. \A i \in 1..Len(Adds) : ~(i <= added)
    BY <1>1 DEF Init
  <2> QED  BY <2>1, <2>2, Zenon DEF Init, Told
<1>9. \A w \in WorkerIds : ~Busy(w)
  BY DEF Init, Busy
<1>10. Phase /\ Flight
  BY <1>9, Zenon DEF Init, Phase, AtRest, Flight
<1> QED  BY <1>3, <1>4, <1>5, <1>7, <1>8, <1>10, Zenon DEF Init, QueueInv, Apart, Known, SettledAdded

\* What settles some objects.
LEMMA Settles ==
    ASSUME QueueInv, NEW D \in SUBSET Unsettled, added' = added,
           \A o \in Oids : o \notin D => fate'[o] = fate[o],
           \A o \in D : fate'[o] # "none"
    PROVE  Unsettled' = Unsettled \ D /\ SettledAdded'
<1>1. \A o : Named(o)' = Named(o)
  BY Zenon DEF Named
<1>2. \A o \in D : o \in Oids /\ Named(o) # {}
  BY Zenon DEF Unsettled
<1>3. Unsettled' = Unsettled \ D
  BY <1>1, <1>2 DEF Unsettled
<1>4. SettledAdded
  BY Zenon DEF QueueInv, Known
<1>5. SettledAdded'
  BY <1>1, <1>2, <1>4, Zenon DEF SettledAdded
<1> QED  BY <1>3, <1>5, Zenon

\* They leave the places where they were, and nothing else does unless the queue is aborted.
LEMMA KnownKept ==
    ASSUME QueueInv, NEW D \in SUBSET Unsettled, Unsettled' = Unsettled \ D, SettledAdded',
           Places' \subseteq Places \ D, aborted' \/ (aborted' = aborted /\ Places \ D \subseteq Places')
    PROVE  Known'
BY DEF QueueInv, Known

\* An object that fails is not told of.
LEMMA ToldSame ==
    ASSUME QueueInv, added' = added, completed' = completed, notified' = notified,
           \A o \in Oids : fate'[o] = "done" <=> fate[o] = "done"
    PROVE  Told'
<1>1. {o \in Oids : fate'[o] = "done"} = {o \in Oids : fate[o] = "done"}
  BY Zenon
<1> QED  BY <1>1, Zenon DEF QueueInv, Told

\* The lists, the objects and their fates stay.
LEMMA Undisturbed ==
    ASSUME QueueInv, UNCHANGED <<added, incoming, pending, batch, retries, fate, aborted, completed, notified>>
    PROVE  Listed' /\ Apart' /\ Known' /\ Told'
<1>1. Waiting' = Waiting /\ Places' = Places
  BY Zenon DEF Waiting, Places
<1>2. Listed' /\ Apart'
  BY <1>1, Zenon DEF QueueInv, Listed, Apart
<1>3. Unsettled' = Unsettled /\ (SettledAdded' <=> SettledAdded)
  BY Zenon DEF Unsettled, SettledAdded, Named
<1>4. Known'
  BY <1>1, <1>3, Zenon DEF QueueInv, Known
<1>5. Told'
  BY ToldSame, Zenon
<1> QED  BY <1>2, <1>4, <1>5, Zenon

\* Nothing is out while the workers do not change and the owner does not submit.
LEMMA Resting ==
    ASSUME AtRest, UNCHANGED <<jobs, results>>, \A w \in WorkerIds : ~Busy(w)'
    PROVE  AtRest' /\ Flight'
<1>1. AtRest'
  BY Zenon DEF AtRest
<1> QED  BY <1>1, Zenon DEF AtRest, Flight

-----------------------------------------------------------------------------
(* The workers *)

\* A worker that has no job changes nothing of what is out.
LEMMA FlightFewer ==
    ASSUME QueueInv, UNCHANGED <<jobs, results, batch>>,
           \A v \in WorkerIds : Busy(v)' => Busy(v) /\ worker'[v] = worker[v]
    PROVE  Flight'
<1>1. jobs' \subseteq batch' /\ \A w \in WorkerIds : Busy(w)' => worker'[w].job \in batch' \ jobs'
  BY Zenon DEF QueueInv, Flight
<1>2. \A v, w \in WorkerIds : Busy(v)' /\ Busy(w)' /\ worker'[v].job = worker'[w].job => v = w
  BY Zenon DEF QueueInv, Flight
<1>3. \A r \in results' : r.job \in batch' \ jobs' /\ \A w \in WorkerIds : Busy(w)' => worker'[w].job # r.job
  BY Zenon DEF QueueInv, Flight
<1>4. \A q, r \in results' : q.job = r.job => q = r
  BY Zenon DEF QueueInv, Flight
<1> QED  BY <1>1, <1>2, <1>3, <1>4, Zenon DEF Flight

\* A worker passes the gate.
LEMMA PassGateKeeps == ASSUME QueueInv, NEW w \in WorkerIds, PassGate(w) PROVE QueueInv'
<1>1. UNCHANGED ownerVars /\ UNCHANGED <<jobs, results, gate>>
      /\ worker' = [worker EXCEPT ![w].pc = "take"] /\ worker[w].pc = "gate"
  BY Zenon DEF PassGate
<1>2. UNCHANGED <<direction, pc, added, incoming, pending, batch, completed, notified, fate, retry_count, retries,
                  aborted, adapter, chosen>>
  BY <1>1, Zenon DEF ownerVars
<1>3. Listed' /\ Apart' /\ Known' /\ Told'
  BY <1>2, Undisturbed, Zenon
<1>4. OwnerTypes'
  BY <1>2, Zenon DEF QueueInv, OwnerTypes
<1>5. WorkerTypes'
  BY <1>1 DEF QueueInv, WorkerTypes
<1>6. /\ \A v \in WorkerIds : v # w => worker'[v] = worker[v]
      /\ worker'[w].pc = "take"
  BY <1>1 DEF QueueInv, WorkerTypes
<1>7. \A v \in WorkerIds : Busy(v)' => Busy(v) /\ worker'[v] = worker[v]
  BY <1>6, Zenon DEF Busy
<1>8. Phase'
  BY <1>1, <1>2, <1>7, Zenon DEF QueueInv, Phase, AtRest, CanRetryCount
<1>9. Flight'
  BY <1>1, <1>2, <1>7, FlightFewer, Zenon
<1> QED  BY <1>3, <1>4, <1>5, <1>8, <1>9, Zenon DEF QueueInv

\* A worker stops.
LEMMA StopKeeps == ASSUME QueueInv, NEW w \in WorkerIds, StopWorker(w) PROVE QueueInv'
<1>1. UNCHANGED ownerVars /\ UNCHANGED <<jobs, results>> /\ gate' = Stopped(w)
      /\ worker' = [worker EXCEPT ![w].pc = "stopped"]
  BY Zenon DEF StopWorker
<1>2. UNCHANGED <<direction, pc, added, incoming, pending, batch, completed, notified, fate, retry_count, retries,
                  aborted, adapter, chosen>>
  BY <1>1, Zenon DEF ownerVars
<1>3. Listed' /\ Apart' /\ Known' /\ Told'
  BY <1>2, Undisturbed, Zenon
<1>4. OwnerTypes'
  BY <1>2, Zenon DEF QueueInv, OwnerTypes
<1>5. gate' \in BOOLEAN
  BY <1>1, Zenon DEF Stopped
<1>6. WorkerTypes'
  BY <1>1, <1>5 DEF QueueInv, WorkerTypes
<1>7. /\ \A v \in WorkerIds : v # w => worker'[v] = worker[v]
      /\ worker'[w].pc = "stopped"
  BY <1>1 DEF QueueInv, WorkerTypes
<1>8. \A v \in WorkerIds : Busy(v)' => Busy(v) /\ worker'[v] = worker[v]
  BY <1>7, Zenon DEF Busy
<1>9. Phase'
  BY <1>1, <1>2, <1>8, Zenon DEF QueueInv, Phase, AtRest, CanRetryCount
<1>10. Flight'
  BY <1>1, <1>2, <1>8, FlightFewer, Zenon
<1> QED  BY <1>3, <1>4, <1>6, <1>9, <1>10, Zenon DEF QueueInv

\* A job leaves the channel for one worker.
LEMMA TakeKeeps == ASSUME QueueInv, NEW w \in WorkerIds, Take(w) PROVE QueueInv'
<1>1. PICK o \in jobs : jobs' = jobs \ {o} /\ worker' = [worker EXCEPT ![w].pc = "busy", ![w].job = o]
  BY Zenon DEF Take
<1>j. jobs' = jobs \ {o}
  BY <1>1, Zenon
<1>2. UNCHANGED <<direction, pc, added, incoming, pending, batch, completed, notified, fate, retry_count, retries,
                  aborted, adapter, chosen>> /\ UNCHANGED <<results, gate>>
  BY Zenon DEF Take, ownerVars
<1>3. Listed' /\ Apart' /\ Known' /\ Told'
  BY <1>2, Undisturbed, Zenon
<1>4. OwnerTypes'
  BY <1>2, Zenon DEF QueueInv, OwnerTypes
<1>5. o \in batch /\ o \in Oids
  BY Zenon DEF QueueInv, Flight, Known, Places, Unsettled
<1>6. WorkerTypes'
  <2>1. worker' = [worker EXCEPT ![w].pc = "busy", ![w].job = o] /\ gate' = gate
    BY <1>1, <1>2, Zenon
  <2> DEFINE R == [pc : {"none", "gate", "take", "busy", "stopped"}, job : Oids \union {"none"}, auth : BOOLEAN]
  <2>2. worker \in [WorkerIds -> R] /\ gate \in BOOLEAN
    BY Zenon DEF QueueInv, WorkerTypes
  <2>3. worker' \in [WorkerIds -> R]
    BY <1>5, <2>1, <2>2, Zenon
  <2> QED  BY <2>1, <2>2, <2>3, Zenon DEF WorkerTypes
<1>7. /\ \A v \in WorkerIds : v # w => worker'[v] = worker[v]
      /\ worker'[w].pc = "busy" /\ worker'[w].job = o
  BY <1>1 DEF QueueInv, WorkerTypes
<1>8. pc = "collect"
  BY <1>1, Zenon DEF QueueInv, Phase, AtRest
<1>9. Phase'
  BY <1>2, <1>8, Zenon DEF QueueInv, Phase, CanRetryCount
<1>10. /\ \A v \in WorkerIds : v # w => (Busy(v)' <=> Busy(v))
       /\ \A v \in WorkerIds : Busy(v) => worker[v].job # o
       /\ \A r \in results : r.job # o
  BY <1>7, Zenon DEF QueueInv, Flight, Busy
<1>11. Flight'
  <2>1. jobs' \subseteq batch'
    BY <1>1, <1>2, Zenon DEF QueueInv, Flight
  <2>2. \A v \in WorkerIds : Busy(v)' => worker'[v].job \in batch' \ jobs'
    <3> SUFFICES ASSUME NEW v \in WorkerIds, Busy(v)' PROVE worker'[v].job \in batch' \ jobs'
      BY Zenon
    <3>1. CASE v = w
      BY <1>j, <1>2, <1>5, <1>7, <3>1, Zenon
    <3>2. CASE v # w
      <4>1. worker[v].job \in batch \ jobs
        BY <1>10, <3>2, Zenon DEF QueueInv, Flight
      <4> QED  BY <1>j, <1>2, <1>7, <3>2, <4>1, Zenon
    <3> QED  BY <3>1, <3>2
  <2>3. \A u, v \in WorkerIds : Busy(u)' /\ Busy(v)' /\ worker'[u].job = worker'[v].job => u = v
    BY <1>7, <1>10, Zenon DEF QueueInv, Flight
  <2>4. \A r \in results' : r.job \in batch' \ jobs' /\ \A v \in WorkerIds : Busy(v)' => worker'[v].job # r.job
    <3> TAKE r \in results'
    <3>1. r \in results /\ r.job \in batch \ jobs
      BY <1>2, Zenon DEF QueueInv, Flight
    <3>2. \A v \in WorkerIds : Busy(v) => worker[v].job # r.job
      BY <3>1, Zenon DEF QueueInv, Flight
    <3>3. \A v \in WorkerIds : Busy(v)' => worker'[v].job # r.job
      BY <1>7, <1>10, <3>1, <3>2, Zenon
    <3> QED  BY <1>1, <1>2, <3>1, <3>3, Zenon
  <2>5. \A q, r \in results' : q.job = r.job => q = r
    BY <1>2, Zenon DEF QueueInv, Flight
  <2> QED  BY <2>1, <2>2, <2>3, <2>4, <2>5, Zenon DEF Flight
<1> QED  BY <1>3, <1>4, <1>6, <1>9, <1>11, Zenon DEF QueueInv

\* Its result goes to the channel of results.
LEMMA TransferKeeps == ASSUME QueueInv, NEW w \in WorkerIds, Transfer(w) PROVE QueueInv'
<1>1. PICK outcome : /\ results' = results \union {[job |-> worker[w].job, result |-> outcome.result]}
                     /\ gate' = (gate \/ (worker[w].auth /\ outcome.auth))
                     /\ worker' = [worker EXCEPT ![w] = [pc |-> "take", job |-> "none", auth |-> @.auth /\ ~outcome.auth]]
  BY Zenon DEF Transfer
<1>2. UNCHANGED <<direction, pc, added, incoming, pending, batch, completed, notified, fate, retry_count, retries,
                  aborted, adapter, chosen>> /\ jobs' = jobs /\ Busy(w)
  BY Zenon DEF Transfer, ownerVars, Busy
<1>3. Listed' /\ Apart' /\ Known' /\ Told'
  BY <1>2, Undisturbed, Zenon
<1>4. OwnerTypes'
  BY <1>2, Zenon DEF QueueInv, OwnerTypes
<1>5. gate' \in BOOLEAN
  BY <1>1, Zenon
<1>a. PICK a : a = (worker[w].auth /\ ~outcome.auth)
  BY Zenon
<1>6. WorkerTypes'
  <2>1. a \in BOOLEAN
    BY <1>a, Zenon
  <2>2. worker' = [worker EXCEPT ![w] = [pc |-> "take", job |-> "none", auth |-> a]]
    BY <1>1, <1>a, Zenon
  <2> QED  BY <1>5, <2>1, <2>2 DEF QueueInv, WorkerTypes
<1>7. /\ \A v \in WorkerIds : v # w => worker'[v] = worker[v]
      /\ worker'[w].pc = "take"
  BY <1>1 DEF QueueInv, WorkerTypes
<1>8. \A v \in WorkerIds : Busy(v)' => Busy(v) /\ worker'[v] = worker[v] /\ v # w
  BY <1>7, Zenon DEF Busy
<1>9. Phase'
  BY <1>2, Zenon DEF QueueInv, Phase, AtRest, CanRetryCount
<1>10. PICK n : n = [job |-> worker[w].job, result |-> outcome.result]
  BY Zenon
<1>11. n.job = worker[w].job /\ results' = results \union {n}
  BY <1>1, <1>10
<1>12. Flight'
  <2>1. jobs' \subseteq batch' /\ \A v \in WorkerIds : Busy(v)' => worker'[v].job \in batch' \ jobs'
    BY <1>2, <1>8, Zenon DEF QueueInv, Flight
  <2>2. \A u, v \in WorkerIds : Busy(u)' /\ Busy(v)' /\ worker'[u].job = worker'[v].job => u = v
    BY <1>8, Zenon DEF QueueInv, Flight
  <2>3. \A r \in results' : r.job \in batch' \ jobs' /\ \A v \in WorkerIds : Busy(v)' => worker'[v].job # r.job
    <3>1. n.job \in batch \ jobs /\ \A v \in WorkerIds : Busy(v)' => worker'[v].job # n.job
      BY <1>2, <1>8, <1>11, Zenon DEF QueueInv, Flight
    <3>2. \A r \in results : r.job \in batch \ jobs /\ \A v \in WorkerIds : Busy(v)' => worker'[v].job # r.job
      BY <1>8, Zenon DEF QueueInv, Flight
    <3> QED  BY <1>2, <1>11, <3>1, <3>2, Zenon
  <2>4. \A q, r \in results' : q.job = r.job => q = r
    <3>1. \A r \in results : r.job # n.job
      BY <1>2, <1>11, Zenon DEF QueueInv, Flight
    <3>2. \A q, r \in results : q.job = r.job => q = r
      BY Zenon DEF QueueInv, Flight
    <3> QED  BY <1>11, <3>1, <3>2, Zenon
  <2> QED  BY <2>1, <2>2, <2>3, <2>4, Zenon DEF Flight
<1> QED  BY <1>3, <1>4, <1>6, <1>9, <1>12, Zenon DEF QueueInv

-----------------------------------------------------------------------------
(* The owner: add and wait *)

\* Nothing the owner looks after changes but where it is, and nothing is out.
LEMMA OnlyPc ==
    ASSUME QueueInv, pc # "collect", pc' # "collect", OwnerTypes', WorkerTypes',
           UNCHANGED <<added, incoming, pending, batch, retries, fate, aborted, completed, notified, retry_count,
                       jobs, results>>,
           pc' \in {"adding", "wait", "ending", "ended"} => batch = {},
           pc' \in {"switch", "transfer"} => chosen' \in Adapters,
           \A w \in WorkerIds : ~Busy(w)'
    PROVE  QueueInv'
<1>1. Listed' /\ Apart' /\ Known' /\ Told'
  BY Undisturbed, Zenon
<1>2. AtRest /\ retries = {}
  BY Zenon DEF QueueInv, Phase
<1>3. AtRest' /\ Flight'
  BY <1>2, Resting, Zenon
<1>4. Phase'
  BY <1>2, <1>3, Zenon DEF Phase
<1> QED  BY <1>1, <1>3, <1>4, Zenon DEF QueueInv

\* wait begins, and its loop ends.
LEMMA WaitKeeps == ASSUME QueueInv, Wait \/ WaitEnds PROVE QueueInv'
<1>1. /\ pc \in {"adding", "wait"} /\ pc' \in {"wait", "ending"}
      /\ UNCHANGED <<added, incoming, pending, batch, retries, fate, aborted, completed, notified, retry_count, adapter,
                     chosen, jobs, results, worker, gate>>
  BY Zenon DEF Wait, WaitEnds, workerVars
<1>2. pc # "collect" /\ pc' # "collect" /\ pc' \notin {"switch", "transfer"} /\ pc \notin {"batch", "transfer"}
      /\ pc' \in {"adding", "wait", "batch", "switch", "transfer", "collect", "ending", "ended"}
  BY <1>1
<1>3. batch = {} /\ \A w \in WorkerIds : ~Busy(w)'
  BY <1>1, <1>2, Zenon DEF QueueInv, Phase, AtRest, Busy
<1>4. OwnerTypes' /\ WorkerTypes'
  BY <1>1, <1>2, Zenon DEF QueueInv, OwnerTypes, WorkerTypes
<1> QED  BY <1>1, <1>2, <1>3, <1>4, OnlyPc, Zenon

\* The workers are joined.
LEMMA FinishKeeps == ASSUME QueueInv, FinishAdapter PROVE QueueInv'
<1>1. /\ pc \in {"ending", "switch"} /\ pc' = (IF pc = "ending" THEN "ended" ELSE "transfer")
      /\ adapter' = "none" /\ worker' = [w \in WorkerIds |-> [pc |-> "none", job |-> "none", auth |-> FALSE]]
      /\ UNCHANGED <<added, incoming, pending, batch, retries, fate, aborted, completed, notified, retry_count, chosen,
                     jobs, results, gate>>
  BY Zenon DEF FinishAdapter
<1>2. /\ pc # "collect" /\ pc' # "collect"
      /\ pc' \in {"switch", "transfer"} => pc = "switch"
      /\ pc' \in {"adding", "wait", "ending", "ended"} => pc = "ending"
      /\ pc' \in {"adding", "wait", "batch", "switch", "transfer", "collect", "ending", "ended"}
  BY <1>1
<1>3. /\ pc' \in {"adding", "wait", "ending", "ended"} => batch = {}
      /\ pc' \in {"switch", "transfer"} => chosen' \in Adapters
  BY <1>1, <1>2, Zenon DEF QueueInv, Phase
<1>4. \A w \in WorkerIds : ~Busy(w)'
  BY <1>1 DEF Busy
<1>5. OwnerTypes'
  BY <1>1, <1>2, Zenon DEF QueueInv, OwnerTypes
<1>6. WorkerTypes'
  BY <1>1, Zenon DEF QueueInv, WorkerTypes
<1> QED  BY <1>1, <1>2, <1>3, <1>4, <1>5, <1>6, OnlyPc, Zenon

\* The batch is the first of what is ready, and everything else is kept: wait loses nothing.
LEMMA WaitSplits ==
    ASSUME QueueInv, WaitNext
    PROVE  batch' \subseteq Waiting /\ Listed' /\ Waiting' = Waiting \ batch'
<1>1. PICK all : all = pending \o incoming
  BY Zenon
<1>2. PICK ready \in SUBSET DOMAIN all : batch' = {all[i] : i \in FirstOf(ready)} /\ pending' = Rest(all, ready)
  <2>1. PICK delayed : LET ready == DOMAIN all \ delayed
                       IN  batch' = {all[i] : i \in FirstOf(ready)} /\ pending' = Rest(all, ready)
    BY <1>1, Zenon DEF WaitNext
  <2>2. DOMAIN all \ delayed \in SUBSET DOMAIN all
    BY Zenon
  <2> QED  BY <2>1, <2>2, Zenon
<1>3. incoming' = <<>>
  BY Zenon DEF WaitNext
<1>4. Distinct(all, Waiting)
  <2>1. Distinct(pending, Range(pending)) /\ Distinct(incoming, Range(incoming))
        /\ Range(pending) \intersect Range(incoming) = {}
    BY Zenon DEF QueueInv, Listed
  <2>2. Distinct(all, Range(pending) \union Range(incoming))
    BY <1>1, <2>1, ConcatDistinct, Zenon
  <2>3. Range(pending) \union Range(incoming) = Waiting
    BY Zenon DEF Waiting
  <2> QED  BY <2>2, <2>3, Zenon
<1>5. PICK first : first = FirstOf(ready)
  BY Zenon
<1>6. first \in SUBSET ready /\ batch' = {all[i] : i \in first}
  BY <1>2, <1>5, Zenon DEF FirstOf
<1> DEFINE Late == {all[i] : i \in DOMAIN all \ ready}
           Over == {all[i] : i \in ready \ first}
<1>7. /\ \A i, j \in DOMAIN all : all[i] = all[j] => i = j
      /\ \A i \in DOMAIN all : all[i] \in Waiting
      /\ \A o \in Waiting : \E i \in DOMAIN all : all[i] = o
  <2>1. /\ DOMAIN all = 1..Len(all)
        /\ \A i, j \in 1..Len(all) : all[i] = all[j] => i = j
        /\ \A i \in 1..Len(all) : all[i] \in Waiting
        /\ \A o \in Waiting : \E i \in 1..Len(all) : all[i] = o
    BY <1>4, DistinctFacts, Zenon
  <2> QED  BY <2>1, Zenon
<1>8. Distinct(Keep(all, DOMAIN all \ ready), Late)
  <2>1. DOMAIN all \ ready \in SUBSET DOMAIN all
    BY Zenon
  <2> QED  BY <1>4, <2>1, KeepDistinct, Zenon
<1>9. Distinct(Keep(all, ready \ first), Over)
  <2>1. ready \ first \in SUBSET DOMAIN all
    BY Zenon
  <2> QED  BY <1>4, <2>1, KeepDistinct, Zenon
<1>10. Late \intersect Over = {}
  <2> SUFFICES ASSUME NEW o, o \in Late, o \in Over PROVE FALSE
    BY Zenon
  <2>1. PICK i \in DOMAIN all \ ready, j \in ready \ first : o = all[i] /\ o = all[j]
    BY Zenon
  <2>2. i \in DOMAIN all /\ j \in DOMAIN all /\ i # j
    BY <2>1, Zenon
  <2> QED  BY <1>7, <2>1, <2>2, Zenon
<1>11. Distinct(pending', Late \union Over)
  <2>1. pending' = Keep(all, DOMAIN all \ ready) \o Keep(all, ready \ first)
    BY <1>2, <1>5, Zenon DEF Rest
  <2>2. Distinct(Keep(all, DOMAIN all \ ready) \o Keep(all, ready \ first), Late \union Over)
    BY <1>8, <1>9, <1>10, ConcatDistinct, Zenon
  <2> QED  BY <2>1, <2>2, Zenon
<1>12. Late \union Over = Waiting \ batch'
  <2>1. \A o \in Late \union Over : o \in Waiting \ batch'
    <3> TAKE o \in Late \union Over
    <3>1. PICK i \in DOMAIN all : i \notin first /\ o = all[i]
      BY <1>6, Zenon
    <3>2. \A j \in first : j \in DOMAIN all /\ j # i
      BY <1>6, <3>1, Zenon
    <3>3. o \notin batch'
      <4>1. \A j \in first : all[j] # all[i]
        BY <1>7, <3>2, Zenon
      <4> QED  BY <1>6, <3>1, <4>1, Zenon
    <3> QED  BY <1>7, <3>1, <3>3, Zenon
  <2>2. \A o \in Waiting \ batch' : o \in Late \union Over
    <3> TAKE o \in Waiting \ batch'
    <3>1. PICK i \in DOMAIN all : all[i] = o
      BY <1>7, Zenon
    <3>2. i \notin first
      BY <1>6, <3>1, Zenon
    <3> QED  BY <3>1, <3>2, Zenon
  <2> QED  BY <2>1, <2>2, Zenon
<1> HIDE DEF Late, Over
<1>13. Range(pending') = Waiting \ batch' /\ Range(incoming') = {} /\ Distinct(incoming', {})
  BY <1>3, <1>11, <1>12, EmptyDistinct, Zenon DEF Distinct
<1>14. Listed'
  BY <1>11, <1>12, <1>13, Zenon DEF Listed
<1>15. Waiting' = Waiting \ batch'
  BY <1>13, Zenon DEF Waiting
<1>16. batch' \subseteq Waiting
  <2> SUFFICES ASSUME NEW o \in batch' PROVE o \in Waiting
    BY Zenon
  <2>1. PICK i \in first : o = all[i]
    BY <1>6, Zenon
  <2>2. i \in DOMAIN all
    BY <1>6, <2>1, Zenon
  <2> QED  BY <1>7, <2>1, <2>2, Zenon
<1> QED  BY <1>14, <1>15, <1>16, Zenon

\* A turn of wait's loop.
LEMMA WaitNextKeeps == ASSUME QueueInv, WaitNext PROVE QueueInv'
<1>1. /\ pc = "wait" /\ pc' = "batch"
      /\ UNCHANGED <<added, completed, notified, fate, retry_count, retries, aborted, adapter, chosen, jobs, results,
                     worker, gate>>
  BY Zenon DEF WaitNext, workerVars
<1>2. batch' \subseteq Waiting /\ Listed' /\ Waiting' = Waiting \ batch'
  BY WaitSplits, Zenon
<1>3. batch = {} /\ retries = {} /\ AtRest
  BY <1>1 DEF QueueInv, Phase
<1>4. Apart' /\ Places' = Places
  BY <1>1, <1>2, <1>3 DEF Apart, Places
<1>5. Unsettled' = Unsettled /\ (SettledAdded' <=> SettledAdded)
  BY <1>1, Zenon DEF Unsettled, SettledAdded, Named
<1>6. Known'
  BY <1>1, <1>4, <1>5, Zenon DEF QueueInv, Known
<1>7. Told'
  BY <1>1, ToldSame, Zenon
<1>8. \A w \in WorkerIds : ~Busy(w)'
  BY <1>1, <1>3, Zenon DEF AtRest, Busy
<1>9. AtRest' /\ Flight'
  BY <1>1, <1>3, <1>8, Resting, Zenon
<1>10. Phase'
  BY <1>1, <1>3, <1>9 DEF Phase
<1>11. OwnerTypes' /\ WorkerTypes'
  BY <1>1, Zenon DEF QueueInv, OwnerTypes, WorkerTypes
<1> QED  BY <1>2, <1>4, <1>6, <1>7, <1>9, <1>10, <1>11, Zenon DEF QueueInv

\* A name of an object that is there already: it is told now or with the others.
LEMMA AddAgain ==
    ASSUME QueueInv, Add, Named(Adds[added + 1]) # {}
    PROVE  QueueInv'
<1> DEFINE i == added + 1
           o == Adds[i]
<1>1. /\ pc = "adding" /\ added < Len(Adds) /\ added' = i
      /\ notified' = (IF o \in completed THEN AddedLate(i) ELSE notified)
      /\ UNCHANGED <<pc, incoming, batch, pending, completed, fate, retry_count, retries, aborted, adapter, chosen, jobs,
                     results, worker, gate>>
  BY Zenon DEF Add, workerVars
<1>2. added \in Nat /\ Len(Adds) \in Nat /\ i \in 1..Len(Adds) /\ added' \in 0..Len(Adds)
  BY <1>1, QueueAssumption DEF QueueInv, OwnerTypes
<1>3. 1..added' = (1..added) \union {i} /\ i \notin 1..added
  BY <1>1, <1>2
<1>4. \A x : (Named(x)' # {}) <=> (Named(x) # {})
  <2> TAKE x
  <2>1. Named(x)' = IF x = o THEN Named(x) \union {i} ELSE Named(x)
    BY <1>3 DEF Named
  <2> QED  BY <2>1, Zenon
<1>5. Waiting' = Waiting /\ Places' = Places
  BY <1>1, Zenon DEF Waiting, Places
<1>6. Listed' /\ Apart'
  BY <1>1, <1>5, Zenon DEF QueueInv, Listed, Apart
<1>7. Unsettled' = Unsettled
  BY <1>1, <1>4, Zenon DEF Unsettled
<1>8. SettledAdded'
  BY <1>1, <1>4, Zenon DEF QueueInv, Known, SettledAdded
<1>9. Known'
  BY <1>1, <1>5, <1>7, <1>8, Zenon DEF QueueInv, Known
<1>10. Told'
  <2>1. notified = [k \in 1..Len(Adds) |-> IF k <= added /\ Adds[k] \in completed THEN 1 ELSE 0]
    BY Zenon DEF QueueInv, Told
  <2>2. notified' = [k \in 1..Len(Adds) |-> IF k <= added' /\ Adds[k] \in completed THEN 1 ELSE 0]
    <3>1. CASE o \in completed
      <4>1. notified' = [notified EXCEPT ![i] = @ + 1]
        BY <1>1, <3>1, Zenon DEF AddedLate
      <4>2. notified[i] = 0
        BY <1>2, <2>1
      <4>3. notified' = [notified EXCEPT ![i] = 1]
        BY <4>1, <4>2
      <4>4. \A k \in 1..Len(Adds) : k # i => (k <= added' <=> k <= added)
        BY <1>1, <1>2
      <4>5. i <= added'
        BY <1>1, <1>2
      <4> QED  BY <1>2, <2>1, <3>1, <4>3, <4>4, <4>5
    <3>2. CASE o \notin completed
      <4>1. notified' = notified
        BY <1>1, <3>2, Zenon
      <4>2. \A k \in 1..Len(Adds) : (k <= added' /\ Adds[k] \in completed) <=> (k <= added /\ Adds[k] \in completed)
        BY <1>1, <1>2, <3>2
      <4> QED  BY <2>1, <4>1, <4>2
    <3> QED  BY <3>1, <3>2, Zenon
  <2> QED  BY <1>1, <2>2, Zenon DEF QueueInv, Told
<1>11. Phase' /\ Flight'
  BY <1>1, Zenon DEF QueueInv, Phase, AtRest, Busy, CanRetryCount, Flight
<1>12. OwnerTypes' /\ WorkerTypes'
  BY <1>1, <1>2, Zenon DEF QueueInv, OwnerTypes, WorkerTypes
<1> QED  BY <1>6, <1>9, <1>10, <1>11, <1>12, Zenon DEF QueueInv

\* A new object waits, or fills a batch.
LEMMA AddNew ==
    ASSUME QueueInv, Add, Named(Adds[added + 1]) = {}
    PROVE  QueueInv'
<1>i. PICK i, o : i = added + 1 /\ o = Adds[i]
  BY Zenon
<1>o. Named(o) = {}
  BY <1>i, Zenon
<1>1. PICK full \in BOOLEAN :
         /\ pc = "adding" /\ added < Len(Adds) /\ added' = i
         /\ incoming' = (IF full THEN <<>> ELSE Append(incoming, o))
         /\ batch' = (IF full THEN Range(incoming) \union {o} ELSE batch)
         /\ pc' = (IF full THEN "batch" ELSE pc)
  BY <1>i, Zenon DEF Add
<1>2. UNCHANGED <<notified, pending, completed, fate, retry_count, retries, aborted, adapter, chosen, jobs, results,
                  worker, gate>>
  BY Zenon DEF Add, workerVars
<1>3. added \in Nat /\ Len(Adds) \in Nat /\ i \in 1..Len(Adds) /\ added' \in 0..Len(Adds) /\ o \in Oids
  BY <1>i, <1>1, QueueAssumption DEF QueueInv, OwnerTypes
<1>4. 1..added' = (1..added) \union {i} /\ i \notin 1..added
  BY <1>i, <1>1, <1>3
<1>5. /\ Named(o)' # {}
      /\ \A x : x # o => Named(x)' = Named(x)
  <2>1. i \in 1..added' /\ \A k \in 1..added' : k \in 1..added \/ k = i
    BY <1>4, Zenon
  <2>2. i \in Named(o)'
    BY <1>i, <2>1, Zenon DEF Named
  <2>3. ASSUME NEW x, x # o PROVE Named(x)' = Named(x)
    <3>1. Named(x)' \subseteq Named(x)
      BY <1>i, <2>1, <2>3, Zenon DEF Named
    <3>2. Named(x) \subseteq Named(x)'
      BY <1>4, Zenon DEF Named
    <3> QED  BY <3>1, <3>2, Zenon
  <2> QED  BY <2>2, <2>3, Zenon
<1>6. fate[o] = "none" /\ o \notin Unsettled /\ o \notin Places /\ o \notin completed
  <2>1. fate[o] = "none"
    BY <1>o, <1>3, Zenon DEF QueueInv, Known, SettledAdded
  <2>2. o \notin completed
    BY <2>1, Zenon DEF QueueInv, Told
  <2> QED  BY <1>o, <2>1, <2>2, Zenon DEF QueueInv, Known, Unsettled
<1>7. Unsettled' = Unsettled \union {o}
  <2>1. o \in Unsettled'
    BY <1>2, <1>3, <1>5, <1>6, Zenon DEF Unsettled
  <2>2. ASSUME NEW x, x # o PROVE x \in Unsettled' <=> x \in Unsettled
    <3>1. Named(x)' = Named(x)
      BY <1>5, <2>2, Zenon
    <3> QED  BY <1>2, <3>1, Zenon DEF Unsettled
  <2> QED  BY <2>1, <2>2, Zenon
<1>8. SettledAdded'
  BY <1>2, <1>5, Zenon DEF QueueInv, Known, SettledAdded
<1>9. batch = {} /\ retries = {} /\ AtRest
  BY <1>1, Zenon DEF QueueInv, Phase
<1>10. Listed' /\ Apart' /\ Places' = Places \union {o}
  <2>1. /\ Distinct(incoming, Range(incoming)) /\ Distinct(pending, Range(pending))
        /\ Range(incoming) \intersect Range(pending) = {}
        /\ o \notin Range(incoming) /\ o \notin Range(pending)
    BY <1>6, Zenon DEF QueueInv, Listed, Places, Waiting
  <2>2. CASE full
    <3>1. incoming' = <<>> /\ batch' = Range(incoming) \union {o} /\ Range(<<>>) = {}
      BY <1>1, <2>2, EmptyDistinct, Zenon DEF Distinct
    <3>2. Listed'
      BY <1>2, <2>1, <3>1, EmptyDistinct, Zenon DEF Listed
    <3>3. Waiting' = Range(pending)
      BY <1>2, <3>1, Zenon DEF Waiting
    <3>4. Apart'
      BY <1>2, <1>9, <2>1, <3>1, <3>3, Zenon DEF Apart
    <3>5. Places' = Places \union {o}
      BY <1>2, <1>9, <3>1, <3>3, Zenon DEF Places, Waiting
    <3> QED  BY <3>2, <3>4, <3>5, Zenon
  <2>3. CASE ~full
    <3>1. incoming' = Append(incoming, o) /\ batch' = {}
      BY <1>1, <1>9, <2>3, Zenon
    <3>2. Distinct(incoming', Range(incoming) \union {o})
      BY <1>3, <2>1, <3>1, AppendDistinct, Zenon
    <3>3. Range(incoming') = Range(incoming) \union {o}
      BY <3>2, Zenon DEF Distinct
    <3>4. Listed'
      BY <1>2, <2>1, <3>2, <3>3, Zenon DEF Listed
    <3>5. Apart' /\ Places' = Places \union {o}
      BY <1>2, <1>9, <3>1, <3>3, Zenon DEF Apart, Places, Waiting
    <3> QED  BY <3>4, <3>5, Zenon
  <2> QED  BY <2>2, <2>3, Zenon
<1>11. Known'
  BY <1>2, <1>7, <1>8, <1>10, Zenon DEF QueueInv, Known
<1>12. Told'
  <2>1. \A k \in 1..Len(Adds) : (k <= added' /\ Adds[k] \in completed) <=> (k <= added /\ Adds[k] \in completed)
    BY <1>i, <1>1, <1>3, <1>6
  <2>2. notified = [k \in 1..Len(Adds) |-> IF k <= added /\ Adds[k] \in completed THEN 1 ELSE 0]
    BY Zenon DEF QueueInv, Told
  <2>3. notified' = [k \in 1..Len(Adds) |-> IF k <= added' /\ Adds[k] \in completed THEN 1 ELSE 0]
    BY <1>2, <2>1, <2>2
  <2> QED  BY <1>2, <2>3, Zenon DEF QueueInv, Told
<1>13. AtRest' /\ Flight'
  <2>1. \A w \in WorkerIds : ~Busy(w)'
    BY <1>2, <1>9, Zenon DEF AtRest, Busy
  <2> QED  BY <1>2, <1>9, <2>1, Resting, Zenon
<1>14. pc' \in {"adding", "batch"} /\ (pc' # "batch" => batch' = {})
  BY <1>1, <1>9, Zenon
<1>15. Phase'
  BY <1>2, <1>9, <1>13, <1>14 DEF Phase
<1>16. OwnerTypes' /\ WorkerTypes'
  BY <1>2, <1>3, <1>14, Zenon DEF QueueInv, OwnerTypes, WorkerTypes
<1> QED  BY <1>10, <1>11, <1>12, <1>13, <1>15, <1>16, Zenon DEF QueueInv

-----------------------------------------------------------------------------
(* A batch *)

\* enqueue_retry: the objects join those that wait, and their counts stay in the limit.
LEMMA Requeued ==
    ASSUME QueueInv, NEW S \in SUBSET Oids, S \intersect Waiting = {}, EnqueueRetry(S), \A o \in S : CanRetryCount(o)
    PROVE  Distinct(pending', Range(pending) \union S) /\ retry_count' \in [Oids -> 0..MaxRetries]
<1>1. /\ retry_count' = [o \in Oids |-> IF o \in S THEN retry_count[o] + 1 ELSE retry_count[o]]
      /\ pending' = pending \o Sequence(S)
  BY Zenon DEF EnqueueRetry
<1>2. Distinct(pending, Range(pending)) /\ Range(pending) \intersect S = {}
  BY Zenon DEF QueueInv, Listed, Waiting
<1>3. Distinct(Sequence(S), S)
  BY SequenceDistinct, Zenon
<1>4. Distinct(pending', Range(pending) \union S)
  BY <1>1, <1>2, <1>3, ConcatDistinct, Zenon
<1>5. retry_count \in [Oids -> 0..MaxRetries] /\ MaxRetries \in Nat
  BY QueueAssumption, Zenon DEF QueueInv, OwnerTypes
<1>6. \A o \in S : retry_count[o] + 1 \in 0..MaxRetries
  <2> TAKE o \in S
  <2>1. PICK c \in 0..MaxRetries : c = retry_count[o] /\ c < MaxRetries
    BY <1>5, Zenon DEF CanRetryCount
  <2> QED  BY <1>5, <2>1
<1>7. retry_count' \in [Oids -> 0..MaxRetries]
  BY <1>1, <1>5, <1>6, Zenon
<1> QED  BY <1>4, <1>7, Zenon

\* Of the batch, S is to be tried again and D is settled without a transfer.
Moved(S, D) ==
    /\ S \subseteq batch /\ D \subseteq batch /\ S \intersect D = {}
    /\ UNCHANGED <<added, completed, notified, incoming>> /\ retries = {} /\ retries' = {}
    /\ Distinct(pending', Range(pending) \union S)
    /\ \A o \in Oids : o \notin D => fate'[o] = fate[o]
    /\ \A o \in D : fate'[o] \notin {"none", "done"}
    /\ batch' \subseteq batch \ (S \union D)
    /\ aborted' \/ (aborted' = aborted /\ batch' = batch \ (S \union D))

\* Every object stays in one place or gets its one fate.
LEMMA MovedKeeps ==
    ASSUME QueueInv, NEW S, NEW D, Moved(S, D)
    PROVE  Listed' /\ Apart' /\ Known' /\ Told'
<1>1. /\ S \subseteq batch /\ D \subseteq batch /\ S \intersect D = {}
      /\ batch' \subseteq batch \ (S \union D)
      /\ UNCHANGED <<added, completed, notified, incoming>> /\ retries = {} /\ retries' = {}
  BY Zenon DEF Moved
<1>2. batch \subseteq Unsettled /\ batch \subseteq Oids /\ batch \intersect Waiting = {}
  BY Zenon DEF QueueInv, Known, Places, Unsettled, Apart
<1>3. Distinct(pending', Range(pending) \union S) /\ Range(pending') = Range(pending) \union S
  BY Zenon DEF Moved, Distinct
<1>4. Listed'
  BY <1>1, <1>2, <1>3, Zenon DEF QueueInv, Listed, Waiting
<1>5. Waiting' = Waiting \union S
  BY <1>1, <1>3, Zenon DEF Waiting
<1>6. Apart'
  BY <1>1, <1>2, <1>5, Zenon DEF Apart
<1>7. Unsettled' = Unsettled \ D /\ SettledAdded'
  <2>1. D \in SUBSET Unsettled
    BY <1>1, <1>2, Zenon
  <2>2. \A o \in Oids : o \notin D => fate'[o] = fate[o]
    BY Zenon DEF Moved
  <2>3. \A o \in D : fate'[o] # "none"
    BY Zenon DEF Moved
  <2> QED  BY <1>1, <2>1, <2>2, <2>3, Settles, Zenon
<1>8. Places' \subseteq Places \ D
  BY <1>1, <1>2, <1>5, Zenon DEF Places
<1>9. aborted' \/ (aborted' = aborted /\ Places \ D \subseteq Places')
  <2>1. CASE batch' = batch \ (S \union D)
    BY <1>1, <1>5, <2>1, Zenon DEF Places, Moved
  <2> QED  BY <2>1, Zenon DEF Moved
<1>10. Known'
  <2>1. D \in SUBSET Unsettled
    BY <1>1, <1>2, Zenon
  <2> QED  BY <1>7, <1>8, <1>9, <2>1, KnownKept, Zenon
<1>11. Told'
  <2>1. \A o \in D : o \in Unsettled
    BY <1>1, <1>2, Zenon
  <2>2. \A o \in Oids : fate'[o] = "done" <=> fate[o] = "done"
    BY <2>1, Zenon DEF Moved, Unsettled
  <2> QED  BY <1>1, <2>2, ToldSame, Zenon
<1> QED  BY <1>4, <1>6, <1>10, <1>11, Zenon

\* With nothing out, the rest of the invariant.
LEMMA MovedAtRest ==
    ASSUME QueueInv, NEW S, NEW D, Moved(S, D), OwnerTypes', WorkerTypes', pc # "collect", pc' # "collect",
           UNCHANGED <<jobs, results>>, \A w \in WorkerIds : ~Busy(w)',
           pc' \in {"adding", "wait", "ending", "ended"} => batch' = {},
           pc' \in {"switch", "transfer"} => chosen' \in Adapters
    PROVE  QueueInv'
<1>1. Listed' /\ Apart' /\ Known' /\ Told'
  BY MovedKeeps, Zenon
<1>2. AtRest /\ retries' = {}
  BY Zenon DEF QueueInv, Phase, Moved
<1>3. AtRest' /\ Flight'
  BY <1>2, Resting, Zenon
<1>4. Phase'
  BY <1>2, <1>3, Zenon DEF Phase
<1> QED  BY <1>1, <1>3, <1>4, Zenon DEF QueueInv

\* What has a fate but is not transferred.
LEMMA BatchFacts ==
    ASSUME QueueInv
    PROVE  /\ batch \subseteq Oids /\ batch \intersect Waiting = {} /\ Back \in {"adding", "wait"}
           /\ fate \in [Oids -> Fates] /\ retry_count \in [Oids -> 0..MaxRetries]
           /\ Distinct(pending, Range(pending) \union {})
<1>1. batch \subseteq Oids /\ batch \intersect Waiting = {}
  BY Zenon DEF QueueInv, Known, Places, Unsettled, Apart
<1>2. Back \in {"adding", "wait"}
  BY Zenon DEF Back
<1>3. Range(pending) \union {} = Range(pending)
  BY Zenon
<1> QED  BY <1>1, <1>2, <1>3, Zenon DEF QueueInv, OwnerTypes, Listed

\* The batch request fails.
LEMMA BatchFailsKeeps == ASSUME QueueInv, BatchFails PROVE QueueInv'
<1>1. PICK S : /\ S \subseteq batch /\ (\A o \in S : CanRetryCount(o)) /\ EnqueueRetry(S)
               /\ fate' = [o \in Oids |-> IF o \in batch \ S THEN "error" ELSE fate[o]]
  <2>1. PICK kind : /\ EnqueueRetry(Retried(kind))
                    /\ fate' = [o \in Oids |-> IF o \in batch \ Retried(kind) THEN "error" ELSE fate[o]]
    BY Zenon DEF BatchFails
  <2>2. Retried(kind) \subseteq batch /\ \A o \in Retried(kind) : CanRetryCount(o)
    BY Zenon DEF Retried
  <2> QED  BY <2>1, <2>2, Zenon
<1>2. /\ pc = "batch" /\ pc' = Back /\ batch' = {}
      /\ UNCHANGED <<added, incoming, completed, notified, retries, aborted, adapter, chosen, jobs, results, worker, gate>>
  BY Zenon DEF BatchFails, workerVars
<1>3. /\ batch \subseteq Oids /\ batch \intersect Waiting = {} /\ Back \in {"adding", "wait"}
      /\ fate \in [Oids -> Fates]
  BY BatchFacts, Zenon
<1>4. retries = {} /\ AtRest
  BY <1>2, Zenon DEF QueueInv, Phase
<1>5. Distinct(pending', Range(pending) \union S) /\ retry_count' \in [Oids -> 0..MaxRetries]
  <2>1. S \in SUBSET Oids /\ S \intersect Waiting = {}
    BY <1>1, <1>3, Zenon
  <2> QED  BY <1>1, <2>1, Requeued, Zenon
<1>6. fate' \in [Oids -> Fates]
  BY <1>1, <1>3, Zenon DEF Fates
<1>7. /\ \A o \in Oids : o \notin batch \ S => fate'[o] = fate[o]
      /\ \A o \in batch \ S : fate'[o] = "error"
  BY <1>1, <1>3, Zenon
<1>8. Moved(S, batch \ S)
  <2>1. S \intersect (batch \ S) = {} /\ batch \ (S \union (batch \ S)) = {}
    BY <1>1, Zenon
  <2> QED  BY <1>1, <1>2, <1>4, <1>5, <1>7, <2>1, Zenon DEF Moved
<1>9. OwnerTypes'
  BY <1>2, <1>3, <1>5, <1>6, Zenon DEF QueueInv, OwnerTypes
<1>10. WorkerTypes' /\ \A w \in WorkerIds : ~Busy(w)'
  BY <1>2, <1>4, Zenon DEF QueueInv, WorkerTypes, AtRest, Busy
<1>11. pc # "collect" /\ pc' # "collect" /\ pc' \notin {"switch", "transfer"}
  BY <1>2, <1>3
<1> QED  BY <1>2, <1>8, <1>9, <1>10, <1>11, MovedAtRest, Zenon

\* An upload that misses an object stops the queue.
LEMMA BatchMissingKeeps ==
    ASSUME QueueInv, pc = "batch", NEW answer, BatchMissing(answer),
           UNCHANGED <<direction, added, incoming, completed, notified, retries, adapter, workerVars>>
    PROVE  QueueInv'
<1>1. /\ aborted' = TRUE /\ pc' = Back /\ batch' = {} /\ UNCHANGED <<pending, retry_count, chosen>>
      /\ fate' = [o \in Oids |-> IF o \in batch \intersect Missing THEN "error" ELSE fate[o]]
  BY Zenon DEF BatchMissing
<1>2. UNCHANGED <<jobs, results, worker, gate>>
  BY Zenon DEF workerVars
<1>3. /\ batch \subseteq Oids /\ Back \in {"adding", "wait"} /\ fate \in [Oids -> Fates]
      /\ Distinct(pending, Range(pending) \union {})
  BY BatchFacts, Zenon
<1>4. retries = {} /\ AtRest
  BY Zenon DEF QueueInv, Phase
<1>5. PICK D : D = batch \intersect Missing
  BY Zenon
<1>6. /\ \A o \in Oids : o \notin D => fate'[o] = fate[o]
      /\ \A o \in D : fate'[o] = "error"
  BY <1>1, <1>3, <1>5, Zenon
<1>7. fate' \in [Oids -> Fates]
  BY <1>1, <1>3, Zenon DEF Fates
<1>8. Moved({}, D)
  <2>1. D \subseteq batch /\ {} \subseteq batch /\ {} \intersect D = {} /\ batch' \subseteq batch \ ({} \union D)
    BY <1>1, <1>5, Zenon
  <2>2. Distinct(pending', Range(pending) \union {}) /\ retries' = {} /\ UNCHANGED <<added, completed, notified, incoming>>
    BY <1>1, <1>3, <1>4, Zenon
  <2> QED  BY <1>1, <1>4, <1>6, <2>1, <2>2, Zenon DEF Moved
<1>9. OwnerTypes'
  BY <1>1, <1>3, <1>7, Zenon DEF QueueInv, OwnerTypes
<1>10. WorkerTypes' /\ \A w \in WorkerIds : ~Busy(w)'
  BY <1>2, <1>4, Zenon DEF QueueInv, WorkerTypes, AtRest, Busy
<1>11. pc # "collect" /\ pc' # "collect" /\ pc' \notin {"switch", "transfer"}
  BY <1>1, <1>3
<1> QED  BY <1>1, <1>2, <1>8, <1>9, <1>10, <1>11, MovedAtRest, Zenon

\* The server answers: what it wants moved stays in the batch, an expired action is asked for again,
\* and the rest is settled.
LEMMA BatchTakenKeeps ==
    ASSUME QueueInv, pc = "batch", NEW answer \in [batch -> Answers], BatchTaken(answer),
           UNCHANGED <<direction, added, incoming, completed, notified, retries, adapter, workerVars>>
    PROVE  QueueInv'
<1>1. PICK S : S = {o \in batch : answer[o] = "expired" /\ CanRetryCount(o)}
  BY Zenon
<1>2. PICK A : A = {o \in batch : answer[o] = "action"}
  BY Zenon
<1>3. PICK D : D = batch \ (S \union A)
  BY Zenon
<1>4. EnqueueRetry(S) /\ batch' = A /\ aborted' = aborted
  BY <1>1, <1>2, Zenon DEF BatchTaken
<1>5. /\ batch \subseteq Oids /\ batch \intersect Waiting = {} /\ Back \in {"adding", "wait"}
      /\ fate \in [Oids -> Fates]
  BY BatchFacts, Zenon
<1>6. /\ \A o \in Oids : o \notin batch => fate'[o] = fate[o]
      /\ \A o \in S \union A : fate'[o] = fate[o]
      /\ \A o \in D : fate'[o] \in {"error", "skipped", "omitted"}
  <2>1. fate' = [o \in Oids |-> IF o \in batch
                    THEN CASE answer[o] = "error"   -> "error"
                           [] answer[o] = "noop"    -> "skipped"
                           [] answer[o] = "omitted" -> "omitted"
                           [] answer[o] = "expired" /\ o \notin S -> "error"
                           [] OTHER -> fate[o]
                    ELSE fate[o]]
    BY <1>1 DEF BatchTaken
  <2>2. \A o \in batch : fate'[o] = CASE answer[o] = "error"   -> "error"
                           [] answer[o] = "noop"    -> "skipped"
                           [] answer[o] = "omitted" -> "omitted"
                           [] answer[o] = "expired" /\ o \notin S -> "error"
                           [] OTHER -> fate[o]
    BY <1>5, <2>1, Zenon
  <2>3. \A o \in batch : answer[o] \in {"error", "noop", "omitted", "expired", "action"}
    BY Zenon DEF Answers
  <2>4. \A o \in S : o \in batch /\ answer[o] = "expired"
    BY <1>1, Zenon
  <2>5. \A o \in A : o \in batch /\ answer[o] = "action"
    BY <1>2, Zenon
  <2>6. \A o \in D : o \in batch /\ o \notin S /\ answer[o] # "action"
    BY <1>2, <1>3, Zenon
  <2>7. \A o \in S \union A : fate'[o] = fate[o]
    BY <2>2, <2>4, <2>5
  <2>8. \A o \in D : fate'[o] \in {"error", "skipped", "omitted"}
    BY <2>2, <2>3, <2>6
  <2>9. \A o \in Oids : o \notin batch => fate'[o] = fate[o]
    BY <2>1, Zenon
  <2> QED  BY <2>7, <2>8, <2>9, Zenon
<1>7. retries = {} /\ AtRest
  BY Zenon DEF QueueInv, Phase
<1>8. Distinct(pending', Range(pending) \union S) /\ retry_count' \in [Oids -> 0..MaxRetries]
  <2>1. S \in SUBSET Oids /\ S \intersect Waiting = {} /\ \A o \in S : CanRetryCount(o)
    BY <1>1, <1>5, Zenon
  <2> QED  BY <1>4, <2>1, Requeued, Zenon
<1>9. S \subseteq batch /\ A \subseteq batch /\ S \intersect A = {}
  BY <1>1, <1>2
<1>10. D \subseteq batch /\ S \intersect D = {} /\ batch \ (S \union D) = A
  BY <1>3, <1>9, Zenon
<1>11. /\ \A o \in Oids : o \notin D => fate'[o] = fate[o]
       /\ \A o \in D : fate'[o] \notin {"none", "done"}
  <2>1. \A o \in Oids : o \notin D => o \notin batch \/ o \in S \union A
    BY <1>3, Zenon
  <2>2. \A f \in {"error", "skipped", "omitted"} : f \notin {"none", "done"}
    OBVIOUS
  <2> QED  BY <1>6, <2>1, <2>2, Zenon
<1>12. Moved(S, D)
  BY <1>4, <1>7, <1>8, <1>9, <1>10, <1>11, Zenon DEF Moved
<1>13. fate' \in [Oids -> Fates]
  <2>1. PICK g : fate' = [o \in Oids |-> g[o]]
    <3>1. fate' = [o \in Oids |-> fate'[o]]
      BY Zenon DEF BatchTaken
    <3> QED  BY <3>1, Zenon
  <2>2. \A o \in Oids : fate'[o] \in Fates
    BY <1>5, <1>6, <1>11, Zenon DEF Fates
  <2> QED  BY <2>1, <2>2, Zenon
<1>14. UNCHANGED <<jobs, results, worker, gate>>
  BY Zenon DEF workerVars
<1>15. \/ A = {} /\ pc' = Back /\ chosen' = chosen
       \/ chosen' \in Adapters /\ pc' \in {"switch", "transfer"}
  <2>1. CASE (\A o \in batch : answer[o] = "omitted") /\ pc' = Back /\ chosen' = chosen
    BY <1>2, <2>1
  <2>2. CASE (\E name \in Adapters : chosen' = name) /\ pc' = IF adapter \notin {"none", chosen'} THEN "switch" ELSE "transfer"
    BY <2>2, Zenon
  <2> QED  BY <2>1, <2>2, Zenon DEF BatchTaken
<1>16. OwnerTypes'
  BY <1>4, <1>5, <1>8, <1>13, <1>15, Zenon DEF QueueInv, OwnerTypes
<1>17. WorkerTypes' /\ \A w \in WorkerIds : ~Busy(w)'
  BY <1>7, <1>14, Zenon DEF QueueInv, WorkerTypes, AtRest, Busy
<1>18. /\ pc # "collect" /\ pc' # "collect"
       /\ pc' \in {"adding", "wait", "ending", "ended"} => A = {}
       /\ pc' \in {"switch", "transfer"} => chosen' \in Adapters
  BY <1>5, <1>15
<1> QED  BY <1>4, <1>12, <1>14, <1>16, <1>17, <1>18, MovedAtRest, Zenon

\* The batch request is answered.
LEMMA BatchAnswersKeeps == ASSUME QueueInv, BatchAnswers PROVE QueueInv'
<1>1. PICK answer \in [batch -> Answers] : BatchMissing(answer) \/ BatchTaken(answer)
  BY Zenon DEF BatchAnswers
<1>2. pc = "batch" /\ UNCHANGED <<direction, added, incoming, completed, notified, retries, adapter, workerVars>>
  BY Zenon DEF BatchAnswers
<1> QED  BY <1>1, <1>2, BatchMissingKeeps, BatchTakenKeeps, Zenon

\* An adapter begins, or its process does not start.
LEMMA BeginKeeps == ASSUME QueueInv, Begin PROVE QueueInv'
<1>1. /\ pc = "transfer"
      /\ UNCHANGED <<added, incoming, pending, completed, notified, retry_count, retries, aborted, chosen, jobs, results>>
  BY Zenon DEF Begin
<1>2. retries = {} /\ AtRest /\ chosen \in Adapters
  BY <1>1, Zenon DEF QueueInv, Phase
<1>3. CASE /\ adapter' = chosen /\ gate' = FALSE
           /\ worker' = [w \in WorkerIds |-> [pc |-> IF w = 0 THEN "take" ELSE "gate", job |-> "none", auth |-> w = 0]]
           /\ UNCHANGED <<pc, batch, fate>>
  <2>1. WorkerTypes'
    <3>1. \A w \in WorkerIds : (w = 0) \in BOOLEAN /\ (IF w = 0 THEN "take" ELSE "gate") \in {"none", "gate", "take", "busy", "stopped"}
      OBVIOUS
    <3> QED  BY <1>3, <3>1, Zenon DEF WorkerTypes
  <2>2. \A w \in WorkerIds : ~Busy(w)'
    BY <1>3 DEF Busy
  <2>3. OwnerTypes'
    BY <1>1, <1>2, <1>3, Zenon DEF QueueInv, OwnerTypes
  <2>4. pc # "collect" /\ pc' # "collect" /\ pc' \notin {"adding", "wait", "ending", "ended"}
    BY <1>1, <1>3
  <2> QED  BY <1>1, <1>2, <1>3, <2>1, <2>2, <2>3, <2>4, OnlyPc, Zenon
<1>4. CASE /\ fate' = [o \in Oids |-> IF o \in batch THEN "error" ELSE fate[o]]
           /\ batch' = {} /\ pc' = Back
           /\ UNCHANGED <<adapter, worker, gate>>
  <2>1. /\ batch \subseteq Oids /\ Back \in {"adding", "wait"} /\ fate \in [Oids -> Fates]
        /\ Distinct(pending, Range(pending) \union {})
    BY BatchFacts, Zenon
  <2>2. /\ \A o \in Oids : o \notin batch => fate'[o] = fate[o]
        /\ \A o \in batch : fate'[o] = "error"
    BY <1>4, <2>1, Zenon
  <2>3. fate' \in [Oids -> Fates]
    BY <1>4, <2>1, Zenon DEF Fates
  <2>4. Moved({}, batch)
    <3>1. {} \subseteq batch /\ {} \intersect batch = {} /\ batch \ ({} \union batch) = {}
      BY Zenon
    <3>2. Distinct(pending', Range(pending) \union {}) /\ retries' = {} /\ aborted' = aborted /\ batch' = {}
      BY <1>1, <1>2, <1>4, <2>1, Zenon
    <3> QED  BY <1>1, <1>2, <2>2, <3>1, <3>2, Zenon DEF Moved
  <2>5. OwnerTypes'
    BY <1>1, <1>4, <2>1, <2>3, Zenon DEF QueueInv, OwnerTypes
  <2>6. WorkerTypes' /\ \A w \in WorkerIds : ~Busy(w)'
    BY <1>2, <1>4, Zenon DEF QueueInv, WorkerTypes, AtRest, Busy
  <2>7. pc # "collect" /\ pc' # "collect" /\ pc' \notin {"switch", "transfer"}
    BY <1>1, <1>4, <2>1
  <2> QED  BY <1>1, <1>4, <2>4, <2>5, <2>6, <2>7, MovedAtRest, Zenon
<1> QED  BY <1>3, <1>4, Zenon DEF Begin

\* What the adapter is given is out.
LEMMA SubmitKeeps == ASSUME QueueInv, Submit PROVE QueueInv'
<1>1. PICK D : /\ D \subseteq batch /\ jobs' = batch \ D /\ batch' = batch \ D
               /\ fate' = [o \in Oids |-> IF o \in D THEN "error" ELSE fate[o]]
  <2>1. PICK D : D = IF direction = "upload" THEN batch \intersect Missing ELSE {}
    BY Zenon
  <2>2. D \subseteq batch
    BY <2>1, Zenon
  <2> QED  BY <2>1, <2>2, Zenon DEF Submit
<1>2. /\ pc = "transfer" /\ pc' = "collect" /\ retries' = {}
      /\ UNCHANGED <<added, incoming, pending, completed, notified, retry_count, aborted, adapter, chosen, results, worker, gate>>
  BY Zenon DEF Submit
<1>3. retries = {} /\ AtRest
  BY <1>2, Zenon DEF QueueInv, Phase
<1>4. batch \subseteq Oids /\ fate \in [Oids -> Fates] /\ Distinct(pending, Range(pending) \union {})
  BY BatchFacts, Zenon
<1>5. /\ \A o \in Oids : o \notin D => fate'[o] = fate[o]
      /\ \A o \in D : fate'[o] = "error"
  BY <1>1, <1>4, Zenon
<1>6. fate' \in [Oids -> Fates]
  BY <1>1, <1>4, Zenon DEF Fates
<1>7. Moved({}, D)
  <2>1. {} \subseteq batch /\ {} \intersect D = {} /\ batch' = batch \ ({} \union D) /\ batch' \subseteq batch \ ({} \union D)
    BY <1>1, Zenon
  <2>2. Distinct(pending', Range(pending) \union {})
    BY <1>2, <1>4, Zenon
  <2> QED  BY <1>1, <1>2, <1>3, <1>5, <2>1, <2>2, Zenon DEF Moved
<1>8. Listed' /\ Apart' /\ Known' /\ Told'
  BY <1>7, MovedKeeps, Zenon
<1>9. OwnerTypes' /\ WorkerTypes'
  BY <1>2, <1>6, Zenon DEF QueueInv, OwnerTypes, WorkerTypes
<1>10. Flight'
  <2>1. results' = {} /\ jobs' = batch' /\ \A w \in WorkerIds : ~Busy(w)'
    BY <1>1, <1>2, <1>3, Zenon DEF AtRest, Busy
  <2> QED  BY <2>1, Zenon DEF Flight
<1>11. Phase'
  <2>1. pc' \notin {"adding", "wait", "ending", "ended"} /\ pc' \notin {"switch", "transfer"} /\ pc' = "collect"
    BY <1>2
  <2> QED  BY <1>2, <2>1, Zenon DEF Phase
<1> QED  BY <1>8, <1>9, <1>10, <1>11, Zenon DEF QueueInv

\* A result comes in: the object is transferred and its names told, is to be tried again, or has failed.
LEMMA CollectKeeps == ASSUME QueueInv, Collect PROVE QueueInv'
<1>1. PICK r \in results :
        LET o == r.job
            again == r.result \in {"retriable", "later"} /\ CanRetryCount(o)
        IN  /\ results' = results \ {r} /\ batch' = batch \ {o}
            /\ retries' = IF again THEN retries \union {o} ELSE retries
            /\ completed' = IF r.result = "ok" THEN completed \union {o} ELSE completed
            /\ notified' = [i \in 1..Len(Adds) |->
                               IF r.result = "ok" /\ i \in Named(o) THEN notified[i] + 1 ELSE notified[i]]
            /\ fate' = [fate EXCEPT ![o] = CASE again -> @
                                             [] r.result = "ok" -> "done"
                                             [] r.result = "unprocessable" -> "unsupported"
                                             [] OTHER -> "error"]
  BY Zenon DEF Collect
<1>2. PICK o : o = r.job
  BY Zenon
<1>3. PICK again \in BOOLEAN : again <=> r.result \in {"retriable", "later"} /\ CanRetryCount(o)
  BY Zenon
<1>4. PICK f : f = CASE again -> fate[o]
                     [] r.result = "ok" -> "done"
                     [] r.result = "unprocessable" -> "unsupported"
                     [] OTHER -> "error"
  BY Zenon
<1>5. results' = results \ {r} /\ batch' = batch \ {o}
  BY <1>1, <1>2, Zenon
<1>6. retries' = IF again THEN retries \union {o} ELSE retries
  BY <1>1, <1>2, <1>3, Zenon
<1>7. completed' = IF r.result = "ok" THEN completed \union {o} ELSE completed
  BY <1>1, <1>2, Zenon
<1>8. notified' = [i \in 1..Len(Adds) |-> IF r.result = "ok" /\ i \in Named(o) THEN notified[i] + 1 ELSE notified[i]]
  BY <1>1, <1>2, Zenon
<1>9. fate' = [fate EXCEPT ![o] = f]
  BY <1>1, <1>2, <1>3, <1>4, Zenon
<1>10. /\ pc = "collect"
       /\ UNCHANGED <<pc, added, incoming, pending, retry_count, aborted, adapter, chosen, jobs, worker, gate>>
  BY Zenon DEF Collect
<1>11. o \in batch /\ o \notin jobs /\ o \in Unsettled /\ o \in Oids /\ fate[o] = "none"
  BY <1>2, Zenon DEF QueueInv, Flight, Known, Places, Unsettled
<1>12. /\ again => f = fate[o] /\ r.result # "ok"
       /\ ~again => f \in {"done", "unsupported", "error"}
       /\ f = "done" <=> r.result = "ok"
  BY <1>3, <1>4, <1>11
<1>13. fate \in [Oids -> Fates]
  BY Zenon DEF QueueInv, OwnerTypes
<1>14. fate'[o] = f /\ (\A x \in Oids : x # o => fate'[x] = fate[x]) /\ fate' = [x \in Oids |-> fate'[x]]
  BY <1>9, <1>11, <1>13, Zenon
<1>15. fate' \in [Oids -> Fates]
  <2>1. f \in Fates
    BY <1>11, <1>12, <1>13 DEF Fates
  <2> QED  BY <1>13, <1>14, <2>1, Zenon
<1>16. OwnerTypes' /\ WorkerTypes'
  BY <1>10, <1>15, Zenon DEF QueueInv, OwnerTypes, WorkerTypes
<1>17. Listed' /\ Waiting' = Waiting
  BY <1>10, Zenon DEF QueueInv, Listed, Waiting
<1>18. Apart'
  BY <1>5, <1>6, <1>11, <1>17, Zenon DEF QueueInv, Apart
<1>19. Known'
  <2>1. CASE again
    <3>1. {} \in SUBSET Unsettled /\ \A x \in Oids : fate'[x] = fate[x]
      BY <1>12, <1>14, <2>1, Zenon
    <3>2. Unsettled' = Unsettled \ {} /\ SettledAdded'
      BY <1>10, <3>1, Settles, Zenon
    <3>3. Places' = Places \ {}
      BY <1>5, <1>6, <1>11, <1>17, <2>1, Zenon DEF Places
    <3>4. Places' \subseteq Places \ {} /\ Places \ {} \subseteq Places'
      BY <3>3, Zenon
    <3> QED  BY <1>10, <3>1, <3>2, <3>4, KnownKept, Zenon
  <2>2. CASE ~again
    <3>1. {o} \in SUBSET Unsettled /\ \A x \in {o} : fate'[x] # "none"
      BY <1>11, <1>12, <1>14, <2>2
    <3>2. \A x \in Oids : x \notin {o} => fate'[x] = fate[x]
      BY <1>14, Zenon
    <3>3. Unsettled' = Unsettled \ {o} /\ SettledAdded'
      BY <1>10, <3>1, <3>2, Settles, Zenon
    <3>4. o \notin Waiting /\ o \notin retries
      BY <1>11, Zenon DEF QueueInv, Apart
    <3>5. Places' = Places \ {o}
      BY <1>5, <1>6, <1>17, <2>2, <3>4, Zenon DEF Places
    <3>6. Places' \subseteq Places \ {o} /\ Places \ {o} \subseteq Places'
      BY <3>5, Zenon
    <3> QED  BY <1>10, <3>1, <3>3, <3>6, KnownKept, Zenon
  <2> QED  BY <2>1, <2>2, Zenon
<1>20. Told'
  <2>1. completed = {x \in Oids : fate[x] = "done"} /\ o \notin completed
    <3>1. "none" # "done"
      OBVIOUS
    <3> QED  BY <1>11, <3>1, Zenon DEF QueueInv, Told
  <2>2. completed' = {x \in Oids : fate'[x] = "done"}
    BY <1>7, <1>11, <1>12, <1>14, <2>1
  <2>3. \A i \in 1..Len(Adds) : notified[i] = IF i <= added /\ Adds[i] \in completed THEN 1 ELSE 0
    BY Zenon DEF QueueInv, Told
  <2>4. \A i \in 1..Len(Adds) : i \in Named(o) <=> i <= added /\ Adds[i] = o
    BY QueueAssumption DEF QueueInv, OwnerTypes, Named
  <2>5. \A i \in 1..Len(Adds) : (IF r.result = "ok" /\ i \in Named(o) THEN notified[i] + 1 ELSE notified[i])
                                  = IF i <= added /\ Adds[i] \in completed' THEN 1 ELSE 0
    <3> TAKE i \in 1..Len(Adds)
    <3>1. PICK n : n = notified[i]
      BY Zenon
    <3>2. CASE r.result = "ok" /\ i \in Named(o)
      <4>1. n = 0 /\ i <= added /\ Adds[i] \in completed'
        BY <1>7, <2>1, <2>3, <2>4, <3>1, <3>2, Zenon
      <4> QED  BY <3>1, <3>2, <4>1
    <3>3. CASE ~(r.result = "ok" /\ i \in Named(o))
      <4>1. i <= added => (Adds[i] \in completed' <=> Adds[i] \in completed)
        BY <1>7, <2>4, <3>3, Zenon
      <4> QED  BY <2>3, <3>3, <4>1, Zenon
    <3> QED  BY <3>2, <3>3, Zenon
  <2>6. notified' = [i \in 1..Len(Adds) |-> IF i <= added /\ Adds[i] \in completed' THEN 1 ELSE 0]
    BY <1>8, <2>5, Zenon
  <2> QED  BY <1>10, <2>2, <2>6, Zenon DEF Told
<1>21. Phase'
  <2>1. pc' \notin {"adding", "wait", "ending", "ended"} /\ pc' \notin {"switch", "transfer"} /\ pc' = "collect"
    BY <1>10
  <2>2. \A x \in retries' : CanRetryCount(x)'
    BY <1>3, <1>6, <1>10, Zenon DEF QueueInv, Phase, CanRetryCount
  <2> QED  BY <2>1, <2>2, Zenon DEF Phase
<1>22. Flight'
  <2>1. jobs' = jobs /\ worker' = worker /\ jobs \subseteq batch
    BY <1>10, Zenon DEF QueueInv, Flight
  <2>2. \A w \in WorkerIds : Busy(w)' <=> Busy(w)
    BY <2>1, Zenon DEF Busy
  <2>3. \A w \in WorkerIds : Busy(w) => worker[w].job \in batch \ jobs /\ worker[w].job # o
    BY <1>2, Zenon DEF QueueInv, Flight
  <2>4. \A q \in results \ {r} : q.job \in batch \ jobs /\ q.job # o /\ \A w \in WorkerIds : Busy(w) => worker[w].job # q.job
    BY <1>2, Zenon DEF QueueInv, Flight
  <2>5. jobs' \subseteq batch'
    BY <1>5, <1>11, <2>1, Zenon
  <2>6. \A v, w \in WorkerIds : Busy(v) /\ Busy(w) /\ worker[v].job = worker[w].job => v = w
    BY Zenon DEF QueueInv, Flight
  <2>7. \A p, q \in results \ {r} : p.job = q.job => p = q
    BY Zenon DEF QueueInv, Flight
  <2> QED  BY <1>5, <2>1, <2>2, <2>3, <2>4, <2>5, <2>6, <2>7, Zenon DEF Flight
<1> QED  BY <1>16, <1>17, <1>18, <1>19, <1>20, <1>21, <1>22, Zenon DEF QueueInv

\* All results are in.
LEMMA CollectedKeeps == ASSUME QueueInv, Collected PROVE QueueInv'
<1>1. /\ pc = "collect" /\ batch = {} /\ EnqueueRetry(retries) /\ retries' = {} /\ pc' = Back
      /\ UNCHANGED <<added, incoming, batch, completed, notified, fate, aborted, adapter, chosen, jobs, results, worker, gate>>
  BY Zenon DEF Collected, workerVars
<1>2. Back \in {"adding", "wait"}
  BY BatchFacts, Zenon
<1>3. /\ retries \in SUBSET Oids /\ retries \intersect Waiting = {} /\ \A o \in retries : CanRetryCount(o)
  BY Zenon DEF QueueInv, Known, Places, Unsettled, Apart, Phase
<1>4. Distinct(pending', Range(pending) \union retries) /\ retry_count' \in [Oids -> 0..MaxRetries]
  BY <1>1, <1>3, Requeued, Zenon
<1>5. Range(pending') = Range(pending) \union retries
  BY <1>4, Zenon DEF Distinct
<1>6. Listed' /\ Waiting' = Waiting \union retries
  BY <1>1, <1>3, <1>4, <1>5, Zenon DEF QueueInv, Listed, Waiting
<1>7. Places' = Places /\ Apart'
  BY <1>1, <1>6, Zenon DEF Places, Apart
<1>8. Known'
  <2>1. {} \in SUBSET Unsettled /\ \A o \in Oids : fate'[o] = fate[o]
    BY <1>1, Zenon
  <2>2. Unsettled' = Unsettled \ {} /\ SettledAdded'
    BY <1>1, <2>1, Settles, Zenon
  <2>3. Places' \subseteq Places \ {} /\ Places \ {} \subseteq Places'
    BY <1>7, Zenon
  <2> QED  BY <1>1, <2>1, <2>2, <2>3, KnownKept, Zenon
<1>9. Told'
  <2>1. \A o \in Oids : fate'[o] = "done" <=> fate[o] = "done"
    BY <1>1, Zenon
  <2> QED  BY <1>1, <2>1, ToldSame, Zenon
<1>10. AtRest /\ \A w \in WorkerIds : ~Busy(w)'
  BY <1>1, Zenon DEF QueueInv, Flight, AtRest, Busy
<1>11. AtRest' /\ Flight'
  BY <1>1, <1>10, Resting, Zenon
<1>12. Phase'
  <2>1. pc' \notin {"switch", "transfer"}
    BY <1>1, <1>2
  <2> QED  BY <1>1, <1>11, <2>1, Zenon DEF Phase
<1>13. OwnerTypes' /\ WorkerTypes'
  BY <1>1, <1>2, <1>4, Zenon DEF QueueInv, OwnerTypes, WorkerTypes
<1> QED  BY <1>6, <1>7, <1>8, <1>9, <1>11, <1>12, <1>13, Zenon DEF QueueInv

-----------------------------------------------------------------------------
(* The queue's theorems *)

\* Every step of the owner and of a worker keeps the invariant.
LEMMA QueueNext == QueueInv /\ [Next]_vars => QueueInv'
<1> SUFFICES ASSUME QueueInv, [Next]_vars PROVE QueueInv'
  OBVIOUS
<1>1. CASE Add
  BY <1>1, AddAgain, AddNew, Zenon
<1>2. CASE Wait \/ WaitEnds
  BY <1>2, WaitKeeps, Zenon
<1>3. CASE WaitNext
  BY <1>3, WaitNextKeeps, Zenon
<1>4. CASE FinishAdapter
  BY <1>4, FinishKeeps, Zenon
<1>5. CASE BatchFails
  BY <1>5, BatchFailsKeeps, Zenon
<1>6. CASE BatchAnswers
  BY <1>6, BatchAnswersKeeps, Zenon
<1>7. CASE Begin
  BY <1>7, BeginKeeps, Zenon
<1>8. CASE Submit
  BY <1>8, SubmitKeeps, Zenon
<1>9. CASE Collect
  BY <1>9, CollectKeeps, Zenon
<1>10. CASE Collected
  BY <1>10, CollectedKeeps, Zenon
<1>11. ASSUME NEW w \in WorkerIds, Work(w) PROVE QueueInv'
  BY <1>11, PassGateKeeps, TakeKeeps, TransferKeeps, StopKeeps, Zenon DEF Work
<1>12. CASE UNCHANGED vars
  <2>1. UNCHANGED ownerVars /\ UNCHANGED workerVars
    BY <1>12, Zenon DEF vars
  <2>2. /\ UNCHANGED <<direction, pc, added, incoming, pending, batch, completed, notified, fate, retry_count, retries,
                       aborted, adapter, chosen>>
        /\ UNCHANGED <<jobs, results, worker, gate>>
    BY <2>1, Zenon DEF ownerVars, workerVars
  <2>3. Listed' /\ Apart' /\ Known' /\ Told'
    BY <2>2, Undisturbed, Zenon
  <2>4. OwnerTypes' /\ WorkerTypes' /\ Phase' /\ Flight'
    BY <2>2, Zenon DEF QueueInv, OwnerTypes, WorkerTypes, Phase, AtRest, CanRetryCount, Flight, Busy
  <2> QED  BY <2>3, <2>4, Zenon DEF QueueInv
<1> QED
  BY <1>1, <1>2, <1>3, <1>4, <1>5, <1>6, <1>7, <1>8, <1>9, <1>10, <1>11, <1>12, Zenon DEF Next, Owner

\* The invariant holds.
LEMMA QueueInvariant == Spec => []QueueInv
BY QueueInit, QueueNext, PTL DEF Spec

\* What Accounted says, in the terms of the invariant.
LEMMA QueueAccounts == QueueInv => Accounted
<1> SUFFICES ASSUME QueueInv PROVE Accounted
  OBVIOUS
<1>1. PICK waiting : waiting = incoming \o pending
  BY Zenon
<1>2. Distinct(waiting, Waiting)
  BY <1>1, ConcatDistinct, Zenon DEF QueueInv, Listed, Waiting
<1>3. IsInjective(waiting) /\ Range(waiting) = Waiting
  BY <1>2, Zenon DEF Distinct
<1>4. Places \subseteq Oids /\ completed \subseteq Oids /\ jobs \subseteq batch
  BY Zenon DEF QueueInv, Known, Unsettled, Told, Flight
<1>5. notified \in [1..Len(Adds) -> 0..1]
  <2>1. 0 \in 0..1 /\ 1 \in 0..1
    OBVIOUS
  <2>2. notified = [i \in 1..Len(Adds) |-> IF i <= added /\ Adds[i] \in completed THEN 1 ELSE 0]
    BY Zenon DEF QueueInv, Told
  <2> QED  BY <2>1, <2>2, Zenon
<1>6. TypeOK
  <2>1. Range(incoming) \union Range(pending) \union batch \subseteq Oids /\ retries \subseteq Oids
    BY <1>4, Zenon DEF Places, Waiting
  <2> QED  BY <1>4, <1>5, <2>1, Zenon DEF QueueInv, OwnerTypes, WorkerTypes, TypeOK, Fates
<1>7. Waiting \intersect (batch \union retries) = {} /\ batch \intersect retries = {}
  BY Zenon DEF QueueInv, Apart
<1>8. aborted \/ Waiting \union batch \union retries = {o \in Oids : Named(o) # {} /\ fate[o] = "none"}
  <2>1. aborted \/ Places = Unsettled
    BY Zenon DEF QueueInv, Known
  <2> QED  BY <2>1, Zenon DEF Places, Unsettled
<1> QED  BY <1>1, <1>3, <1>6, <1>7, <1>8, Zenon DEF Accounted

\* The same of NotifiedOnce.
LEMMA QueueNotifies == QueueInv => NotifiedOnce
<1> SUFFICES ASSUME QueueInv, NEW i \in 1..added PROVE notified[i] = IF Adds[i] \in completed THEN 1 ELSE 0
  BY Zenon DEF NotifiedOnce
<1>1. i \in 1..Len(Adds) /\ i <= added
  BY QueueAssumption DEF QueueInv, OwnerTypes
<1>2. notified = [k \in 1..Len(Adds) |-> IF k <= added /\ Adds[k] \in completed THEN 1 ELSE 0]
  BY Zenon DEF QueueInv, Told
<1> QED  BY <1>1, <1>2, Zenon

\* No object is lost or tried twice at a time (TransferQueue of tq.rs): whatever the server answers, for
\* every list of objects, batch size, number of retries and workers, what has been added is waiting once,
\* or in the batch that is out, or has its one fate, and only an abort drops what was waiting.
THEOREM AccountedHolds == Spec => []Accounted
BY QueueInvariant, QueueAccounts, PTL

\* The watchers are told once of every name of an object that was transferred, whether the name was added
\* before the transfer (handle_result) or after it (add), and of no other name.
THEOREM NotifiedOnceHolds == Spec => []NotifiedOnce
BY QueueInvariant, QueueNotifies, PTL

-----------------------------------------------------------------------------
(* Downloads *)

\* A process that asks for the rest or checks the hash has hashed its file; the invariant is
\* inductive with the domain of proc.
PartInv == DOMAIN proc = Procs /\ PlacedIsObject

\* No process has a file, and the store is empty.
LEMMA PartInitially == PartInit => PartInv
BY DEF PartInit, PartInv, PlacedIsObject, Idle

\* A process that gives up or is killed leaves the store and the others alone.
LEMMA FailKeeps ==
    ASSUME PartInv, NEW p \in Procs, placed' = placed, proc' = [proc EXCEPT ![p] = Idle]
    PROVE  PartInv'
BY DEF PartInv, PlacedIsObject, Idle, Object

\* Every attempt keeps the invariant: a body goes to the file and to the hasher, and a restart
\* empties both.
LEMMA AttemptKeeps ==
    ASSUME PartInv, NEW p \in Procs, Attempt(p)
    PROVE  PartInv'
<1>1. CASE BeginPart(p)
  <2>1. PICK kept : /\ proc' = [proc EXCEPT ![p] = [pc |-> "request", file |-> kept, hashed |-> kept, from |-> Len(kept)]]
                    /\ placed' = placed
    BY <1>1, Zenon DEF BeginPart
  <2> QED  BY <2>1 DEF PartInv, PlacedIsObject, Object
<1>2. CASE Body(p)
  <2>1. PICK body, to : /\ proc' = [proc EXCEPT ![p].pc = to, ![p].file = @ \o body, ![p].hashed = @ \o body]
                        /\ placed' = placed /\ proc[p].pc = "request"
    BY <1>2, Zenon DEF Body
  <2> QED  BY <2>1 DEF PartInv, PlacedIsObject, Object
<1>3. CASE WholeBody(p)
  <2>1. PICK body, broken : proc' = [proc EXCEPT ![p] = IF broken THEN Restarted(proc[p])
                 ELSE [Restarted(proc[p]) EXCEPT !.pc = "check", !.file = @ \o body, !.hashed = @ \o body]]
    BY <1>3, Zenon DEF WholeBody
  <2>2. placed' = placed
    BY <1>3, Zenon DEF WholeBody
  <2>3. CASE broken
    BY <2>1, <2>2, <2>3 DEF PartInv, PlacedIsObject, Object, Restarted
  <2>4. CASE ~broken
    BY <2>1, <2>2, <2>4 DEF PartInv, PlacedIsObject, Object, Restarted
  <2> QED  BY <2>3, <2>4, Zenon
<1>4. CASE Refused(p)
  BY <1>4 DEF Refused, PartInv, PlacedIsObject, Object, Restarted
<1>5. CASE NoBody(p) \/ BrokenOff(p) \/ Mismatch(p)
  BY <1>5, FailKeeps DEF NoBody, BrokenOff, Mismatch, Fail
<1>6. CASE Place(p)
  BY <1>6 DEF Place, PartInv, PlacedIsObject, Object, Idle
<1> QED  BY <1>1, <1>2, <1>3, <1>4, <1>5, <1>6 DEF Attempt

\* Every step of a process, a kill and the mended server keep the invariant.
LEMMA PartNextKeeps == PartInv /\ [PartNext]_partVars => PartInv'
<1> SUFFICES ASSUME PartInv, [PartNext]_partVars PROVE PartInv'
  OBVIOUS
<1>1. CASE Mend
  BY <1>1 DEF Mend, PartInv, PlacedIsObject, Object
<1>2. ASSUME NEW p \in Procs, Attempt(p) PROVE PartInv'
  BY <1>2, AttemptKeeps
<1>3. ASSUME NEW p \in Procs, Killed(p) PROVE PartInv'
  BY <1>3, FailKeeps, Zenon DEF Killed
<1>4. CASE UNCHANGED partVars
  BY <1>4 DEF partVars, PartInv, PlacedIsObject, Object
<1> QED  BY <1>1, <1>2, <1>3, <1>4 DEF PartNext

\* The object in the store is the one asked for (download renames a file into place when the hash of
\* the stream is the object's): the file has always the bytes that were hashed.
THEOREM PlacedHolds == PartSpec => []PlacedIsObject
<1>1. PartInv => PlacedIsObject
  BY DEF PartInv
<1> QED  BY PartInitially, PartNextKeeps, <1>1, PTL DEF PartSpec
=============================================================================
