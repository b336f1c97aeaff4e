-------------------------- MODULE PackedRingProofs --------------------------
(***************************************************************************)
(* Proofs about PackedRing, for every size of the ring, every length of    *)
(* the chains and every number of requests and resets.                     *)
(*                                                                         *)
(* The indexes of the two sides are read as positions that do not wrap:    *)
(* request k has the descriptors from p[k] to p[k + 1] - 1 and the id      *)
(* id[k].  Position x is slot At(x) of the ring, and Turn(x) is what the   *)
(* wrap counter of whoever stands there must be.  The inductive invariant  *)
(* says what each position's descriptor holds while it is the driver's,    *)
(* the device's, or a completion.                                          *)
(***************************************************************************)
EXTENDS PackedRing, SequenceTheorems, TLAPS

At(x) == x % Size
Turn(x) == 1 - ((x \div Size) % 2)

-----------------------------------------------------------------------------
(* Positions *)

\* The ring has a descriptor.
LEMMA SizeFact == Size \in Nat \ {0}
BY RingAssumption

\* Multiples of a positive number are zero or at least that far from it.
LEMMA Times ==
  ASSUME NEW b \in Nat \ {0}, NEW q \in Int
  PROVE (q >= 1 => b * q >= b) /\ (q <= -1 => b * q <= -b) /\ b * q \in Int
OBVIOUS

\* A position is whole turns of the ring and a slot.
LEMMA Split ==
  ASSUME NEW x \in Nat PROVE x = Size * (x \div Size) + At(x) /\ At(x) \in 0..(Size-1) /\ x \div Size \in Nat
BY SizeFact DEF At

\* It is so in one way only.
LEMMA Unique ==
  ASSUME NEW q \in Int, NEW r \in 0..(Size-1), NEW q1 \in Int, NEW r1 \in 0..(Size-1),
    Size * q + r = Size * q1 + r1
  PROVE q = q1 /\ r = r1
<1>1. Size * (q - q1) = r1 - r
  BY SizeFact
<1>2. q - q1 \in Int
  OBVIOUS
<1>3. ~(q - q1 >= 1) /\ ~(q - q1 <= -1)
  BY <1>1, <1>2, Times, SizeFact
<1> QED BY <1>1, <1>3, SizeFact

\* % Size on a number at most one turn away from the slots.
LEMMA Near ==
  ASSUME NEW z \in Int, NEW q \in -1..1, z - Size * q \in 0..(Size - 1)
  PROVE  z % Size = z - Size * q
<1>1. z = Size * (z \div Size) + (z % Size) /\ z % Size \in 0..(Size - 1) /\ z \div Size \in Int
  BY SizeFact
<1>2. PICK r \in 0..(Size - 1) : r = z - Size * q
  OBVIOUS
<1>3. Size * q + r = Size * (z \div Size) + (z % Size)
  BY <1>1, <1>2, SizeFact
<1> QED BY <1>1, <1>2, <1>3, Unique

\* What % Size does to a number less than one turn away.
LEMMA NearFacts ==
  ASSUME NEW z \in Int
  PROVE  /\ z \in 0..(Size - 1) => z % Size = z
         /\ z - Size \in 0..(Size - 1) => z % Size = z - Size
         /\ z + Size \in 0..(Size - 1) => z % Size = z + Size
<1>1. PICK a \in -1..1, b \in -1..1, c \in -1..1 : a = 0 /\ b = 1 /\ c = -1
  OBVIOUS
<1>2. Size * a = 0 /\ Size * b = Size /\ Size * c = -Size
  BY <1>1, SizeFact
<1>3. (z - Size * a \in 0..(Size - 1) => z % Size = z - Size * a)
  BY Near
<1>4. (z - Size * b \in 0..(Size - 1) => z % Size = z - Size * b)
  BY Near
<1>5. (z - Size * c \in 0..(Size - 1) => z % Size = z - Size * c)
  BY Near
<1> QED BY <1>2, <1>3, <1>4, <1>5, SizeFact

\* Queue::advance moves index and wrap counter as the positions say, by up to a whole turn.
LEMMA Place ==
  ASSUME NEW x \in Nat, NEW i \in 0..Size
  PROVE  /\ Slot(At(x), i) = At(x + i) /\ WrapAt(At(x), Turn(x), i) = Turn(x + i)
         /\ At(x) \in 0..(Size - 1) /\ Turn(x) \in 0..1
<1> DEFINE q == x \div Size
<1>1. x = Size * q + At(x) /\ At(x) \in 0..(Size - 1) /\ q \in Nat
  BY Split
<1>2. x + i \in Nat /\ x + i = Size * ((x + i) \div Size) + At(x + i) /\ At(x + i) \in 0..(Size - 1) /\ (x + i) \div Size \in Nat
  <2>1. PICK y \in Nat : y = x + i
    BY SizeFact
  <2>2. y = Size * (y \div Size) + At(y) /\ At(y) \in 0..(Size - 1) /\ y \div Size \in Nat
    BY Split
  <2> QED BY <2>1, <2>2
<1> HIDE DEF q
<1>3. CASE At(x) + i < Size
  <2>1. (x + i) \div Size = q /\ At(x + i) = At(x) + i
    BY <1>1, <1>2, <1>3, Unique, SizeFact
  <2>2. Slot(At(x), i) = At(x) + i
    BY <1>1, <1>3, SizeFact DEF Slot
  <2> QED BY <1>1, <1>2, <1>3, <2>1, <2>2, SizeFact DEF WrapAt, Turn, q
<1>4. CASE At(x) + i >= Size /\ At(x) + i - Size < Size
  <2>1. (x + i) \div Size = q + 1 /\ At(x + i) = At(x) + i - Size
    <3>1. Size * (q + 1) = Size * q + Size
      BY <1>1, SizeFact
    <3>2. PICK q1 \in Int, r \in 0..(Size - 1) : q1 = q + 1 /\ r = At(x) + i - Size
      BY <1>1, <1>4, SizeFact
    <3>3. Size * ((x + i) \div Size) + At(x + i) = Size * q1 + r
      BY <1>1, <1>2, <3>1, <3>2, SizeFact
    <3> QED BY <1>2, <3>2, <3>3, Unique
  <2>2. Slot(At(x), i) = At(x) + i - Size
    BY <1>1, <1>4, NearFacts, SizeFact DEF Slot
  <2>3. (q + 1) % 2 = 1 - (q % 2) /\ q % 2 \in 0..1
    BY <1>1
  <2> QED BY <1>1, <1>2, <1>4, <2>1, <2>2, <2>3, SizeFact DEF WrapAt, Turn, q
<1> QED BY <1>1, <1>3, <1>4, SizeFact

\* Two positions less than a turn apart share no slot.
LEMMA Apart ==
  ASSUME NEW x \in Nat, NEW y \in Nat, At(x) = At(y), x - y < Size, y - x < Size
  PROVE  x = y
<1> DEFINE q == x \div Size  r == y \div Size
<1>1. x = Size * q + At(x) /\ q \in Nat /\ y = Size * r + At(y) /\ r \in Nat /\ At(x) \in 0..(Size - 1)
  BY Split
<1> HIDE DEF q, r
<1>2. x - y = Size * (q - r) /\ q - r \in Int
  BY <1>1, SizeFact
<1>3. ~(q - r >= 1) /\ ~(q - r <= -1)
  BY <1>2, Times, SizeFact
<1> QED BY <1>1, <1>2, <1>3, SizeFact

\* A turn later the slot is the same and the wrap counter the other one.
LEMMA Around ==
  ASSUME NEW x \in Nat PROVE At(x + Size) = At(x) /\ Turn(x + Size) = 1 - Turn(x)
<1>1. Slot(At(x), Size) = At(x + Size) /\ WrapAt(At(x), Turn(x), Size) = Turn(x + Size) /\ At(x) \in 0..(Size - 1)
  BY Place, SizeFact
<1>2. WrapAt(At(x), Turn(x), Size) = 1 - Turn(x)
  BY <1>1, SizeFact DEF WrapAt
<1>3. (At(x) + Size) % Size = At(x)
  BY <1>1, NearFacts, SizeFact
<1> QED BY <1>1, <1>2, <1>3 DEF Slot

\* Every slot is less than one turn ahead of a position.
LEMMA Offset ==
  ASSUME NEW x \in Nat, NEW s \in 0..(Size - 1)
  PROVE  \E i \in 0..(Size - 1) : s = At(x + i) /\ (s - At(x)) % Size = i
<1>1. At(x) \in 0..(Size - 1)
  BY Split
<1>2. (s - At(x)) % Size = IF s >= At(x) THEN s - At(x) ELSE s - At(x) + Size
  BY <1>1, NearFacts, SizeFact
<1>3. PICK i \in 0..(Size - 1) : (s - At(x)) % Size = i
  BY <1>1, <1>2, SizeFact
<1>4. Slot(At(x), i) = At(x + i)
  BY Place, SizeFact
<1>5. Slot(At(x), i) = s
  BY <1>1, <1>2, <1>3, NearFacts, SizeFact DEF Slot
<1> QED BY <1>3, <1>4, <1>5
-----------------------------------------------------------------------------
(* The inductive invariant *)

Done == Len(completed)
Taken == Len(handled)
Made == driver.made

\* The request at used_index, and the one at the driver's next available index.
Using == IF job.pc = "idle" THEN Taken + 1 ELSE Taken
Publishing == IF driver.adding = 0 THEN Made + 1 ELSE Made

\* The driver can see the completion of request k.
Stored == job.pc = "idle" \/ (job.pc = "store" /\ job.stores = <<>>)
Visible(k) == k < Taken \/ (k = Taken /\ Stored)

Counts ==
    /\ Done <= Taken /\ Taken < Publishing /\ Publishing <= Made + 1
    /\ job.pc # "idle" => Taken >= 1
    /\ ~Stored => Done < Taken

\* The driver takes what the device took, in order.
Histories == \A k \in 1..Taken : handled[k].req = k /\ (k <= Done => completed[k] = handled[k])

\* The requests follow one another, and those that are out fit into the ring.
Spaced(p) ==
    /\ p \in [1..(Made + 1) -> Nat]
    /\ \A j, k \in 1..(Made + 1) : j < k => p[j] < p[k]
    /\ \A k \in 1..Made : p[k + 1] - p[k] <= MaxChain
    /\ p[Made + 1] - p[Done + 1] = Size - driver.num_free

Indexes(p) ==
    /\ driver.used = At(p[Done + 1]) /\ driver.used_wrap = Turn(p[Done + 1])
    /\ queue.avail_index = At(p[Taken + 1]) /\ queue.avail_wrap = Turn(p[Taken + 1])
    /\ queue.used_index = At(p[Using]) /\ queue.used_wrap = Turn(p[Using])
    /\ driver.avail = At(p[Publishing]) /\ driver.avail_wrap = Turn(p[Publishing])
    /\ driver.adding # 0 => driver.adding = p[Made + 1] - p[Made]

\* The driver knows a request that is out by its id.
Heads(p, id) ==
    /\ id \in [1..Made -> Slots]
    /\ \A k \in (Done + 1)..Made : driver.heads[id[k]].num = p[k + 1] - p[k] /\ driver.heads[id[k]].req = k
    /\ \A s \in Slots : driver.heads[s].num # 0 => \E k \in (Done + 1)..Made : id[k] = s

Span(p, k) == p[k]..(p[k + 1] - 1)

\* A free position looks neither offered nor completed, nor does the first one of a request that is not
\* published.
FreeKept(p) == \A x \in p[Made + 1]..(p[Done + 1] + Size - 1) : ring[At(x)].avail = 1 - Turn(x)
HeadKept(p) == Publishing <= Made => ring[At(p[Publishing])].avail = 1 - Turn(p[Publishing])

\* The positions of the requests the device has not taken.
MadeAt(p, id, k, x) ==
    /\ ring[At(x)].id = id[k] /\ ring[At(x)].req = k
    /\ (k # Publishing \/ x # p[k]) =>
          /\ ring[At(x)].avail = Turn(x) /\ ring[At(x)].used = 1 - Turn(x)
          /\ ring[At(x)].next = IF x < p[k + 1] - 1 THEN 1 ELSE 0
MadeKept(p, id) == \A k \in (Taken + 1)..Made : \A x \in Span(p, k) : MadeAt(p, id, k, x)

\* The positions of those it has taken; the first one holds the completion.
TakenKept(p) == \A k \in (Done + 1)..Taken : \A x \in Span(p, k) : ring[At(x)].avail = Turn(x)
DoneKept(p, id) ==
    \A k \in (Done + 1)..Taken :
       /\ Visible(k) => /\ ring[At(p[k])].used = Turn(p[k]) /\ ring[At(p[k])].id = id[k]
                        /\ ring[At(p[k])].len = handled[k].len
       /\ ~Visible(k) => ring[At(p[k])].used = 1 - Turn(p[k])

\* The request in hand and what of its completion is stored.
JobKept(p, id) ==
    job.pc # "idle" =>
        /\ job.id = id[Taken] /\ job.len = handled[Taken].len /\ job.skip = p[Taken + 1] - p[Taken]
        /\ job.pc = "store" =>
              \/ job.stores = <<"len", "id", "low", "high">>
              \/ job.stores = <<"id", "low", "high">> /\ ring[At(p[Taken])].len = job.len
              \/ /\ job.stores = <<"low", "high">> \/ job.stores = <<"high">>
                 /\ ring[At(p[Taken])].len = job.len /\ ring[At(p[Taken])].id = job.id
              \/ job.stores = <<>>

\* The slots can be given ids of their own, the first one of every request that is out its id.
Owned(p, id) ==
    \E own \in [Slots -> Slots] :
       /\ \A r, s \in Slots : own[r] = own[s] => r = s
       /\ \A k \in (Done + 1)..Made : own[At(p[k])] = id[k]

Shape(p, id) ==
    /\ Spaced(p) /\ Indexes(p) /\ Heads(p, id) /\ FreeKept(p) /\ HeadKept(p) /\ MadeKept(p, id) /\ TakenKept(p)
    /\ DoneKept(p, id) /\ JobKept(p, id) /\ Owned(p, id)

Base == TypeOK /\ ~failed /\ ~driver.broken /\ Counts /\ Histories
RingInv == Base /\ \E p, id : Shape(p, id)

\* The requests that are out occupy less than one turn, one after the other.
LEMMA Windows ==
    ASSUME Base, NEW p, Spaced(p)
    PROVE  /\ Done \in Nat /\ Taken \in Nat /\ Made \in Nat /\ Publishing \in Nat /\ Using \in Nat
           /\ \A k \in 1..(Made + 1) : p[k] \in Nat
           /\ \A k \in (Done + 1)..(Made + 1) : p[Done + 1] <= p[k] /\ p[k] <= p[Made + 1]
           /\ \A k \in 1..Made : p[k + 1] - p[k] \in 1..MaxChain
           /\ \A k \in (Done + 1)..Made : \A x \in Span(p, k) :
                 x \in Nat /\ p[Done + 1] <= x /\ x < p[Made + 1]
           /\ \A k \in (Done + 1)..Made : p[k] \in Span(p, k)
           /\ p[Made + 1] <= p[Done + 1] + Size
           /\ Done <= Made /\ Taken <= Made
<1>1. Done \in Nat /\ Taken \in Nat /\ Made \in Nat /\ Publishing \in Nat /\ driver.num_free \in 0..Size /\ Using \in Nat
  <2>1. Done \in Nat /\ Taken \in Nat
    BY LenProperties DEF Base, TypeOK, Done, Taken
  <2>2. Made \in Nat /\ driver.num_free \in 0..Size
    BY RingAssumption DEF Base, TypeOK, Made
  <2>3. Publishing \in Nat
    <3>1. Publishing = Made + 1 \/ Publishing = Made
      BY Zenon DEF Publishing
    <3> QED  BY <2>2, <3>1
  <2>4. Using \in Nat
    BY <2>1 DEF Using
  <2> QED  BY <2>1, <2>2, <2>3, <2>4
<1>2. Done <= Taken /\ Taken <= Made
  BY <1>1 DEF Base, Counts
<1>3. \A k \in 1..(Made + 1) : p[k] \in Nat
  BY DEF Spaced
<1>4. ASSUME NEW k \in (Done + 1)..(Made + 1) PROVE p[Done + 1] <= p[k] /\ p[k] <= p[Made + 1]
  <2>1. k \in 1..(Made + 1) /\ Done + 1 \in 1..(Made + 1) /\ Made + 1 \in 1..(Made + 1)
    BY <1>1, <1>2
  <2>2. p[k] \in Nat /\ p[Done + 1] \in Nat /\ p[Made + 1] \in Nat
    BY <1>3, <2>1
  <2>3. (Done + 1 < k => p[Done + 1] < p[k]) /\ (k < Made + 1 => p[k] < p[Made + 1])
    BY <2>1, Zenon DEF Spaced
  <2>4. (Done + 1 = k \/ Done + 1 < k) /\ (k = Made + 1 \/ k < Made + 1)
    BY <1>1
  <2> QED  BY <2>2, <2>3, <2>4
<1>5. ASSUME NEW k \in 1..Made PROVE p[k + 1] - p[k] \in 1..MaxChain
  <2>1. k \in 1..(Made + 1) /\ k + 1 \in 1..(Made + 1) /\ k < k + 1
    BY <1>1
  <2>2. p[k] \in Nat /\ p[k + 1] \in Nat
    BY <1>3, <2>1
  <2>3. p[k] < p[k + 1]
    BY <2>1, Zenon DEF Spaced
  <2>4. p[k + 1] - p[k] <= MaxChain
    BY Zenon DEF Spaced
  <2> QED  BY <2>2, <2>3, <2>4, RingAssumption
<1>6. ASSUME NEW k \in (Done + 1)..Made, NEW x \in Span(p, k)
      PROVE  x \in Nat /\ p[Done + 1] <= x /\ x < p[Made + 1]
  <2>1. k \in 1..(Made + 1) /\ k + 1 \in 1..(Made + 1) /\ k \in (Done + 1)..(Made + 1) /\ k + 1 \in (Done + 1)..(Made + 1)
    BY <1>1, <1>6
  <2>2. p[k] \in Nat /\ p[k + 1] \in Nat /\ p[Done + 1] \in Nat /\ p[Made + 1] \in Nat
    BY <1>1, <1>2, <1>3, <2>1
  <2>3. p[Done + 1] <= p[k] /\ p[k + 1] <= p[Made + 1]
    BY <1>4, <2>1
  <2> QED  BY <1>6, <2>2, <2>3 DEF Span
<1>7. \A k \in (Done + 1)..Made : p[k] \in Span(p, k)
  BY <1>1, <1>3, <1>5 DEF Span
<1>8. p[Made + 1] <= p[Done + 1] + Size
  BY <1>1, <1>2, <1>3, SizeFact DEF Spaced
<1> QED  BY <1>1, <1>2, <1>3, <1>4, <1>5, <1>6, <1>7, <1>8

\* Positions less than a turn apart have slots of their own.
LEMMA Distinct ==
    ASSUME NEW a \in Nat, NEW x \in a..(a + Size - 1), NEW y \in a..(a + Size - 1), At(x) = At(y)
    PROVE  x = y
<1>1. x \in Nat /\ y \in Nat /\ x - y < Size /\ y - x < Size
  BY SizeFact
<1> QED  BY <1>1, Apart

\* The positions of the first turn are the slots.
LEMMA FirstTurn ==
    ASSUME NEW x \in 0..(Size - 1) PROVE At(x) = x /\ Turn(x) = 1
<1>1. At(x) = x
  BY NearFacts, SizeFact DEF At
<1>2. x = Size * (x \div Size) + At(x) /\ x \div Size \in Nat
  BY Split
<1>3. Size * (x \div Size) = 0
  BY <1>1, <1>2, SizeFact
<1>4. x \div Size = 0
  BY <1>2, <1>3, SizeFact
<1> QED  BY <1>1, <1>4 DEF Turn

\* What positions are, for citing.
LEMMA Ring ==
    \A x \in Nat : /\ At(x) \in Slots /\ Turn(x) \in 0..1
                   /\ At(x + Size) = At(x) /\ Turn(x + Size) = 1 - Turn(x) /\ Turn(x) # 1 - Turn(x)
<1> SUFFICES ASSUME NEW x \in Nat
             PROVE  /\ At(x) \in Slots /\ Turn(x) \in 0..1
                    /\ At(x + Size) = At(x) /\ Turn(x + Size) = 1 - Turn(x) /\ Turn(x) # 1 - Turn(x)
  OBVIOUS
<1>1. At(x) \in 0..(Size - 1) /\ Turn(x) \in 0..1
  BY Place, SizeFact
<1>2. At(x + Size) = At(x) /\ Turn(x + Size) = 1 - Turn(x)
  BY Around
<1> QED  BY <1>1, <1>2 DEF Slots

\* The slots of the requests that are out are theirs alone.
LEMMA SlotsApart ==
    ASSUME Base, NEW p, Spaced(p), NEW j \in (Done + 1)..Made, NEW x \in Span(p, j)
    PROVE  /\ \A k \in (Done + 1)..Made : \A y \in Span(p, k) : (j # k \/ x # y) => At(y) # At(x)
           /\ \A y \in p[Made + 1]..(p[Done + 1] + Size - 1) : At(y) # At(x)
<1>1. /\ Done \in Nat /\ Made \in Nat /\ Done <= Made
      /\ \A k \in 1..(Made + 1) : p[k] \in Nat
      /\ \A k \in (Done + 1)..Made : \A y \in Span(p, k) : y \in Nat /\ p[Done + 1] <= y /\ y < p[Made + 1]
      /\ p[Made + 1] <= p[Done + 1] + Size
  BY Windows
<1>2. PICK a \in Nat, b \in Nat : a = p[Done + 1] /\ b = p[Made + 1]
  BY <1>1
<1>3. ASSUME NEW y \in a..(a + Size - 1), y # x PROVE At(y) # At(x)
  <2>1. x \in Nat /\ a <= x /\ x < b
    BY <1>1, <1>2, Zenon
  <2>2. x \in a..(a + Size - 1)
    BY <1>1, <1>2, <2>1, SizeFact
  <2> QED  BY <1>3, <2>2, Distinct
<1>4. ASSUME NEW k \in (Done + 1)..Made, NEW y \in Span(p, k), j # k \/ x # y PROVE At(y) # At(x)
  <2>1. y \in Nat /\ a <= y /\ y < b
    BY <1>1, <1>2, <1>4, Zenon
  <2>2. y \in a..(a + Size - 1)
    BY <1>1, <1>2, <2>1, SizeFact
  <2>3. j \in 1..(Made + 1) /\ j + 1 \in 1..(Made + 1) /\ k \in 1..(Made + 1) /\ k + 1 \in 1..(Made + 1)
    BY <1>1, <1>4
  <2>4. p[j] \in Nat /\ p[j + 1] \in Nat /\ p[k] \in Nat /\ p[k + 1] \in Nat
    BY <1>1, <2>3, Zenon
  <2>5. (j < k => j + 1 = k \/ p[j + 1] < p[k]) /\ (k < j => k + 1 = j \/ p[k + 1] < p[j])
    <3>1. (j < k => j + 1 = k \/ j + 1 < k) /\ (k < j => k + 1 = j \/ k + 1 < j)
      BY <2>3
    <3> QED  BY <2>3, <3>1, Zenon DEF Spaced
  <2>6. j < k \/ k < j \/ j = k
    BY <2>3
  <2>7. x # y
    <3>1. p[j] <= x /\ x < p[j + 1] /\ p[k] <= y /\ y < p[k + 1] /\ x \in Int /\ y \in Int
      BY <1>4, <2>4 DEF Span
    <3> QED  BY <1>4, <2>4, <2>5, <2>6, <3>1
  <2> QED  BY <1>3, <2>2, <2>7
<1>5. ASSUME NEW y \in b..(a + Size - 1) PROVE At(y) # At(x)
  <2>1. x \in Nat /\ a <= x /\ x < b
    BY <1>1, <1>2, Zenon
  <2>2. y \in a..(a + Size - 1) /\ y # x
    BY <1>2, <1>5, <2>1, SizeFact
  <2> QED  BY <1>3, <2>2
<1> QED  BY <1>2, <1>4, <1>5, Zenon

-----------------------------------------------------------------------------
(* A queue that was enabled *)

FreshState ==
    /\ ring = [s \in Slots |-> Blank] /\ queue = QueueNew /\ driver = DriverNew
    /\ job \in [pc : {"idle"}, id : Slots, skip : 0..Size, len : 0..1, stores : Seq({"len", "id", "low", "high"})]
    /\ failed = FALSE /\ resets \in 0..Resets /\ handled = <<>> /\ completed = <<>>

\* A ring that has been set up, by Connected::new or after a reset, satisfies the invariant.
LEMMA Fresh == FreshState => RingInv
<1> SUFFICES ASSUME FreshState PROVE RingInv
  OBVIOUS
<1>1. /\ ring = [s \in Slots |-> Blank] /\ queue = QueueNew /\ driver = DriverNew /\ job.pc = "idle"
      /\ failed = FALSE /\ resets \in 0..Resets /\ handled = <<>> /\ completed = <<>>
  BY DEF FreshState
<1>2. 0 \in Slots /\ Size \in Nat /\ Reqs \in Nat /\ MaxChain \in 1..Size
  BY RingAssumption DEF Slots
<1>3. TypeOK
  <2>1. ring \in [Slots -> Descriptors]
    <3>1. Blank \in Descriptors
      BY <1>2 DEF Blank, Descriptors
    <3> QED  BY <1>1, <3>1, Zenon
  <2>2. queue \in [avail_index : Slots, used_index : Slots, avail_wrap : 0..1, used_wrap : 0..1]
    BY <1>1, <1>2 DEF QueueNew
  <2>3. job \in [pc : {"idle", "release", "store"}, id : Slots, skip : 0..Size, len : 0..1,
                 stores : Seq({"len", "id", "low", "high"})]
    BY DEF FreshState
  <2>4. driver \in [avail : Slots, avail_wrap : 0..1, used : Slots, used_wrap : 0..1, made : 0..Reqs,
                    num_free : 0..Size, adding : 0..MaxChain, broken : BOOLEAN,
                    heads : [Slots -> [num : 0..MaxChain, req : 0..Reqs]]]
    BY <1>1, <1>2 DEF DriverNew
  <2>5. handled \in Seq(Results) /\ completed \in Seq(Results)
    BY <1>1
  <2>6. failed \in BOOLEAN
    BY <1>1, Zenon
  <2> QED  BY <1>1, <2>1, <2>2, <2>3, <2>4, <2>5, <2>6, Zenon DEF TypeOK
<1>4. Done = 0 /\ Taken = 0 /\ Made = 0 /\ Publishing = 1 /\ Using = 1 /\ Stored
  BY <1>1 DEF Done, Taken, Made, Publishing, Using, Stored, DriverNew
<1>5. Base
  <2>1. ~failed /\ ~driver.broken
    BY <1>1 DEF DriverNew
  <2>2. Counts
    BY <1>1, <1>4 DEF Counts
  <2>3. Histories
    BY <1>4 DEF Histories
  <2> QED  BY <1>3, <2>1, <2>2, <2>3 DEF Base
<1>6. PICK p : p = [k \in 1..1 |-> 0]
  BY Zenon
<1>7. PICK id : id = [k \in 1..0 |-> 0]
  OBVIOUS
<1>8. At(0) = 0 /\ Turn(0) = 1
  BY FirstTurn, SizeFact
<1>9. p[1] = 0
  BY <1>6
<1>10. Spaced(p)
  BY <1>1, <1>2, <1>4, <1>6 DEF Spaced, DriverNew
<1>11. Indexes(p)
  BY <1>1, <1>4, <1>8, <1>9 DEF Indexes, DriverNew, QueueNew
<1>12. Heads(p, id)
  BY <1>1, <1>4, <1>7 DEF Heads, DriverNew
<1>13. FreeKept(p)
  <2> SUFFICES ASSUME NEW x \in 0..(Size - 1) PROVE ring[At(x)].avail = 1 - Turn(x)
    BY <1>2, <1>4, <1>9 DEF FreeKept
  <2>1. ring[x].avail = 0
    BY <1>1 DEF Slots, Blank
  <2> QED  BY <2>1, FirstTurn
<1>14. HeadKept(p) /\ MadeKept(p, id) /\ TakenKept(p) /\ DoneKept(p, id) /\ JobKept(p, id)
  BY <1>1, <1>4 DEF HeadKept, MadeKept, TakenKept, DoneKept, JobKept
<1>15. Owned(p, id)
  <2>1. PICK own : own = [s \in Slots |-> s]
    BY Zenon
  <2>2. own \in [Slots -> Slots] /\ \A r, s \in Slots : own[r] = own[s] => r = s
    BY <2>1, Zenon
  <2>3. \A k \in (Done + 1)..Made : FALSE
    BY <1>4
  <2> QED  BY <2>2, <2>3, Zenon DEF Owned
<1> QED  BY <1>5, <1>10, <1>11, <1>12, <1>13, <1>14, <1>15 DEF RingInv, Shape

-----------------------------------------------------------------------------
(* The device *)

\* The head of a request is available to the device just when the request is published.
LEMMA HeadFacts ==
    ASSUME Base, NEW p, NEW id, Shape(p, id), Available(ring[queue.avail_index], queue.avail_wrap)
    PROVE  Taken + 1 < Publishing
<1>1. /\ Done \in Nat /\ Taken \in Nat /\ Made \in Nat /\ Publishing \in Nat
      /\ \A k \in 1..(Made + 1) : p[k] \in Nat
      /\ p[Made + 1] <= p[Done + 1] + Size /\ Done <= Made /\ Taken <= Made
      /\ \A k \in (Done + 1)..Made : p[k] \in Span(p, k)
  BY Windows DEF Shape
<1>2. SUFFICES ASSUME Taken + 1 = Publishing PROVE FALSE
  BY <1>1 DEF Base, Counts
<1>3. ring[At(p[Publishing])].avail = Turn(p[Publishing])
  BY <1>2 DEF Available, Shape, Indexes
<1>4. CASE Publishing <= Made
  <2>1. ring[At(p[Publishing])].avail = 1 - Turn(p[Publishing])
    BY <1>4, Zenon DEF Shape, HeadKept
  <2>2. Publishing \in 1..(Made + 1)
    BY <1>1, <1>2, <1>4
  <2>3. Turn(p[Publishing]) # 1 - Turn(p[Publishing])
    BY <1>1, <2>2, Ring, Zenon
  <2> QED  BY <1>3, <2>1, <2>3, Zenon
<1>5. CASE Publishing = Made + 1 /\ p[Made + 1] < p[Done + 1] + Size
  <2>1. p[Made + 1] \in Nat /\ p[Done + 1] \in Nat
    BY <1>1
  <2>2. p[Made + 1] \in p[Made + 1]..(p[Done + 1] + Size - 1)
    BY <1>5, <2>1, SizeFact
  <2>3. ring[At(p[Made + 1])].avail = 1 - Turn(p[Made + 1])
    BY <2>2, Zenon DEF Shape, FreeKept
  <2>4. Turn(p[Made + 1]) # 1 - Turn(p[Made + 1])
    BY <2>1, Ring, Zenon
  <2> QED  BY <1>3, <1>5, <2>3, <2>4, Zenon
<1>6. CASE Publishing = Made + 1 /\ p[Made + 1] = p[Done + 1] + Size
  <2>1. p[Made + 1] \in Nat /\ p[Done + 1] \in Nat
    BY <1>1
  <2>2. /\ At(p[Made + 1]) = At(p[Done + 1]) /\ Turn(p[Made + 1]) = 1 - Turn(p[Done + 1])
        /\ Turn(p[Done + 1]) # 1 - Turn(p[Done + 1])
    BY <1>6, <2>1, Ring, Zenon
  <2>3. Done # Made
    BY <1>6, <2>1, SizeFact
  <2>4. Done + 1 \in (Done + 1)..Taken /\ Done + 1 \in (Done + 1)..Made
    BY <1>1, <1>2, <1>6, <2>3
  <2>5. p[Done + 1] \in Span(p, Done + 1)
    BY <1>1, <2>4
  <2>6. ring[At(p[Done + 1])].avail = Turn(p[Done + 1])
    BY <2>4, <2>5, Zenon DEF Shape, TakenKept
  <2> QED  BY <1>3, <1>6, <2>2, <2>6, Zenon
<1>7. Publishing <= Made \/ Publishing = Made + 1
  BY <1>1 DEF Publishing
<1>8. p[Made + 1] < p[Done + 1] + Size \/ p[Made + 1] = p[Done + 1] + Size
  <2>1. p[Made + 1] \in Nat /\ p[Done + 1] \in Nat
    BY <1>1
  <2> QED  BY <1>1, <2>1, SizeFact
<1> QED  BY <1>4, <1>5, <1>6, <1>7, <1>8

\* What pop finds at the request the device is to take.
LEMMA ChainFacts ==
    ASSUME Base, NEW p, NEW id, Shape(p, id), Taken + 1 < Publishing, NEW k, k = Taken + 1, NEW n, n = p[k + 1] - p[k]
    PROVE  /\ k \in 1..Made /\ k + 1 \in 1..(Made + 1) /\ n \in 1..MaxChain /\ n \in 0..Size /\ p[k] \in Nat /\ p[k + 1] = p[k] + n
           /\ \A i \in 0..(n - 1) : Available(ring[Slot(queue.avail_index, i)], WrapAt(queue.avail_index, queue.avail_wrap, i))
           /\ ChainLength = n
           /\ Slot(queue.avail_index, n) = At(p[k + 1]) /\ WrapAt(queue.avail_index, queue.avail_wrap, n) = Turn(p[k + 1])
           /\ ring[queue.avail_index].id = id[k] /\ ring[queue.avail_index].req = k
<1>1. /\ Done \in Nat /\ Taken \in Nat /\ Made \in Nat /\ Publishing \in Nat
      /\ \A j \in 1..(Made + 1) : p[j] \in Nat
      /\ \A j \in 1..Made : p[j + 1] - p[j] \in 1..MaxChain
      /\ Publishing <= Made + 1
  BY Windows DEF Shape, Base, Counts
<1>2. k \in 1..Made /\ k + 1 \in 1..(Made + 1) /\ k \in 1..(Made + 1) /\ k # Publishing /\ k \in (Taken + 1)..Made
  BY <1>1
<1>3. p[k] \in Nat /\ p[k + 1] \in Nat /\ n \in 1..MaxChain
  BY <1>1, <1>2
<1>4. n \in 0..Size /\ p[k + 1] = p[k] + n
  BY <1>3, RingAssumption
<1>5. queue.avail_index = At(p[k]) /\ queue.avail_wrap = Turn(p[k])
  BY DEF Shape, Indexes
<1>6. ASSUME NEW i \in 0..Size
      PROVE  Slot(queue.avail_index, i) = At(p[k] + i) /\ WrapAt(queue.avail_index, queue.avail_wrap, i) = Turn(p[k] + i)
  BY <1>3, <1>5, Place
<1>7. ASSUME NEW i \in 0..(n - 1)
      PROVE  /\ i \in 0..Size /\ i \in Slots /\ p[k] + i \in Nat
             /\ ring[At(p[k] + i)].id = id[k] /\ ring[At(p[k] + i)].req = k
             /\ ring[At(p[k] + i)].avail = Turn(p[k] + i) /\ ring[At(p[k] + i)].used = 1 - Turn(p[k] + i)
             /\ ring[At(p[k] + i)].next = IF i < n - 1 THEN 1 ELSE 0
  <2>1. p[k] + i \in Span(p, k)
    BY <1>3, <1>4 DEF Span
  <2>2. /\ ring[At(p[k] + i)].id = id[k] /\ ring[At(p[k] + i)].req = k
        /\ ring[At(p[k] + i)].avail = Turn(p[k] + i) /\ ring[At(p[k] + i)].used = 1 - Turn(p[k] + i)
        /\ ring[At(p[k] + i)].next = IF p[k] + i < p[k + 1] - 1 THEN 1 ELSE 0
    BY <1>2, <2>1, Zenon DEF Shape, MadeKept, MadeAt
  <2>3. p[k] + i < p[k + 1] - 1 <=> i < n - 1
    BY <1>3, <1>4
  <2>4. i \in 0..Size /\ i \in Slots /\ p[k] + i \in Nat
    BY <1>3, <1>4, RingAssumption DEF Slots
  <2> QED  BY <2>2, <2>3, <2>4, Zenon
<1>8. \A i \in 0..(n - 1) : Available(ring[Slot(queue.avail_index, i)], WrapAt(queue.avail_index, queue.avail_wrap, i))
  <2> SUFFICES ASSUME NEW i \in 0..(n - 1)
               PROVE  Available(ring[Slot(queue.avail_index, i)], WrapAt(queue.avail_index, queue.avail_wrap, i))
    OBVIOUS
  <2>1. Slot(queue.avail_index, i) = At(p[k] + i) /\ WrapAt(queue.avail_index, queue.avail_wrap, i) = Turn(p[k] + i)
    BY <1>6, <1>7, Zenon
  <2>2. Turn(p[k] + i) # 1 - Turn(p[k] + i)
    BY <1>7, Ring, Zenon
  <2>3. ring[At(p[k] + i)].avail = Turn(p[k] + i) /\ ring[At(p[k] + i)].used = 1 - Turn(p[k] + i)
    BY <1>7, Zenon
  <2> QED  BY <2>1, <2>2, <2>3 DEF Available
<1>9. ChainLength = n
  <2> DEFINE ends == {i \in Slots : ring[Slot(queue.avail_index, i)].next = 0}
  <2>1. n - 1 \in 0..(n - 1) /\ ~(n - 1 < n - 1)
    BY <1>3, RingAssumption
  <2>2. n - 1 \in ends
    <3>1. ring[At(p[k] + (n - 1))].next = 0 /\ n - 1 \in Slots /\ n - 1 \in 0..Size
      BY <1>7, <2>1
    <3>2. Slot(queue.avail_index, n - 1) = At(p[k] + (n - 1))
      BY <1>6, <3>1, Zenon
    <3> QED  BY <3>1, <3>2, Zenon
  <2>3. ASSUME NEW i \in ends PROVE n - 1 <= i
    <3>1. i \in Nat /\ ring[Slot(queue.avail_index, i)].next = 0
      BY <2>3, SizeFact DEF Slots
    <3>2. ASSUME i < n - 1 PROVE FALSE
      <4>1. i \in 0..(n - 1)
        BY <1>3, <3>1, <3>2, RingAssumption
      <4>2. ring[At(p[k] + i)].next = 1 /\ i \in 0..Size
        BY <1>7, <3>2, <4>1
      <4>3. Slot(queue.avail_index, i) = At(p[k] + i)
        BY <1>6, <4>2, Zenon
      <4> QED  BY <3>1, <4>2, <4>3
    <3> QED  BY <1>3, <3>1, <3>2, RingAssumption
  <2>4. ends \subseteq Int
    BY SizeFact DEF Slots
  <2>5. Min(ends) = n - 1
    <3> HIDE DEF ends
    <3>1. Min(ends) \in ends /\ \A j \in ends : Min(ends) <= j
      BY <2>2, <2>3, Zenon DEF Min
    <3>2. Min(ends) <= n - 1 /\ n - 1 <= Min(ends) /\ Min(ends) \in Int
      BY <2>2, <2>3, <2>4, <3>1, Zenon
    <3> QED  BY <1>3, <3>2, RingAssumption
  <2>6. ChainLength = Min(ends) + 1
    BY <2>2, Zenon DEF ChainLength
  <2> HIDE DEF ends
  <2> QED  BY <1>3, <2>5, <2>6, RingAssumption
<1>10. Slot(queue.avail_index, n) = At(p[k + 1]) /\ WrapAt(queue.avail_index, queue.avail_wrap, n) = Turn(p[k + 1])
  BY <1>4, <1>6, Zenon
<1>11. ring[queue.avail_index].id = id[k] /\ ring[queue.avail_index].req = k
  <2>1. 0 \in 0..(n - 1) /\ p[k] + 0 = p[k]
    BY <1>3, RingAssumption
  <2>2. ring[At(p[k] + 0)].id = id[k] /\ ring[At(p[k] + 0)].req = k
    BY <1>7, <2>1, Zenon
  <2> QED  BY <1>5, <2>1, <2>2
<1> QED  BY <1>2, <1>3, <1>4, <1>8, <1>9, <1>10, <1>11, Zenon

\* pop finds the whole chain of the next request and does not bail.
LEMMA PopKeeps == ASSUME RingInv, Pop PROVE RingInv'
<1>1. PICK p, id : Base /\ Shape(p, id)
  BY Zenon DEF RingInv
<1>2. /\ job.pc = "idle" /\ Available(ring[queue.avail_index], queue.avail_wrap)
      /\ UNCHANGED <<ring, driver, resets, completed>>
  BY Zenon DEF Pop
<1>3. Taken + 1 < Publishing
  BY <1>1, <1>2, HeadFacts
<1>4. PICK k, n : k = Taken + 1 /\ n = p[k + 1] - p[k]
  OBVIOUS
<1>5. /\ k \in 1..Made /\ k + 1 \in 1..(Made + 1) /\ n \in 1..MaxChain /\ n \in 0..Size /\ p[k] \in Nat /\ p[k + 1] = p[k] + n
      /\ \A i \in 0..(n - 1) : Available(ring[Slot(queue.avail_index, i)], WrapAt(queue.avail_index, queue.avail_wrap, i))
      /\ ChainLength = n
      /\ Slot(queue.avail_index, n) = At(p[k + 1]) /\ WrapAt(queue.avail_index, queue.avail_wrap, n) = Turn(p[k + 1])
      /\ ring[queue.avail_index].id = id[k] /\ ring[queue.avail_index].req = k
  BY <1>1, <1>3, <1>4, ChainFacts
<1>6. PICK len \in 0..1 :
        /\ queue' = [queue EXCEPT !.avail_index = At(p[k + 1]), !.avail_wrap = Turn(p[k + 1])]
        /\ job' = [pc |-> "release", id |-> id[k], skip |-> n, len |-> len, stores |-> <<>>]
        /\ handled' = Append(handled, [req |-> k, len |-> len])
        /\ UNCHANGED failed
  BY <1>5, Zenon DEF Pop
<1>7. /\ Done \in Nat /\ Taken \in Nat /\ Made \in Nat /\ Publishing \in Nat
      /\ \A j \in 1..(Made + 1) : p[j] \in Nat
      /\ \A j \in (Done + 1)..Made : p[j] \in Span(p, j)
      /\ Publishing <= Made + 1 /\ Done <= Taken
  BY <1>1, Windows DEF Shape, Base, Counts
<1>8. TypeOK /\ Counts /\ Histories
  BY <1>1, Zenon DEF Base
<1>9. handled \in Seq(Results) /\ [req |-> k, len |-> len] \in Results /\ id[k] \in Slots
  <2>1. k \in 1..Reqs
    BY <1>5, <1>8, RingAssumption DEF TypeOK, Made
  <2>2. id[k] \in Slots
    BY <1>1, <1>5, Zenon DEF Shape, Heads
  <2> QED  BY <1>8, <2>1, <2>2 DEF TypeOK, Results
<1>10. Len(handled') = k /\ handled'[k] = [req |-> k, len |-> len] /\ \A j \in 1..Taken : handled'[j] = handled[j]
  BY <1>4, <1>6, <1>9, AppendProperties DEF Taken
<1>11. Done' = Done /\ Taken' = k /\ Made' = Made /\ Publishing' = Publishing
  BY <1>2, <1>10, Zenon DEF Done, Taken, Made, Publishing
<1>12. job'.pc = "release" /\ ~Stored' /\ Stored /\ Using = k /\ Using' = k
  <2>1. job'.pc = "release"
    BY <1>6
  <2> QED  BY <1>2, <1>4, <1>11, <2>1 DEF Stored, Using
<1>13. Base'
  <2>1. TypeOK'
    <3>1. queue' \in [avail_index : Slots, used_index : Slots, avail_wrap : 0..1, used_wrap : 0..1]
      <4>1. p[k + 1] \in Nat
        BY <1>5, <1>7, Zenon
      <4>2. At(p[k + 1]) \in Slots /\ Turn(p[k + 1]) \in 0..1
        BY <4>1, Ring, Zenon
      <4> QED  BY <1>6, <1>8, <4>2, Zenon DEF TypeOK
    <3>2. job' \in [pc : {"idle", "release", "store"}, id : Slots, skip : 0..Size, len : 0..1,
                    stores : Seq({"len", "id", "low", "high"})]
      BY <1>5, <1>6, <1>9
    <3>3. handled' \in Seq(Results)
      BY <1>6, <1>9, AppendProperties
    <3> QED  BY <1>2, <1>6, <1>8, <3>1, <3>2, <3>3, Zenon DEF TypeOK
  <2>2. Counts'
    <3>1. Done <= k /\ Done < k /\ k >= 1 /\ k < Publishing
      BY <1>3, <1>4, <1>7
    <3> QED  BY <1>7, <1>11, <3>1 DEF Counts
  <2>3. Histories'
    <3> SUFFICES ASSUME NEW j \in 1..k PROVE handled'[j].req = j /\ (j <= Done => completed[j] = handled'[j])
      BY <1>2, <1>11, Zenon DEF Histories
    <3>1. CASE j = k
      BY <1>4, <1>7, <1>10, <3>1
    <3>2. CASE j \in 1..Taken
      BY <1>8, <1>10, <3>2 DEF Histories
    <3> QED  BY <1>4, <1>7, <3>1, <3>2
  <2> QED  BY <1>1, <1>2, <1>6, <2>1, <2>2, <2>3, Zenon DEF Base
<1>14. Spaced(p)' /\ Heads(p, id)' /\ FreeKept(p)' /\ HeadKept(p)'
  BY <1>1, <1>2, <1>11, Zenon DEF Shape, Spaced, Heads, FreeKept, HeadKept
<1>15. Indexes(p)'
  <2>1. /\ queue'.avail_index = At(p[k + 1]) /\ queue'.avail_wrap = Turn(p[k + 1])
        /\ queue'.used_index = queue.used_index /\ queue'.used_wrap = queue.used_wrap
    BY <1>6, <1>8 DEF TypeOK
  <2> QED  BY <1>1, <1>2, <1>11, <1>12, <2>1, Zenon DEF Shape, Indexes
<1>16. MadeKept(p, id)'
  <2>1. \A j \in (k + 1)..Made : j \in (Taken + 1)..Made
    BY <1>4, <1>5, <1>7
  <2>2. \A j, x : MadeAt(p, id, j, x)' <=> MadeAt(p, id, j, x)
    BY <1>2, <1>11, Zenon DEF MadeAt
  <2> QED  BY <1>1, <1>11, <2>1, <2>2, Zenon DEF Shape, MadeKept
<1>17. \A j \in (Done + 1)..k : j = k \/ j \in (Done + 1)..Taken
  BY <1>4, <1>7
<1>18. k \in (Taken + 1)..Made /\ k # Publishing /\ k \in (Done + 1)..Made
  BY <1>3, <1>4, <1>5, <1>7
<1>19. \A x \in Span(p, k) : ring[At(x)].avail = Turn(x) /\ ring[At(x)].used = 1 - Turn(x)
  BY <1>1, <1>18, Zenon DEF Shape, MadeKept, MadeAt
<1>20. TakenKept(p)'
  <2>1. \A j \in (Done + 1)..k : \A x \in Span(p, j) : ring[At(x)].avail = Turn(x)
    BY <1>1, <1>17, <1>19, Zenon DEF Shape, TakenKept
  <2> QED  BY <1>2, <1>11, <2>1, Zenon DEF TakenKept
<1>21. DoneKept(p, id)'
  <2> SUFFICES ASSUME NEW j \in (Done + 1)..k
               PROVE  /\ Visible(j)' => /\ ring[At(p[j])].used = Turn(p[j]) /\ ring[At(p[j])].id = id[j]
                                        /\ ring[At(p[j])].len = handled'[j].len
                      /\ ~Visible(j)' => ring[At(p[j])].used = 1 - Turn(p[j])
    BY <1>2, <1>11, Zenon DEF DoneKept
  <2>1. CASE j = k
    <3>1. ~Visible(j)'
      BY <1>5, <1>11, <1>12, <2>1 DEF Visible
    <3>2. p[k] \in Span(p, k)
      BY <1>7, <1>18, Zenon
    <3> QED  BY <1>19, <2>1, <3>1, <3>2, Zenon
  <2>2. CASE j \in (Done + 1)..Taken
    <3>1. j \in 1..Taken /\ (j < Taken \/ j = Taken) /\ j < k
      BY <1>4, <1>7, <2>2
    <3>2. Visible(j) /\ Visible(j)' /\ handled'[j] = handled[j]
      BY <1>10, <1>11, <1>12, <3>1, Zenon DEF Visible
    <3> QED  BY <1>1, <2>2, <3>2, Zenon DEF Shape, DoneKept
  <2> QED  BY <1>17, <2>1, <2>2, Zenon
<1>22. JobKept(p, id)'
  <2>1. job'.pc # "store" /\ job'.id = id[k] /\ job'.len = handled'[k].len /\ job'.skip = p[k + 1] - p[k]
    BY <1>4, <1>6, <1>10
  <2> QED  BY <1>11, <2>1, Zenon DEF JobKept
<1>23. Owned(p, id)'
  BY <1>1, <1>11, Zenon DEF Shape, Owned
<1> QED  BY <1>13, <1>14, <1>15, <1>16, <1>20, <1>21, <1>22, <1>23, Zenon DEF RingInv, Shape

\* With the stores in order the one that becomes visible is the first.
LEMMA FirstRemoved ==
    ASSUME NEW S, NEW s \in Seq(S), s # <<>> PROVE Without(s, 1) = Tail(s)
<1>1. 1 - 1 = 0 /\ 1 + 1 = 2
  OBVIOUS
<1>2. SubSeq(s, 1, 0) = <<>>
  BY SubSeqEmpty
<1>3. SubSeq(s, 2, Len(s)) = Tail(s) /\ Tail(s) \in Seq(S)
  BY TailIsSubSeq, HeadTailProperties
<1>4. <<>> \o Tail(s) = Tail(s)
  BY <1>3, ConcatEmptySeq
<1> QED  BY <1>1, <1>2, <1>3, <1>4 DEF Without

\* The lists of stores that are left.
LEMMA StoreLists ==
    ASSUME NEW S, NEW a \in S, NEW b \in S, NEW c \in S, NEW d \in S
    PROVE  /\ <<a, b, c, d>> \in Seq(S) /\ <<b, c, d>> \in Seq(S) /\ <<c, d>> \in Seq(S) /\ <<d>> \in Seq(S)
           /\ <<>> \in Seq(S)
           /\ Without(<<a, b, c, d>>, 1) = <<b, c, d>> /\ Without(<<b, c, d>>, 1) = <<c, d>>
           /\ Without(<<c, d>>, 1) = <<d>> /\ Without(<<d>>, 1) = <<>>
<1>1. /\ <<a, b, c, d>> \in Seq(S) /\ <<b, c, d>> \in Seq(S) /\ <<c, d>> \in Seq(S) /\ <<d>> \in Seq(S)
      /\ <<>> \in Seq(S)
  OBVIOUS
<1>2. <<a, b, c, d>> # <<>> /\ <<b, c, d>> # <<>> /\ <<c, d>> # <<>> /\ <<d>> # <<>>
  OBVIOUS
<1>3. /\ Tail(<<a, b, c, d>>) = <<b, c, d>> /\ Tail(<<b, c, d>>) = <<c, d>> /\ Tail(<<c, d>>) = <<d>>
      /\ Tail(<<d>>) = <<>>
  OBVIOUS
<1> QED  BY <1>1, <1>2, <1>3, FirstRemoved, Zenon

\* The same for the stores of release.
LEMMA StoresFacts ==
    /\ <<"len", "id", "low", "high">> \in Seq({"len", "id", "low", "high"})
    /\ <<"id", "low", "high">> \in Seq({"len", "id", "low", "high"})
    /\ <<"low", "high">> \in Seq({"len", "id", "low", "high"}) /\ <<"high">> \in Seq({"len", "id", "low", "high"})
    /\ <<>> \in Seq({"len", "id", "low", "high"})
    /\ Without(<<"len", "id", "low", "high">>, 1) = <<"id", "low", "high">>
    /\ Without(<<"id", "low", "high">>, 1) = <<"low", "high">>
    /\ Without(<<"low", "high">>, 1) = <<"high">> /\ Without(<<"high">>, 1) = <<>>
<1>1. PICK S, a, b, c, d : /\ S = {"len", "id", "low", "high"} /\ a = "len" /\ b = "id" /\ c = "low" /\ d = "high"
  BY Zenon
<1>2. a \in S /\ b \in S /\ c \in S /\ d \in S
  BY <1>1
<1>3. /\ <<a, b, c, d>> \in Seq(S) /\ <<b, c, d>> \in Seq(S) /\ <<c, d>> \in Seq(S) /\ <<d>> \in Seq(S)
      /\ <<>> \in Seq(S)
      /\ Without(<<a, b, c, d>>, 1) = <<b, c, d>> /\ Without(<<b, c, d>>, 1) = <<c, d>>
      /\ Without(<<c, d>>, 1) = <<d>> /\ Without(<<d>>, 1) = <<>>
  BY <1>2, StoreLists
<1> QED  BY <1>1, <1>3, Zenon

\* The place of the completion was given to the device, and no completion is there yet.
LEMMA PlaceFacts ==
    ASSUME Base, NEW p, NEW id, Shape(p, id), ~Stored, NEW x, x = p[Taken]
    PROVE  /\ x \in Nat /\ queue.used_index = At(x) /\ queue.used_wrap = Turn(x) /\ Using = Taken
           /\ ring[At(x)].avail = Turn(x) /\ ring[At(x)].used = 1 - Turn(x)
           /\ Taken \in (Done + 1)..Taken /\ Taken \in (Done + 1)..Made /\ x \in Span(p, Taken)
<1>1. /\ Done \in Nat /\ Taken \in Nat /\ Made \in Nat
      /\ \A j \in 1..(Made + 1) : p[j] \in Nat
      /\ \A j \in (Done + 1)..Made : p[j] \in Span(p, j)
      /\ Done < Taken /\ Taken <= Made
  BY Windows DEF Shape, Base, Counts
<1>2. Taken \in (Done + 1)..Taken /\ Taken \in (Done + 1)..Made /\ Taken \in 1..(Made + 1) /\ ~(Taken < Taken)
  BY <1>1
<1>3. x \in Nat /\ x \in Span(p, Taken)
  BY <1>1, <1>2, Zenon
<1>4. Using = Taken
  BY DEF Using, Stored
<1>5. ~Visible(Taken)
  BY <1>2, Zenon DEF Visible
<1>6. ring[At(x)].avail = Turn(x)
  BY <1>2, <1>3, Zenon DEF Shape, TakenKept
<1>7. ring[At(x)].used = 1 - Turn(x)
  BY <1>2, <1>5, Zenon DEF Shape, DoneKept
<1>8. queue.used_index = At(x) /\ queue.used_wrap = Turn(x)
  BY <1>4, Zenon DEF Shape, Indexes
<1> QED  BY <1>2, <1>3, <1>4, <1>6, <1>7, <1>8, Zenon

\* release finds the place of the completion given to the device.
LEMMA ReleaseKeeps == ASSUME RingInv, Release PROVE RingInv'
<1>1. PICK p, id : Base /\ Shape(p, id)
  BY Zenon DEF RingInv
<1>2. job.pc = "release" /\ UNCHANGED <<ring, queue, driver, resets, handled, completed>>
  BY Zenon DEF Release
<1>3. ~Stored
  BY <1>2 DEF Stored
<1>4. PICK x : x = p[Taken]
  OBVIOUS
<1>5. /\ x \in Nat /\ queue.used_index = At(x) /\ queue.used_wrap = Turn(x) /\ Using = Taken
      /\ ring[At(x)].avail = Turn(x) /\ ring[At(x)].used = 1 - Turn(x)
  BY <1>1, <1>3, <1>4, PlaceFacts
<1>6. Turn(x) # 1 - Turn(x)
  BY <1>5, Ring, Zenon
<1>7. Available(ring[queue.used_index], queue.used_wrap)
  BY <1>5, <1>6 DEF Available
<1>8. job' = [job EXCEPT !.pc = "store", !.stores = Stores] /\ UNCHANGED failed
  BY <1>7, Zenon DEF Release
<1>9. job \in [pc : {"idle", "release", "store"}, id : Slots, skip : 0..Size, len : 0..1,
               stores : Seq({"len", "id", "low", "high"})]
  BY <1>1, Zenon DEF Base, TypeOK
<1>10. /\ job'.pc = "store" /\ job'.stores = <<"len", "id", "low", "high">>
       /\ job'.id = job.id /\ job'.len = job.len /\ job'.skip = job.skip
  BY <1>8, <1>9 DEF Stores
<1>11. ~Stored'
  BY <1>10 DEF Stored
<1>12. Done' = Done /\ Taken' = Taken /\ Made' = Made /\ Publishing' = Publishing
  BY <1>2, Zenon DEF Done, Taken, Made, Publishing
<1>13. Using' = Using /\ \A k : Visible(k)' <=> Visible(k)
  <2>1. Using' = Taken
    BY <1>10, <1>12 DEF Using
  <2> QED  BY <1>3, <1>5, <1>11, <1>12, <2>1, Zenon DEF Visible
<1>14. Base'
  <2>1. job' \in [pc : {"idle", "release", "store"}, id : Slots, skip : 0..Size, len : 0..1,
                  stores : Seq({"len", "id", "low", "high"})]
    <3>1. PICK left \in Seq({"len", "id", "low", "high"}), at \in {"idle", "release", "store"} :
            left = Stores /\ at = "store"
      BY StoresFacts, Zenon DEF Stores
    <3>2. job' = [job EXCEPT !.pc = at, !.stores = left]
      BY <1>8, <3>1, Zenon
    <3> QED  BY <1>9, <3>2, Zenon
  <2>2. TypeOK'
    BY <1>1, <1>2, <1>8, <2>1, Zenon DEF Base, TypeOK
  <2>3. Counts'
    <3>1. Counts /\ job.pc # "idle"
      BY <1>1, <1>2 DEF Base
    <3> QED  BY <1>3, <1>12, <3>1, Zenon DEF Counts
  <2>4. Histories'
    BY <1>1, <1>2, <1>12, Zenon DEF Base, Histories
  <2> QED  BY <1>1, <1>2, <1>8, <2>2, <2>3, <2>4, Zenon DEF Base
<1>15. Spaced(p)' /\ Heads(p, id)' /\ FreeKept(p)' /\ HeadKept(p)' /\ TakenKept(p)'
  BY <1>1, <1>2, <1>12, Zenon DEF Shape, Spaced, Heads, FreeKept, HeadKept, TakenKept
<1>16. Indexes(p)'
  BY <1>1, <1>2, <1>12, <1>13, Zenon DEF Shape, Indexes
<1>17. MadeKept(p, id)'
  <2>1. \A j, y : MadeAt(p, id, j, y)' <=> MadeAt(p, id, j, y)
    BY <1>2, <1>12, Zenon DEF MadeAt
  <2> QED  BY <1>1, <1>12, <2>1, Zenon DEF Shape, MadeKept
<1>18. DoneKept(p, id)'
  BY <1>1, <1>2, <1>12, <1>13, Zenon DEF Shape, DoneKept
<1>19. JobKept(p, id)'
  <2>1. job.pc # "idle"
    BY <1>2
  <2>2. job.id = id[Taken] /\ job.len = handled[Taken].len /\ job.skip = p[Taken + 1] - p[Taken]
    BY <1>1, <2>1, Zenon DEF Shape, JobKept
  <2> QED  BY <1>2, <1>10, <1>12, <2>2, Zenon DEF JobKept
<1>20. Owned(p, id)'
  BY <1>1, <1>12, Zenon DEF Shape, Owned
<1> QED  BY <1>14, <1>15, <1>16, <1>17, <1>18, <1>19, <1>20, Zenon DEF RingInv, Shape

\* A store changes the descriptor of the completion only, and not the bit that gave it to the device.
LEMMA StoreFacts ==
    ASSUME Base, NEW p, NEW id, Shape(p, id), Ordered, NEW i, Store(i), NEW x, x = p[Taken]
    PROVE  /\ ring' \in [Slots -> Descriptors]
           /\ \A y \in Nat : At(y) # At(x) => ring'[At(y)] = ring[At(y)]
           /\ \A y \in Nat : ring'[At(y)].avail = ring[At(y)].avail
           /\ job'.pc = "store" /\ job'.id = job.id /\ job'.len = job.len /\ job'.skip = job.skip
           /\ job' \in [pc : {"idle", "release", "store"}, id : Slots, skip : 0..Size, len : 0..1,
                        stores : Seq({"len", "id", "low", "high"})]
           /\ \/ job'.stores = <<"id", "low", "high">> /\ ring'[At(x)].len = job.len
              \/ /\ job'.stores = <<"low", "high">> \/ job'.stores = <<"high">>
                 /\ ring'[At(x)].len = job.len /\ ring'[At(x)].id = job.id
              \/ job'.stores = <<>>
           /\ job'.stores # <<>> => ring'[At(x)].used = 1 - Turn(x)
           /\ job'.stores = <<>> => /\ ring'[At(x)].used = Turn(x) /\ ring'[At(x)].id = job.id
                                    /\ ring'[At(x)].len = job.len
<1>1. job.pc = "store" /\ i \in DOMAIN job.stores /\ i = 1
  BY Zenon DEF Store
<1>2. job.stores # <<>> /\ ~Stored
  BY <1>1 DEF Stored
<1>3. /\ x \in Nat /\ queue.used_index = At(x) /\ queue.used_wrap = Turn(x)
      /\ ring[At(x)].avail = Turn(x) /\ ring[At(x)].used = 1 - Turn(x)
  BY <1>2, PlaceFacts
<1>4. At(x) \in Slots /\ Turn(x) \in 0..1 /\ \A y \in Nat : At(y) \in Slots
  BY <1>3, Ring, Zenon
<1>5. /\ ring \in [Slots -> Descriptors]
      /\ job \in [pc : {"idle", "release", "store"}, id : Slots, skip : 0..Size, len : 0..1,
                  stores : Seq({"len", "id", "low", "high"})]
  BY Zenon DEF Base, TypeOK
<1>6. /\ ring' = [ring EXCEPT ![At(x)] =
              CASE job.stores[1] = "len"  -> [@ EXCEPT !.len = job.len]
                [] job.stores[1] = "id"   -> [@ EXCEPT !.id = job.id]
                [] job.stores[1] = "low"  -> [@ EXCEPT !.avail = Turn(x), !.next = 0]
                [] job.stores[1] = "high" -> [@ EXCEPT !.used = Turn(x)]]
      /\ job' = [job EXCEPT !.stores = Without(@, 1)]
  BY <1>1, <1>3, Zenon DEF Store
<1>7. PICK d : d = ring[At(x)] /\ d \in Descriptors
  BY <1>4, <1>5
<1>8. \/ job.stores = <<"len", "id", "low", "high">>
      \/ job.stores = <<"id", "low", "high">> /\ d.len = job.len
      \/ job.stores = <<"low", "high">> /\ d.len = job.len /\ d.id = job.id
      \/ job.stores = <<"high">> /\ d.len = job.len /\ d.id = job.id
  BY <1>1, <1>2, <1>7 DEF Shape, JobKept
<1>9. /\ Without(<<"len", "id", "low", "high">>, 1) = <<"id", "low", "high">>
      /\ Without(<<"id", "low", "high">>, 1) = <<"low", "high">>
      /\ Without(<<"low", "high">>, 1) = <<"high">> /\ Without(<<"high">>, 1) = <<>>
  BY StoresFacts, Zenon
<1>10. PICK e : e = ring'[At(x)]
  OBVIOUS
<1>11. \A s \in Slots : s # At(x) => ring'[s] = ring[s]
  BY <1>5, <1>6
<1>12. /\ job'.pc = "store" /\ job'.id = job.id /\ job'.len = job.len /\ job'.skip = job.skip
       /\ job'.stores = Without(job.stores, 1)
  BY <1>1, <1>5, <1>6
<1>13. /\ e \in Descriptors /\ e.avail = d.avail
       /\ \/ job'.stores = <<"id", "low", "high">> /\ e.len = job.len /\ e.used = d.used
          \/ /\ job'.stores = <<"low", "high">> \/ job'.stores = <<"high">>
             /\ e.len = job.len /\ e.id = job.id /\ e.used = d.used
          \/ job'.stores = <<>> /\ e.len = job.len /\ e.id = job.id /\ e.used = Turn(x)
  <2>1. CASE job.stores = <<"len", "id", "low", "high">>
    <3>1. e = [d EXCEPT !.len = job.len]
      BY <1>4, <1>5, <1>6, <1>7, <1>10, <2>1
    <3> QED  BY <1>5, <1>7, <1>9, <1>12, <2>1, <3>1, Zenon DEF Descriptors
  <2>2. CASE job.stores = <<"id", "low", "high">> /\ d.len = job.len
    <3>1. e = [d EXCEPT !.id = job.id]
      BY <1>4, <1>5, <1>6, <1>7, <1>10, <2>2
    <3> QED  BY <1>5, <1>7, <1>9, <1>12, <2>2, <3>1 DEF Descriptors
  <2>3. CASE job.stores = <<"low", "high">> /\ d.len = job.len /\ d.id = job.id
    <3>1. e = [d EXCEPT !.avail = Turn(x), !.next = 0]
      BY <1>4, <1>5, <1>6, <1>7, <1>10, <2>3
    <3>2. e \in Descriptors /\ e.avail = Turn(x) /\ e.len = d.len /\ e.id = d.id /\ e.used = d.used
      <4>1. PICK w \in 0..1, no \in 0..1 : w = Turn(x) /\ no = 0
        BY <1>4
      <4>2. e = [d EXCEPT !.avail = w, !.next = no]
        BY <3>1, <4>1, Zenon
      <4>3. e \in Descriptors /\ e.avail = w /\ e.len = d.len /\ e.id = d.id /\ e.used = d.used
        BY <1>7, <4>2, Zenon DEF Descriptors
      <4> QED  BY <4>1, <4>3, Zenon
    <3>3. d.avail = Turn(x) /\ job'.stores = <<"high">>
      BY <1>3, <1>7, <1>9, <1>12, <2>3, Zenon
    <3> QED  BY <2>3, <3>2, <3>3, Zenon
  <2>4. CASE job.stores = <<"high">> /\ d.len = job.len /\ d.id = job.id
    <3>1. e = [d EXCEPT !.used = Turn(x)]
      BY <1>4, <1>5, <1>6, <1>7, <1>10, <2>4
    <3> QED  BY <1>4, <1>5, <1>7, <1>9, <1>12, <2>4, <3>1 DEF Descriptors
  <2> QED  BY <1>8, <2>1, <2>2, <2>3, <2>4, Zenon
<1>14. ring' \in [Slots -> Descriptors]
  <2>1. DOMAIN ring' = Slots /\ ring' = [s \in Slots |-> ring'[s]]
    <3>1. PICK v : ring' = [ring EXCEPT ![At(x)] = v]
      BY <1>6, Zenon
    <3> QED  BY <1>5, <3>1, Zenon
  <2>2. \A s \in Slots : ring'[s] \in Descriptors
    BY <1>5, <1>10, <1>11, <1>13
  <2> QED  BY <2>1, <2>2
<1>15. \A y \in Nat : ring'[At(y)].avail = ring[At(y)].avail
  <2> SUFFICES ASSUME NEW y \in Nat PROVE ring'[At(y)].avail = ring[At(y)].avail
    OBVIOUS
  <2>1. CASE At(y) = At(x)
    BY <1>7, <1>10, <1>13, <2>1, Zenon
  <2>2. CASE At(y) # At(x)
    BY <1>4, <1>11, <2>2, Zenon
  <2> QED  BY <2>1, <2>2
<1>16. job' \in [pc : {"idle", "release", "store"}, id : Slots, skip : 0..Size, len : 0..1,
                 stores : Seq({"len", "id", "low", "high"})]
  <2>1. PICK left \in Seq({"len", "id", "low", "high"}) : left = Without(job.stores, 1)
    BY <1>8, StoresFacts, Zenon
  <2>2. job' = [job EXCEPT !.stores = left]
    BY <1>6, <2>1, Zenon
  <2> QED  BY <1>5, <2>2
<1>17. \A y \in Nat : At(y) # At(x) => ring'[At(y)] = ring[At(y)]
  BY <1>4, <1>11, Zenon
<1>18. d.used = 1 - Turn(x)
  BY <1>3, <1>7, Zenon
<1>19. <<"id", "low", "high">> # <<>> /\ <<"low", "high">> # <<>> /\ <<"high">> # <<>>
  OBVIOUS
<1>20. /\ job'.stores # <<>> => e.used = 1 - Turn(x)
       /\ job'.stores = <<>> => e.used = Turn(x) /\ e.id = job.id /\ e.len = job.len
       /\ \/ job'.stores = <<"id", "low", "high">> /\ e.len = job.len
          \/ /\ job'.stores = <<"low", "high">> \/ job'.stores = <<"high">>
             /\ e.len = job.len /\ e.id = job.id
          \/ job'.stores = <<>>
  BY <1>13, <1>18, <1>19, Zenon
<1> QED  BY <1>10, <1>12, <1>14, <1>15, <1>16, <1>17, <1>20, Zenon

\* A store that becomes visible completes nothing before the last one.
LEMMA StoreKeeps == ASSUME RingInv, Ordered, NEW i, Store(i) PROVE RingInv'
<1>1. PICK p, id : Base /\ Shape(p, id)
  BY Zenon DEF RingInv
<1>2. job.pc = "store" /\ i \in DOMAIN job.stores /\ UNCHANGED <<queue, failed, driver, resets, handled, completed>>
  BY Zenon DEF Store
<1>3. job.stores # <<>> /\ ~Stored
  BY <1>2 DEF Stored
<1>4. PICK x : x = p[Taken]
  OBVIOUS
<1>5. /\ ring' \in [Slots -> Descriptors]
      /\ \A y \in Nat : At(y) # At(x) => ring'[At(y)] = ring[At(y)]
      /\ \A y \in Nat : ring'[At(y)].avail = ring[At(y)].avail
      /\ job'.pc = "store" /\ job'.id = job.id /\ job'.len = job.len /\ job'.skip = job.skip
      /\ job' \in [pc : {"idle", "release", "store"}, id : Slots, skip : 0..Size, len : 0..1,
                   stores : Seq({"len", "id", "low", "high"})]
      /\ \/ job'.stores = <<"id", "low", "high">> /\ ring'[At(x)].len = job.len
         \/ /\ job'.stores = <<"low", "high">> \/ job'.stores = <<"high">>
            /\ ring'[At(x)].len = job.len /\ ring'[At(x)].id = job.id
         \/ job'.stores = <<>>
      /\ job'.stores # <<>> => ring'[At(x)].used = 1 - Turn(x)
      /\ job'.stores = <<>> => /\ ring'[At(x)].used = Turn(x) /\ ring'[At(x)].id = job.id
                               /\ ring'[At(x)].len = job.len
  BY <1>1, <1>4, StoreFacts
<1>6. /\ x \in Nat /\ Using = Taken /\ Taken \in (Done + 1)..Taken /\ Taken \in (Done + 1)..Made /\ x \in Span(p, Taken)
  BY <1>1, <1>3, <1>4, PlaceFacts
<1>7. /\ Done \in Nat /\ Taken \in Nat /\ Made \in Nat /\ Publishing \in Nat
      /\ \A j \in 1..(Made + 1) : p[j] \in Nat
      /\ \A j \in (Done + 1)..Made : \A y \in Span(p, j) : y \in Nat /\ p[Done + 1] <= y /\ y < p[Made + 1]
      /\ \A j \in (Done + 1)..Made : p[j] \in Span(p, j)
      /\ p[Made + 1] <= p[Done + 1] + Size /\ Done <= Taken /\ Taken <= Made /\ Taken < Publishing
  BY <1>1, Windows DEF Shape, Base, Counts
<1>8. Done' = Done /\ Taken' = Taken /\ Made' = Made /\ Publishing' = Publishing
  BY <1>2, Zenon DEF Done, Taken, Made, Publishing
<1>9. Using' = Taken /\ (Stored' <=> job'.stores = <<>>)
  BY <1>5, <1>8 DEF Using, Stored
<1>10. Base'
  <2>1. TypeOK'
    BY <1>1, <1>2, <1>5, Zenon DEF Base, TypeOK
  <2>2. Counts'
    <3>1. Counts /\ job.pc # "idle"
      BY <1>1, <1>2 DEF Base
    <3> QED  BY <1>3, <1>8, <3>1, Zenon DEF Counts
  <2>3. Histories'
    BY <1>1, <1>2, <1>8, Zenon DEF Base, Histories
  <2> QED  BY <1>1, <1>2, <2>1, <2>2, <2>3, Zenon DEF Base
<1>11. Spaced(p)' /\ Heads(p, id)'
  BY <1>1, <1>2, <1>8, Zenon DEF Shape, Spaced, Heads
<1>12. Indexes(p)'
  BY <1>1, <1>2, <1>6, <1>8, <1>9, Zenon DEF Shape, Indexes
<1>13. FreeKept(p)'
  <2>1. \A y \in p[Made + 1]..(p[Done + 1] + Size - 1) : y \in Nat
    <3>1. p[Made + 1] \in Nat /\ p[Done + 1] \in Nat
      BY <1>7
    <3> QED  BY <3>1, SizeFact
  <2> QED  BY <1>1, <1>5, <1>8, <2>1, Zenon DEF Shape, FreeKept
<1>14. HeadKept(p)'
  <2>1. Publishing <= Made => p[Publishing] \in Nat
    BY <1>7
  <2> QED  BY <1>1, <1>5, <1>8, <2>1, Zenon DEF Shape, HeadKept
<1>15. TakenKept(p)'
  <2>1. \A j \in (Done + 1)..Taken : \A y \in Span(p, j) : y \in Nat
    <3>1. \A j \in (Done + 1)..Taken : j \in (Done + 1)..Made
      BY <1>7
    <3> QED  BY <1>7, <3>1, Zenon
  <2> QED  BY <1>1, <1>5, <1>8, <2>1, Zenon DEF Shape, TakenKept
<1>16. ASSUME NEW j \in (Done + 1)..Made, j # Taken, NEW y \in Span(p, j) PROVE ring'[At(y)] = ring[At(y)]
  <2>1. Spaced(p)
    BY <1>1, Zenon DEF Shape
  <2>2. \A k \in (Done + 1)..Made : \A z \in Span(p, k) : (Taken # k \/ x # z) => At(z) # At(x)
    BY <1>1, <1>6, <2>1, SlotsApart
  <2>3. y \in Nat /\ At(y) # At(x)
    BY <1>7, <1>16, <2>2, Zenon
  <2> QED  BY <1>5, <2>3, Zenon
<1>17. MadeKept(p, id)'
  <2>1. ASSUME NEW j \in (Taken + 1)..Made, NEW y \in Span(p, j) PROVE MadeAt(p, id, j, y)'
    <3>1. j \in (Done + 1)..Made /\ j # Taken
      BY <1>7
    <3>2. ring'[At(y)] = ring[At(y)]
      BY <1>16, <3>1, Zenon
    <3>3. MadeAt(p, id, j, y)
      BY <1>1, Zenon DEF Shape, MadeKept
    <3> QED  BY <1>8, <3>2, <3>3, Zenon DEF MadeAt
  <2> QED  BY <1>8, <2>1, Zenon DEF MadeKept
<1>18. job.id = id[Taken] /\ job.len = handled[Taken].len /\ job.skip = p[Taken + 1] - p[Taken]
  <2>1. job.pc # "idle"
    BY <1>2
  <2> QED  BY <1>1, <2>1, Zenon DEF Shape, JobKept
<1>19. DoneKept(p, id)'
  <2> SUFFICES ASSUME NEW j \in (Done + 1)..Taken
               PROVE  /\ Visible(j)' => /\ ring'[At(p[j])].used = Turn(p[j]) /\ ring'[At(p[j])].id = id[j]
                                        /\ ring'[At(p[j])].len = handled[j].len
                      /\ ~Visible(j)' => ring'[At(p[j])].used = 1 - Turn(p[j])
    BY <1>2, <1>8, Zenon DEF DoneKept
  <2>1. CASE j = Taken
    <3>1. Visible(j)' <=> job'.stores = <<>>
      <4>1. ~(Taken < Taken)
        BY <1>7
      <4> QED  BY <1>8, <1>9, <2>1, <4>1, Zenon DEF Visible
    <3> QED  BY <1>4, <1>5, <1>18, <2>1, <3>1, Zenon
  <2>2. CASE j # Taken
    <3>1. j \in (Done + 1)..Made /\ j < Taken
      BY <1>7, <2>2
    <3>2. p[j] \in Span(p, j)
      BY <1>7, <3>1, Zenon
    <3>3. ring'[At(p[j])] = ring[At(p[j])]
      BY <1>16, <2>2, <3>1, <3>2, Zenon
    <3>4. Visible(j) /\ Visible(j)'
      BY <1>8, <3>1, Zenon DEF Visible
    <3> QED  BY <1>1, <3>3, <3>4, Zenon DEF Shape, DoneKept
  <2> QED  BY <2>1, <2>2
<1>20. JobKept(p, id)'
  BY <1>2, <1>4, <1>5, <1>8, <1>18, Zenon DEF JobKept
<1>21. Owned(p, id)'
  BY <1>1, <1>8, Zenon DEF Shape, Owned
<1> QED  BY <1>10, <1>11, <1>12, <1>13, <1>14, <1>15, <1>17, <1>19, <1>20, <1>21, Zenon DEF RingInv, Shape

\* used_index goes on to the next request.
LEMMA ReleasedKeeps == ASSUME RingInv, Released PROVE RingInv'
<1>1. PICK p, id : Base /\ Shape(p, id)
  BY Zenon DEF RingInv
<1>2. /\ job.pc = "store" /\ job.stores = <<>> /\ job' = Idle
      /\ queue' = [queue EXCEPT !.used_index = Slot(queue.used_index, job.skip), !.used_wrap = UsedWrap]
      /\ UNCHANGED <<ring, failed, driver, resets, handled, completed>>
  BY Zenon DEF Released
<1>3. Stored /\ job.pc # "idle" /\ job'.pc = "idle"
  BY <1>2 DEF Stored, Idle
<1>4. /\ Done \in Nat /\ Taken \in Nat /\ Made \in Nat /\ Taken >= 1 /\ Taken <= Made
      /\ \A j \in 1..(Made + 1) : p[j] \in Nat
      /\ \A j \in 1..Made : p[j + 1] - p[j] \in 1..MaxChain
  BY <1>1, <1>3, Windows DEF Shape, Base, Counts
<1>5. PICK x, n : x = p[Taken] /\ n = p[Taken + 1] - p[Taken]
  OBVIOUS
<1>6. x \in Nat /\ n \in 0..Size /\ p[Taken + 1] = x + n /\ p[Taken + 1] \in Nat
  <2>1. Taken \in 1..Made /\ Taken \in 1..(Made + 1) /\ Taken + 1 \in 1..(Made + 1)
    BY <1>4
  <2>2. x \in Nat /\ p[Taken + 1] \in Nat /\ n \in 1..MaxChain
    BY <1>4, <1>5, <2>1, Zenon
  <2> QED  BY <1>5, <2>2, RingAssumption
<1>7. job.skip = n /\ Using = Taken
  <2>1. job.skip = n
    BY <1>1, <1>3, <1>5, Zenon DEF Shape, JobKept
  <2> QED  BY <1>3, <2>1 DEF Using
<1>8. queue.used_index = At(x) /\ queue.used_wrap = Turn(x)
  BY <1>1, <1>5, <1>7, Zenon DEF Shape, Indexes
<1>9. Slot(queue.used_index, job.skip) = At(p[Taken + 1]) /\ UsedWrap = Turn(p[Taken + 1])
  <2>1. Slot(At(x), n) = At(x + n) /\ WrapAt(At(x), Turn(x), n) = Turn(x + n)
    BY <1>6, Place
  <2> QED  BY <1>6, <1>7, <1>8, <2>1, Zenon DEF UsedWrap
<1>10. /\ queue \in [avail_index : Slots, used_index : Slots, avail_wrap : 0..1, used_wrap : 0..1]
       /\ At(p[Taken + 1]) \in Slots /\ Turn(p[Taken + 1]) \in 0..1
  BY <1>1, <1>6, Ring, Zenon DEF Base, TypeOK
<1>11. PICK at \in Slots, w \in 0..1 : at = At(p[Taken + 1]) /\ w = Turn(p[Taken + 1])
  BY <1>10
<1>12. queue' = [queue EXCEPT !.used_index = at, !.used_wrap = w]
  BY <1>2, <1>9, <1>11, Zenon
<1>13. /\ queue' \in [avail_index : Slots, used_index : Slots, avail_wrap : 0..1, used_wrap : 0..1]
       /\ queue'.used_index = at /\ queue'.used_wrap = w
       /\ queue'.avail_index = queue.avail_index /\ queue'.avail_wrap = queue.avail_wrap
  BY <1>10, <1>12, Zenon
<1>14. Done' = Done /\ Taken' = Taken /\ Made' = Made /\ Publishing' = Publishing
  BY <1>2, Zenon DEF Done, Taken, Made, Publishing
<1>15. Stored' /\ Using' = Taken + 1 /\ \A k : Visible(k)' <=> Visible(k)
  <2>1. Stored'
    BY <1>3, Zenon DEF Stored
  <2>2. Using' = Taken + 1
    BY <1>3, <1>14, Zenon DEF Using
  <2> QED  BY <1>3, <1>14, <2>1, <2>2, Zenon DEF Visible
<1>16. Base'
  <2>1. job' \in [pc : {"idle", "release", "store"}, id : Slots, skip : 0..Size, len : 0..1,
                  stores : Seq({"len", "id", "low", "high"})]
    BY <1>2, SizeFact DEF Idle, Slots
  <2>2. TypeOK'
    BY <1>1, <1>2, <1>13, <2>1, Zenon DEF Base, TypeOK
  <2>3. Counts'
    BY <1>1, <1>3, <1>14, <1>15, Zenon DEF Base, Counts
  <2>4. Histories'
    BY <1>1, <1>2, <1>14, Zenon DEF Base, Histories
  <2> QED  BY <1>1, <1>2, <2>2, <2>3, <2>4, Zenon DEF Base
<1>17. Spaced(p)' /\ Heads(p, id)' /\ FreeKept(p)' /\ HeadKept(p)' /\ TakenKept(p)'
  BY <1>1, <1>2, <1>14, Zenon DEF Shape, Spaced, Heads, FreeKept, HeadKept, TakenKept
<1>18. Indexes(p)'
  BY <1>1, <1>2, <1>11, <1>13, <1>14, <1>15, Zenon DEF Shape, Indexes
<1>19. MadeKept(p, id)'
  <2>1. \A j, y : MadeAt(p, id, j, y)' <=> MadeAt(p, id, j, y)
    BY <1>2, <1>14, Zenon DEF MadeAt
  <2> QED  BY <1>1, <1>14, <2>1, Zenon DEF Shape, MadeKept
<1>20. DoneKept(p, id)'
  BY <1>1, <1>2, <1>14, <1>15, Zenon DEF Shape, DoneKept
<1>21. JobKept(p, id)'
  BY <1>3, Zenon DEF JobKept
<1>22. Owned(p, id)'
  BY <1>1, <1>14, Zenon DEF Shape, Owned
<1> QED  BY <1>16, <1>17, <1>18, <1>19, <1>20, <1>21, <1>22, Zenon DEF RingInv, Shape

\* A reset begins anew.
LEMMA ResetKeeps == ASSUME RingInv, Reset PROVE RingInv'
<1>1. TypeOK /\ ~failed
  BY Zenon DEF RingInv, Base
<1>2. /\ job.pc = "idle" /\ resets < Resets /\ resets' = resets + 1
      /\ ring' = [s \in Slots |-> Blank] /\ driver' = DriverNew /\ queue' = QueueNew
      /\ handled' = <<>> /\ completed' = <<>> /\ UNCHANGED <<job, failed>>
  BY Zenon DEF Reset, Enabled
<1>3. job' \in [pc : {"idle"}, id : Slots, skip : 0..Size, len : 0..1, stores : Seq({"len", "id", "low", "high"})]
  <2>1. job \in [pc : {"idle", "release", "store"}, id : Slots, skip : 0..Size, len : 0..1,
                 stores : Seq({"len", "id", "low", "high"})]
    BY <1>1, Zenon DEF TypeOK
  <2> QED  BY <1>2, <2>1
<1>4. resets' \in 0..Resets
  <2>1. resets \in 0..Resets
    BY <1>1, Zenon DEF TypeOK
  <2> QED  BY <1>2, <2>1, RingAssumption
<1>5. failed' = FALSE
  <2>1. failed \in BOOLEAN
    BY <1>1, Zenon DEF TypeOK
  <2> QED  BY <1>1, <1>2, <2>1, Zenon
<1>6. FreshState'
  BY <1>2, <1>3, <1>4, <1>5, Zenon DEF FreshState
<1>7. FreshState' => RingInv'
  BY Fresh, PTL
<1> QED  BY <1>6, <1>7

-----------------------------------------------------------------------------
(* The driver *)

\* The flags of the first descriptor hand the request over.
LEMMA PublishKeeps == ASSUME RingInv, DriverPublish PROVE RingInv'
<1>1. PICK p, id : Base /\ Shape(p, id)
  BY Zenon DEF RingInv
<1>2. /\ driver.adding > 0 /\ UNCHANGED <<queue, job, failed, resets, handled, completed>>
      /\ ring' = [ring EXCEPT ![driver.avail] =
                     [ring[driver.avail] EXCEPT !.avail = driver.avail_wrap, !.used = 1 - driver.avail_wrap,
                                                !.next = IF driver.adding > 1 THEN 1 ELSE 0]]
      /\ driver' = [driver EXCEPT !.adding = 0, !.avail = Slot(driver.avail, driver.adding),
                                  !.avail_wrap = WrapAt(driver.avail, driver.avail_wrap, driver.adding)]
  BY Zenon DEF DriverPublish
<1>3. /\ Done \in Nat /\ Taken \in Nat /\ Made \in Nat /\ Publishing \in Nat /\ Done <= Taken /\ Taken < Publishing
      /\ \A j \in 1..(Made + 1) : p[j] \in Nat
      /\ \A j \in 1..Made : p[j + 1] - p[j] \in 1..MaxChain
      /\ \A j \in (Done + 1)..Made : \A y \in Span(p, j) : y \in Nat
      /\ \A j \in (Done + 1)..Made : p[j] \in Span(p, j)
  BY <1>1, Windows DEF Shape, Base, Counts
<1>4. /\ ring \in [Slots -> Descriptors]
      /\ driver \in [avail : Slots, avail_wrap : 0..1, used : Slots, used_wrap : 0..1, made : 0..Reqs,
                     num_free : 0..Size, adding : 0..MaxChain, broken : BOOLEAN,
                     heads : [Slots -> [num : 0..MaxChain, req : 0..Reqs]]]
  BY <1>1, Zenon DEF Base, TypeOK
<1>5. driver.adding # 0 /\ Publishing = Made /\ Taken < Made
  <2>1. driver.adding # 0
    BY <1>2, <1>4
  <2>2. Publishing = Made
    BY <2>1, Zenon DEF Publishing
  <2> QED  BY <1>3, <2>1, <2>2
<1>6. PICK x, n : x = p[Made] /\ n = p[Made + 1] - p[Made]
  OBVIOUS
<1>7. /\ x \in Nat /\ n \in 1..MaxChain /\ n \in 0..Size /\ p[Made + 1] = x + n /\ Made \in (Done + 1)..Made /\ x \in Span(p, Made)
      /\ Made \in (Taken + 1)..Made
  <2>1. Made \in 1..Made /\ Made \in 1..(Made + 1) /\ Made + 1 \in 1..(Made + 1) /\ Made \in (Done + 1)..Made /\ Made \in (Taken + 1)..Made
    BY <1>3, <1>5
  <2>2. x \in Nat /\ p[Made + 1] \in Nat /\ n \in 1..MaxChain /\ x \in Span(p, Made)
    BY <1>3, <1>6, <2>1, Zenon
  <2> QED  BY <1>6, <2>1, <2>2, RingAssumption
<1>8. driver.avail = At(x) /\ driver.avail_wrap = Turn(x) /\ driver.adding = n
  BY <1>1, <1>5, <1>6, Zenon DEF Shape, Indexes
<1>9. Slot(At(x), n) = At(x + n) /\ WrapAt(At(x), Turn(x), n) = Turn(x + n)
  BY <1>7, Place
<1>10. At(x) \in Slots /\ Turn(x) \in 0..1 /\ At(x + n) \in Slots /\ Turn(x + n) \in 0..1
  <2>1. x + n \in Nat
    BY <1>7
  <2> QED  BY <1>7, <2>1, Ring, Zenon
<1>11. PICK s \in Slots, w \in 0..1, u \in 0..1, m \in 0..1, t \in Slots, v \in 0..1 :
          /\ s = At(x) /\ w = Turn(x) /\ u = 1 - Turn(x) /\ m = (IF n > 1 THEN 1 ELSE 0)
          /\ t = At(x + n) /\ v = Turn(x + n)
  BY <1>10
<1>12. PICK none \in 0..MaxChain : none = 0
  BY RingAssumption
<1>13. /\ ring' = [ring EXCEPT ![s] = [ring[s] EXCEPT !.avail = w, !.used = u, !.next = m]]
       /\ driver' = [driver EXCEPT !.adding = none, !.avail = t, !.avail_wrap = v]
  BY <1>2, <1>8, <1>9, <1>11, <1>12, Zenon
<1>14. /\ ring' \in [Slots -> Descriptors] /\ \A r \in Slots : r # s => ring'[r] = ring[r]
       /\ ring'[s].avail = w /\ ring'[s].used = u /\ ring'[s].next = m
       /\ ring'[s].id = ring[s].id /\ ring'[s].req = ring[s].req
  <2>1. PICK d \in Descriptors : d = ring[s]
    BY <1>4, Zenon
  <2>2. PICK e : e = [d EXCEPT !.avail = w, !.used = u, !.next = m]
    OBVIOUS
  <2>3. /\ e \in Descriptors /\ e.avail = w /\ e.used = u /\ e.next = m /\ e.id = d.id /\ e.req = d.req
    BY <2>2, Zenon DEF Descriptors
  <2>4. ring' = [ring EXCEPT ![s] = e]
    BY <1>13, <2>1, <2>2, Zenon
  <2>5. ring' \in [Slots -> Descriptors] /\ ring'[s] = e /\ \A r \in Slots : r # s => ring'[r] = ring[r]
    BY <1>4, <2>3, <2>4, Zenon
  <2> QED  BY <2>1, <2>3, <2>5, Zenon
<1>15. /\ driver' \in [avail : Slots, avail_wrap : 0..1, used : Slots, used_wrap : 0..1, made : 0..Reqs,
                       num_free : 0..Size, adding : 0..MaxChain, broken : BOOLEAN,
                       heads : [Slots -> [num : 0..MaxChain, req : 0..Reqs]]]
       /\ driver'.adding = 0 /\ driver'.avail = t /\ driver'.avail_wrap = v
       /\ driver'.used = driver.used /\ driver'.used_wrap = driver.used_wrap /\ driver'.made = driver.made
       /\ driver'.num_free = driver.num_free /\ driver'.heads = driver.heads
  <2>1. driver' \in [avail : Slots, avail_wrap : 0..1, used : Slots, used_wrap : 0..1, made : 0..Reqs,
                     num_free : 0..Size, adding : 0..MaxChain, broken : BOOLEAN,
                     heads : [Slots -> [num : 0..MaxChain, req : 0..Reqs]]]
    BY <1>4, <1>13, Zenon
  <2> QED  BY <1>4, <1>12, <1>13, <2>1
<1>16. driver'.broken = driver.broken
  BY <1>4, <1>13, Zenon
<1>17. Done' = Done /\ Taken' = Taken /\ Made' = Made /\ Publishing' = Made + 1 /\ Using' = Using /\ (Stored' <=> Stored)
  BY <1>2, <1>15, Zenon DEF Done, Taken, Made, Publishing, Using, Stored
<1>18. \A k : Visible(k)' <=> Visible(k)
  BY <1>17, Zenon DEF Visible
<1>19. Base'
  <2>1. TypeOK'
    BY <1>1, <1>2, <1>14, <1>15, Zenon DEF Base, TypeOK
  <2>2. Taken < Made + 1 /\ Made + 1 <= Made + 1
    BY <1>3, <1>5
  <2>3. Counts'
    BY <1>1, <1>2, <1>17, <2>2, Zenon DEF Base, Counts
  <2>4. Histories'
    BY <1>1, <1>2, <1>17, Zenon DEF Base, Histories
  <2> QED  BY <1>1, <1>2, <1>16, <2>1, <2>3, <2>4, Zenon DEF Base
<1>20. Spaced(p)' /\ Heads(p, id)'
  <2>1. Spaced(p)'
    BY <1>1, <1>15, <1>17, Zenon DEF Shape, Spaced
  <2>2. Heads(p, id)
    BY <1>1, Zenon DEF Shape
  <2>3. Heads(p, id)'
    BY <1>15, <1>17, <2>2 DEF Heads
  <2> QED  BY <2>1, <2>3
<1>21. Indexes(p)'
  BY <1>1, <1>2, <1>7, <1>11, <1>15, <1>17, Zenon DEF Shape, Indexes
<1>22. /\ \A k \in (Done + 1)..Made : \A y \in Span(p, k) : (Made # k \/ x # y) => At(y) # At(x)
       /\ \A y \in p[Made + 1]..(p[Done + 1] + Size - 1) : At(y) # At(x)
  <2>1. Spaced(p)
    BY <1>1, Zenon DEF Shape
  <2> QED  BY <1>1, <1>7, <2>1, SlotsApart
<1>23. ASSUME NEW y \in Nat, At(y) # At(x) PROVE ring'[At(y)] = ring[At(y)]
  <2>1. At(y) \in Slots
    BY Ring, Zenon
  <2> QED  BY <1>11, <1>14, <1>23, <2>1, Zenon
<1>24. \A k \in (Done + 1)..Made : \A y \in Span(p, k) : (Made # k \/ x # y) => ring'[At(y)] = ring[At(y)]
  BY <1>3, <1>22, <1>23, Zenon
<1>25. FreeKept(p)'
  <2>1. ASSUME NEW y \in p[Made + 1]..(p[Done + 1] + Size - 1) PROVE ring'[At(y)] = ring[At(y)]
    <3>1. p[Made + 1] \in Nat /\ p[Done + 1] \in Nat
      BY <1>3, <1>5
    <3>2. y \in Nat
      BY <2>1, <3>1, SizeFact
    <3> QED  BY <1>22, <1>23, <2>1, <3>2, Zenon
  <2> QED  BY <1>1, <1>17, <2>1, Zenon DEF Shape, FreeKept
<1>26. HeadKept(p)'
  <2>1. ~(Made + 1 <= Made)
    BY <1>3
  <2> QED  BY <1>17, <2>1, Zenon DEF HeadKept
<1>27. MadeKept(p, id)'
  <2> SUFFICES ASSUME NEW k \in (Taken + 1)..Made, NEW y \in Span(p, k) PROVE MadeAt(p, id, k, y)'
    BY <1>17, Zenon DEF MadeKept
  <2>1. MadeAt(p, id, k, y) /\ k \in (Done + 1)..Made
    <3>1. MadeAt(p, id, k, y)
      BY <1>1, Zenon DEF Shape, MadeKept
    <3> QED  BY <1>3, <3>1
  <2>2. CASE Made # k \/ x # y
    <3>1. ring'[At(y)] = ring[At(y)]
      BY <1>24, <2>1, <2>2, Zenon
    <3>2. k # Publishing \/ y # p[k]
      BY <1>5, <1>6, <2>2, Zenon
    <3> QED  BY <2>1, <3>1, <3>2, Zenon DEF MadeAt
  <2>3. CASE Made = k /\ x = y
    <3>1. x < p[Made + 1] - 1 <=> n > 1
      BY <1>7
    <3>2. m = IF x < p[Made + 1] - 1 THEN 1 ELSE 0
      BY <1>11, <3>1, Zenon
    <3> QED  BY <1>11, <1>14, <2>1, <2>3, <3>2, Zenon DEF MadeAt
  <2> QED  BY <2>2, <2>3, Zenon
<1>28. \A k \in (Done + 1)..Taken : k \in (Done + 1)..Made /\ Made # k
  BY <1>3, <1>5
<1>29. TakenKept(p)'
  BY <1>1, <1>17, <1>24, <1>28, Zenon DEF Shape, TakenKept
<1>30. DoneKept(p, id)'
  <2>1. \A k \in (Done + 1)..Taken : ring'[At(p[k])] = ring[At(p[k])]
    BY <1>3, <1>24, <1>28, Zenon
  <2> QED  BY <1>1, <1>2, <1>17, <1>18, <2>1, Zenon DEF Shape, DoneKept
<1>31. JobKept(p, id)'
  <2>1. CASE job.pc = "store" /\ ~Stored
    <3>1. Taken \in (Done + 1)..Taken
      BY <1>1, <1>3, <2>1 DEF Base, Counts
    <3>2. ring'[At(p[Taken])] = ring[At(p[Taken])]
      BY <1>3, <1>24, <1>28, <3>1, Zenon
    <3> QED  BY <1>1, <1>2, <1>17, <3>2, Zenon DEF Shape, JobKept
  <2>2. CASE ~(job.pc = "store" /\ ~Stored)
    <3>1. job.pc = "store" => job.stores = <<>>
      BY <2>2, Zenon DEF Stored
    <3> QED  BY <1>1, <1>2, <1>17, <3>1, Zenon DEF Shape, JobKept
  <2> QED  BY <2>1, <2>2, Zenon
<1>32. Owned(p, id)'
  BY <1>1, <1>17, Zenon DEF Shape, Owned
<1> QED  BY <1>19, <1>20, <1>21, <1>25, <1>26, <1>27, <1>29, <1>30, <1>31, <1>32, Zenon DEF RingInv, Shape

\* What the driver takes for a completion is one.
LEMMA TakeFacts ==
    ASSUME Base, NEW p, NEW id, Shape(p, id), NEW k, k = Done + 1,
           ring[driver.used].avail = driver.used_wrap, ring[driver.used].used = driver.used_wrap
    PROVE  /\ k \in (Done + 1)..Taken /\ k \in (Done + 1)..Made /\ Visible(k)
           /\ ring[driver.used].id = id[k] /\ ring[driver.used].len = handled[k].len
<1>1. /\ Done \in Nat /\ Taken \in Nat /\ Made \in Nat /\ Publishing \in Nat /\ Done <= Taken /\ Taken <= Made
      /\ \A j \in 1..(Made + 1) : p[j] \in Nat
      /\ \A j \in (Done + 1)..Made : p[j] \in Span(p, j)
      /\ p[Made + 1] - p[Done + 1] = Size - driver.num_free
  BY Windows DEF Shape, Base, Counts, Spaced
<1>2. PICK x : x = p[k]
  OBVIOUS
<1>3. x \in Nat
  <2>1. k \in 1..(Made + 1)
    BY <1>1
  <2> QED  BY <1>1, <1>2, <2>1, Zenon
<1>4. driver.used = At(x) /\ ring[At(x)].avail = Turn(x) /\ ring[At(x)].used = Turn(x) /\ Turn(x) # 1 - Turn(x)
  <2>1. Turn(x) # 1 - Turn(x)
    BY <1>3, Ring, Zenon
  <2>2. driver.used = At(x) /\ driver.used_wrap = Turn(x)
    BY <1>2, Zenon DEF Shape, Indexes
  <2> QED  BY <2>1, <2>2
<1>5. Done # Made
  <2>1. SUFFICES ASSUME Done = Made PROVE FALSE
    OBVIOUS
  <2>2. x = p[Made + 1] /\ p[Done + 1] = x
    BY <1>2, <2>1
  <2>3. x \in p[Made + 1]..(p[Done + 1] + Size - 1)
    BY <1>3, <2>2, SizeFact
  <2>4. ring[At(x)].avail = 1 - Turn(x)
    BY <2>3, Zenon DEF Shape, FreeKept
  <2> QED  BY <1>4, <2>4
<1>6. k \in (Done + 1)..Made
  BY <1>1, <1>5
<1>7. x \in Span(p, k)
  BY <1>1, <1>2, <1>6, Zenon
<1>8. Done # Taken
  <2>1. SUFFICES ASSUME Done = Taken PROVE FALSE
    OBVIOUS
  <2>2. k \in (Taken + 1)..Made /\ k <= Made
    BY <1>1, <1>6, <2>1
  <2>3. CASE k = Publishing
    <3>1. ring[At(x)].avail = 1 - Turn(x)
      BY <1>2, <2>2, <2>3, Zenon DEF Shape, HeadKept
    <3> QED  BY <1>4, <3>1
  <2>4. CASE k # Publishing
    <3>1. ring[At(x)].used = 1 - Turn(x)
      BY <1>7, <2>2, <2>4, Zenon DEF Shape, MadeKept, MadeAt
    <3> QED  BY <1>4, <3>1
  <2> QED  BY <2>3, <2>4
<1>9. k \in (Done + 1)..Taken
  BY <1>1, <1>8
<1>10. Visible(k)
  <2>1. SUFFICES ASSUME ~Visible(k) PROVE FALSE
    OBVIOUS
  <2>2. ring[At(x)].used = 1 - Turn(x)
    BY <1>2, <1>9, <2>1, Zenon DEF Shape, DoneKept
  <2> QED  BY <1>4, <2>2
<1>11. ring[At(x)].id = id[k] /\ ring[At(x)].len = handled[k].len
  BY <1>2, <1>9, <1>10, Zenon DEF Shape, DoneKept
<1> QED  BY <1>4, <1>6, <1>9, <1>10, <1>11

\* The driver finds the completion of the oldest request that is out.
LEMMA TakeKeeps == ASSUME RingInv, DriverTake PROVE RingInv'
<1>1. PICK p, id : Base /\ Shape(p, id)
  BY Zenon DEF RingInv
<1>2. PICK d, head : d = ring[driver.used] /\ head = driver.heads[d.id]
  OBVIOUS
<1>3. /\ UNCHANGED <<ring, queue, job, failed, resets, handled>>
      /\ d.avail = driver.used_wrap /\ d.used = driver.used_wrap
      /\ head.num # 0 =>
            /\ driver' = [driver EXCEPT !.heads[d.id] = [num |-> 0, req |-> 0],
                                        !.num_free = @ + head.num, !.used = Slot(driver.used, head.num),
                                        !.used_wrap = WrapAt(driver.used, driver.used_wrap, head.num)]
            /\ completed' = Append(completed, [req |-> head.req, len |-> d.len])
  BY <1>2, Zenon DEF DriverTake
<1>4. PICK k : k = Done + 1
  OBVIOUS
<1>5. /\ k \in (Done + 1)..Taken /\ k \in (Done + 1)..Made /\ Visible(k)
      /\ d.id = id[k] /\ d.len = handled[k].len
  <2>1. ring[driver.used].avail = driver.used_wrap /\ ring[driver.used].used = driver.used_wrap
    BY <1>2, <1>3, Zenon
  <2>2. /\ k \in (Done + 1)..Taken /\ k \in (Done + 1)..Made /\ Visible(k)
        /\ ring[driver.used].id = id[k] /\ ring[driver.used].len = handled[k].len
    BY <1>1, <1>4, <2>1, TakeFacts
  <2> QED  BY <1>2, <2>2, Zenon
<1>6. /\ Done \in Nat /\ Taken \in Nat /\ Made \in Nat /\ Publishing \in Nat /\ Done <= Taken /\ Taken <= Made
      /\ \A j \in 1..(Made + 1) : p[j] \in Nat
      /\ \A j \in 1..Made : p[j + 1] - p[j] \in 1..MaxChain
      /\ \A j \in (Done + 1)..(Made + 1) : p[Done + 1] <= p[j] /\ p[j] <= p[Made + 1]
  BY <1>1, Windows DEF Shape, Base, Counts
<1>7. /\ driver \in [avail : Slots, avail_wrap : 0..1, used : Slots, used_wrap : 0..1, made : 0..Reqs,
                     num_free : 0..Size, adding : 0..MaxChain, broken : BOOLEAN,
                     heads : [Slots -> [num : 0..MaxChain, req : 0..Reqs]]]
      /\ handled \in Seq(Results) /\ completed \in Seq(Results) /\ ~driver.broken
      /\ id \in [1..Made -> Slots] /\ p \in [1..(Made + 1) -> Nat]
      /\ p[Made + 1] - p[Done + 1] = Size - driver.num_free
  BY <1>1, Zenon DEF Base, TypeOK, Shape, Heads, Spaced
<1>8. PICK x, n : x = p[k] /\ n = p[k + 1] - p[k]
  OBVIOUS
<1>9. x \in Nat /\ n \in 1..MaxChain /\ n \in 0..Size /\ p[k + 1] = x + n /\ p[Made + 1] \in Nat /\ p[k + 1] <= p[Made + 1]
  <2>1. /\ k \in 1..Made /\ k \in 1..(Made + 1) /\ k + 1 \in 1..(Made + 1) /\ Made + 1 \in 1..(Made + 1)
        /\ k + 1 \in (Done + 1)..(Made + 1)
    BY <1>4, <1>5, <1>6
  <2>2. x \in Nat /\ p[k + 1] \in Nat /\ n \in 1..MaxChain /\ p[Made + 1] \in Nat /\ p[k + 1] <= p[Made + 1]
    BY <1>6, <1>8, <2>1, Zenon
  <2> QED  BY <1>8, <2>2, RingAssumption
<1>10. head.num = n /\ head.req = k /\ head.num # 0
  <2>1. head.num = n /\ head.req = k
    BY <1>1, <1>2, <1>5, <1>8, Zenon DEF Shape, Heads
  <2> QED  BY <1>9, <2>1, RingAssumption
<1>11. driver.used = At(x) /\ driver.used_wrap = Turn(x)
  BY <1>1, <1>4, <1>8, Zenon DEF Shape, Indexes
<1>12. Slot(driver.used, n) = At(x + n) /\ WrapAt(driver.used, driver.used_wrap, n) = Turn(x + n)
  <2>1. Slot(At(x), n) = At(x + n) /\ WrapAt(At(x), Turn(x), n) = Turn(x + n)
    BY <1>9, Place
  <2> QED  BY <1>11, <2>1, Zenon
<1>13. PICK s \in Slots, t \in Slots, v \in 0..1, room \in 0..Size :
          s = id[k] /\ t = At(x + n) /\ v = Turn(x + n) /\ room = driver.num_free + n
  <2>1. x + n \in Nat
    BY <1>9
  <2>2. At(x + n) \in Slots /\ Turn(x + n) \in 0..1
    BY <2>1, Ring, Zenon
  <2>3. k \in 1..Made
    BY <1>5, <1>6
  <2>4. id[k] \in Slots
    BY <1>7, <2>3, Zenon
  <2>5. driver.num_free + n \in 0..Size
    <3>1. driver.num_free \in 0..Size
      BY <1>7
    <3>2. p[Made + 1] - x = Size - driver.num_free
      BY <1>4, <1>7, <1>8, Zenon
    <3>3. PICK free \in 0..Size, e \in Nat : free = driver.num_free /\ e = p[Made + 1]
      BY <1>9, <3>1
    <3>4. e - x = Size - free /\ x + n <= e
      BY <1>9, <3>2, <3>3
    <3>5. free + n \in 0..Size
      BY <1>9, <3>4, SizeFact
    <3> QED  BY <3>3, <3>5, Zenon
  <2> QED  BY <2>2, <2>4, <2>5
<1>14. PICK none \in [num : 0..MaxChain, req : 0..Reqs] : none = [num |-> 0, req |-> 0] /\ none.num = 0
  <2>1. PICK a \in 0..MaxChain, b \in 0..Reqs : a = 0 /\ b = 0
    BY RingAssumption
  <2>2. PICK none : none = [num |-> a, req |-> b]
    BY Zenon
  <2>3. none \in [num : 0..MaxChain, req : 0..Reqs] /\ none.num = a
    BY <2>2
  <2> QED  BY <2>1, <2>2, <2>3, Zenon
<1>15. /\ driver' = [driver EXCEPT !.heads = [driver.heads EXCEPT ![s] = none],
                                   !.num_free = room, !.used = t, !.used_wrap = v]
       /\ completed' = Append(completed, [req |-> k, len |-> d.len])
  <2>1. driver' = [driver EXCEPT !.heads[d.id] = none, !.num_free = driver.num_free + n, !.used = t, !.used_wrap = v]
    BY <1>3, <1>10, <1>12, <1>13, <1>14, Zenon
  <2>2. driver' = [driver EXCEPT !.heads[s] = none, !.num_free = room, !.used = t, !.used_wrap = v]
    BY <1>5, <1>13, <2>1, Zenon
  <2>3. driver' = [driver EXCEPT !.heads = [driver.heads EXCEPT ![s] = none],
                                 !.num_free = room, !.used = t, !.used_wrap = v]
    BY <1>7, <2>2
  <2> QED  BY <1>3, <1>10, <2>3, Zenon
<1>16. PICK heads \in [Slots -> [num : 0..MaxChain, req : 0..Reqs]] :
          /\ heads = [driver.heads EXCEPT ![s] = none] /\ heads[s] = none
          /\ \A r \in Slots : r # s => heads[r] = driver.heads[r]
  <2>1. PICK old \in [Slots -> [num : 0..MaxChain, req : 0..Reqs]] : old = driver.heads
    BY <1>7
  <2>2. PICK heads : heads = [old EXCEPT ![s] = none]
    BY Zenon
  <2>3. /\ heads \in [Slots -> [num : 0..MaxChain, req : 0..Reqs]] /\ heads[s] = none
        /\ \A r \in Slots : r # s => heads[r] = old[r]
    BY <2>2, Zenon
  <2> QED  BY <2>1, <2>2, <2>3, Zenon
<1>17. driver' = [driver EXCEPT !.heads = heads, !.num_free = room, !.used = t, !.used_wrap = v]
  BY <1>15, <1>16, Zenon
<1>18. /\ driver' \in [avail : Slots, avail_wrap : 0..1, used : Slots, used_wrap : 0..1, made : 0..Reqs,
                       num_free : 0..Size, adding : 0..MaxChain, broken : BOOLEAN,
                       heads : [Slots -> [num : 0..MaxChain, req : 0..Reqs]]]
       /\ driver'.adding = driver.adding /\ driver'.avail = driver.avail /\ driver'.avail_wrap = driver.avail_wrap
       /\ driver'.used = t /\ driver'.used_wrap = v /\ driver'.made = driver.made
       /\ driver'.num_free = room /\ driver'.heads = heads
  BY <1>7, <1>17, Zenon
<1>19. driver'.broken = driver.broken
  BY <1>7, <1>17, Zenon
<1>20. handled[k] \in Results /\ handled[k] = [req |-> k, len |-> d.len]
  <2>1. k \in 1..Taken
    BY <1>4, <1>5, <1>6
  <2>2. handled[k] \in Results
    BY <1>7, <2>1, ElementOfSeq DEF Taken
  <2>3. handled[k].req = k /\ handled[k].len = d.len
    BY <1>1, <1>5, <2>1, Zenon DEF Base, Histories
  <2> QED  BY <2>2, <2>3 DEF Results
<1>21. /\ completed' \in Seq(Results) /\ Len(completed') = Len(completed) + 1
       /\ \A j \in 1..Len(completed) : completed'[j] = completed[j]
       /\ completed'[Len(completed) + 1] = handled[k]
  <2>1. completed' = Append(completed, handled[k])
    BY <1>15, <1>20, Zenon
  <2> QED  BY <1>7, <1>20, <2>1, AppendProperties
<1>22. Done' = k /\ Taken' = Taken /\ Made' = Made /\ Publishing' = Publishing /\ Using' = Using /\ (Stored' <=> Stored)
  <2>1. Done' = k
    BY <1>4, <1>21 DEF Done
  <2> QED  BY <1>3, <1>18, <2>1, Zenon DEF Taken, Made, Publishing, Using, Stored
<1>23. \A j : Visible(j)' <=> Visible(j)
  BY <1>22, Zenon DEF Visible
<1>24. Base'
  <2>1. TypeOK'
    BY <1>1, <1>3, <1>18, <1>21, Zenon DEF Base, TypeOK
  <2>2. Counts'
    <3>1. k <= Taken /\ (~Stored => k < Taken)
      BY <1>5, <1>6 DEF Visible
    <3> QED  BY <1>1, <1>3, <1>22, <3>1, Zenon DEF Base, Counts
  <2>3. Histories'
    <3> SUFFICES ASSUME NEW j \in 1..Taken PROVE handled[j].req = j /\ (j <= k => completed'[j] = handled[j])
      BY <1>3, <1>22, Zenon DEF Histories
    <3>1. handled[j].req = j /\ (j <= Done => completed[j] = handled[j])
      BY <1>1, Zenon DEF Base, Histories
    <3>2. j <= k => (j <= Done /\ j \in 1..Len(completed)) \/ (j = k /\ k = Len(completed) + 1)
      BY <1>4, <1>6 DEF Done
    <3> QED  BY <1>21, <3>1, <3>2, Zenon
  <2> QED  BY <1>1, <1>3, <1>19, <2>1, <2>2, <2>3, Zenon DEF Base
<1>25. Spaced(p)'
  <2>1. p[Made + 1] - p[k + 1] = Size - room
    <3>1. driver.num_free \in 0..Size
      BY <1>7
    <3>2. p[Made + 1] - x = Size - driver.num_free
      BY <1>4, <1>7, <1>8, Zenon
    <3>3. PICK free \in 0..Size, e \in Nat : free = driver.num_free /\ e = p[Made + 1]
      BY <1>9, <3>1
    <3>4. e - x = Size - free /\ p[k + 1] = x + n /\ room = free + n
      BY <1>9, <1>13, <3>2, <3>3, Zenon
    <3>5. e - (x + n) = Size - (free + n)
      BY <1>9, <3>4, SizeFact
    <3> QED  BY <3>3, <3>4, <3>5, Zenon
  <2> QED  BY <1>1, <1>18, <1>22, <2>1, Zenon DEF Shape, Spaced
<1>26. Indexes(p)'
  <2>1. driver'.used = At(p[k + 1]) /\ driver'.used_wrap = Turn(p[k + 1])
    BY <1>9, <1>13, <1>18, Zenon
  <2> QED  BY <1>1, <1>3, <1>18, <1>22, <2>1, Zenon DEF Shape, Indexes
<1>27. \A j \in (k + 1)..Made : j \in (Done + 1)..Made /\ j # k /\ j \in 1..Made
  BY <1>4, <1>6
<1>28. \A j \in (Done + 1)..Made : j # k => j \in (k + 1)..Made
  BY <1>4, <1>6
<1>29. Heads(p, id)'
  <2>1. ASSUME NEW j \in (k + 1)..Made
        PROVE  heads[id[j]].num = p[j + 1] - p[j] /\ heads[id[j]].req = j
    <3>1. driver.heads[id[j]].num = p[j + 1] - p[j] /\ driver.heads[id[j]].req = j /\ driver.heads[id[k]].req = k
      BY <1>1, <1>5, <1>27, <2>1, Zenon DEF Shape, Heads
    <3>2. id[j] # s /\ id[j] \in Slots
      BY <1>7, <1>13, <1>27, <2>1, <3>1, Zenon
    <3> QED  BY <1>16, <3>1, <3>2, Zenon
  <2>2. ASSUME NEW r \in Slots, heads[r].num # 0 PROVE \E j \in (k + 1)..Made : id[j] = r
    <3>1. r # s
      BY <1>14, <1>16, <2>2, Zenon
    <3>2. driver.heads[r].num # 0
      BY <1>16, <2>2, <3>1, Zenon
    <3>3. PICK j \in (Done + 1)..Made : id[j] = r
      BY <1>1, <3>2, Zenon DEF Shape, Heads
    <3> QED  BY <1>13, <1>28, <3>1, <3>3, Zenon
  <2> QED  BY <1>7, <1>18, <1>22, <2>1, <2>2, Zenon DEF Heads
<1>30. FreeKept(p)'
  <2> SUFFICES ASSUME NEW y \in p[Made + 1]..(p[k + 1] + Size - 1) PROVE ring[At(y)].avail = 1 - Turn(y)
    BY <1>3, <1>22, Zenon DEF FreeKept
  <2>1. CASE y < x + Size
    <3>1. y \in p[Made + 1]..(p[Done + 1] + Size - 1)
      BY <1>4, <1>8, <1>9, <2>1, SizeFact
    <3> QED  BY <1>1, <3>1, Zenon DEF Shape, FreeKept
  <2>2. CASE ~(y < x + Size)
    <3>1. PICK z \in Nat : z = y - Size
      BY <1>9, <2>2, SizeFact
    <3>2. z \in Span(p, k) /\ y = z + Size
      BY <1>8, <1>9, <2>2, <3>1, SizeFact DEF Span
    <3>3. ring[At(z)].avail = Turn(z)
      BY <1>1, <1>5, <3>2, Zenon DEF Shape, TakenKept
    <3>4. At(y) = At(z) /\ Turn(y) = 1 - Turn(z) /\ Turn(z) \in 0..1
      BY <3>2, Ring, Zenon
    <3> QED  BY <3>3, <3>4
  <2> QED  BY <2>1, <2>2
<1>31. HeadKept(p)'
  BY <1>1, <1>3, <1>22, Zenon DEF Shape, HeadKept
<1>32. MadeKept(p, id)'
  <2>1. \A j, y : MadeAt(p, id, j, y)' <=> MadeAt(p, id, j, y)
    BY <1>3, <1>22, Zenon DEF MadeAt
  <2> QED  BY <1>1, <1>22, <2>1, Zenon DEF Shape, MadeKept
<1>33. \A j \in (k + 1)..Taken : j \in (Done + 1)..Taken
  BY <1>4, <1>6
<1>34. TakenKept(p)'
  BY <1>1, <1>3, <1>22, <1>33, Zenon DEF Shape, TakenKept
<1>35. DoneKept(p, id)'
  BY <1>1, <1>3, <1>22, <1>23, <1>33, Zenon DEF Shape, DoneKept
<1>36. JobKept(p, id)'
  BY <1>1, <1>3, <1>22, Zenon DEF Shape, JobKept
<1>37. Owned(p, id)'
  BY <1>1, <1>22, <1>27, Zenon DEF Shape, Owned
<1> QED  BY <1>24, <1>25, <1>26, <1>29, <1>30, <1>31, <1>32, <1>34, <1>35, <1>36, <1>37, Zenon DEF RingInv, Shape

\* While the ring has room there is an id no request has: the one that goes with the next free slot.
LEMMA UnusedId ==
    ASSUME Base, NEW p, NEW id, Shape(p, id), driver.num_free # 0
    PROVE  \E s \in Slots : driver.heads[s].num = 0
<1>1. PICK own \in [Slots -> Slots] :
         /\ \A r, s \in Slots : own[r] = own[s] => r = s
         /\ \A k \in (Done + 1)..Made : own[At(p[k])] = id[k]
  BY Zenon DEF Shape, Owned
<1>2. /\ Done \in Nat /\ Made \in Nat /\ Done <= Made
      /\ \A k \in 1..(Made + 1) : p[k] \in Nat
      /\ \A k \in (Done + 1)..Made : p[k] \in Span(p, k)
      /\ \A k \in (Done + 1)..Made : \A y \in Span(p, k) : y \in Nat
  BY Windows DEF Shape
<1>3. PICK x \in Nat, a \in Nat : x = p[Made + 1] /\ a = p[Done + 1]
  BY <1>2
<1>4. x \in x..(a + Size - 1)
  <2>1. driver.num_free \in 0..Size
    BY DEF Base, TypeOK
  <2>2. x - a = Size - driver.num_free
    BY <1>3, Zenon DEF Shape, Spaced
  <2> QED  BY <2>1, <2>2, SizeFact
<1>5. own[At(x)] \in Slots /\ At(x) \in Slots
  BY <1>1, Ring, Zenon
<1>6. ASSUME NEW k \in (Done + 1)..Made PROVE id[k] # own[At(x)]
  <2>1. Spaced(p) /\ p[k] \in Span(p, k) /\ p[k] \in Nat
    BY <1>2, <1>6, Zenon DEF Shape
  <2>2. \A y \in p[Made + 1]..(p[Done + 1] + Size - 1) : At(y) # At(p[k])
    BY <1>6, <2>1, SlotsApart
  <2>3. At(x) # At(p[k])
    BY <1>3, <1>4, <2>2, Zenon
  <2>4. At(p[k]) \in Slots
    BY <2>1, Ring, Zenon
  <2> QED  BY <1>1, <1>5, <2>3, <2>4, Zenon
<1> QED  BY <1>5, <1>6, Zenon DEF Shape, Heads

\* What the driver writes into slot s, the i-th one from its index on.
Cell(s, i, at, wrap, n, h, m) ==
    CASE i = 0 -> [ring[s] EXCEPT !.id = h, !.req = m, !.len = 0]
      [] i \in 1..(n - 1) -> [id |-> h, req |-> m, len |-> 0, next |-> IF i < n - 1 THEN 1 ELSE 0,
                             avail |-> WrapAt(at, wrap, i), used |-> 1 - WrapAt(at, wrap, i)]
      [] OTHER -> ring[s]
Filled(at, wrap, n, h, m) == ring' = [s \in Slots |-> Cell(s, (s - at) % Size, at, wrap, n, h, m)]

\* What filling leaves in the ring: n positions from x on, and nothing else, have changed.
FilledRing(x, n, h, m) ==
    /\ ring' \in [Slots -> Descriptors]
    /\ \A s \in Slots : (\A i \in 0..(n - 1) : s # At(x + i)) => ring'[s] = ring[s]
    /\ \A i \in 0..(n - 1) : ring'[At(x + i)].id = h /\ ring'[At(x + i)].req = m
    /\ ring'[At(x)].avail = ring[At(x)].avail
    /\ \A i \in 1..(n - 1) :
          /\ ring'[At(x + i)].avail = Turn(x + i) /\ ring'[At(x + i)].used = 1 - Turn(x + i)
          /\ ring'[At(x + i)].next = IF i < n - 1 THEN 1 ELSE 0

\* What DriverFill writes, read by positions.
LEMMA FillFacts ==
    ASSUME Base, NEW x \in Nat, NEW n \in 1..MaxChain, NEW h \in Slots, NEW m \in 0..Reqs,
           Filled(At(x), Turn(x), n, h, m)
    PROVE  FilledRing(x, n, h, m)
<1>1. ring \in [Slots -> Descriptors]
  BY Zenon DEF Base, TypeOK
<1>2. Slots = 0..(Size - 1) /\ MaxChain \in 1..Size /\ Size \in Nat \ {0}
  BY RingAssumption DEF Slots
<1>3. ASSUME NEW i \in 0..(Size - 1)
      PROVE  /\ x + i \in Nat /\ At(x + i) \in Slots /\ (At(x + i) - At(x)) % Size = i
             /\ WrapAt(At(x), Turn(x), i) = Turn(x + i) /\ Turn(x + i) \in 0..1
  <2>1. x + i \in Nat /\ i \in 0..Size
    BY <1>2
  <2>2. At(x + i) \in Slots /\ Turn(x + i) \in 0..1
    BY <2>1, Ring, Zenon
  <2>3. PICK t \in 0..(Size - 1) : t = At(x + i)
    BY <1>2, <2>2, Zenon
  <2>4. PICK j \in 0..(Size - 1) : t = At(x + j) /\ (t - At(x)) % Size = j
    BY Offset
  <2>5. PICK y \in x..(x + Size - 1), z \in x..(x + Size - 1) : y = x + i /\ z = x + j
    BY <1>2
  <2>6. y = z
    BY <2>3, <2>4, <2>5, Distinct
  <2>7. i = j
    BY <2>5, <2>6
  <2>8. WrapAt(At(x), Turn(x), i) = Turn(x + i)
    BY <2>1, Place
  <2> QED  BY <2>1, <2>2, <2>3, <2>4, <2>7, <2>8, Zenon
<1>4. PICK first : first = [ring[At(x)] EXCEPT !.id = h, !.req = m, !.len = 0]
  OBVIOUS
<1>5. first \in Descriptors /\ first.id = h /\ first.req = m /\ first.avail = ring[At(x)].avail
  <2>1. PICK d \in Descriptors, zero \in 0..1 : d = ring[At(x)] /\ zero = 0
    <3>1. At(x) \in Slots
      BY Ring, Zenon
    <3>2. ring[At(x)] \in Descriptors
      BY <1>1, <3>1, Zenon
    <3>3. 0 \in 0..1
      OBVIOUS
    <3> QED  BY <3>2, <3>3, Zenon
  <2>2. first = [d EXCEPT !.id = h, !.req = m, !.len = zero]
    BY <1>4, <2>1, Zenon
  <2>3. first \in Descriptors /\ first.id = h /\ first.req = m /\ first.avail = d.avail
    BY <2>2, Zenon DEF Descriptors
  <2> QED  BY <2>1, <2>3, Zenon
<1>6. 0 \in 0..(Size - 1) /\ 0 \in 0..(n - 1) /\ x + 0 = x
  BY <1>2
<1>7. ring'[At(x)] = first
  <2>1. At(x) \in Slots /\ (At(x) - At(x)) % Size = 0
    BY <1>3, <1>6
  <2>2. ring'[At(x)] = Cell(At(x), 0, At(x), Turn(x), n, h, m)
    BY <2>1, Zenon DEF Filled
  <2>3. ~(0 \in 1..(n - 1))
    OBVIOUS
  <2> QED  BY <1>4, <2>2, <2>3, Zenon DEF Cell
<1>8. ASSUME NEW i \in 1..(n - 1)
      PROVE  /\ ring'[At(x + i)] \in Descriptors
             /\ ring'[At(x + i)].id = h /\ ring'[At(x + i)].req = m
             /\ ring'[At(x + i)].avail = Turn(x + i) /\ ring'[At(x + i)].used = 1 - Turn(x + i)
             /\ ring'[At(x + i)].next = IF i < n - 1 THEN 1 ELSE 0
  <2>1. i \in 0..(Size - 1) /\ i # 0
    BY <1>2, <1>8
  <2>2. PICK w \in 0..1, u \in 0..1, more \in 0..1, zero \in 0..1 :
           w = Turn(x + i) /\ u = 1 - Turn(x + i) /\ more = (IF i < n - 1 THEN 1 ELSE 0) /\ zero = 0
    <3>1. Turn(x + i) \in 0..1
      BY <1>3, <2>1, Zenon
    <3> QED  BY <3>1
  <2>3. /\ At(x + i) \in Slots /\ (At(x + i) - At(x)) % Size = i /\ WrapAt(At(x), Turn(x), i) = w
    BY <1>3, <2>1, <2>2, Zenon
  <2>4. ring'[At(x + i)] = [id |-> h, req |-> m, len |-> zero, next |-> more, avail |-> w, used |-> u]
    <3>1. ring'[At(x + i)] = Cell(At(x + i), i, At(x), Turn(x), n, h, m)
      BY <2>3, Zenon DEF Filled
    <3>2. Cell(At(x + i), i, At(x), Turn(x), n, h, m) =
             [id |-> h, req |-> m, len |-> 0, next |-> IF i < n - 1 THEN 1 ELSE 0,
              avail |-> WrapAt(At(x), Turn(x), i), used |-> 1 - WrapAt(At(x), Turn(x), i)]
      BY <1>8, <2>1, Zenon DEF Cell
    <3> QED  BY <2>2, <2>3, <3>1, <3>2, Zenon
  <2>5. /\ ring'[At(x + i)] \in Descriptors
        /\ ring'[At(x + i)].id = h /\ ring'[At(x + i)].req = m
        /\ ring'[At(x + i)].avail = w /\ ring'[At(x + i)].used = u /\ ring'[At(x + i)].next = more
    BY <2>4 DEF Descriptors
  <2> QED  BY <2>2, <2>5, Zenon
<1>9. ASSUME NEW i \in 0..(Size - 1), ~(i \in 0..(n - 1)) PROVE ring'[At(x + i)] = ring[At(x + i)]
  <2>1. i # 0 /\ ~(i \in 1..(n - 1))
    BY <1>6, <1>9
  <2>2. At(x + i) \in Slots /\ (At(x + i) - At(x)) % Size = i
    BY <1>3, <1>9, Zenon
  <2>3. ring'[At(x + i)] = Cell(At(x + i), i, At(x), Turn(x), n, h, m)
    BY <2>2, Zenon DEF Filled
  <2> QED  BY <2>1, <2>3, Zenon DEF Cell
<1>10. ASSUME NEW s \in Slots PROVE \E i \in 0..(Size - 1) : s = At(x + i)
  BY <1>2, Offset, Zenon
<1>11. \A i \in 0..(n - 1) : i \in 0..(Size - 1) /\ (i = 0 \/ i \in 1..(n - 1))
  BY <1>2
<1>12. \A s \in Slots : ring'[s] \in Descriptors
  <2> SUFFICES ASSUME NEW s \in Slots PROVE ring'[s] \in Descriptors
    OBVIOUS
  <2>1. PICK i \in 0..(Size - 1) : s = At(x + i)
    BY <1>10, Zenon
  <2>2. CASE i = 0
    BY <1>5, <1>6, <1>7, <2>1, <2>2, Zenon
  <2>3. CASE i \in 1..(n - 1)
    BY <1>8, <2>1, <2>3, Zenon
  <2>4. CASE ~(i \in 0..(n - 1))
    BY <1>1, <1>9, <2>1, <2>4, Zenon
  <2> QED  BY <1>11, <2>2, <2>3, <2>4, Zenon
<1>13. ring' \in [Slots -> Descriptors]
  BY <1>12, Zenon DEF Filled
<1>14. \A s \in Slots : (\A i \in 0..(n - 1) : s # At(x + i)) => ring'[s] = ring[s]
  BY <1>9, <1>10, Zenon
<1>15. \A i \in 0..(n - 1) : ring'[At(x + i)].id = h /\ ring'[At(x + i)].req = m
  BY <1>5, <1>6, <1>7, <1>8, <1>11, Zenon
<1> QED  BY <1>5, <1>7, <1>8, <1>13, <1>14, <1>15, Zenon DEF FilledRing

\* The driver writes a request into free positions and under an unused id.
LEMMA FillKeeps == ASSUME RingInv, NEW n \in 1..MaxChain, DriverFill(n) PROVE RingInv'
<1>1. PICK p, id : Base /\ Shape(p, id)
  BY Zenon DEF RingInv
<1>2. PICK h, m, x : h = (CHOOSE i \in Slots : driver.heads[i].num = 0) /\ m = Made + 1 /\ x = p[m]
  OBVIOUS
<1>3. /\ driver.adding = 0 /\ driver.made < Reqs /\ n <= driver.num_free
      /\ UNCHANGED <<queue, job, failed, resets, handled, completed>>
  BY Zenon DEF DriverFill
<1>4. /\ Done \in Nat /\ Taken \in Nat /\ Made \in Nat /\ Done <= Taken /\ Taken <= Made
      /\ \A j \in 1..(Made + 1) : p[j] \in Nat
      /\ \A j \in 1..Made : p[j + 1] - p[j] \in 1..MaxChain
      /\ \A j \in (Done + 1)..Made : \A y \in Span(p, j) : y \in Nat /\ p[Done + 1] <= y /\ y < p[Made + 1]
      /\ \A j \in (Done + 1)..Made : p[j] \in Span(p, j)
  BY <1>1, Windows DEF Shape, Base, Counts
<1>5. /\ driver \in [avail : Slots, avail_wrap : 0..1, used : Slots, used_wrap : 0..1, made : 0..Reqs,
                     num_free : 0..Size, adding : 0..MaxChain, broken : BOOLEAN,
                     heads : [Slots -> [num : 0..MaxChain, req : 0..Reqs]]]
      /\ id \in [1..Made -> Slots] /\ p \in [1..(Made + 1) -> Nat]
      /\ p[Made + 1] - p[Done + 1] = Size - driver.num_free
  BY <1>1, Zenon DEF Base, TypeOK, Shape, Heads, Spaced
<1>6. Publishing = m
  BY <1>2, <1>3, Zenon DEF Publishing
<1>7. driver.avail = At(x) /\ driver.avail_wrap = Turn(x)
  BY <1>1, <1>2, <1>6, Zenon DEF Shape, Indexes
<1>8. PICK a \in Nat, room \in 0..Size : a = p[Done + 1] /\ room = driver.num_free - n
  <2>1. p[Done + 1] \in Nat
    BY <1>4
  <2>2. driver.num_free \in 0..Size
    BY <1>5
  <2>3. driver.num_free - n \in 0..Size
    BY <1>3, <2>2, RingAssumption
  <2> QED  BY <2>1, <2>3
<1>9. x \in Nat /\ a <= x /\ x + n - a = Size - room /\ x + n <= a + Size
  <2>1. PICK free \in 0..Size : free = driver.num_free
    BY <1>5
  <2>2. x \in Nat
    BY <1>2, <1>4
  <2>3. x - a = Size - free /\ room = free - n /\ n <= free
    BY <1>2, <1>3, <1>5, <1>8, <2>1, Zenon
  <2> QED  BY <1>8, <2>1, <2>2, <2>3, SizeFact
<1>10. h \in Slots /\ driver.heads[h].num = 0
  <2>1. driver.num_free # 0
    BY <1>3, <1>5, RingAssumption
  <2>2. \E s \in Slots : driver.heads[s].num = 0
    BY <1>1, <2>1, UnusedId
  <2> QED  BY <1>2, <2>2, Zenon
<1>11. m \in 0..Reqs /\ m \in 1..Reqs
  <2>1. driver.made \in 0..Reqs
    BY <1>5
  <2> QED  BY <1>2, <1>3, <2>1, RingAssumption DEF Made
<1>12. Filled(At(x), Turn(x), n, h, m)
  <2>1. Filled(driver.avail, driver.avail_wrap, n, CHOOSE i \in Slots : driver.heads[i].num = 0, Made + 1)
    BY Zenon DEF DriverFill, Filled, Cell, Made
  <2> QED  BY <1>2, <1>7, <2>1, Zenon
<1>13. /\ ring' \in [Slots -> Descriptors]
       /\ \A s \in Slots : (\A i \in 0..(n - 1) : s # At(x + i)) => ring'[s] = ring[s]
       /\ \A i \in 0..(n - 1) : ring'[At(x + i)].id = h /\ ring'[At(x + i)].req = m
       /\ ring'[At(x)].avail = ring[At(x)].avail
       /\ \A i \in 1..(n - 1) :
             /\ ring'[At(x + i)].avail = Turn(x + i) /\ ring'[At(x + i)].used = 1 - Turn(x + i)
             /\ ring'[At(x + i)].next = IF i < n - 1 THEN 1 ELSE 0
  <2>1. FilledRing(x, n, h, m)
    BY <1>1, <1>9, <1>10, <1>11, <1>12, FillFacts
  <2> QED  BY <2>1, Zenon DEF FilledRing
<1>14. PICK entry \in [num : 0..MaxChain, req : 0..Reqs] :
          entry = [num |-> n, req |-> m] /\ entry.num = n /\ entry.req = m
  <2>1. PICK c \in 0..MaxChain : c = n
    BY RingAssumption
  <2>2. PICK entry : entry = [num |-> c, req |-> m]
    BY Zenon
  <2>3. entry \in [num : 0..MaxChain, req : 0..Reqs] /\ entry.num = c /\ entry.req = m
    BY <1>11, <2>2
  <2> QED  BY <2>1, <2>2, <2>3, Zenon
<1>15. driver' = [driver EXCEPT !.adding = n, !.made = m, !.num_free = room, !.heads[h] = entry]
  BY <1>2, <1>8, <1>14, Zenon DEF DriverFill, Made
<1>16. PICK heads \in [Slots -> [num : 0..MaxChain, req : 0..Reqs]] :
          /\ heads = [driver.heads EXCEPT ![h] = entry] /\ heads[h] = entry
          /\ \A r \in Slots : r # h => heads[r] = driver.heads[r]
  <2>1. PICK old \in [Slots -> [num : 0..MaxChain, req : 0..Reqs]] : old = driver.heads
    BY <1>5
  <2>2. PICK heads : heads = [old EXCEPT ![h] = entry]
    BY Zenon
  <2>3. /\ heads \in [Slots -> [num : 0..MaxChain, req : 0..Reqs]] /\ heads[h] = entry
        /\ \A r \in Slots : r # h => heads[r] = old[r]
    BY <1>10, <2>2, Zenon
  <2> QED  BY <2>1, <2>2, <2>3, Zenon
<1>17. driver' = [driver EXCEPT !.adding = n, !.made = m, !.num_free = room, !.heads = heads]
  <2>1. driver' = [driver EXCEPT !.adding = n, !.made = m, !.num_free = room, !.heads = [driver.heads EXCEPT ![h] = entry]]
    BY <1>5, <1>15
  <2> QED  BY <1>16, <2>1, Zenon
<1>18. /\ driver' \in [avail : Slots, avail_wrap : 0..1, used : Slots, used_wrap : 0..1, made : 0..Reqs,
                       num_free : 0..Size, adding : 0..MaxChain, broken : BOOLEAN,
                       heads : [Slots -> [num : 0..MaxChain, req : 0..Reqs]]]
       /\ driver'.adding = n /\ driver'.avail = driver.avail /\ driver'.avail_wrap = driver.avail_wrap
       /\ driver'.used = driver.used /\ driver'.used_wrap = driver.used_wrap /\ driver'.made = m
       /\ driver'.num_free = room /\ driver'.heads = heads
  <2>1. PICK c \in 0..MaxChain : c = n
    BY RingAssumption
  <2>2. driver' = [driver EXCEPT !.adding = c, !.made = m, !.num_free = room, !.heads = heads]
    BY <1>17, <2>1, Zenon
  <2>3. /\ driver' \in [avail : Slots, avail_wrap : 0..1, used : Slots, used_wrap : 0..1, made : 0..Reqs,
                        num_free : 0..Size, adding : 0..MaxChain, broken : BOOLEAN,
                        heads : [Slots -> [num : 0..MaxChain, req : 0..Reqs]]]
        /\ driver'.adding = c /\ driver'.avail = driver.avail /\ driver'.avail_wrap = driver.avail_wrap
        /\ driver'.used = driver.used /\ driver'.used_wrap = driver.used_wrap /\ driver'.made = m
        /\ driver'.num_free = room /\ driver'.heads = heads
    BY <1>5, <1>11, <2>2, Zenon
  <2> QED  BY <2>1, <2>3, Zenon
<1>19. driver'.broken = driver.broken
  BY <1>5, <1>17, Zenon
<1>20. Done' = Done /\ Taken' = Taken /\ Made' = m /\ Publishing' = m /\ Using' = Using /\ (Stored' <=> Stored)
  <2>1. n # 0
    OBVIOUS
  <2> QED  BY <1>3, <1>18, <2>1, Zenon DEF Done, Taken, Made, Publishing, Using, Stored
<1>21. \A j : Visible(j)' <=> Visible(j)
  BY <1>20, Zenon DEF Visible
<1>22. Base'
  <2>1. TypeOK'
    BY <1>1, <1>3, <1>13, <1>18, Zenon DEF Base, TypeOK
  <2>2. Taken < m /\ m <= m + 1
    BY <1>2, <1>4
  <2>3. Counts'
    BY <1>1, <1>3, <1>20, <2>2, Zenon DEF Base, Counts
  <2>4. Histories'
    BY <1>1, <1>3, <1>20, Zenon DEF Base, Histories
  <2> QED  BY <1>1, <1>3, <1>19, <2>1, <2>3, <2>4, Zenon DEF Base
<1>23. PICK p2, id2 : /\ p2 = [j \in 1..(m + 1) |-> IF j = m + 1 THEN x + n ELSE p[j]]
                      /\ id2 = [j \in 1..m |-> IF j = m THEN h ELSE id[j]]
  BY Zenon
<1>24. /\ \A j \in 1..m : p2[j] = p[j]
       /\ \A j \in 1..Made : p2[j] = p[j] /\ p2[j + 1] = p[j + 1] /\ id2[j] = id[j] /\ j # m
       /\ p2[m] = x /\ p2[m + 1] = x + n /\ id2[m] = h
       /\ Done + 1 \in 1..m /\ Taken + 1 \in 1..m /\ m \in 1..m
  <2>1. \A j \in 1..m : j \in 1..(m + 1) /\ j # m + 1
    BY <1>2, <1>4
  <2>2. \A j \in 1..Made : j \in 1..m /\ j + 1 \in 1..m /\ j # m
    BY <1>2, <1>4
  <2>3. Done + 1 \in 1..m /\ Taken + 1 \in 1..m /\ m \in 1..m /\ m + 1 \in 1..(m + 1)
    BY <1>2, <1>4
  <2>4. \A j \in 1..m : p2[j] = p[j]
    BY <1>23, <2>1, Zenon
  <2>5. p2[m + 1] = x + n /\ id2[m] = h
    BY <1>23, <2>3, Zenon
  <2>6. \A j \in 1..Made : id2[j] = id[j]
    BY <1>23, <2>2, Zenon
  <2> QED  BY <1>2, <2>2, <2>3, <2>4, <2>5, <2>6, Zenon
<1>ends. p2[m] = x /\ p2[m + 1] = x + n /\ id2[m] = h /\ p2[Done + 1] = a
  BY <1>8, <1>24, Zenon
<1>chain. n = p2[m + 1] - p2[m]
  <2>1. PICK e \in Nat : e = x + n
    BY <1>9
  <2>2. p2[m + 1] = e /\ p2[m] = x
    BY <1>ends, <2>1, Zenon
  <2>3. n = e - x
    BY <1>9, <2>1
  <2> QED  BY <2>2, <2>3, Zenon
<1>25. Spaced(p2)'
  <2>1. p2 \in [1..(m + 1) -> Nat]
    <3>1. \A j \in 1..(m + 1) : j # m + 1 => j \in 1..(Made + 1)
      BY <1>2, <1>4
    <3>2. x + n \in Nat
      BY <1>9
    <3> QED  BY <1>4, <1>23, <3>1, <3>2, Zenon
  <2>2. ASSUME NEW j \in 1..(m + 1), NEW k \in 1..(m + 1), j < k PROVE p2[j] < p2[k]
    <3>1. CASE k # m + 1
      <4>1. j \in 1..m /\ k \in 1..m
        BY <1>2, <1>4, <2>2, <3>1
      <4>2. p[j] < p[k]
        BY <1>1, <1>2, <2>2, <4>1, Zenon DEF Shape, Spaced
      <4> QED  BY <1>24, <4>1, <4>2, Zenon
    <3>2. CASE k = m + 1
      <4>1. j \in 1..m /\ (j = m \/ j < m)
        BY <1>2, <1>4, <2>2, <3>2
      <4>2. p[j] = x \/ p[j] < x
        BY <1>1, <1>2, <1>24, <4>1, Zenon DEF Shape, Spaced
      <4>3. p[j] \in Nat
        BY <1>2, <1>4, <4>1, Zenon
      <4>4. p[j] < x + n
        BY <1>9, <4>2, <4>3
      <4> QED  BY <1>24, <3>2, <4>1, <4>4, Zenon
    <3> QED  BY <3>1, <3>2
  <2>3. ASSUME NEW j \in 1..m PROVE p2[j + 1] - p2[j] <= MaxChain
    <3>1. CASE j = m
      <4>1. PICK e \in Nat : e = x + n
        BY <1>9
      <4>2. p2[j + 1] = e /\ p2[j] = x
        BY <1>ends, <3>1, <4>1, Zenon
      <4>3. e - x <= MaxChain
        BY <1>9, <4>1, RingAssumption
      <4> QED  BY <4>2, <4>3, Zenon
    <3>2. CASE j # m
      <4>1. j \in 1..Made
        BY <1>2, <1>4, <2>3, <3>2
      <4> QED  BY <1>1, <1>24, <4>1, Zenon DEF Shape, Spaced
    <3> QED  BY <3>1, <3>2
  <2>4. p2[m + 1] - p2[Done + 1] = Size - room
    BY <1>9, <1>ends
  <2> QED  BY <1>18, <1>20, <2>1, <2>2, <2>3, <2>4, Zenon DEF Spaced
<1>26. Indexes(p2)'
  <2>1. Using \in 1..m
    <3>1. Using = Taken + 1 \/ (Using = Taken /\ Taken >= 1)
      BY <1>1, Zenon DEF Using, Base, Counts
    <3> QED  BY <1>2, <1>4, <3>1
  <2>3. p2[Done + 1] = p[Done + 1] /\ p2[Taken + 1] = p[Taken + 1] /\ p2[Using] = p[Using]
    BY <1>24, <2>1, Zenon
  <2> QED  BY <1>1, <1>3, <1>7, <1>18, <1>20, <1>24, <1>chain, <2>3, Zenon DEF Shape, Indexes
<1>27. /\ \A k \in (Done + 1)..m : k = m \/ (k \in (Done + 1)..Made /\ k \in 1..Made)
       /\ \A k \in (Done + 1)..Made : k \in (Done + 1)..m /\ k \in 1..Made
       /\ m \in (Done + 1)..m
  BY <1>2, <1>4
<1>28. Heads(p2, id2)'
  <2>1. id2 \in [1..m -> Slots]
    <3>1. \A j \in 1..m : j # m => j \in 1..Made
      BY <1>2, <1>4
    <3> QED  BY <1>5, <1>10, <1>23, <3>1, Zenon
  <2>2. ASSUME NEW k \in (Done + 1)..m PROVE heads[id2[k]].num = p2[k + 1] - p2[k] /\ heads[id2[k]].req = k
    <3>1. CASE k = m
      <4>1. n = p2[m + 1] - p2[m]
        BY <1>chain
      <4>2. heads[id2[m]].num = n /\ heads[id2[m]].req = m
        BY <1>14, <1>16, <1>ends, Zenon
      <4> QED  BY <3>1, <4>1, <4>2, Zenon
    <3>2. CASE k # m
      <4>1. k \in (Done + 1)..Made /\ k \in 1..Made
        BY <1>27, <2>2, <3>2, Zenon
      <4>2. driver.heads[id[k]].num = p[k + 1] - p[k] /\ driver.heads[id[k]].req = k /\ id[k] \in Slots
        BY <1>1, <1>5, <4>1, Zenon DEF Shape, Heads
      <4>3. id[k] # h
        <5>1. p[k + 1] - p[k] \in 1..MaxChain
          BY <1>4, <4>1, Zenon
        <5>2. p[k + 1] - p[k] # 0
          BY <5>1, RingAssumption
        <5> QED  BY <1>10, <4>2, <5>2, Zenon
      <4> QED  BY <1>16, <1>24, <4>1, <4>2, <4>3, Zenon
    <3> QED  BY <3>1, <3>2
  <2>3. ASSUME NEW s \in Slots, heads[s].num # 0 PROVE \E k \in (Done + 1)..m : id2[k] = s
    <3>1. CASE s = h
      BY <1>24, <1>27, <3>1, Zenon
    <3>2. CASE s # h
      <4>1. driver.heads[s].num # 0
        BY <1>16, <2>3, <3>2, Zenon
      <4>2. PICK k \in (Done + 1)..Made : id[k] = s
        BY <1>1, <4>1, Zenon DEF Shape, Heads
      <4> QED  BY <1>24, <1>27, <4>2, Zenon
    <3> QED  BY <3>1, <3>2
  <2> QED  BY <1>18, <1>20, <2>1, <2>2, <2>3, Zenon DEF Heads
<1>29. ASSUME NEW y \in a..(a + Size - 1), y < x \/ x + n <= y PROVE y \in Nat /\ ring'[At(y)] = ring[At(y)]
  <2>1. y \in Nat
    BY <1>29, SizeFact
  <2>2. At(y) \in Slots
    BY <2>1, Ring, Zenon
  <2>3. ASSUME NEW i \in 0..(n - 1) PROVE At(y) # At(x + i)
    <3>1. PICK z \in a..(a + Size - 1) : z = x + i
      BY <1>9, SizeFact
    <3>2. y # z
      BY <1>9, <1>29, <2>1, <3>1
    <3> QED  BY <3>1, <3>2, Distinct
  <2> QED  BY <1>13, <2>1, <2>2, <2>3, Zenon
<1>30. \A k \in (Done + 1)..Made : \A y \in Span(p, k) : y \in Nat /\ ring'[At(y)] = ring[At(y)]
  <2> SUFFICES ASSUME NEW k \in (Done + 1)..Made, NEW y \in Span(p, k) PROVE y \in Nat /\ ring'[At(y)] = ring[At(y)]
    OBVIOUS
  <2>1. y \in Nat /\ a <= y /\ y < x
    BY <1>2, <1>4, <1>8, Zenon
  <2>2. y \in a..(a + Size - 1)
    BY <1>9, <2>1, SizeFact
  <2> QED  BY <1>29, <2>1, <2>2
<1>31. \A k \in (Done + 1)..Made : Span(p2, k) = Span(p, k) /\ p2[k] = p[k] /\ p2[k + 1] = p[k + 1] /\ id2[k] = id[k]
  BY <1>24, <1>27, Zenon DEF Span
<1>32. FreeKept(p2)'
  <2> SUFFICES ASSUME NEW y \in (x + n)..(a + Size - 1) PROVE ring'[At(y)].avail = 1 - Turn(y)
    BY <1>8, <1>20, <1>24, Zenon DEF FreeKept
  <2>1. y \in a..(a + Size - 1) /\ x + n <= y /\ y \in x..(a + Size - 1)
    BY <1>9, SizeFact
  <2>2. y \in p[Made + 1]..(p[Done + 1] + Size - 1)
    BY <1>2, <1>8, <2>1, Zenon
  <2>3. ring[At(y)].avail = 1 - Turn(y)
    BY <1>1, <2>2, Zenon DEF Shape, FreeKept
  <2>4. ring'[At(y)] = ring[At(y)]
    BY <1>29, <2>1
  <2> QED  BY <2>3, <2>4, Zenon
<1>33. ring'[At(x)].avail = 1 - Turn(x)
  <2>1. x \in x..(a + Size - 1)
    BY <1>9, SizeFact
  <2>2. x \in p[Made + 1]..(p[Done + 1] + Size - 1)
    BY <1>2, <1>8, <2>1, Zenon
  <2> QED  BY <1>1, <1>13, <2>2, Zenon DEF Shape, FreeKept
<1>34. HeadKept(p2)'
  BY <1>20, <1>24, <1>33, Zenon DEF HeadKept
<1>35. MadeKept(p2, id2)'
  <2> SUFFICES ASSUME NEW k \in (Taken + 1)..m, NEW y \in Span(p2, k) PROVE MadeAt(p2, id2, k, y)'
    BY <1>20, Zenon DEF MadeKept
  <2>1. CASE k # m
    <3>1. k \in (Taken + 1)..Made /\ k \in (Done + 1)..Made
      BY <1>2, <1>4, <2>1
    <3>2. y \in Span(p, k)
      BY <1>31, <3>1, Zenon
    <3>3. MadeAt(p, id, k, y)
      BY <1>1, <3>1, <3>2, Zenon DEF Shape, MadeKept
    <3>4. ring'[At(y)] = ring[At(y)]
      BY <1>30, <3>1, <3>2, Zenon
    <3> QED  BY <1>6, <1>20, <1>31, <2>1, <3>1, <3>3, <3>4, Zenon DEF MadeAt
  <2>2. CASE k = m
    <3>1. y \in x..(x + n - 1)
      <4>1. PICK e \in Nat : e = x + n
        BY <1>9
      <4>2. p2[k + 1] = e /\ p2[k] = x
        BY <1>ends, <2>2, <4>1, Zenon
      <4>3. y \in x..(e - 1)
        BY <4>2, Zenon DEF Span
      <4> QED  BY <1>9, <4>1, <4>3
    <3>2. PICK i \in 0..(n - 1) : y = x + i
      <4>1. y - x \in 0..(n - 1) /\ y = x + (y - x)
        BY <1>9, <3>1
      <4> QED  BY <4>1, Zenon
    <3>3. ring'[At(y)].id = h /\ ring'[At(y)].req = m
      BY <1>13, <3>2, Zenon
    <3>4. ASSUME y # x
          PROVE  /\ ring'[At(y)].avail = Turn(y) /\ ring'[At(y)].used = 1 - Turn(y)
                 /\ ring'[At(y)].next = IF y < x + n - 1 THEN 1 ELSE 0
      <4>1. i \in 1..(n - 1) /\ (i < n - 1 <=> y < x + n - 1)
        BY <1>9, <3>2, <3>4
      <4> QED  BY <1>13, <3>2, <4>1, Zenon
    <3>5. /\ ring'[At(y)].id = id2[k] /\ ring'[At(y)].req = k
          /\ (k # m \/ y # p2[k]) =>
                /\ ring'[At(y)].avail = Turn(y) /\ ring'[At(y)].used = 1 - Turn(y)
                /\ ring'[At(y)].next = IF y < p2[k + 1] - 1 THEN 1 ELSE 0
      <4>1. PICK e \in Nat : e = x + n
        BY <1>9
      <4>2. p2[k + 1] = e /\ p2[k] = x /\ id2[k] = h
        BY <1>ends, <2>2, <4>1, Zenon
      <4>3. y # x => ring'[At(y)].next = IF y < e - 1 THEN 1 ELSE 0
        <5>1. e - 1 = x + n - 1
          BY <1>9, <4>1
        <5> QED  BY <3>4, <5>1, Zenon
      <4> QED  BY <2>2, <3>3, <3>4, <4>2, <4>3, Zenon
    <3> QED  BY <1>20, <3>5, Zenon DEF MadeAt
  <2> QED  BY <2>1, <2>2
<1>36. \A k \in (Done + 1)..Taken : k \in (Done + 1)..Made
  BY <1>4
<1>37. TakenKept(p2)'
  BY <1>1, <1>20, <1>30, <1>31, <1>36, Zenon DEF Shape, TakenKept
<1>38. \A k \in (Done + 1)..Taken : ring'[At(p[k])] = ring[At(p[k])]
  BY <1>4, <1>30, <1>36, Zenon
<1>39. DoneKept(p2, id2)'
  <2> SUFFICES ASSUME NEW k \in (Done + 1)..Taken
               PROVE  /\ Visible(k) => /\ ring'[At(p2[k])].used = Turn(p2[k]) /\ ring'[At(p2[k])].id = id2[k]
                                       /\ ring'[At(p2[k])].len = handled[k].len
                      /\ ~Visible(k) => ring'[At(p2[k])].used = 1 - Turn(p2[k])
    BY <1>3, <1>20, <1>21, Zenon DEF DoneKept
  <2>1. p2[k] = p[k] /\ id2[k] = id[k] /\ ring'[At(p[k])] = ring[At(p[k])]
    BY <1>31, <1>36, <1>38, Zenon
  <2>2. /\ Visible(k) => /\ ring[At(p[k])].used = Turn(p[k]) /\ ring[At(p[k])].id = id[k]
                         /\ ring[At(p[k])].len = handled[k].len
        /\ ~Visible(k) => ring[At(p[k])].used = 1 - Turn(p[k])
    BY <1>1, Zenon DEF Shape, DoneKept
  <2> QED  BY <2>1, <2>2, Zenon
<1>40. JobKept(p2, id2)'
  <2> SUFFICES ASSUME job.pc # "idle" PROVE JobKept(p2, id2)'
    BY <1>3, Zenon DEF JobKept
  <2>1. Taken \in 1..Made
    BY <1>1, <1>4 DEF Base, Counts
  <2>2. p2[Taken] = p[Taken] /\ p2[Taken + 1] = p[Taken + 1] /\ id2[Taken] = id[Taken]
    BY <1>24, <2>1, Zenon
  <2>3. CASE job.pc = "store" /\ ~Stored
    <3>1. Taken \in (Done + 1)..Taken
      BY <1>1, <1>4, <2>3 DEF Base, Counts
    <3>2. ring'[At(p[Taken])] = ring[At(p[Taken])]
      BY <1>38, <3>1, Zenon
    <3> QED  BY <1>1, <1>3, <1>20, <2>2, <3>2, Zenon DEF Shape, JobKept
  <2>4. CASE ~(job.pc = "store" /\ ~Stored)
    <3>1. job.pc = "store" => job.stores = <<>>
      BY <2>4, Zenon DEF Stored
    <3> QED  BY <1>1, <1>3, <1>20, <2>2, <3>1, Zenon DEF Shape, JobKept
  <2> QED  BY <2>3, <2>4, Zenon
<1>41. Owned(p2, id2)'
  <2>1. PICK own \in [Slots -> Slots] :
           /\ \A r, s \in Slots : own[r] = own[s] => r = s
           /\ \A k \in (Done + 1)..Made : own[At(p[k])] = id[k]
    BY <1>1, Zenon DEF Shape, Owned
  <2>2. PICK at \in Slots : at = At(x)
    BY <1>9, Ring, Zenon
  <2>3. PICK new : new = [s \in Slots |-> IF s = at THEN h ELSE IF own[s] = h THEN own[at] ELSE own[s]]
    BY Zenon
  <2>4. ASSUME NEW s \in Slots
        PROVE  /\ s = at => new[s] = h
               /\ (s # at /\ own[s] = h) => new[s] = own[at]
               /\ (s # at /\ own[s] # h) => new[s] = own[s]
    BY <2>3, Zenon
  <2>5. new \in [Slots -> Slots]
    BY <1>10, <2>1, <2>2, <2>3, Zenon
  <2>6. \A r, s \in Slots : new[r] = new[s] => r = s
    <3> SUFFICES ASSUME NEW r \in Slots, NEW s \in Slots, new[r] = new[s] PROVE r = s
      OBVIOUS
    <3>1. own[r] = own[s] => r = s
      BY <2>1, Zenon
    <3>2. (own[r] = own[at] => r = at) /\ (own[s] = own[at] => s = at)
      BY <2>1, <2>2, Zenon
    <3>3. /\ r = at => new[r] = h
          /\ (r # at /\ own[r] = h) => new[r] = own[at]
          /\ (r # at /\ own[r] # h) => new[r] = own[r]
      BY <2>4, Zenon
    <3>4. /\ s = at => new[s] = h
          /\ (s # at /\ own[s] = h) => new[s] = own[at]
          /\ (s # at /\ own[s] # h) => new[s] = own[s]
      BY <2>4, Zenon
    <3> QED  BY <3>1, <3>2, <3>3, <3>4, Zenon
  <2>7. ASSUME NEW k \in (Done + 1)..Made PROVE new[At(p[k])] = id[k]
    <3>1. Spaced(p) /\ p[k] \in Span(p, k) /\ p[k] \in Nat
      BY <1>1, <1>4, <2>7, Zenon DEF Shape
    <3>2. \A y \in p[Made + 1]..(p[Done + 1] + Size - 1) : At(y) # At(p[k])
      BY <1>1, <2>7, <3>1, SlotsApart
    <3>3. x \in x..(a + Size - 1)
      BY <1>9, SizeFact
    <3>4. At(p[k]) # at
      BY <1>2, <1>8, <2>2, <3>2, <3>3, Zenon
    <3>5. At(p[k]) \in Slots /\ own[At(p[k])] = id[k]
      BY <2>1, <2>7, <3>1, Ring, Zenon
    <3>6. id[k] # h
      <4>1. driver.heads[id[k]].num = p[k + 1] - p[k]
        BY <1>1, <2>7, Zenon DEF Shape, Heads
      <4>2. p[k + 1] - p[k] \in 1..MaxChain
        BY <1>4, <1>27, <2>7, Zenon
      <4>3. p[k + 1] - p[k] # 0
        BY <4>2, RingAssumption
      <4> QED  BY <1>10, <4>1, <4>3, Zenon
    <3> QED  BY <2>4, <3>4, <3>5, <3>6, Zenon
  <2>8. new[At(x)] = h
    BY <2>2, <2>4, Zenon
  <2>9. \A k \in (Done + 1)..m : new[At(p2[k])] = id2[k]
    BY <1>27, <1>31, <1>ends, <2>7, <2>8, Zenon
  <2> QED  BY <1>20, <2>5, <2>6, <2>9, Zenon DEF Owned
<1> QED  BY <1>22, <1>25, <1>26, <1>28, <1>32, <1>34, <1>35, <1>37, <1>39, <1>40, <1>41, Zenon DEF RingInv, Shape

-----------------------------------------------------------------------------
(* The theorem *)

\* The invariant holds at first.
LEMMA RingInit == Init => RingInv
<1>1. Init => FreshState
  <2>1. Idle \in [pc : {"idle"}, id : Slots, skip : 0..Size, len : 0..1, stores : Seq({"len", "id", "low", "high"})]
    BY SizeFact DEF Idle, Slots
  <2>2. 0 \in 0..Resets
    BY RingAssumption
  <2> QED  BY <2>1, <2>2, Zenon DEF Init, FreshState
<1> QED  BY <1>1, Fresh

\* Every step keeps it.
LEMMA RingNext == ASSUME Ordered PROVE RingInv /\ [Next]_vars => RingInv'
<1> SUFFICES ASSUME RingInv, [Next]_vars PROVE RingInv'
  OBVIOUS
<1>1. CASE Pop
  BY <1>1, PopKeeps
<1>2. CASE Release
  BY <1>2, ReleaseKeeps
<1>3. CASE \E i \in 1..4 : Store(i)
  BY <1>3, StoreKeeps
<1>4. CASE Released
  BY <1>4, ReleasedKeeps
<1>5. CASE Reset
  BY <1>5, ResetKeeps
<1>6. CASE DriverPublish
  BY <1>6, PublishKeeps
<1>7. CASE DriverTake
  BY <1>7, TakeKeeps
<1>8. CASE \E n \in 1..MaxChain : DriverFill(n)
  BY <1>8, FillKeeps
<1>9. CASE UNCHANGED vars
  <2>1. /\ ring' = ring /\ queue' = queue /\ job' = job /\ failed' = failed /\ driver' = driver
        /\ resets' = resets /\ handled' = handled /\ completed' = completed
    BY <1>9, Zenon DEF vars
  <2>2. /\ Done' = Done /\ Taken' = Taken /\ Made' = Made /\ Publishing' = Publishing /\ Using' = Using
        /\ (Stored' <=> Stored)
    BY <2>1, Zenon DEF Done, Taken, Made, Publishing, Using, Stored
  <2>3. \A k : Visible(k)' <=> Visible(k)
    BY <2>2, Zenon DEF Visible
  <2>4. Base'
    BY <2>1, <2>2, Zenon DEF RingInv, Base, TypeOK, Counts, Histories
  <2>5. PICK p, id : Shape(p, id)
    BY Zenon DEF RingInv
  <2>6. Spaced(p)' /\ Indexes(p)'
    BY <2>1, <2>2, <2>5, Zenon DEF Shape, Spaced, Indexes
  <2>7. Heads(p, id)'
    BY <2>1, <2>2, <2>5, Zenon DEF Shape, Heads
  <2>8. FreeKept(p)' /\ HeadKept(p)' /\ TakenKept(p)'
    BY <2>1, <2>2, <2>5, Zenon DEF Shape, FreeKept, HeadKept, TakenKept
  <2>9. MadeKept(p, id)'
    <3>1. \A j, y : MadeAt(p, id, j, y)' <=> MadeAt(p, id, j, y)
      BY <2>1, <2>2, Zenon DEF MadeAt
    <3> QED  BY <2>2, <2>5, <3>1, Zenon DEF Shape, MadeKept
  <2>10. DoneKept(p, id)'
    BY <2>1, <2>2, <2>3, <2>5, Zenon DEF Shape, DoneKept
  <2>11. JobKept(p, id)'
    BY <2>1, <2>2, <2>5, Zenon DEF Shape, JobKept
  <2>12. Owned(p, id)'
    BY <2>2, <2>5, Zenon DEF Shape, Owned
  <2> QED  BY <2>4, <2>6, <2>7, <2>8, <2>9, <2>10, <2>11, <2>12, Zenon DEF RingInv, Shape
<1> QED  BY <1>1, <1>2, <1>3, <1>4, <1>5, <1>6, <1>7, <1>8, <1>9, Zenon DEF Next, Device, Driver

\* It is what the property needs.
LEMMA RingTruthful == RingInv => CompletionsTruthful
<1> SUFFICES ASSUME RingInv PROVE CompletionsTruthful
  OBVIOUS
<1>1. TypeOK /\ ~failed /\ ~driver.broken /\ Counts /\ Histories
  BY Zenon DEF RingInv, Base
<1>2. handled \in Seq(Results) /\ completed \in Seq(Results)
  BY <1>1, Zenon DEF TypeOK
<1>3. /\ DOMAIN handled = 1..Taken /\ DOMAIN completed = 1..Done
      /\ Taken = Len(handled) /\ Done = Len(completed) /\ Taken \in Nat /\ Done \in Nat /\ Done <= Taken
  <2>1. Done <= Taken
    BY <1>1, Zenon DEF Counts
  <2> QED  BY <1>2, <2>1, LenProperties DEF Taken, Done
<1>4. \A i \in DOMAIN handled : handled[i].req = i
  BY <1>1, <1>3, Zenon DEF Histories
<1>5. \A i \in 1..Done : completed[i] = handled[i]
  <2>1. \A i \in 1..Done : i \in 1..Taken /\ i <= Done
    BY <1>3
  <2> QED  BY <1>1, <2>1, Zenon DEF Histories
<1> QED  BY <1>1, <1>3, <1>4, <1>5, Zenon DEF CompletionsTruthful

\* Queue::pop and Queue::release ("id and length first; the flags make the completion visible, so publish
\* them last") on a host where the plain stores of a completion become visible in program order, whatever
\* the size of the ring, the lengths of the chains, the number of requests, of turns of the ring and of
\* resets: the device takes every request once and in order, the driver takes every completion once, in
\* order, for the request it is for and with its length, pop and release never bail and the driver never
\* finds an id it did not use.
THEOREM CompletionsTruthfulHolds == ASSUME Ordered PROVE Spec => []CompletionsTruthful
<1>1. Init => RingInv
  BY RingInit
<1>2. RingInv /\ [Next]_vars => RingInv'
  BY RingNext
<1>3. RingInv => CompletionsTruthful
  BY RingTruthful
<1> QED  BY <1>1, <1>2, <1>3, PTL DEF Spec
=============================================================================
