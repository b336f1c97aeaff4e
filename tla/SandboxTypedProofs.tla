------------------------- MODULE SandboxTypedProofs --------------------------
(***************************************************************************)
(* Proofs about Sandbox, for every bound on the calls, the keystrokes and  *)
(* the outputs: what answered writes typed reaches the guest's console in  *)
(* the order of the writes.                                                *)
(*                                                                         *)
(* A keystroke passes from the thread that serves stdin to the request     *)
(* channel, to the console device's queue and to the guest's buffer.  The  *)
(* invariant (KeyKept) says of the four stages together that whatever was  *)
(* answered before a keystroke was sent is ahead of it (Blocks).           *)
(***************************************************************************)
EXTENDS SandboxProofs

-----------------------------------------------------------------------------
(* The order of what is typed *)

\* InOrder, of any assignment of the prior writes.
Ordered(P, ahead, s) == \A j \in 1..Len(s) : \A x \in P[s[j]] : x \in ahead \/ \E i \in 1..(j - 1) : s[i] = x

LEMMA OrderedGrow ==
    ASSUME NEW K, NEW P \in [K -> SUBSET Ids], NEW s \in Seq(K), NEW C, NEW D, \A x \in Ids : x \in C => x \in D,
           Ordered(P, C, s)
    PROVE  Ordered(P, D, s)
<1> SUFFICES ASSUME NEW j \in 1..Len(s), NEW x \in P[s[j]] PROVE x \in D \/ \E i \in 1..(j - 1) : s[i] = x
  BY Zenon DEF Ordered
<1>1. s[j] \in K
  OBVIOUS
<1>2. x \in Ids
  BY <1>1
<1> QED  BY <1>2, Zenon DEF Ordered

\* Fewer prior writes, of what s holds.
LEMMA OrderedFewer ==
    ASSUME NEW K, NEW s \in Seq(K), NEW P, NEW Q, \A y \in K : \A x \in Q[y] : x \in P[y], NEW C, Ordered(P, C, s)
    PROVE  Ordered(Q, C, s)
<1>1. \A j \in 1..Len(s) : s[j] \in K
  OBVIOUS
<1>2. \A j \in 1..Len(s) : \A x \in Q[s[j]] : x \in P[s[j]]
  BY <1>1
<1> QED  BY <1>2, Zenon DEF Ordered

LEMMA ElementsOf ==
    ASSUME NEW K, NEW s \in Seq(K)
    PROVE  /\ \A i \in 1..Len(s) : s[i] \in Elements(s)
           /\ \A x \in Elements(s) : \E i \in 1..Len(s) : s[i] = x
BY DEF Elements

\* The first n of b stand behind a in c, the others are d.
Moved(a, b, n, c, d) ==
    /\ Len(c) = Len(a) + n /\ (\A i \in 1..Len(a) : c[i] = a[i]) /\ (\A i \in 1..n : c[Len(a) + i] = b[i])
    /\ Len(d) = Len(b) - n /\ (\A i \in 1..Len(d) : d[i] = b[n + i])

Moving(K, P, C, a, b, n, c, d) ==
    /\ P \in [K -> SUBSET Ids] /\ a \in Seq(K) /\ b \in Seq(K) /\ c \in Seq(K) /\ d \in Seq(K) /\ n \in 0..Len(b)
    /\ Moved(a, b, n, c, d) /\ Ordered(P, C, a) /\ Ordered(P, C \union Elements(a), b)

HasMoved(P, C, a, b, c, d) ==
    /\ Ordered(P, C, c) /\ Ordered(P, C \union Elements(c), d)
    /\ \A x : x \in Elements(a) \union Elements(b) => x \in Elements(c) \union Elements(d)

LEMMA OrderedMove ==
    ASSUME NEW K, NEW P, NEW C, NEW a, NEW b, NEW n, NEW c, NEW d, Moving(K, P, C, a, b, n, c, d)
    PROVE  HasMoved(P, C, a, b, c, d)
<1> /\ P \in [K -> SUBSET Ids] /\ a \in Seq(K) /\ b \in Seq(K) /\ c \in Seq(K) /\ d \in Seq(K) /\ n \in 0..Len(b)
    /\ Moved(a, b, n, c, d) /\ Ordered(P, C, a) /\ Ordered(P, C \union Elements(a), b)
  BY Zenon DEF Moving
<1>0. Len(a) \in Nat /\ Len(b) \in Nat /\ Len(c) \in Nat /\ Len(d) \in Nat /\ n \in Nat /\ n <= Len(b)
  <2>1. Len(a) \in Nat /\ Len(b) \in Nat /\ Len(c) \in Nat /\ Len(d) \in Nat
    BY LenProperties, Zenon
  <2> QED  BY <2>1
<1>m. /\ Len(c) = Len(a) + n /\ (\A i \in 1..Len(a) : c[i] = a[i]) /\ (\A i \in 1..n : c[Len(a) + i] = b[i])
      /\ Len(d) = Len(b) - n /\ (\A i \in 1..Len(d) : d[i] = b[n + i])
  BY Zenon DEF Moved
<1>1. \A i \in 1..Len(a) : i \in 1..Len(c)
  BY <1>0, <1>m
<1>2. \A i \in 1..n : Len(a) + i \in 1..Len(c) /\ i \in 1..Len(b)
  BY <1>0, <1>m
<1>3. \A i \in 1..Len(b) : i \in 1..n \/ (i - n \in 1..Len(d) /\ n + (i - n) = i)
  BY <1>0, <1>m
<1>4. \A x \in Elements(a) : x \in Elements(c)
  <2> SUFFICES ASSUME NEW x \in Elements(a) PROVE x \in Elements(c)
    OBVIOUS
  <2>1. PICK i \in 1..Len(a) : a[i] = x
    BY ElementsOf
  <2>2. i \in 1..Len(c) /\ c[i] = x
    BY <1>1, <1>m, <2>1
  <2> QED  BY <2>2, ElementsOf
<1>5. \A i \in 1..n : b[i] \in Elements(c)
  <2> SUFFICES ASSUME NEW i \in 1..n PROVE b[i] \in Elements(c)
    OBVIOUS
  <2>1. Len(a) + i \in 1..Len(c) /\ c[Len(a) + i] = b[i]
    BY <1>2, <1>m
  <2>2. c[Len(a) + i] \in Elements(c)
    BY <2>1, ElementsOf
  <2> QED  BY <2>1, <2>2
<1>6. ASSUME NEW x, x \in Elements(a) \union Elements(b) PROVE x \in Elements(c) \union Elements(d)
  <2>1. CASE x \in Elements(a)
    BY <1>4, <2>1
  <2>2. CASE x \in Elements(b)
    <3>1. PICK i \in 1..Len(b) : b[i] = x
      BY <2>2, ElementsOf
    <3>2. CASE i \in 1..n
      BY <1>5, <3>1, <3>2
    <3>3. CASE i - n \in 1..Len(d) /\ n + (i - n) = i
      <4>1. d[i - n] = x
        BY <1>m, <3>1, <3>3
      <4>2. d[i - n] \in Elements(d)
        BY <3>3, ElementsOf
      <4> QED  BY <4>1, <4>2
    <3> QED  BY <1>3, <3>2, <3>3
  <2> QED  BY <1>6, <2>1, <2>2
<1>7. ASSUME NEW j \in 1..Len(c), NEW x \in P[c[j]] PROVE x \in C \/ \E i \in 1..(j - 1) : c[i] = x
  <2>1. CASE j \in 1..Len(a)
    <3>1. x \in P[a[j]]
      BY <1>7, <1>m, <2>1
    <3>2. CASE x \in C
      BY <3>2
    <3>3. CASE \E i \in 1..(j - 1) : a[i] = x
      <4>1. PICK i \in 1..(j - 1) : a[i] = x
        BY <3>3
      <4>2. i \in 1..Len(a)
        BY <1>0, <2>1
      <4> QED  BY <1>m, <4>1, <4>2
    <3> QED  BY <2>1, <3>1, <3>2, <3>3, Zenon DEF Ordered
  <2>2. CASE j \notin 1..Len(a)
    <3>1. PICK k \in 1..n : j = Len(a) + k
      <4>1. j - Len(a) \in 1..n /\ j = Len(a) + (j - Len(a))
        BY <1>0, <1>m, <2>2
      <4> QED  BY <4>1, Zenon
    <3>2. x \in P[b[k]] /\ k \in 1..Len(b)
      BY <1>2, <1>7, <1>m, <3>1
    <3>3. x \in C \union Elements(a) \/ \E i \in 1..(k - 1) : b[i] = x
      BY <3>2, Zenon DEF Ordered
    <3>4. CASE x \in C
      BY <3>4
    <3>5. CASE x \in Elements(a)
      <4>1. PICK i \in 1..Len(a) : a[i] = x
        BY <3>5, ElementsOf
      <4>2. i \in 1..(j - 1)
        BY <1>0, <3>1
      <4> QED  BY <1>m, <4>1, <4>2
    <3>6. CASE \E i \in 1..(k - 1) : b[i] = x
      <4>1. PICK i \in 1..(k - 1) : b[i] = x
        BY <3>6
      <4>2. i \in 1..n /\ Len(a) + i \in 1..(j - 1)
        BY <1>0, <3>1
      <4>3. c[Len(a) + i] = x
        BY <1>m, <4>1, <4>2
      <4> QED  BY <4>2, <4>3
    <3> QED  BY <3>3, <3>4, <3>5, <3>6
  <2> QED  BY <2>1, <2>2
<1>8. ASSUME NEW j \in 1..Len(d), NEW x \in P[d[j]]
      PROVE  x \in C \union Elements(c) \/ \E i \in 1..(j - 1) : d[i] = x
  <2>1. n + j \in 1..Len(b) /\ x \in P[b[n + j]]
    BY <1>0, <1>8, <1>m
  <2>2. x \in C \union Elements(a) \/ \E i \in 1..(n + j - 1) : b[i] = x
    <3>1. PICK k \in 1..Len(b) : k = n + j
      BY <2>1, Zenon
    <3>2. x \in P[b[k]]
      BY <2>1, <3>1, Zenon
    <3>3. x \in C \union Elements(a) \/ \E i \in 1..(k - 1) : b[i] = x
      BY <3>2, Zenon DEF Ordered
    <3>4. 1..(k - 1) = 1..(n + j - 1)
      BY <3>1
    <3> QED  BY <3>3, <3>4, Zenon
  <2>3. CASE x \in C \union Elements(a)
    BY <1>4, <2>3
  <2>4. CASE \E i \in 1..(n + j - 1) : b[i] = x
    <3>1. PICK i \in 1..(n + j - 1) : b[i] = x
      BY <2>4
    <3>2. CASE i \in 1..n
      BY <1>5, <3>1, <3>2
    <3>3. CASE i \notin 1..n
      <4>1. i - n \in 1..(j - 1) /\ i - n \in 1..Len(d) /\ n + (i - n) = i
        BY <1>0, <1>m, <2>1, <3>1, <3>3
      <4>2. d[i - n] = x
        BY <1>m, <3>1, <4>1, SMTT(30)
      <4> QED  BY <4>1, <4>2
    <3> QED  BY <3>2, <3>3
  <2> QED  BY <2>2, <2>3, <2>4
<1>9. Ordered(P, C, c)
  BY <1>7, Zenon DEF Ordered
<1>10. Ordered(P, C \union Elements(c), d)
  BY <1>8, Zenon DEF Ordered
<1> QED  BY <1>6, <1>9, <1>10, Zenon DEF HasMoved

\* The head moves behind a.
LEMMA OrderedShift ==
    ASSUME NEW K, NEW P \in [K -> SUBSET Ids], NEW a \in Seq(K), NEW b \in Seq(K), b # <<>>, NEW C,
           Ordered(P, C, a), Ordered(P, C \union Elements(a), b)
    PROVE  /\ Ordered(P, C, Append(a, Head(b))) /\ Ordered(P, C \union Elements(Append(a, Head(b))), Tail(b))
           /\ \A x : x \in Elements(a) \union Elements(b) => x \in Elements(Append(a, Head(b))) \union Elements(Tail(b))
           /\ Append(a, Head(b)) \in Seq(K) /\ Tail(b) \in Seq(K)
<1>1. Head(b) \in K /\ Head(b) = b[1] /\ Len(b) \in Nat /\ 1 \in 0..Len(b) /\ Len(a) \in Nat
  OBVIOUS
<1>2. PICK c : c = Append(a, Head(b))
  BY Zenon
<1>3. c \in Seq(K) /\ Len(c) = Len(a) + 1 /\ (\A i \in 1..Len(a) : c[i] = a[i]) /\ c[Len(a) + 1] = b[1]
  BY <1>1, <1>2
<1>4. PICK d : d = Tail(b)
  BY Zenon
<1>5. d \in Seq(K) /\ Len(d) = Len(b) - 1
  BY <1>1, <1>4
<1>6. \A i \in 1..Len(d) : d[i] = b[1 + i]
  BY <1>1, <1>4, <1>5
<1>7. \A i \in 1..1 : c[Len(a) + i] = b[i]
  BY <1>3
<1>8. /\ Ordered(P, C, c) /\ Ordered(P, C \union Elements(c), d)
      /\ \A x : x \in Elements(a) \union Elements(b) => x \in Elements(c) \union Elements(d)
  <2>1. PICK n \in 0..Len(b) : n = 1
    BY <1>1, Zenon
  <2>2. Moved(a, b, n, c, d)
    BY <1>3, <1>5, <1>6, <1>7, <2>1, Zenon DEF Moved
  <2>3. c \in Seq(K) /\ d \in Seq(K)
    BY <1>3, <1>5, Zenon
  <2>4. Moving(K, P, C, a, b, n, c, d)
    BY <2>1, <2>2, <2>3, Zenon DEF Moving
  <2>5. HasMoved(P, C, a, b, c, d)
    BY <2>4, OrderedMove
  <2> QED  BY <2>5, Zenon DEF HasMoved
<1> QED  BY <1>2, <1>3, <1>4, <1>5, <1>8, Zenon

\* One more at the end, when its prior writes are there.
LEMMA OrderedAppend ==
    ASSUME NEW K, NEW P, NEW s \in Seq(K), NEW y \in K, NEW C, Ordered(P, C, s),
           \A x \in P[y] : x \in C \/ x \in Elements(s)
    PROVE  /\ Ordered(P, C, Append(s, y)) /\ Append(s, y) \in Seq(K)
           /\ \A x : x \in Elements(s) \/ x = y => x \in Elements(Append(s, y))
<1>1. PICK t : t = Append(s, y)
  BY Zenon
<1>2. t \in Seq(K) /\ Len(t) = Len(s) + 1 /\ Len(s) \in Nat /\ (\A i \in 1..Len(s) : t[i] = s[i]) /\ t[Len(s) + 1] = y
  BY <1>1
<1>3. ASSUME NEW j \in 1..Len(t), NEW x \in P[t[j]] PROVE x \in C \/ \E i \in 1..(j - 1) : t[i] = x
  <2>1. CASE j \in 1..Len(s)
    <3>1. x \in P[s[j]]
      BY <1>2, <1>3, <2>1
    <3>2. x \in C \/ \E i \in 1..(j - 1) : s[i] = x
      BY <2>1, <3>1, Zenon DEF Ordered
    <3>3. \A i \in 1..(j - 1) : i \in 1..Len(s)
      BY <1>2, <2>1
    <3> QED  BY <1>2, <3>2, <3>3
  <2>2. CASE j \notin 1..Len(s)
    <3>1. j = Len(s) + 1 /\ 1..(j - 1) = 1..Len(s)
      BY <1>2, <2>2
    <3>2. x \in P[y]
      BY <1>2, <1>3, <3>1
    <3> QED  BY <1>2, <3>1, <3>2, ElementsOf
  <2> QED  BY <2>1, <2>2
<1>4. ASSUME NEW x, x \in Elements(s) \/ x = y PROVE x \in Elements(t)
  <2>1. CASE x \in Elements(s)
    <3>1. PICK i \in 1..Len(s) : s[i] = x
      BY <2>1, ElementsOf
    <3>2. i \in 1..Len(t) /\ t[i] = x
      BY <1>2, <3>1
    <3> QED  BY <1>2, <3>2, ElementsOf
  <2>2. CASE x = y
    <3>1. Len(s) + 1 \in 1..Len(t)
      BY <1>2
    <3> QED  BY <1>2, <2>2, <3>1, ElementsOf
  <2> QED  BY <1>4, <2>1, <2>2
<1>5. Ordered(P, C, t)
  BY <1>3, Zenon DEF Ordered
<1> QED  BY <1>1, <1>2, <1>4, <1>5, Zenon

\* A request that is no input leaves the head.
LEMMA OrderedDrop ==
    ASSUME NEW K, NEW P \in [K -> SUBSET Ids], NEW s \in Seq(K), s # <<>>, Head(s) \notin Ids, NEW C, Ordered(P, C, s)
    PROVE  /\ Ordered(P, C, Tail(s)) /\ Tail(s) \in Seq(K)
           /\ \A x \in Ids : x \in Elements(s) => x \in Elements(Tail(s))
<1>0. Head(s) = s[1] /\ Len(s) \in Nat /\ s[1] \notin Ids
  OBVIOUS
<1>1. PICK t : t = Tail(s)
  BY Zenon
<1>2. t \in Seq(K) /\ Len(t) = Len(s) - 1
  BY <1>0, <1>1
<1>3. \A i \in 1..Len(t) : t[i] = s[i + 1]
  BY <1>0, <1>1, <1>2
<1>4. \A i \in 1..Len(s) : i = 1 \/ (i - 1 \in 1..Len(t) /\ (i - 1) + 1 = i)
  BY <1>0, <1>2
<1>5. ASSUME NEW j \in 1..Len(t), NEW x \in P[t[j]] PROVE x \in C \/ \E i \in 1..(j - 1) : t[i] = x
  <2>1. j + 1 \in 1..Len(s) /\ x \in P[s[j + 1]]
    BY <1>0, <1>2, <1>3, <1>5
  <2>2. s[j + 1] \in K
    BY <2>1
  <2>3. x \in Ids
    BY <2>1, <2>2
  <2>4. x \in C \/ \E i \in 1..((j + 1) - 1) : s[i] = x
    BY <2>1, Zenon DEF Ordered
  <2>5. CASE \E i \in 1..((j + 1) - 1) : s[i] = x
    <3>1. PICK i \in 1..((j + 1) - 1) : s[i] = x
      BY <2>5
    <3>2. i # 1
      BY <1>0, <2>3, <3>1
    <3>3. i - 1 \in 1..(j - 1) /\ i - 1 \in 1..Len(t) /\ (i - 1) + 1 = i
      BY <1>0, <1>2, <3>1, <3>2
    <3>4. t[i - 1] = x
      BY <1>3, <3>1, <3>3
    <3> QED  BY <3>3, <3>4
  <2> QED  BY <2>4, <2>5
<1>6. ASSUME NEW x \in Ids, x \in Elements(s) PROVE x \in Elements(t)
  <2>1. PICK i \in 1..Len(s) : s[i] = x
    BY <1>6, ElementsOf
  <2>2. i # 1
    BY <1>0, <2>1
  <2>3. i - 1 \in 1..Len(t) /\ t[i - 1] = x
    BY <1>3, <1>4, <2>1, <2>2
  <2> QED  BY <1>2, <2>3, ElementsOf
<1>7. Ordered(P, C, t)
  BY <1>5, Zenon DEF Ordered
<1> QED  BY <1>1, <1>2, <1>6, <1>7, Zenon

\* TypedInOrder, of any four parts of the way: got, queued, in the channel, typed.
Blocks(P, g, q, r, t) ==
    /\ Ordered(P, {}, g) /\ Ordered(P, Elements(g), q) /\ Ordered(P, Elements(g) \union Elements(q), r)
    /\ Ordered(P, Elements(g) \union Elements(q) \union Elements(r), t)

AllOf(g, q, r, t) == Elements(g) \union Elements(q) \union Elements(r) \union Elements(t)

\* The thread of console_input sends what is typed as a request.
LEMMA BlocksForward ==
    ASSUME NEW K, NEW P \in [K -> SUBSET Ids], NEW g \in Seq(K), NEW q \in Seq(K), NEW r \in Seq(K), NEW t \in Seq(K),
           Blocks(P, g, q, r, t), t # <<>>
    PROVE  /\ Append(r, Head(t)) \in Seq(K) /\ Tail(t) \in Seq(K)
           /\ Blocks(P, g, q, Append(r, Head(t)), Tail(t))
           /\ \A x \in Ids : x \in AllOf(g, q, r, t) => x \in AllOf(g, q, Append(r, Head(t)), Tail(t))
<1> DEFINE C == Elements(g) \union Elements(q)
<1>1. Ordered(P, C, r) /\ Ordered(P, C \union Elements(r), t)
  BY DEF Blocks
<1> HIDE DEF C
<1>2. /\ Ordered(P, C, Append(r, Head(t))) /\ Ordered(P, C \union Elements(Append(r, Head(t))), Tail(t))
      /\ \A x : x \in Elements(r) \union Elements(t) => x \in Elements(Append(r, Head(t))) \union Elements(Tail(t))
      /\ Append(r, Head(t)) \in Seq(K) /\ Tail(t) \in Seq(K)
  BY <1>1, OrderedShift, Zenon
<1>3. Blocks(P, g, q, Append(r, Head(t)), Tail(t))
  BY <1>2, Zenon DEF Blocks, C
<1>4. \A x \in Ids : x \in AllOf(g, q, r, t) => x \in AllOf(g, q, Append(r, Head(t)), Tail(t))
  BY <1>2, Zenon DEF AllOf
<1> QED  BY <1>2, <1>3, <1>4

\* The main thread puts an input behind the ones that wait.
LEMMA BlocksInput ==
    ASSUME NEW K, NEW P \in [K -> SUBSET Ids], NEW g \in Seq(K), NEW q \in Seq(K), NEW r \in Seq(K), NEW t \in Seq(K),
           Blocks(P, g, q, r, t), r # <<>>
    PROVE  /\ Append(q, Head(r)) \in Seq(K) /\ Tail(r) \in Seq(K)
           /\ Blocks(P, g, Append(q, Head(r)), Tail(r), t)
           /\ \A x \in Ids : x \in AllOf(g, q, r, t) => x \in AllOf(g, Append(q, Head(r)), Tail(r), t)
<1> DEFINE C == Elements(g)
<1>1. Ordered(P, C, q) /\ Ordered(P, C \union Elements(q), r)
  BY DEF Blocks
<1> HIDE DEF C
<1>2. /\ Ordered(P, C, Append(q, Head(r))) /\ Ordered(P, C \union Elements(Append(q, Head(r))), Tail(r))
      /\ \A x : x \in Elements(q) \union Elements(r) => x \in Elements(Append(q, Head(r))) \union Elements(Tail(r))
      /\ Append(q, Head(r)) \in Seq(K) /\ Tail(r) \in Seq(K)
  BY <1>1, OrderedShift, Zenon
<1>3. Ordered(P, Elements(g) \union Elements(Append(q, Head(r))) \union Elements(Tail(r)), t)
  <2>1. \A x \in Ids : x \in Elements(g) \union Elements(q) \union Elements(r) =>
                          x \in Elements(g) \union Elements(Append(q, Head(r))) \union Elements(Tail(r))
    BY <1>2, Zenon
  <2>2. Ordered(P, Elements(g) \union Elements(q) \union Elements(r), t)
    BY DEF Blocks
  <2> QED  BY <2>1, <2>2, OrderedGrow
<1>4. Blocks(P, g, Append(q, Head(r)), Tail(r), t)
  BY <1>2, <1>3, Zenon DEF Blocks, C
<1>5. \A x \in Ids : x \in AllOf(g, q, r, t) => x \in AllOf(g, Append(q, Head(r)), Tail(r), t)
  BY <1>2, Zenon DEF AllOf
<1> QED  BY <1>2, <1>4, <1>5

\* The first n of the ones that wait go into the guest's buffers.
LEMMA BlocksDeliver ==
    ASSUME NEW K, NEW P \in [K -> SUBSET Ids], NEW g \in Seq(K), NEW q \in Seq(K), NEW r \in Seq(K), NEW t \in Seq(K),
           Blocks(P, g, q, r, t), NEW n \in 0..Len(q)
    PROVE  /\ g \o SubSeq(q, 1, n) \in Seq(K) /\ SubSeq(q, n + 1, Len(q)) \in Seq(K)
           /\ Blocks(P, g \o SubSeq(q, 1, n), SubSeq(q, n + 1, Len(q)), r, t)
           /\ \A x \in Ids : x \in AllOf(g, q, r, t) => x \in AllOf(g \o SubSeq(q, 1, n), SubSeq(q, n + 1, Len(q)), r, t)
<1>0. Len(q) \in Nat /\ Len(g) \in Nat /\ n \in Nat /\ n <= Len(q)
  OBVIOUS
<1>1. PICK f : f = SubSeq(q, 1, n)
  BY Zenon
<1>2. f \in Seq(K) /\ Len(f) = n /\ \A i \in 1..n : f[i] = q[i]
  BY <1>0, <1>1
<1>3. PICK d : d = SubSeq(q, n + 1, Len(q))
  BY Zenon
<1>4. d \in Seq(K) /\ Len(d) = Len(q) - n /\ \A i \in 1..Len(d) : d[i] = q[n + i]
  BY <1>0, <1>3
<1>5. PICK c : c = g \o f
  BY Zenon
<1>6. c \in Seq(K)
  BY <1>2, <1>5, ConcatProperties, Zenon
<1>7. Len(c) = Len(g) + n /\ (\A i \in 1..Len(g) : c[i] = g[i]) /\ (\A i \in 1..n : c[Len(g) + i] = q[i])
  <2>1. /\ Len(c) = Len(g) + Len(f)
        /\ \A i \in 1..Len(g) + Len(f) : c[i] = IF i <= Len(g) THEN g[i] ELSE f[i - Len(g)]
    BY <1>2, <1>5, ConcatProperties, Zenon
  <2>2. Len(c) = Len(g) + n /\ \A i \in 1..(Len(g) + n) : c[i] = IF i <= Len(g) THEN g[i] ELSE f[i - Len(g)]
    BY <1>2, <2>1, Zenon
  <2>3. \A i \in 1..Len(g) : c[i] = g[i]
    BY <1>0, <2>2
  <2>4. ASSUME NEW i \in 1..n PROVE c[Len(g) + i] = q[i]
    <3>1. Len(g) + i \in 1..(Len(g) + n) /\ ~(Len(g) + i <= Len(g)) /\ (Len(g) + i) - Len(g) = i
      BY <1>0
    <3> QED  BY <1>2, <2>2, <3>1, Zenon
  <2> QED  BY <2>2, <2>3, <2>4, Zenon
<1>8. Ordered(P, {}, g) /\ Ordered(P, {} \union Elements(g), q)
  <2>1. {} \union Elements(g) = Elements(g)
    OBVIOUS
  <2> QED  BY <2>1 DEF Blocks
<1>9. /\ Ordered(P, {}, c) /\ Ordered(P, {} \union Elements(c), d)
      /\ \A x : x \in Elements(g) \union Elements(q) => x \in Elements(c) \union Elements(d)
  <2>1. PICK none : none = {}
    BY Zenon
  <2>2. Ordered(P, none, g) /\ Ordered(P, none \union Elements(g), q)
    BY <1>8, <2>1
  <2>3. /\ Ordered(P, none, c) /\ Ordered(P, none \union Elements(c), d)
        /\ \A x : x \in Elements(g) \union Elements(q) => x \in Elements(c) \union Elements(d)
    <3>1. Moved(g, q, n, c, d)
      BY <1>4, <1>7, Zenon DEF Moved
    <3>2. c \in Seq(K) /\ d \in Seq(K)
      BY <1>4, <1>6, Zenon
    <3>3. Moving(K, P, none, g, q, n, c, d)
      BY <2>2, <3>1, <3>2, Zenon DEF Moving
    <3>4. HasMoved(P, none, g, q, c, d)
      BY <3>3, OrderedMove
    <3> QED  BY <3>4, Zenon DEF HasMoved
  <2> QED  BY <2>1, <2>3
<1>10. Ordered(P, Elements(c) \union Elements(d), r)
  <2>1. \A x \in Ids : x \in Elements(g) \union Elements(q) => x \in Elements(c) \union Elements(d)
    BY <1>9, Zenon
  <2>2. Ordered(P, Elements(g) \union Elements(q), r)
    BY DEF Blocks
  <2> QED  BY <2>1, <2>2, OrderedGrow
<1>11. Ordered(P, Elements(c) \union Elements(d) \union Elements(r), t)
  <2>1. \A x \in Ids : x \in Elements(g) \union Elements(q) \union Elements(r) =>
                          x \in Elements(c) \union Elements(d) \union Elements(r)
    BY <1>9, Zenon
  <2>2. Ordered(P, Elements(g) \union Elements(q) \union Elements(r), t)
    BY DEF Blocks
  <2> QED  BY <2>1, <2>2, OrderedGrow
<1>12. {} \union Elements(c) = Elements(c)
  OBVIOUS
<1>13. Blocks(P, c, d, r, t)
  BY <1>9, <1>10, <1>11, <1>12 DEF Blocks
<1>14. \A x \in Ids : x \in AllOf(g, q, r, t) => x \in AllOf(c, d, r, t)
  BY <1>9, Zenon DEF AllOf
<1> QED  BY <1>1, <1>3, <1>4, <1>5, <1>6, <1>13, <1>14, Zenon

\* Another request goes into the channel, and another leaves it.
LEMMA BlocksSend ==
    ASSUME NEW K, NEW P \in [K -> SUBSET Ids], NEW g \in Seq(K), NEW q \in Seq(K), NEW r \in Seq(K), NEW t \in Seq(K),
           Blocks(P, g, q, r, t), NEW z \in K, P[z] = {}
    PROVE  /\ Append(r, z) \in Seq(K) /\ Blocks(P, g, q, Append(r, z), t)
           /\ \A x \in Ids : x \in AllOf(g, q, r, t) => x \in AllOf(g, q, Append(r, z), t)
<1> DEFINE C == Elements(g) \union Elements(q)
<1>1. Ordered(P, C, r) /\ Ordered(P, C \union Elements(r), t)
  BY DEF Blocks
<1> HIDE DEF C
<1>2. /\ Ordered(P, C, Append(r, z)) /\ Append(r, z) \in Seq(K)
      /\ \A x : x \in Elements(r) \/ x = z => x \in Elements(Append(r, z))
  BY <1>1, OrderedAppend
<1>3. Ordered(P, C \union Elements(Append(r, z)), t)
  BY <1>1, <1>2, OrderedGrow
<1>4. Blocks(P, g, q, Append(r, z), t)
  BY <1>2, <1>3, Zenon DEF Blocks, C
<1>5. \A x \in Ids : x \in AllOf(g, q, r, t) => x \in AllOf(g, q, Append(r, z), t)
  BY <1>2, Zenon DEF AllOf
<1> QED  BY <1>2, <1>4, <1>5

LEMMA BlocksServe ==
    ASSUME NEW K, NEW P \in [K -> SUBSET Ids], NEW g \in Seq(K), NEW q \in Seq(K), NEW r \in Seq(K), NEW t \in Seq(K),
           Blocks(P, g, q, r, t), r # <<>>, Head(r) \notin Ids
    PROVE  /\ Tail(r) \in Seq(K) /\ Blocks(P, g, q, Tail(r), t)
           /\ \A x \in Ids : x \in AllOf(g, q, r, t) => x \in AllOf(g, q, Tail(r), t)
<1> DEFINE C == Elements(g) \union Elements(q)
<1>1. Ordered(P, C, r) /\ Ordered(P, C \union Elements(r), t)
  BY DEF Blocks
<1> HIDE DEF C
<1>2. /\ Ordered(P, C, Tail(r)) /\ Tail(r) \in Seq(K)
      /\ \A x \in Ids : x \in Elements(r) => x \in Elements(Tail(r))
  BY <1>1, OrderedDrop
<1>3. Ordered(P, C \union Elements(Tail(r)), t)
  BY <1>1, <1>2, OrderedGrow
<1>4. Blocks(P, g, q, Tail(r), t)
  BY <1>2, <1>3, Zenon DEF Blocks, C
<1>5. \A x \in Ids : x \in AllOf(g, q, r, t) => x \in AllOf(g, q, Tail(r), t)
  BY <1>2, Zenon DEF AllOf
<1> QED  BY <1>2, <1>4, <1>5

\* console.write types y when its prior writes are on the way.
LEMMA BlocksType ==
    ASSUME NEW K, NEW P \in [K -> SUBSET Ids], NEW g \in Seq(K), NEW q \in Seq(K), NEW r \in Seq(K), NEW t \in Seq(K),
           Blocks(P, g, q, r, t), NEW y \in K, \A x \in P[y] : x \in AllOf(g, q, r, t)
    PROVE  /\ Append(t, y) \in Seq(K) /\ Blocks(P, g, q, r, Append(t, y))
           /\ \A x : x \in AllOf(g, q, r, t) \/ x = y => x \in AllOf(g, q, r, Append(t, y))
<1> DEFINE C == Elements(g) \union Elements(q) \union Elements(r)
<1>1. Ordered(P, C, t)
  BY DEF Blocks
<1>2. \A x \in P[y] : x \in C \/ x \in Elements(t)
  BY Zenon DEF AllOf
<1> HIDE DEF C
<1>3. /\ Ordered(P, C, Append(t, y)) /\ Append(t, y) \in Seq(K)
      /\ \A x : x \in Elements(t) \/ x = y => x \in Elements(Append(t, y))
  BY <1>1, <1>2, OrderedAppend
<1>4. Blocks(P, g, q, r, Append(t, y))
  BY <1>3, Zenon DEF Blocks, C
<1>5. \A x : x \in AllOf(g, q, r, t) \/ x = y => x \in AllOf(g, q, r, Append(t, y))
  BY <1>3, Zenon DEF AllOf
<1> QED  BY <1>3, <1>4, <1>5

LEMMA BlocksFewer ==
    ASSUME NEW K, NEW g \in Seq(K), NEW q \in Seq(K), NEW r \in Seq(K), NEW t \in Seq(K),
           NEW P, NEW Q, \A y \in K : \A x \in Q[y] : x \in P[y], Blocks(P, g, q, r, t)
    PROVE  Blocks(Q, g, q, r, t)
<1>1. Ordered(Q, {}, g)
  BY OrderedFewer, Zenon DEF Blocks
<1>2. Ordered(Q, Elements(g), q)
  BY OrderedFewer, Zenon DEF Blocks
<1>3. Ordered(Q, Elements(g) \union Elements(q), r)
  BY OrderedFewer, Zenon DEF Blocks
<1>4. Ordered(Q, Elements(g) \union Elements(q) \union Elements(r), t)
  BY OrderedFewer, Zenon DEF Blocks
<1> QED  BY <1>1, <1>2, <1>3, <1>4 DEF Blocks

-----------------------------------------------------------------------------
(* Which calls have been answered *)

\* The thread of x has done what was asked, and has also answered.
Worked(x) == worker[x].pc \in {"respond", "done"} /\ worker[x].result = "ok"
Answered(x) == worker[x].pc = "done" /\ worker[x].result = "ok"

\* A request is in the pipe once, and then with one thread, that does what its method says.
CallsKept ==
    /\ \A i \in 1..Len(stdin) : stdin[i] <= app.made /\ worker[stdin[i]].pc = "none"
    /\ \A i, j \in 1..Len(stdin) : i # j => stdin[i] # stdin[j]
    /\ \A x \in Ids : x > app.made => worker[x].pc = "none"
    /\ \A x \in Ids : \/ worker[x].pc \in {"none", "respond", "done"} \/ worker[x].pc = app.method[x]
                      \/ app.method[x] = "start" /\ worker[x].pc \in {"boot", "agent", "publish", "ready"}

\* Before the machine is booted nothing can have been typed or served.
BootKept ==
    machine = "off" =>
        /\ requests = <<>> /\ typed = <<>> /\ waking = 0 /\ cpu = "none" /\ ~running
        /\ device["console"].got = <<>> /\ device["console"].queued = <<>>
        /\ \A x \in Ids : worker[x].pc \notin {"agent", "publish", "ready"}
        /\ \A x \in Ids : app.method[x] = "write" => ~Worked(x)

\* What the library takes for answered has been answered.
AnsweredKept ==
    proc = "up" =>
        /\ \A x \in Ids : app.result[x] = "ok" => Answered(x)
        /\ \A i \in 1..Len(stdout) : stdout[i].event = "" /\ stdout[i].arg = "ok" => Answered(stdout[i].id)
        /\ \A y \in Ids : \A x \in app.after[y] : Answered(x)

CallsInv == CallsKept /\ BootKept /\ AnsweredKept

\* One thread moves.
LEMMA OneWorker ==
    ASSUME ServerType, NEW i \in Ids, NEW new \in WorkerSet, worker' = [worker EXCEPT ![i] = new]
    PROVE  worker'[i] = new /\ \A x \in Ids : x # i => worker'[x] = worker[x]
BY DEF ServerType

LEMMA CallsNext ==
    ASSUME SandboxInv, CallsKept, Next
    PROVE  CallsKept'
<1>0. /\ ServerType /\ LinesKept /\ stdin \in Seq(Ids) /\ Len(stdin) \in Nat /\ load \in Loads /\ worker \in [Ids -> WorkerSet]
      /\ app \in AppSet /\ app.made \in Nat /\ Ids \subseteq Nat
  BY SandboxAssumption DEF SandboxInv, ServerType, AppType, AppSet, Ids
<1>1. ASSUME UNCHANGED <<stdin, worker>>, app'.made = app.made, app'.method = app.method
      PROVE  CallsKept'
  BY <1>0, <1>1, SMTT(30) DEF CallsKept
<1>2. CASE \E method \in Methods : Calling(method) /\ UNCHANGED <<machineVars, reader, worker, running, proc>>
  <2>1. PICK method \in Methods : Calling(method) /\ UNCHANGED <<machineVars, reader, worker, running, proc>>
    BY <1>2
  <2>2. worker' = worker
    BY <2>1, Zenon
  <2>3. PICK id \in Ids : /\ id = app.made + 1 /\ app'.made = id /\ app'.method = [app.method EXCEPT ![id] = method]
                          /\ stdin' = Append(stdin, id) \/ stdin' = stdin
    BY <1>0, <2>1, CallFacts, Zenon
  <2>4. id > app.made /\ worker[id].pc = "none" /\ id \in Nat
    BY <1>0, <2>3 DEF CallsKept
  <2>5. \A x \in Ids : x > id => x > app.made
    BY <1>0, <2>3
  <2>6. \A x \in Ids : x # id => app'.method[x] = app.method[x]
    BY <1>0, <2>3 DEF AppSet
  <2>7. \A i \in 1..Len(stdin) : stdin[i] \in Nat /\ stdin[i] <= id /\ stdin[i] # id
    <3>1. \A i \in 1..Len(stdin) : stdin[i] \in Ids /\ stdin[i] <= app.made
      BY <1>0 DEF CallsKept
    <3> QED  BY <1>0, <2>3, <3>1
  <2>8. \A i \in 1..Len(stdin') : stdin'[i] <= id /\ worker[stdin'[i]].pc = "none"
    <3>1. CASE stdin' = Append(stdin, id)
      <4>1. Len(stdin') = Len(stdin) + 1 /\ (\A i \in 1..Len(stdin) : stdin'[i] = stdin[i]) /\ stdin'[Len(stdin) + 1] = id
        BY <1>0, <3>1
      <4>2. id <= id
        BY <2>4
      <4> QED  BY <1>0, <2>4, <2>7, <4>1, <4>2, SMTT(30) DEF CallsKept
    <3>2. CASE stdin' = stdin
      BY <2>7, <3>2 DEF CallsKept
    <3> QED  BY <2>3, <3>1, <3>2
  <2>9. \A i, j \in 1..Len(stdin') : i # j => stdin'[i] # stdin'[j]
    <3>1. CASE stdin' = Append(stdin, id)
      <4>1. Len(stdin') = Len(stdin) + 1 /\ (\A i \in 1..Len(stdin) : stdin'[i] = stdin[i]) /\ stdin'[Len(stdin) + 1] = id
        BY <1>0, <3>1
      <4>2. \A i \in 1..Len(stdin') : i \in 1..Len(stdin) \/ i = Len(stdin) + 1
        BY <1>0, <4>1
      <4> QED  BY <2>7, <4>1, <4>2, SMTT(30) DEF CallsKept
    <3>2. CASE stdin' = stdin
      BY <3>2 DEF CallsKept
    <3> QED  BY <2>3, <3>1, <3>2, SMTT(30)
  <2>10. \A x \in Ids : x > id => worker[x].pc = "none"
    BY <2>5 DEF CallsKept
  <2>11. \A x \in Ids : \/ worker[x].pc \in {"none", "respond", "done"} \/ worker[x].pc = app'.method[x]
                        \/ app'.method[x] = "start" /\ worker[x].pc \in {"boot", "agent", "publish", "ready"}
    BY <2>4, <2>6 DEF CallsKept
  <2> QED  BY <2>2, <2>3, <2>8, <2>9, <2>10, <2>11, SMTT(30) DEF CallsKept
<1>3. CASE AppLine
  <2>1. app'.made = app.made /\ app'.method = app.method
    BY <1>0, <1>3, LineFacts, Zenon DEF AppKept
  <2> QED  BY <1>1, <1>3, <2>1, Zenon DEF AppLine
<1>4. CASE AppSeesEnd
  <2>1. app'.made = app.made /\ app'.method = app.method
    <3>1. app' = Finish(app, "runtime-exited")
      BY <1>4, Zenon DEF AppSeesEnd
    <3> QED  BY <1>0, <3>1, FinishFacts DEF AppKept
  <2> QED  BY <1>1, <1>4, <2>1, Zenon DEF AppSeesEnd
<1>5. CASE AppLeaves
  <2>1. app'.made = app.made /\ app'.method = app.method
    BY <1>0, <1>5 DEF AppLeaves, AppSet
  <2> QED  BY <1>1, <1>5, <2>1, Zenon DEF AppLeaves
<1>6. CASE Gone
  <2>1. stdin' = <<>> /\ worker' = [i \in Ids |-> [pc |-> "none", result |-> "ok"]] /\ app' = app
    BY <1>6, Zenon DEF Gone
  <2> QED  BY <2>1 DEF CallsKept
<1>7. CASE ServeLine
  <2> DEFINE y == stdin[1]
  <2>1. /\ stdin # <<>> /\ 1 \in 1..Len(stdin) /\ stdin' = Tail(stdin) /\ y \in Ids /\ app' = app
        /\ \E new \in WorkerSet : worker' = [worker EXCEPT ![y] = new] /\ new.pc = app.method[y]
    BY <1>0, <1>7, ServeLineFacts
  <2>2. /\ Len(stdin') = Len(stdin) - 1
        /\ \A i \in 1..Len(stdin') : stdin'[i] = stdin[i + 1] /\ i + 1 \in 1..Len(stdin) /\ i + 1 # 1
    BY <1>0, <2>1
  <2>3. PICK new \in WorkerSet : worker' = [worker EXCEPT ![y] = new] /\ new.pc = app.method[y]
    BY <2>1, Zenon
  <2>4. worker'[y] = new /\ \A x \in Ids : x # y => worker'[x] = worker[x]
    BY <1>0, <2>1, <2>3, OneWorker
  <2>5. y <= app.made
    BY <2>1 DEF CallsKept
  <2>6. \A i \in 1..Len(stdin') : stdin'[i] # y /\ stdin'[i] \in Ids
    BY <1>0, <2>1, <2>2, SMTT(30) DEF CallsKept
  <2> HIDE DEF y
  <2>7. \A i \in 1..Len(stdin') : stdin'[i] <= app.made /\ worker'[stdin'[i]].pc = "none"
    BY <2>2, <2>4, <2>6, SMTT(30) DEF CallsKept
  <2>8. \A i, j \in 1..Len(stdin') : i # j => stdin'[i] # stdin'[j]
    <3>1. \A i, j \in 1..Len(stdin') : i # j => i + 1 # j + 1
      BY <1>0, <2>2
    <3>2. \A i, j \in 1..Len(stdin) : i # j => stdin[i] # stdin[j]
      BY Zenon DEF CallsKept
    <3> QED  BY <2>2, <3>1, <3>2, Zenon
  <2>9. \A x \in Ids : x > app.made => worker'[x].pc = "none"
    <3>1. ~(y > app.made)
      BY <1>0, <2>1, <2>5
    <3> QED  BY <2>4, <3>1 DEF CallsKept
  <2>10. \A x \in Ids : \/ worker'[x].pc \in {"none", "respond", "done"} \/ worker'[x].pc = app.method[x]
                        \/ app.method[x] = "start" /\ worker'[x].pc \in {"boot", "agent", "publish", "ready"}
    BY <2>3, <2>4 DEF CallsKept
  <2> QED  BY <2>1, <2>7, <2>8, <2>9, <2>10, SMTT(30) DEF CallsKept
<1>8. CASE ServeJoin \/ ServeEof \/ ServeStops \/ GuestAsks \/ Machine
  <2>1. UNCHANGED <<stdin, worker, app>>
    BY <1>8, Zenon DEF ServeJoin, ServeEof, ServeStops, GuestAsks, Machine, serverVars
  <2> QED  BY <1>1, <2>1
<1>9. CASE \E i \in Ids : Work(i)
  <2>1. PICK i \in Ids : Work(i)
    BY <1>9
  <2>2. UNCHANGED <<stdin, app>>
    BY <1>0, <2>1, WorkFacts
  <2>3. PICK new \in WorkerSet : worker' = [worker EXCEPT ![i] = new] /\ Moves(i, new)
    BY <1>0, <2>1, WorkFacts
  <2>4. worker'[i] = new /\ \A x \in Ids : x # i => worker'[x] = worker[x]
    BY <1>0, <2>3, OneWorker, SMTT(30)
  <2>5. worker[i].pc # "none"
    BY <2>3, SMTT(30) DEF Moves
  <2>6. \A k \in 1..Len(stdin) : stdin[k] # i /\ stdin[k] \in Ids
    BY <1>0, <2>5 DEF CallsKept
  <2>7. \/ new.pc \in {"respond", "done"}
        \/ app.method[i] = "start" /\ new.pc \in {"boot", "agent", "publish", "ready"}
    <3>1. \/ worker[i].pc \in {"none", "respond", "done"} \/ worker[i].pc = app.method[i]
          \/ app.method[i] = "start" /\ worker[i].pc \in {"boot", "agent", "publish", "ready"}
      BY DEF CallsKept
    <3>2. \/ new.pc \in {"respond", "done"}
          \/ worker[i].pc \in {"start", "boot", "agent", "publish"} /\ new.pc \in {"boot", "agent", "publish", "ready"}
      BY <2>3, Zenon DEF Moves
    <3>3. app.method[i] \in Methods
      BY <1>0 DEF AppSet
    <3> QED  BY <3>1, <3>2, <3>3 DEF Methods
  <2>8. \A k \in 1..Len(stdin') : stdin'[k] <= app'.made /\ worker'[stdin'[k]].pc = "none"
    BY <2>2, <2>4, <2>6 DEF CallsKept
  <2>9. \A x \in Ids : x > app.made => worker'[x].pc = "none"
    BY <2>4, <2>5 DEF CallsKept
  <2>10. \A x \in Ids : \/ worker'[x].pc \in {"none", "respond", "done"} \/ worker'[x].pc = app.method[x]
                        \/ app.method[x] = "start" /\ worker'[x].pc \in {"boot", "agent", "publish", "ready"}
    BY <2>4, <2>7 DEF CallsKept
  <2> QED  BY <2>2, <2>8, <2>9, <2>10 DEF CallsKept
<1> QED  BY <1>0, <1>2, <1>3, <1>4, <1>5, <1>6, <1>7, <1>8, <1>9, Steps, Zenon

\* While the process is there, an answer stays given.
LEMMA AnsweredStays ==
    ASSUME SandboxInv, CallsKept, Next, proc' = "up", NEW x \in Ids
    PROVE  /\ Answered(x) => Answered(x)'
           /\ proc = "up"
<1>0. /\ ServerType /\ stdin \in Seq(Ids) /\ load \in Loads /\ worker \in [Ids -> WorkerSet] /\ proc \in {"up", "gone"}
  BY DEF SandboxInv, ServerType
<1>1. proc = "up"
  BY <1>0, MachineMoves
<1>2. ASSUME worker' = worker PROVE Answered(x) => Answered(x)'
  BY <1>2 DEF Answered
<1>3. CASE AppLine \/ AppSeesEnd \/ AppLeaves \/ ServeJoin \/ ServeEof \/ ServeStops \/ GuestAsks \/ Machine
  BY <1>1, <1>2, <1>3, Zenon DEF AppLine, AppSeesEnd, AppLeaves, ServeJoin, ServeEof, ServeStops, GuestAsks, Machine, serverVars
<1>4. CASE Gone
  <2>1. proc' = "gone"
    BY <1>4, Zenon DEF Gone
  <2> QED  BY <2>1
<1>5. CASE ServeLine
  <2>1. 1 \in 1..Len(stdin) /\ stdin[1] \in Ids /\ \E new \in WorkerSet : worker' = [worker EXCEPT ![stdin[1]] = new]
    BY <1>0, <1>5, ServeLineFacts
  <2>2. worker[stdin[1]].pc = "none"
    BY <2>1 DEF CallsKept
  <2>3. \A y \in Ids : y # stdin[1] => worker'[y] = worker[y]
    BY <1>0, <2>1, OneWorker, SMTT(30)
  <2> QED  BY <1>1, <2>2, <2>3, SMTT(30) DEF Answered
<1>6. CASE \E i \in Ids : Work(i)
  <2>1. PICK i \in Ids : Work(i)
    BY <1>6
  <2>2. PICK new \in WorkerSet : worker' = [worker EXCEPT ![i] = new] /\ Moves(i, new)
    BY <1>0, <2>1, WorkFacts
  <2>3. worker[i].pc # "done"
    BY <2>2 DEF Moves
  <2>4. \A y \in Ids : y # i => worker'[y] = worker[y]
    BY <1>0, <2>2, OneWorker
  <2> QED  BY <1>1, <2>3, <2>4 DEF Answered
<1>7. CASE UNCHANGED <<machineVars, reader, worker, running, proc>>
  BY <1>1, <1>2, <1>7, Zenon
<1> QED  BY <1>0, <1>3, <1>4, <1>5, <1>6, <1>7, Steps, Zenon

\* An answer stands after the step.
Given(x) == worker'[x].pc = "done" /\ worker'[x].result = "ok"


LEMMA AnsweredNext ==
    ASSUME SandboxInv, CallsKept, AnsweredKept, Next
    PROVE  AnsweredKept'
<1> SUFFICES ASSUME proc' = "up" PROVE AnsweredKept'
  BY Zenon DEF AnsweredKept
<1>0. /\ ServerType /\ LinesKept /\ load \in Loads /\ worker \in [Ids -> WorkerSet] /\ app \in AppSet
      /\ stdout \in Seq(LineSet) /\ Len(stdout) \in Nat /\ reason \in Reasons \union {"none"}
  BY DEF SandboxInv, ServerType, AppType, RestInv, MachineRest
<1>1. \A x \in Ids : Answered(x) => Given(x)
  BY AnsweredStays DEF Answered, Given
<1>2. proc = "up"
  <2>1. proc \in {"up", "gone"}
    BY <1>0 DEF ServerType
  <2> QED  BY <1>0, <2>1, MachineMoves
<1>3. /\ \A x \in Ids : app.result[x] = "ok" => Given(x)
      /\ \A i \in 1..Len(stdout) : stdout[i].event = "" /\ stdout[i].arg = "ok" => Given(stdout[i].id)
      /\ \A y \in Ids : \A x \in app.after[y] : Given(x)
  <2>1. \A i \in 1..Len(stdout) : stdout[i].event = "" => stdout[i].id \in Ids
    BY Zenon DEF LinesKept, SandboxInv
  <2>2. \A y \in Ids : \A x \in app.after[y] : x \in Ids
    BY <1>0 DEF AppSet
  <2> QED  BY <1>1, <1>2, <2>1, <2>2, Zenon DEF AnsweredKept
<1>4. \A x \in Ids : app'.result[x] = "ok" => Given(x)
  <2>1. CASE \E method \in Methods : Calling(method)
    BY <1>0, <1>3, <2>1, CallFacts, Zenon
  <2>2. CASE AppLine
    BY <1>0, <1>3, <2>2, LineFacts, Zenon
  <2>3. CASE AppSeesEnd
    <3>1. app' = Finish(app, "runtime-exited")
      BY <2>3, Zenon DEF AppSeesEnd
    <3> QED  BY <1>0, <1>3, <3>1, FinishFacts, Zenon
  <2>4. CASE AppLeaves
    <3>1. app'.result = [i \in Ids |-> "none"]
      BY <1>0, <2>4 DEF AppLeaves, AppSet
    <3> QED  BY <3>1
  <2>5. CASE Gone \/ ServeLine \/ ServeJoin \/ ServeEof \/ ServeStops \/ GuestAsks \/ Machine
    <3>1. app' = app
      BY <2>5, Zenon DEF Gone, ServeLine, ServeJoin, ServeEof, ServeStops, GuestAsks, Machine, serverVars
    <3> QED  BY <1>3, <3>1, Zenon
  <2>6. CASE \E i \in Ids : Work(i)
    BY <1>0, <1>3, <2>6, WorkFacts, Zenon
  <2> QED  BY <1>0, <2>1, <2>2, <2>3, <2>4, <2>5, <2>6, Steps, Zenon
<1>5. \A y \in Ids : \A x \in app'.after[y] : Given(x)
  <2>1. CASE \E method \in Methods : Calling(method)
    <3>1. PICK method \in Methods : Calling(method)
      BY <2>1
    <3>2. PICK id \in Ids : app'.after = [app.after EXCEPT ![id] = {i \in Ids : app.result[i] = "ok"}]
      BY <1>0, <3>1, CallFacts, Zenon
    <3>3. app.after \in [Ids -> SUBSET Ids]
      BY <1>0 DEF AppSet
    <3> QED  BY <1>3, <3>2, <3>3, Zenon
  <2>2. CASE AppLine
    BY <1>0, <1>3, <2>2, LineFacts, Zenon DEF AppKept
  <2>3. CASE AppSeesEnd
    <3>1. app' = Finish(app, "runtime-exited")
      BY <2>3, Zenon DEF AppSeesEnd
    <3> QED  BY <1>0, <1>3, <3>1, FinishFacts, Zenon DEF AppKept
  <2>4. CASE AppLeaves
    <3>1. app'.after = [i \in Ids |-> {}]
      BY <1>0, <2>4 DEF AppLeaves, AppSet
    <3> QED  BY <3>1
  <2>5. CASE Gone \/ ServeLine \/ ServeJoin \/ ServeEof \/ ServeStops \/ GuestAsks \/ Machine
    <3>1. app' = app
      BY <2>5, Zenon DEF Gone, ServeLine, ServeJoin, ServeEof, ServeStops, GuestAsks, Machine, serverVars
    <3> QED  BY <1>3, <3>1, Zenon
  <2>6. CASE \E i \in Ids : Work(i)
    BY <1>0, <1>3, <2>6, WorkFacts, Zenon
  <2> QED  BY <1>0, <2>1, <2>2, <2>3, <2>4, <2>5, <2>6, Steps, Zenon
<1>6. \A i \in 1..Len(stdout') : stdout'[i].event = "" /\ stdout'[i].arg = "ok" => Given(stdout'[i].id)
  <2>1. CASE AppLine
    <3>1. stdout # <<>> /\ stdout' = Tail(stdout)
      BY <2>1, Zenon DEF AppLine
    <3>2. /\ Len(stdout') = Len(stdout) - 1
          /\ \A i \in 1..Len(stdout') : stdout'[i] = stdout[i + 1] /\ i + 1 \in 1..Len(stdout)
      BY <1>0, <3>1
    <3> QED  BY <1>3, <3>2, Zenon
  <2>2. CASE AppLeaves
    <3>1. stdout' = <<>>
      BY <2>2, Zenon DEF AppLeaves
    <3>2. Len(stdout') = 0
      BY <3>1, EmptySeq, Zenon
    <3>3. ~\E i \in 1..Len(stdout') : TRUE
      BY <3>2, SMTT(30)
    <3> QED  BY <3>3, Zenon
  <2>3. CASE stdout' = stdout
    BY <1>3, <2>3, Zenon DEF Given
  <2>4. CASE \E line \in LineSet : stdout' = Append(stdout, line) /\ Writes(line)
    <3>1. PICK line \in LineSet : stdout' = Append(stdout, line) /\ Writes(line)
      BY <2>4
    <3>2. /\ Len(stdout') = Len(stdout) + 1 /\ stdout'[Len(stdout) + 1] = line
          /\ \A i \in 1..Len(stdout) : stdout'[i] = stdout[i]
      BY <1>0, <3>1
    <3>3. ASSUME line.event = "", line.arg = "ok"
          PROVE  worker'[line.id].pc = "done" /\ worker'[line.id].result = "ok"
      <4>1. line.id \in Ids /\ worker[line.id].result = "ok" /\ Go(line.id, "done") /\ "done" \in Pcs
        BY <3>1, <3>3, Zenon DEF Writes, Pcs
      <4>2. PICK new \in WorkerSet : /\ worker' = [worker EXCEPT ![line.id] = new]
                                     /\ new.pc = "done" /\ new.result = worker[line.id].result
        BY <1>0, <4>1, GoFacts
      <4>3. worker'[line.id] = new
        BY <1>0, <4>1, <4>2, OneWorker
      <4> QED  BY <4>1, <4>2, <4>3
    <3>4. \A i \in 1..Len(stdout') : i \in 1..Len(stdout) \/ i = Len(stdout) + 1
      BY <1>0, <3>2
    <3>5. \A i \in 1..Len(stdout) : stdout'[i].event = "" /\ stdout'[i].arg = "ok" => Given(stdout'[i].id)
      BY <1>3, <3>2, Zenon
    <3>6. line.event = "" /\ line.arg = "ok" => Given(line.id)
      BY <3>3, Zenon DEF Given
    <3> QED  BY <3>2, <3>4, <3>5, <3>6, Zenon
  <2> QED  BY <1>0, <2>1, <2>2, <2>3, <2>4, OutFacts, Zenon
<1> QED  BY <1>4, <1>5, <1>6, Zenon DEF AnsweredKept, Answered, Given

\* Nothing happens in a machine that is not there.
LEMMA OffIsQuiet ==
    ASSUME BootKept, machine = "off"
    PROVE  ~MachineStep
<1>1. waking = 0 /\ cpu = "none"
  BY DEF BootKept
<1>2. ~Main /\ ~Tell /\ ~Forward /\ ~Pushes
  BY Zenon DEF Main, MainInput, MainPoll, MainNotify, MainPrint, MainSpawn, MainCpuExited, MainTerminate, MainFails, Served,
               Tell, Forward, Pushes, Push
<1>3. ~Wake
  BY <1>1 DEF Wake
<1>4. ~Guest
  BY <1>1, Zenon DEF Guest, GuestOffers, GuestKicks, GuestPrints, GuestSpawns, CpuEnds, GuestTerminates
<1> QED  BY <1>2, <1>3, <1>4, Zenon DEF MachineStep

LEMMA BootNext ==
    ASSUME SandboxInv, CallsKept, BootKept, Next
    PROVE  BootKept'
<1> SUFFICES ASSUME machine' = "off" PROVE BootKept'
  BY DEF BootKept
<1>0. /\ ServerType /\ LinesKept /\ load \in Loads /\ worker \in [Ids -> WorkerSet] /\ app \in AppSet /\ stdin \in Seq(Ids)
  BY DEF SandboxInv, ServerType, AppType
<1>1. CASE Gone
  <2>1. /\ requests' = <<>> /\ typed' = <<>> /\ waking' = 0 /\ cpu' = "none" /\ ~running'
        /\ device' = [d \in Devices |-> Idle] /\ worker' = [i \in Ids |-> [pc |-> "none", result |-> "ok"]]
    BY <1>1, Zenon DEF Gone
  <2>2. device'["console"].got = <<>> /\ device'["console"].queued = <<>>
    BY <2>1 DEF Devices, Idle
  <2>3. \A x \in Ids : worker'[x].pc = "none"
    BY <2>1
  <2>4. /\ \A x \in Ids : worker'[x].pc \notin {"agent", "publish", "ready"}
        /\ \A x \in Ids : app'.method[x] = "write" => ~(worker'[x].pc \in {"respond", "done"} /\ worker'[x].result = "ok")
    BY <2>3
  <2> QED  BY <2>1, <2>2, <2>4, Zenon DEF BootKept, Worked
<1>2. CASE ~Gone
  <2>1. machine = "off"
    <3>1. CASE Machine
      <4>1. MachineStep
        BY <3>1, Zenon DEF Machine
      <4> QED  BY <4>1, Zenon DEF MachineStep, Main, MainInput, MainPoll, MainNotify, MainPrint, MainSpawn, MainCpuExited,
                      MainTerminate, MainFails, Served, Tell, Forward, Wake, Pushes, Push, Guest, GuestOffers, GuestKicks,
                      GuestPrints, GuestSpawns, CpuEnds, GuestTerminates
    <3>2. CASE AppLine \/ AppLeaves \/ GuestAsks \/ ServeStops
      BY <3>2, Zenon DEF AppLine, AppLeaves, GuestAsks, ServeStops
    <3>3. CASE AppSeesEnd \/ ServeLine \/ ServeJoin \/ ServeEof \/ UNCHANGED <<machineVars, reader, worker, running, proc>>
      BY <3>3, Zenon DEF AppSeesEnd, ServeLine, ServeJoin, ServeEof, machineVars
    <3>4. CASE \E i \in Ids : Work(i)
      <4>1. PICK i \in Ids : Work(i)
        BY <3>4
      <4>2. CASE StartBoots(i)
        BY <4>2, Zenon DEF StartBoots, Boot
      <4>3. CASE StopMethod(i) \/ StartReady(i) \/ Answers(i)
        BY <4>3, Zenon DEF StopMethod, StartReady, Answers
      <4>4. CASE StartChecks(i) \/ StartFails(i) \/ StartAgent(i) \/ StartPublishes(i) \/ Exec(i) \/ ReplyMethod(i) \/ ConsoleWrite(i)
        BY <4>4, Zenon DEF StartChecks, StartFails, StartAgent, StartPublishes, Exec, ReplyMethod, ConsoleWrite, Type,
                                machineVars
      <4> QED  BY <4>1, <4>2, <4>3, <4>4, Zenon DEF Work, Start
    <3> QED  BY <1>0, <1>2, <3>1, <3>2, <3>3, <3>4, Steps, Zenon
  <2>2. /\ requests = <<>> /\ typed = <<>> /\ waking = 0 /\ cpu = "none" /\ ~running
        /\ device["console"].got = <<>> /\ device["console"].queued = <<>>
        /\ \A x \in Ids : worker[x].pc \notin {"agent", "publish", "ready"}
        /\ \A x \in Ids : app.method[x] = "write" => ~Worked(x)
    BY <2>1 DEF BootKept
  <2>3. ASSUME UNCHANGED <<requests, typed, waking, cpu, device, running>>,
               \A x \in Ids : worker'[x].pc \notin {"agent", "publish", "ready"},
               \A x \in Ids : app'.method[x] = "write" => ~Worked(x)'
        PROVE  BootKept'
    BY <2>2, <2>3, Zenon DEF BootKept
  <2>4. ASSUME UNCHANGED <<requests, typed, waking, cpu, device, running, worker>>, app'.method = app.method
        PROVE  BootKept'
    BY <2>2, <2>3, <2>4, Zenon DEF Worked
  <2>5. CASE \E method \in Methods : Calling(method) /\ UNCHANGED <<machineVars, reader, worker, running, proc>>
    <3>1. PICK method \in Methods : Calling(method) /\ UNCHANGED <<machineVars, reader, worker, running, proc>>
      BY <2>5
    <3>2. UNCHANGED <<requests, typed, waking, cpu, device, running, worker>>
      BY <3>1, Zenon DEF machineVars
    <3>3. PICK id \in Ids : id = app.made + 1 /\ app'.method = [app.method EXCEPT ![id] = method]
      BY <1>0, <3>1, CallFacts, Zenon
    <3>4. worker[id].pc = "none"
      <4>1. app.made \in Nat
        BY <1>0 DEF AppSet
      <4>2. id > app.made
        BY <3>3, <4>1
      <4> QED  BY <4>2 DEF CallsKept
    <3>5. \A x \in Ids : x # id => app'.method[x] = app.method[x]
      BY <1>0, <3>3 DEF AppSet
    <3>6. \A x \in Ids : app'.method[x] = "write" => ~Worked(x)
      BY <2>2, <3>4, <3>5 DEF Worked
    <3> QED  BY <2>2, <2>3, <3>2, <3>6, Zenon DEF Worked
  <2>6. CASE AppLine
    <3>1. app'.method = app.method
      BY <1>0, <2>6, LineFacts, Zenon DEF AppKept
    <3> QED  BY <2>4, <2>6, <3>1, Zenon DEF AppLine
  <2>7. CASE AppSeesEnd
    <3>1. app' = Finish(app, "runtime-exited") /\ UNCHANGED <<requests, typed, waking, cpu, device, running, worker>>
      BY <2>7, Zenon DEF AppSeesEnd, machineVars
    <3>2. app'.method = app.method
      BY <1>0, <3>1, FinishFacts DEF AppKept
    <3> QED  BY <2>4, <3>1, <3>2, Zenon
  <2>8. CASE AppLeaves
    <3>1. app'.method = app.method
      BY <1>0, <2>8 DEF AppLeaves, AppSet
    <3> QED  BY <2>4, <2>8, <3>1, Zenon DEF AppLeaves
  <2>9. CASE ServeJoin \/ ServeEof \/ ServeStops \/ GuestAsks
    <3>1. UNCHANGED <<requests, typed, waking, cpu, device, running, worker>> /\ app' = app
      BY <2>2, <2>9, Zenon DEF ServeJoin, ServeEof, ServeStops, GuestAsks, machineVars
    <3> QED  BY <2>4, <3>1
  <2>10. CASE Machine
    BY <2>1, <2>10, OffIsQuiet, Zenon DEF Machine
  <2>11. CASE ServeLine
    <3>1. stdin[1] \in Ids /\ UNCHANGED <<requests, typed, waking, cpu, device, running, app>>
          /\ \E new \in WorkerSet : worker' = [worker EXCEPT ![stdin[1]] = new] /\ new.pc = app.method[stdin[1]]
      BY <1>0, <2>11, ServeLineFacts, SMTT(30) DEF machineVars
    <3>2. PICK new \in WorkerSet : worker' = [worker EXCEPT ![stdin[1]] = new] /\ new.pc = app.method[stdin[1]]
      BY <3>1, Zenon
    <3>3. worker'[stdin[1]] = new /\ \A x \in Ids : x # stdin[1] => worker'[x] = worker[x]
      BY <1>0, <3>1, <3>2, OneWorker
    <3>4. new.pc \in Methods
      BY <1>0, <3>1, <3>2 DEF AppSet
    <3>5. new.pc \notin {"agent", "publish", "ready", "respond", "done"}
      BY <3>4 DEF Methods
    <3>6. \A x \in Ids : worker'[x].pc \notin {"agent", "publish", "ready"}
      BY <2>2, <3>3, <3>5
    <3>7. \A x \in Ids : app'.method[x] = "write" => ~(worker'[x].pc \in {"respond", "done"} /\ worker'[x].result = "ok")
      BY <2>2, <3>1, <3>3, <3>5 DEF Worked
    <3> QED  BY <2>3, <3>1, <3>6, <3>7, Zenon DEF Worked
  <2>12. CASE \E i \in Ids : Work(i)
    <3>1. PICK i \in Ids : Work(i)
      BY <2>12
    <3>2. app' = app
      BY <1>0, <3>1, WorkFacts
    <3>3. PICK new \in WorkerSet : worker' = [worker EXCEPT ![i] = new] /\ Moves(i, new)
      BY <1>0, <3>1, WorkFacts
    <3>4. worker'[i] = new /\ \A x \in Ids : x # i => worker'[x] = worker[x]
      BY <1>0, <3>3, OneWorker
    <3>5. ~StartBoots(i) /\ worker[i].pc \notin {"agent", "publish", "ready"}
      BY <2>2, Zenon DEF StartBoots, Boot
    <3>6. UNCHANGED <<requests, typed, waking, cpu, device, running>>
      <4>1. CASE StopMethod(i) \/ ConsoleWrite(i)
        BY <2>2, <4>1, Zenon DEF StopMethod, ConsoleWrite, machineVars
      <4>2. CASE StartReady(i) \/ Answers(i)
        BY <4>2, Zenon DEF StartReady, Answers
      <4>3. CASE StartChecks(i) \/ StartFails(i) \/ StartAgent(i) \/ Exec(i) \/ ReplyMethod(i)
        BY <4>3, Zenon DEF StartChecks, StartFails, StartAgent, Exec, ReplyMethod, machineVars
      <4>4. CASE StartPublishes(i)
        BY <3>5, <4>4, Zenon DEF StartPublishes, At
      <4> QED  BY <3>1, <3>5, <4>1, <4>2, <4>3, <4>4, Zenon DEF Work, Start
    <3>7. new.pc \notin {"agent", "publish", "ready"}
      BY <3>3, <3>5, SMTT(30) DEF Moves
    <3>8. app.method[i] = "write" => ~(new.pc \in {"respond", "done"} /\ new.result = "ok")
      <4>1. \/ worker[i].pc \in {"none", "respond", "done"} \/ worker[i].pc = app.method[i]
            \/ app.method[i] = "start" /\ worker[i].pc \in {"boot", "agent", "publish", "ready"}
        BY DEF CallsKept
      <4> QED  BY <2>2, <3>3, <3>5, <4>1, SMTT(30) DEF Moves, Worked
    <3>9. \A x \in Ids : worker'[x].pc \notin {"agent", "publish", "ready"}
      BY <2>2, <3>4, <3>7
    <3>10. \A x \in Ids : app'.method[x] = "write" => ~(worker'[x].pc \in {"respond", "done"} /\ worker'[x].result = "ok")
      BY <2>2, <3>2, <3>4, <3>8 DEF Worked
    <3> QED  BY <2>3, <3>6, <3>9, <3>10, Zenon DEF Worked
  <2> QED  BY <1>0, <1>2, <2>5, <2>6, <2>7, <2>8, <2>9, <2>10, <2>11, <2>12, Steps, Zenon
<1> QED  BY <1>1, <1>2

-----------------------------------------------------------------------------
(* Nothing on the way drops or reorders what is typed *)

Got == device["console"].got
Queued == device["console"].queued
PriorOf == [y \in 0..app.made |-> Prior(y)]
OnTheWay == AllOf(Got, Queued, Inputs, typed)

OthersKept == \A i \in 1..Len(requests) : requests[i].kind # "ConsoleInput" => requests[i].input = 0

\* While the machine runs: what is on the way is of calls that were made and is in order, and every
\* write that has been served is there.
KeyKept ==
    machine = "up" =>
        /\ Got \in Seq(0..app.made) /\ Queued \in Seq(0..app.made)
        /\ Inputs \in Seq(0..app.made) /\ typed \in Seq(0..app.made) /\ OthersKept
        /\ Blocks(PriorOf, Got, Queued, Inputs, typed)
        /\ \A x \in Ids : app.method[x] = "write" /\ Worked(x) => x \in OnTheWay

\* What a step of the machine does to what is on the way.
KeyMoves ==
    /\ Got' \in Seq(0..app.made) /\ Queued' \in Seq(0..app.made)
    /\ Inputs' \in Seq(0..app.made) /\ typed' \in Seq(0..app.made) /\ OthersKept'
    /\ Blocks(PriorOf, Got', Queued', Inputs', typed')
    /\ \A x \in Ids : x \in OnTheWay => x \in OnTheWay'

LEMMA InputsSent ==
    ASSUME requests \in Seq(RequestSet), NEW r \in RequestSet, Send(r), OthersKept,
           r.kind # "ConsoleInput" => r.input = 0
    PROVE  Inputs' = Append(Inputs, r.input) /\ OthersKept'
<1>1. /\ Len(requests') = Len(requests) + 1 /\ Len(requests) \in Nat
      /\ \A i \in 1..Len(requests) : requests'[i] = requests[i]
      /\ requests'[Len(requests) + 1] = r
  BY DEF Send
<1>2. OthersKept'
  BY <1>1 DEF OthersKept
<1>3. PICK s : s = Inputs
  OBVIOUS
<1>4. \A i \in 1..Len(requests) : requests[i].input \in Int
  <2>1. \A i \in 1..Len(requests) : requests[i] \in RequestSet
    BY ElementOfSeq, Zenon
  <2>2. \A any \in RequestSet : any.input \in Int
    BY DEF RequestSet
  <2> QED  BY <2>1, <2>2, Zenon
<1>5. s \in Seq(Int) /\ Len(s) = Len(requests) /\ \A i \in 1..Len(requests) : s[i] = requests[i].input
  BY <1>1, <1>3, <1>4 DEF Inputs
<1>6. r.input \in Int
  BY DEF RequestSet
<1>7. PICK t : t = Append(s, r.input)
  BY Zenon
<1>8. t \in Seq(Int) /\ Len(t) = Len(s) + 1 /\ (\A i \in 1..Len(s) : t[i] = s[i]) /\ t[Len(s) + 1] = r.input
  BY <1>5, <1>6, <1>7
<1>9. PICK u : u = Inputs'
  OBVIOUS
<1>10. \A i \in 1..Len(requests') : requests'[i].input \in Int
  BY <1>1, <1>4, <1>6, SMTT(30)
<1>11. u \in Seq(Int) /\ Len(u) = Len(requests') /\ \A i \in 1..Len(requests') : u[i] = requests'[i].input
  BY <1>1, <1>9, <1>10 DEF Inputs
<1>12. Len(u) = Len(t) /\ \A i \in 1..Len(u) : u[i] = t[i]
  <2>1. Len(u) = Len(t) /\ Len(u) = Len(requests')
    BY <1>1, <1>5, <1>8, <1>11, Zenon
  <2>2. \A i \in 1..Len(u) : i \in 1..Len(requests) \/ i = Len(requests) + 1
    BY <1>1, <2>1
  <2>3. ASSUME NEW i \in 1..Len(u) PROVE u[i] = t[i]
    <3>1. u[i] = requests'[i].input
      BY <1>11, <2>1, Zenon
    <3>2. CASE i \in 1..Len(requests)
      BY <1>1, <1>5, <1>8, <3>1, <3>2, Zenon
    <3>3. CASE i = Len(requests) + 1
      BY <1>1, <1>5, <1>8, <3>1, <3>3, Zenon
    <3> QED  BY <2>2, <3>2, <3>3, Zenon
  <2> QED  BY <2>1, <2>3, Zenon
<1>13. u = t
  BY <1>8, <1>11, <1>12, SeqEqual, SMTT(30)
<1> QED  BY <1>2, <1>3, <1>7, <1>9, <1>13

LEMMA InputsServed ==
    ASSUME requests \in Seq(RequestSet), requests # <<>>, requests' = Tail(requests), OthersKept
    PROVE  /\ Inputs' = Tail(Inputs) /\ OthersKept' /\ Inputs # <<>> /\ Head(Inputs) = Head(requests).input
           /\ Head(requests).kind # "ConsoleInput" => Head(requests).input = 0
<1>1. Len(requests) \in Nat /\ 1 \in 1..Len(requests) /\ Head(requests) = requests[1]
  OBVIOUS
<1>2. /\ Len(requests') = Len(requests) - 1
      /\ \A i \in 1..Len(requests') : requests'[i] = requests[i + 1] /\ i + 1 \in 1..Len(requests)
  BY <1>1
<1>3. OthersKept' /\ (Head(requests).kind # "ConsoleInput" => Head(requests).input = 0)
  BY <1>1, <1>2 DEF OthersKept
<1>4. PICK s : s = Inputs
  OBVIOUS
<1>5. \A i \in 1..Len(requests) : requests[i].input \in Int
  <2>1. \A i \in 1..Len(requests) : requests[i] \in RequestSet
    BY ElementOfSeq, Zenon
  <2>2. \A any \in RequestSet : any.input \in Int
    BY DEF RequestSet
  <2> QED  BY <2>1, <2>2, Zenon
<1>6. s \in Seq(Int) /\ Len(s) = Len(requests) /\ \A i \in 1..Len(requests) : s[i] = requests[i].input
  BY <1>1, <1>4, <1>5 DEF Inputs
<1>7. s # <<>> /\ Head(s) = Head(requests).input
  BY <1>1, <1>6
<1>8. PICK t : t = Tail(s)
  BY Zenon
<1>9. t \in Seq(Int) /\ Len(t) = Len(s) - 1
  BY <1>6, <1>7, <1>8
<1>10. \A i \in 1..Len(t) : t[i] = s[i + 1]
  BY <1>6, <1>7, <1>8, <1>9
<1>11. PICK u : u = Inputs'
  OBVIOUS
<1>12. \A i \in 1..Len(requests') : requests'[i].input \in Int
  BY <1>2, <1>5
<1>13. u \in Seq(Int) /\ Len(u) = Len(requests') /\ \A i \in 1..Len(requests') : u[i] = requests'[i].input
  BY <1>1, <1>2, <1>11, <1>12 DEF Inputs
<1>14. Len(u) = Len(t) /\ \A i \in 1..Len(u) : u[i] = t[i]
  <2>1. Len(u) = Len(t) /\ Len(u) = Len(requests')
    BY <1>2, <1>6, <1>9, <1>13, Zenon
  <2>2. ASSUME NEW i \in 1..Len(u) PROVE u[i] = t[i]
    <3>1. u[i] = requests'[i].input /\ requests'[i] = requests[i + 1] /\ i + 1 \in 1..Len(requests)
      BY <1>2, <1>13, <2>1, Zenon
    <3>2. t[i] = s[i + 1]
      BY <1>10, <2>1, Zenon
    <3> QED  BY <1>6, <3>1, <3>2, Zenon
  <2> QED  BY <2>1, <2>2, Zenon
<1>15. u = t
  BY <1>9, <1>13, <1>14, SeqEqual, Zenon
<1> QED  BY <1>3, <1>4, <1>7, <1>8, <1>11, <1>15, SMTT(30)

\* The facts of the state the lemmas on the parts need.
LEMMA KeyFacts ==
    ASSUME SandboxInv, KeyKept, machine = "up"
    PROVE  /\ Got \in Seq(0..app.made) /\ Queued \in Seq(0..app.made) /\ Inputs \in Seq(0..app.made)
           /\ typed \in Seq(0..app.made) /\ OthersKept /\ Blocks(PriorOf, Got, Queued, Inputs, typed)
           /\ PriorOf \in [0..app.made -> SUBSET Ids] /\ 0 \in 0..app.made /\ PriorOf[0] = {} /\ 0 \notin Ids
           /\ requests \in Seq(RequestSet) /\ device \in [Devices -> DeviceState] /\ device["console"] \in DeviceState
<1>1. app.made \in Nat
  BY DEF SandboxInv, ServerType, AppType, AppSet
<1>2. 0 \notin Ids /\ 0 \in 0..app.made
  BY <1>1, SandboxAssumption DEF Ids
<1>3. PriorOf \in [0..app.made -> SUBSET Ids]
  BY DEF PriorOf, Prior
<1>4. PriorOf[0] = {}
  BY <1>2 DEF PriorOf, Prior
<1>5. requests \in Seq(RequestSet) /\ device \in [Devices -> DeviceState] /\ device["console"] \in DeviceState
  BY DEF SandboxInv, WakeInv, MachineType, Devices
<1> QED  BY <1>2, <1>3, <1>4, <1>5 DEF KeyKept

LEMMA KeyQuiet ==
    ASSUME SandboxInv, KeyKept, machine = "up", UNCHANGED <<requests, typed>>,
           device'["console"].got = device["console"].got, device'["console"].queued = device["console"].queued
    PROVE  KeyMoves
<1>1. Got' = Got /\ Queued' = Queued /\ Inputs' = Inputs /\ OthersKept'
  BY KeyFacts DEF Got, Queued, Inputs, OthersKept
<1>2. OnTheWay' = OnTheWay
  BY <1>1, SMTT(30) DEF OnTheWay
<1> QED  BY <1>1, <1>2, KeyFacts, SMTT(30) DEF KeyMoves

LEMMA KeySend ==
    ASSUME SandboxInv, KeyKept, machine = "up", NEW k \in Kinds \ {"ConsoleInput"}, NEW a \in Args, Send(Request(k, a)),
           typed' = typed,
           device'["console"].got = device["console"].got, device'["console"].queued = device["console"].queued
    PROVE  KeyMoves
<1>1. Request(k, a) \in RequestSet /\ Request(k, a).kind = k /\ Request(k, a).input = 0
  BY RequestTypes DEF Request
<1>2. Got' = Got /\ Queued' = Queued
  BY DEF Got, Queued
<1>3. Inputs' = Append(Inputs, 0) /\ OthersKept'
  BY <1>1, KeyFacts, InputsSent, SMTT(30)
<1>4. PICK z \in 0..app.made : z = 0
  BY KeyFacts, SMTT(30)
<1>5. /\ Append(Inputs, z) \in Seq(0..app.made) /\ Blocks(PriorOf, Got, Queued, Append(Inputs, z), typed)
      /\ \A x \in Ids : x \in AllOf(Got, Queued, Inputs, typed) => x \in AllOf(Got, Queued, Append(Inputs, z), typed)
  BY <1>4, KeyFacts, BlocksSend, Zenon
<1> QED  BY <1>2, <1>3, <1>4, <1>5, KeyFacts, SMTT(30) DEF KeyMoves, OnTheWay

LEMMA KeyForward ==
    ASSUME SandboxInv, KeyKept, machine = "up", Forward
    PROVE  KeyMoves
<1>1. typed # <<>> /\ typed' = Tail(typed) /\ Send(ConsoleInput(Head(typed))) /\ device' = device
  BY Zenon DEF Forward
<1>2. Head(typed) \in Int
  BY <1>1 DEF SandboxInv, WakeInv, MachineType
<1>3. ConsoleInput(Head(typed)) \in RequestSet /\ ConsoleInput(Head(typed)).kind = "ConsoleInput"
      /\ ConsoleInput(Head(typed)).input = Head(typed)
  BY <1>2, RequestTypes, Zenon DEF ConsoleInput
<1>4. Inputs' = Append(Inputs, Head(typed)) /\ OthersKept'
  BY <1>1, <1>3, KeyFacts, InputsSent
<1>5. Got' = Got /\ Queued' = Queued
  BY <1>1 DEF Got, Queued
<1>6. /\ Append(Inputs, Head(typed)) \in Seq(0..app.made) /\ Tail(typed) \in Seq(0..app.made)
      /\ Blocks(PriorOf, Got, Queued, Append(Inputs, Head(typed)), Tail(typed))
      /\ \A x \in Ids : x \in AllOf(Got, Queued, Inputs, typed) =>
                            x \in AllOf(Got, Queued, Append(Inputs, Head(typed)), Tail(typed))
  BY <1>1, KeyFacts, BlocksForward, Zenon
<1> QED  BY <1>1, <1>4, <1>5, <1>6, KeyFacts, Zenon DEF KeyMoves, OnTheWay

LEMMA KeyServe ==
    ASSUME SandboxInv, KeyKept, machine = "up", requests # <<>>, requests' = Tail(requests),
           Head(requests).kind # "ConsoleInput", typed' = typed,
           device'["console"] = device["console"] \/ device'["console"] = Deliver("console", device["console"])
    PROVE  KeyMoves
<1>1. Inputs' = Tail(Inputs) /\ OthersKept' /\ Inputs # <<>> /\ Head(Inputs) \notin Ids
  BY KeyFacts, InputsServed
<1>2. /\ Tail(Inputs) \in Seq(0..app.made) /\ Blocks(PriorOf, Got, Queued, Tail(Inputs), typed)
      /\ \A x \in Ids : x \in AllOf(Got, Queued, Inputs, typed) => x \in AllOf(Got, Queued, Tail(Inputs), typed)
  BY <1>1, KeyFacts, BlocksServe, Zenon
<1>3. CASE device'["console"] = device["console"]
  <2>1. Got' = Got /\ Queued' = Queued
    BY <1>3 DEF Got, Queued
  <2> QED  BY <1>1, <1>2, <2>1, KeyFacts, Zenon DEF KeyMoves, OnTheWay
<1>4. CASE device'["console"] = Deliver("console", device["console"])
  <2>1. "console" \in Devices /\ device["console"] \in DeviceState
    BY KeyFacts, SMTT(30) DEF Devices
  <2>2. PICK n \in 0..Len(Queued) : Queued' = SubSeq(Queued, n + 1, Len(Queued)) /\ Got' = Got \o SubSeq(Queued, 1, n)
    BY <1>4, <2>1, DeliverMoves, Zenon DEF Got, Queued
  <2>3. PICK r \in Seq(0..app.made) : r = Tail(Inputs)
    BY <1>2, Zenon
  <2>4. Blocks(PriorOf, Got, Queued, r, typed)
    BY <1>2, <2>3, SMTT(30)
  <2>5. /\ Got \o SubSeq(Queued, 1, n) \in Seq(0..app.made) /\ SubSeq(Queued, n + 1, Len(Queued)) \in Seq(0..app.made)
        /\ Blocks(PriorOf, Got \o SubSeq(Queued, 1, n), SubSeq(Queued, n + 1, Len(Queued)), r, typed)
        /\ \A x \in Ids : x \in AllOf(Got, Queued, r, typed) =>
                              x \in AllOf(Got \o SubSeq(Queued, 1, n), SubSeq(Queued, n + 1, Len(Queued)), r, typed)
    BY <2>4, KeyFacts, BlocksDeliver, Zenon
  <2> QED  BY <1>1, <1>2, <2>2, <2>3, <2>5, KeyFacts, Zenon DEF KeyMoves, OnTheWay
<1> QED  BY <1>3, <1>4

LEMMA KeyInput ==
    ASSUME SandboxInv, KeyKept, machine = "up", MainInput
    PROVE  KeyMoves
<1> DEFINE y == Head(requests).input
<1> DEFINE this == Input(device["console"], y)
<1>1. requests # <<>> /\ requests' = Tail(requests) /\ typed' = typed
      /\ device' = [device EXCEPT !["console"] = Deliver("console", this)]
  BY Zenon DEF MainInput, Served
<1>2. Inputs' = Tail(Inputs) /\ OthersKept' /\ Inputs # <<>> /\ Head(Inputs) = y
  BY <1>1, KeyFacts, InputsServed
<1>3. y \in Int
  <2>1. Head(requests) \in RequestSet
    BY <1>1, KeyFacts, SMTT(30)
  <2> QED  BY <2>1 DEF RequestSet
<1>4. /\ Append(Queued, Head(Inputs)) \in Seq(0..app.made) /\ Tail(Inputs) \in Seq(0..app.made)
      /\ Blocks(PriorOf, Got, Append(Queued, Head(Inputs)), Tail(Inputs), typed)
      /\ \A x \in Ids : x \in AllOf(Got, Queued, Inputs, typed) =>
                            x \in AllOf(Got, Append(Queued, Head(Inputs)), Tail(Inputs), typed)
  BY <1>2, KeyFacts, BlocksInput, Zenon
<1>5. PICK q \in Seq(0..app.made) : q = Append(Queued, Head(Inputs))
  BY <1>4, Zenon
<1>6. PICK r \in Seq(0..app.made) : r = Tail(Inputs)
  BY <1>4, Zenon
<1>7. this \in DeviceState /\ this.queued = q /\ this.got = Got
  <2>1. device["console"] \in DeviceState
    BY KeyFacts
  <2>2. Append(device["console"].queued, y) \in Seq(Int)
    BY <1>3, <2>1 DEF DeviceState
  <2> QED  BY <1>2, <1>5, <2>1, <2>2, Zenon DEF Input, DeviceState, Queued, Got
<1> HIDE DEF this
<1>8. device'["console"] = Deliver("console", this) /\ "console" \in Devices
  BY <1>1, KeyFacts, SMTT(30) DEF Devices
<1>9. PICK n \in 0..Len(q) : Queued' = SubSeq(q, n + 1, Len(q)) /\ Got' = Got \o SubSeq(q, 1, n)
  BY <1>7, <1>8, DeliverMoves, Zenon DEF Got, Queued
<1>10. Blocks(PriorOf, Got, q, r, typed)
  BY <1>4, <1>5, <1>6
<1>11. /\ Got \o SubSeq(q, 1, n) \in Seq(0..app.made) /\ SubSeq(q, n + 1, Len(q)) \in Seq(0..app.made)
       /\ Blocks(PriorOf, Got \o SubSeq(q, 1, n), SubSeq(q, n + 1, Len(q)), r, typed)
       /\ \A x \in Ids : x \in AllOf(Got, q, r, typed) =>
                             x \in AllOf(Got \o SubSeq(q, 1, n), SubSeq(q, n + 1, Len(q)), r, typed)
  BY <1>10, KeyFacts, BlocksDeliver, Zenon
<1> QED  BY <1>1, <1>2, <1>4, <1>5, <1>6, <1>9, <1>11, KeyFacts, Zenon DEF KeyMoves, OnTheWay

LEMMA KeyMachine ==
    ASSUME SandboxInv, KeyKept, machine = "up", machine' = "up", MachineStep
    PROVE  KeyMoves
<1>0. device \in [Devices -> DeviceState] /\ "console" \in Devices /\ "vsock" \in Devices /\ "console" # "vsock"
  BY KeyFacts DEF Devices
<1>1. /\ "BootConsole" \in Kinds \ {"ConsoleInput"} /\ "SpawnCpu" \in Kinds \ {"ConsoleInput"}
      /\ "CpuExited" \in Kinds \ {"ConsoleInput"} /\ "Terminate" \in Kinds \ {"ConsoleInput"}
      /\ "RunOnMain" \in Kinds \ {"ConsoleInput"} /\ "Wake" \in Kinds \ {"ConsoleInput"}
      /\ "" \in Args /\ "panicked" \in Args /\ "poweroff" \in Args /\ Devices \subseteq Args
  BY DEF Kinds, Args, Devices
<1>2. CASE MainInput
  BY <1>2, KeyInput
<1>3. CASE MainPoll \/ MainPrint \/ MainSpawn \/ MainCpuExited
  <2>1. requests # <<>> /\ requests' = Tail(requests) /\ Head(requests).kind # "ConsoleInput" /\ typed' = typed
        /\ (device' = device \/ device' = [device EXCEPT !["vsock"] = Deliver("vsock", @)])
    BY <1>3, Zenon DEF MainPoll, MainPrint, MainSpawn, MainCpuExited, Served
  <2>2. device'["console"] = device["console"]
    BY <1>0, <2>1
  <2> QED  BY <2>1, <2>2, KeyServe
<1>4. CASE MainNotify
  <2> DEFINE d == Head(requests).arg
  <2>1. requests # <<>> /\ requests' = Tail(requests) /\ Head(requests).kind # "ConsoleInput" /\ typed' = typed
        /\ device' = [device EXCEPT ![d] = Deliver(d, device[d])]
    BY <1>4 DEF MainNotify, Served, Kick
  <2> HIDE DEF d
  <2>2. device'["console"] = device["console"] \/ device'["console"] = Deliver("console", device["console"])
    <3>1. CASE d = "console"
      BY <1>0, <2>1, <3>1
    <3>2. CASE d # "console"
      BY <1>0, <2>1, <3>2
    <3> QED  BY <3>1, <3>2
  <2> QED  BY <2>1, <2>2, KeyServe, SMTT(30)
<1>5. CASE MainTerminate \/ MainFails \/ Tell
  <2>1. machine' # "up"
    BY <1>5, Zenon DEF MainTerminate, MainFails, Tell
  <2> QED  BY <2>1
<1>6. CASE Forward
  BY <1>6, KeyForward
<1>7. CASE Wake
  <2>1. Send(Request("Wake", "")) /\ UNCHANGED <<typed, device>>
    BY <1>7, Zenon DEF Wake
  <2> QED  BY <1>1, <2>1, KeySend, Zenon
<1>8. CASE Pushes
  <2>1. PICK x : Push(x)
    BY <1>8, Zenon DEF Pushes
  <2>2. UNCHANGED <<requests, typed>> /\ device' = [device EXCEPT !["vsock"].queued = Append(@, x)]
    BY <2>1, Zenon DEF Push
  <2>3. device'["console"] = device["console"]
    BY <1>0, <2>2
  <2> QED  BY <2>2, <2>3, KeyQuiet
<1>9. ASSUME NEW d \in Devices, GuestOffers(d) PROVE KeyMoves
  <2>1. /\ UNCHANGED <<requests, typed>>
        /\ device' = [device EXCEPT ![d] = [device[d] EXCEPT !.offered = @ + 1, !.offers = @ + 1, !.kick = TRUE]]
    BY <1>0, <1>9, Zenon DEF GuestOffers
  <2>2. device[d] \in DeviceState
    BY <1>0
  <2> DEFINE new == [device[d] EXCEPT !.offered = @ + 1, !.offers = @ + 1, !.kick = TRUE]
  <2>3. new.got = device[d].got /\ new.queued = device[d].queued /\ device' = [device EXCEPT ![d] = new]
    BY <2>1, <2>2 DEF DeviceState
  <2> HIDE DEF new
  <2>4. device'["console"].got = device["console"].got /\ device'["console"].queued = device["console"].queued
    BY <1>0, <2>3
  <2> QED  BY <2>1, <2>4, KeyQuiet
<1>10. ASSUME NEW d \in Devices, GuestKicks(d) PROVE KeyMoves
  <2>1. /\ Send(Request("RunOnMain", d)) /\ typed' = typed
        /\ device' = [device EXCEPT ![d] = [device[d] EXCEPT !.kick = FALSE]]
    BY <1>0, <1>10 DEF GuestKicks
  <2>2. device[d] \in DeviceState /\ d \in Args
    BY <1>0, <1>1, Zenon
  <2> DEFINE new == [device[d] EXCEPT !.kick = FALSE]
  <2>3. new.got = device[d].got /\ new.queued = device[d].queued /\ device' = [device EXCEPT ![d] = new]
    BY <2>1, <2>2 DEF DeviceState
  <2> HIDE DEF new
  <2>4. device'["console"].got = device["console"].got /\ device'["console"].queued = device["console"].queued
    BY <1>0, <2>3
  <2> QED  BY <1>1, <2>1, <2>2, <2>4, KeySend, Zenon
<1>11. CASE GuestPrints \/ GuestSpawns \/ CpuEnds
  <2>1. /\ \/ Send(Request("BootConsole", "")) \/ Send(Request("SpawnCpu", ""))
           \/ Send(Request("CpuExited", "")) \/ Send(Request("Terminate", "panicked"))
        /\ UNCHANGED <<typed, device>>
    BY <1>11, Zenon DEF GuestPrints, GuestSpawns, CpuEnds
  <2> QED  BY <1>1, <2>1, KeySend, Zenon
<1>12. CASE \E r \in {"poweroff", "panicked"} : GuestTerminates(r)
  <2>1. PICK r \in {"poweroff", "panicked"} : GuestTerminates(r)
    BY <1>12
  <2>2. Send(Request("Terminate", r)) /\ UNCHANGED <<typed, device>>
    BY <2>1, Zenon DEF GuestTerminates
  <2>3. r \in Args
    BY <1>1, Zenon
  <2> QED  BY <1>1, <2>2, <2>3, KeySend, Zenon
<1> QED  BY <1>2, <1>3, <1>4, <1>5, <1>6, <1>7, <1>8, <1>9, <1>10, <1>11, <1>12, Zenon DEF MachineStep, Main, Guest

\* What console.write types is behind its prior writes: they have been served, so they are on the way.
LEMMA KeyType ==
    ASSUME SandboxInv, CallsInv, KeyKept, machine = "up", NEW y \in Ids, worker[y].pc = "write", Type(y)
    PROVE  KeyMoves /\ y \in OnTheWay'
<1>0. proc = "up" /\ app.made \in Nat /\ y \in Nat /\ app.after \in [Ids -> SUBSET Ids]
  <2>1. proc \in {"up", "gone"} /\ app \in AppSet /\ OverKept
    BY DEF SandboxInv, ServerType, AppType
  <2>2. proc # "gone"
    BY <2>1 DEF OverKept
  <2> QED  BY <2>1, <2>2, SandboxAssumption DEF AppSet, Ids
<1>1. y \in 0..app.made
  <2>1. ~(y > app.made)
    BY DEF CallsInv, CallsKept
  <2> QED  BY <1>0, <2>1
<1>2. \A x \in PriorOf[y] : x \in OnTheWay
  <2> SUFFICES ASSUME NEW x \in PriorOf[y] PROVE x \in OnTheWay
    OBVIOUS
  <2>1. x \in Ids /\ x \in app.after[y] /\ app.method[x] = "write"
    BY <1>1 DEF PriorOf, Prior
  <2>2. Answered(x)
    BY <1>0, <2>1, Zenon DEF CallsInv, AnsweredKept
  <2>3. Worked(x)
    BY <2>2 DEF Answered, Worked
  <2> QED  BY <2>1, <2>3 DEF KeyKept
<1>3. typed' = Append(typed, y) /\ UNCHANGED <<requests, device>>
  BY Zenon DEF Type
<1>4. Got' = Got /\ Queued' = Queued /\ Inputs' = Inputs /\ OthersKept'
  BY <1>3, KeyFacts, SMTT(30) DEF Got, Queued, Inputs, OthersKept
<1>5. /\ Append(typed, y) \in Seq(0..app.made) /\ Blocks(PriorOf, Got, Queued, Inputs, Append(typed, y))
      /\ \A x : x \in AllOf(Got, Queued, Inputs, typed) \/ x = y => x \in AllOf(Got, Queued, Inputs, Append(typed, y))
  BY <1>1, <1>2, KeyFacts, BlocksType, Zenon DEF OnTheWay
<1> QED  BY <1>3, <1>4, <1>5, KeyFacts, Zenon DEF KeyMoves, OnTheWay

\* A step that keeps the order keeps the invariant, if the prior writes of what is on the way get no more
\* and whoever is served now was served before or is on the way.
LEMMA KeyShape ==
    ASSUME SandboxInv, KeyKept, machine = "up", KeyMoves,
           app.made \in Nat, app'.made \in Nat, app.made <= app'.made,
           \A y \in 0..app.made : \A x \in Prior(y)' : x \in Prior(y),
           \A x \in Ids : app'.method[x] = "write" /\ Worked(x)' =>
               (app.method[x] = "write" /\ Worked(x)) \/ x \in OnTheWay'
    PROVE  KeyKept'
<1>1. \A y \in 0..app.made : y \in 0..app'.made
  OBVIOUS
<1>2. \A s \in Seq(0..app.made) : s \in Seq(0..app'.made)
  BY <1>1, SMTT(30)
<1>3. \A y \in 0..app.made : \A x \in PriorOf'[y] : x \in PriorOf[y]
  <2>1. \A y \in 0..app.made : PriorOf[y] = Prior(y)
    BY DEF PriorOf
  <2>2. \A y \in 0..app.made : PriorOf'[y] = Prior(y)'
    BY <1>1, SMTT(30) DEF PriorOf
  <2> QED  BY <2>1, <2>2, Zenon
<1>4. Blocks(PriorOf', Got', Queued', Inputs', typed')
  BY <1>3, BlocksFewer, Zenon DEF KeyMoves
<1>5. \A x \in Ids : app'.method[x] = "write" /\ Worked(x)' => x \in OnTheWay'
  BY DEF KeyKept, KeyMoves
<1> QED  BY <1>2, <1>4, <1>5, Zenon DEF KeyMoves, KeyKept

\* When the machine is booted nothing is on the way.
LEMMA KeyBoots ==
    ASSUME SandboxInv, CallsInv, KeyKept, machine = "off", machine' = "up", NEW i \in Ids, Work(i)
    PROVE  KeyKept'
<1>0. worker \in [Ids -> WorkerSet] /\ ServerType
  BY DEF SandboxInv, ServerType
<1>1. app' = app /\ worker[i].pc = "boot" /\ \E new \in WorkerSet : worker' = [worker EXCEPT ![i] = new] /\ new.pc = "agent"
  <2>1. StartBoots(i)
    <3>1. CASE StopMethod(i) \/ StartReady(i) \/ Answers(i)
      BY <3>1, Zenon DEF StopMethod, StartReady, Answers
    <3>2. CASE StartChecks(i) \/ StartFails(i) \/ StartAgent(i) \/ StartPublishes(i) \/ Exec(i) \/ ReplyMethod(i) \/ ConsoleWrite(i)
      BY <3>2, Zenon DEF StartChecks, StartFails, StartAgent, StartPublishes, Exec, ReplyMethod, ConsoleWrite, Type, machineVars
    <3> QED  BY <3>1, <3>2, Zenon DEF Work, Start
  <2>2. worker[i].pc = "boot" /\ Go(i, "agent") /\ app' = app /\ "agent" \in Pcs
    BY <2>1, Zenon DEF StartBoots, At, Pcs
  <2> QED  BY <1>0, <2>2, GoFacts
<1>2. UNCHANGED <<requests, typed, device>>
  <2>1. CASE StartBoots(i)
    BY <2>1, Zenon DEF StartBoots
  <2>2. CASE ~StartBoots(i)
    <3>1. PICK new \in WorkerSet : worker' = [worker EXCEPT ![i] = new] /\ Moves(i, new)
      BY <1>0, WorkFacts
    <3>2. worker'[i] = new
      BY <1>0, <3>1, OneWorker
    <3>3. new.pc = "agent"
      BY <1>0, <1>1, <3>2, OneWorker, SMTT(30)
    <3> QED  BY <1>1, <2>2, <3>1, <3>3 DEF Moves
  <2> QED  BY <2>1, <2>2
<1>3. /\ requests = <<>> /\ typed = <<>> /\ device["console"].got = <<>> /\ device["console"].queued = <<>>
      /\ \A x \in Ids : app.method[x] = "write" => ~Worked(x)
  BY SMTT(30) DEF CallsInv, BootKept
<1>4. Got' = <<>> /\ Queued' = <<>> /\ typed' = <<>> /\ requests' = <<>>
  BY <1>2, <1>3 DEF Got, Queued
<1>5. Inputs' = <<>> /\ OthersKept'
  BY <1>4 DEF Inputs, OthersKept
<1>6. <<>> \in Seq(0..app'.made)
  BY EmptySeq, SMTT(30)
<1>7. Blocks(PriorOf', <<>>, <<>>, <<>>, <<>>)
  BY DEF Blocks, Ordered
<1>8. \A x \in Ids : app'.method[x] = "write" => ~Worked(x)'
  <2>1. PICK new \in WorkerSet : worker' = [worker EXCEPT ![i] = new] /\ new.pc = "agent"
    BY <1>1, Zenon
  <2>2. worker'[i] = new /\ \A x \in Ids : x # i => worker'[x] = worker[x]
    BY <1>0, <2>1, OneWorker
  <2> QED  BY <1>1, <1>3, <2>1, <2>2 DEF Worked
<1> QED  BY <1>4, <1>5, <1>6, <1>7, <1>8, Zenon DEF KeyKept

LEMMA KeyNext ==
    ASSUME SandboxInv, CallsInv, KeyKept, Next
    PROVE  KeyKept'
<1> SUFFICES ASSUME machine' = "up" PROVE KeyKept'
  BY DEF KeyKept
<1>0. /\ ServerType /\ LinesKept /\ load \in Loads /\ worker \in [Ids -> WorkerSet] /\ app \in AppSet /\ app.made \in Nat
      /\ CallsKept /\ OverKept /\ proc \in {"up", "gone"}
  BY DEF SandboxInv, ServerType, AppType, AppSet, CallsInv
<1>1. CASE machine = "up"
  <2>0. app.made <= app.made /\ proc = "up"
    BY <1>0, <1>1, SMTT(30) DEF OverKept
  <2>1. ASSUME KeyMoves, app'.made = app.made, app'.method = app.method, app'.after = app.after,
               \A x \in Ids : app'.method[x] = "write" /\ Worked(x)' =>
                   (app.method[x] = "write" /\ Worked(x)) \/ x \in OnTheWay'
        PROVE  KeyKept'
    <3>1. \A y \in 0..app.made : \A x \in Prior(y)' : x \in Prior(y)
      BY <2>1 DEF Prior
    <3> QED  BY <1>0, <1>1, <2>0, <2>1, <3>1, KeyShape, SMTT(30)
  <2>2. ASSUME KeyMoves, app'.made = app.made, app'.method = app.method, app'.after = app.after, worker' = worker
        PROVE  KeyKept'
    <3>1. \A x \in Ids : Worked(x)' => Worked(x)
      BY <2>2 DEF Worked
    <3> QED  BY <2>1, <2>2, <3>1
  <2>3. ASSUME UNCHANGED machineVars PROVE KeyMoves
    <3>1. UNCHANGED <<requests, typed, device>>
      BY <2>3, Zenon DEF machineVars
    <3> QED  BY <1>1, <3>1, KeyQuiet
  <2>4. CASE \E method \in Methods : Calling(method) /\ UNCHANGED <<machineVars, reader, worker, running, proc>>
    <3>1. PICK method \in Methods : Calling(method) /\ UNCHANGED <<machineVars, reader, worker, running, proc>>
      BY <2>4
    <3>2. UNCHANGED machineVars /\ worker' = worker
      BY <3>1, Zenon
    <3>3. PICK id \in Ids : /\ id = app.made + 1 /\ app'.made = id /\ app'.method = [app.method EXCEPT ![id] = method]
                            /\ app'.after = [app.after EXCEPT ![id] = {i \in Ids : app.result[i] = "ok"}]
      BY <1>0, <3>1, CallFacts, Zenon
    <3>4. id > app.made /\ app'.made \in Nat /\ app.made <= app'.made /\ \A y \in 0..app.made : y # id
      BY <1>0, <3>3
    <3>5. worker[id].pc = "none"
      BY <1>0, <3>4 DEF CallsKept
    <3>6. \A x \in Ids : x # id => app'.method[x] = app.method[x] /\ app'.after[x] = app.after[x]
      BY <1>0, <3>3 DEF AppSet
    <3>7. \A x \in Ids : Answered(x) => x # id
      BY <3>5, SMTT(30) DEF Answered
    <3>8. \A y \in 0..app.made : \A x \in Prior(y)' : x \in Prior(y)
      <4> SUFFICES ASSUME NEW y \in 0..app.made, NEW x \in Prior(y)' PROVE x \in Prior(y)
        OBVIOUS
      <4>1. x \in Ids /\ y \in Ids /\ x \in app'.after[y] /\ app'.method[x] = "write"
        BY DEF Prior
      <4>2. x \in app.after[y]
        BY <3>4, <3>6, <4>1
      <4>3. Answered(x)
        BY <2>0, <4>1, <4>2, Zenon DEF CallsInv, AnsweredKept
      <4>4. app.method[x] = "write"
        BY <3>6, <3>7, <4>1, <4>3
      <4> QED  BY <4>1, <4>2, <4>4 DEF Prior
    <3>9. \A x \in Ids : app'.method[x] = "write" /\ Worked(x)' => app.method[x] = "write" /\ Worked(x)
      <4>1. ~Worked(id)
        BY <3>5 DEF Worked
      <4>2. \A x \in Ids : Worked(x)' => Worked(x)
        BY <3>2 DEF Worked
      <4> QED  BY <3>6, <4>1, <4>2
    <3> QED  BY <1>0, <1>1, <2>3, <3>2, <3>4, <3>8, <3>9, KeyShape, SMTT(30)
  <2>5. CASE AppLine
    <3>1. UNCHANGED <<requests, typed, device, worker>>
      BY <2>5, Zenon DEF AppLine
    <3>2. app'.made = app.made /\ app'.method = app.method /\ app'.after = app.after
      BY <1>0, <2>5, LineFacts, Zenon DEF AppKept
    <3> QED  BY <1>1, <2>2, <3>1, <3>2, KeyQuiet
  <2>6. CASE AppSeesEnd
    BY <2>0, <2>6, SMTT(30) DEF AppSeesEnd
  <2>7. CASE AppLeaves
    <3>1. UNCHANGED <<requests, typed, device, worker>>
      BY <2>7, Zenon DEF AppLeaves
    <3>2. app'.made = app.made /\ app'.method = app.method /\ app'.after = [i \in Ids |-> {}]
      BY <1>0, <2>7 DEF AppLeaves, AppSet
    <3>3. \A y \in 0..app.made : \A x \in Prior(y)' : x \in Prior(y)
      BY <3>2 DEF Prior
    <3>4. KeyMoves
      BY <1>1, <3>1, KeyQuiet
    <3>5. \A x \in Ids : Worked(x)' => Worked(x)
      BY <3>1 DEF Worked
    <3> QED  BY <1>0, <1>1, <2>0, <3>2, <3>3, <3>4, <3>5, KeyShape, SMTT(30)
  <2>8. CASE Gone
    <3>1. machine' = "off"
      BY <2>8, Zenon DEF Gone
    <3> QED  BY <3>1
  <2>9. CASE ServeLine
    <3>1. stdin[1] \in Ids /\ UNCHANGED machineVars /\ app' = app
          /\ \E new \in WorkerSet : worker' = [worker EXCEPT ![stdin[1]] = new] /\ new.pc = app.method[stdin[1]]
      BY <1>0, <2>9, ServeLineFacts
    <3>2. PICK new \in WorkerSet : worker' = [worker EXCEPT ![stdin[1]] = new] /\ new.pc = app.method[stdin[1]]
      BY <3>1, Zenon
    <3>3. worker'[stdin[1]] = new /\ \A x \in Ids : x # stdin[1] => worker'[x] = worker[x]
      BY <1>0, <3>1, <3>2, OneWorker
    <3>4. new.pc \notin {"respond", "done"}
      <4>1. new.pc \in Methods
        BY <1>0, <3>1, <3>2 DEF AppSet
      <4> QED  BY <4>1 DEF Methods
    <3>5. \A x \in Ids : Worked(x)' => Worked(x)
      BY <3>3, <3>4 DEF Worked
    <3> QED  BY <2>1, <2>3, <3>1, <3>5, SMTT(30)
  <2>10. CASE ServeJoin \/ ServeEof
    <3>1. UNCHANGED <<machineVars, app, worker>>
      BY <2>10, Zenon DEF ServeJoin, ServeEof
    <3> QED  BY <2>2, <2>3, <3>1
  <2>11. ASSUME Stop \/ requests' = requests, UNCHANGED <<typed, device>> PROVE KeyMoves
    <3>1. "Terminate" \in Kinds \ {"ConsoleInput"} /\ "stopped" \in Args
      BY DEF Kinds, Args
    <3>2. CASE Stop
      BY <1>1, <2>11, <3>1, <3>2, KeySend, SMTT(30) DEF Stop
    <3>3. CASE requests' = requests
      BY <1>1, <2>11, <3>3, KeyQuiet
    <3> QED  BY <2>11, <3>2, <3>3
  <2>12. CASE ServeStops
    <3>1. (Stop \/ requests' = requests) /\ UNCHANGED <<typed, device, app, worker>>
      BY <2>12, Zenon DEF ServeStops
    <3> QED  BY <2>2, <2>11, <3>1
  <2>13. CASE GuestAsks
    <3>1. UNCHANGED <<requests, typed, device, app, worker>>
      BY <2>13, Zenon DEF GuestAsks
    <3> QED  BY <1>1, <2>2, <3>1, KeyQuiet
  <2>14. CASE Machine
    <3>1. MachineStep /\ UNCHANGED <<app, worker>>
      BY <2>14, Zenon DEF Machine, serverVars
    <3> QED  BY <1>1, <2>2, <3>1, KeyMachine
  <2>15. CASE \E i \in Ids : Work(i)
    <3>1. PICK i \in Ids : Work(i)
      BY <2>15
    <3>2. app' = app
      BY <1>0, <3>1, WorkFacts
    <3>3. PICK new \in WorkerSet : worker' = [worker EXCEPT ![i] = new] /\ Moves(i, new)
      BY <1>0, <3>1, WorkFacts
    <3>4. worker'[i] = new /\ \A x \in Ids : x # i => worker'[x] = worker[x]
      BY <1>0, <3>3, OneWorker, SMTT(30)
    <3>5. CASE worker[i].pc = "write" /\ Type(i)
      <4>1. KeyMoves /\ i \in OnTheWay'
        BY <1>1, <3>5, KeyType
      <4>2. \A x \in Ids : Worked(x)' => Worked(x) \/ x = i
        BY <3>4 DEF Worked
      <4> QED  BY <2>1, <3>2, <4>1, <4>2
    <3>6. CASE ~(worker[i].pc = "write" /\ Type(i))
      <4>1. KeyMoves
        <5>1. CASE StopMethod(i)
          BY <2>11, <5>1, Zenon DEF StopMethod
        <5>2. CASE ConsoleWrite(i)
          BY <2>3, <3>6, <5>2, Zenon DEF ConsoleWrite, At
        <5>3. CASE StartReady(i) \/ Answers(i) \/ StartBoots(i)
          <6>1. UNCHANGED <<requests, typed, device>>
            BY <5>3, Zenon DEF StartReady, Answers, StartBoots
          <6> QED  BY <1>1, <6>1, KeyQuiet
        <5>4. CASE StartChecks(i) \/ StartFails(i) \/ StartAgent(i) \/ StartPublishes(i) \/ Exec(i) \/ ReplyMethod(i)
          BY <2>3, <5>4, Zenon DEF StartChecks, StartFails, StartAgent, StartPublishes, Exec, ReplyMethod
        <5> QED  BY <3>1, <5>1, <5>2, <5>3, <5>4, Zenon DEF Work, Start
      <4>2. app.method[i] = "write" /\ new.pc \in {"respond", "done"} /\ new.result = "ok" => Worked(i)
        <5>1. \/ worker[i].pc \in {"none", "respond", "done"} \/ worker[i].pc = app.method[i]
              \/ app.method[i] = "start" /\ worker[i].pc \in {"boot", "agent", "publish", "ready"}
          BY <1>0 DEF CallsKept
        <5>2. \/ new.result = "error"
              \/ /\ new.result = worker[i].result
                 /\ \/ new.pc \in {"boot", "agent", "publish", "ready"}
                    \/ worker[i].pc \in {"ready", "exec", "reply", "stop"}
                    \/ worker[i].pc = "respond"
          BY <3>3, <3>6, Zenon DEF Moves
        <5>3. app.method[i] = "write" => worker[i].pc \notin {"ready", "exec", "reply", "stop"}
          BY <5>1
        <5> QED  BY <5>2, <5>3, Zenon DEF Worked
      <4>3. \A x \in Ids : app'.method[x] = "write" /\ Worked(x)' => app.method[x] = "write" /\ Worked(x)
        BY <3>2, <3>4, <4>2 DEF Worked
      <4> QED  BY <2>1, <3>2, <4>1, <4>3
    <3> QED  BY <3>5, <3>6
  <2> QED  BY <1>0, <2>4, <2>5, <2>6, <2>7, <2>8, <2>9, <2>10, <2>12, <2>13, <2>14, <2>15, Steps, Zenon
<1>2. CASE machine # "up"
  <2>1. machine = "off" /\ \E i \in Ids : Work(i)
    <3>1. CASE Machine
      <4>1. MachineStep
        BY <3>1, Zenon DEF Machine
      <4> QED  BY <1>2, <4>1, Zenon DEF MachineStep, Main, MainInput, MainPoll, MainNotify, MainPrint, MainSpawn, MainCpuExited,
                      MainTerminate, MainFails, Served, Tell, Forward, Wake, Pushes, Push, Guest, GuestOffers, GuestKicks,
                      GuestPrints, GuestSpawns, CpuEnds, GuestTerminates
    <3>2. CASE AppLine \/ AppLeaves \/ GuestAsks \/ ServeStops
      BY <1>2, <3>2, Zenon DEF AppLine, AppLeaves, GuestAsks, ServeStops
    <3>3. CASE AppSeesEnd \/ ServeLine \/ ServeJoin \/ ServeEof \/ UNCHANGED <<machineVars, reader, worker, running, proc>>
      BY <1>2, <3>3, Zenon DEF AppSeesEnd, ServeLine, ServeJoin, ServeEof, machineVars
    <3>4. CASE Gone
      <4>1. machine' = "off"
        BY <3>4, Zenon DEF Gone
      <4> QED  BY <4>1
    <3>5. CASE \E i \in Ids : Work(i)
      <4>1. PICK i \in Ids : Work(i)
        BY <3>5
      <4>2. CASE StartBoots(i)
        BY <3>5, <4>2, Zenon DEF StartBoots, Boot
      <4>3. CASE StopMethod(i) \/ StartReady(i) \/ Answers(i)
        BY <1>2, <4>3, Zenon DEF StopMethod, StartReady, Answers
      <4>4. CASE StartChecks(i) \/ StartFails(i) \/ StartAgent(i) \/ StartPublishes(i) \/ Exec(i) \/ ReplyMethod(i) \/ ConsoleWrite(i)
        BY <1>2, <4>4, Zenon DEF StartChecks, StartFails, StartAgent, StartPublishes, Exec, ReplyMethod, ConsoleWrite, Type,
                                machineVars
      <4> QED  BY <4>1, <4>2, <4>3, <4>4, Zenon DEF Work, Start
    <3> QED  BY <1>0, <3>1, <3>2, <3>3, <3>4, <3>5, Steps, Zenon
  <2> QED  BY <2>1, KeyBoots
<1> QED  BY <1>1, <1>2

TypedInv == SandboxInv /\ CallsInv /\ KeyKept

LEMMA TypedInit == Init => TypedInv
<1> SUFFICES ASSUME Init PROVE TypedInv
  OBVIOUS
<1>1. /\ machine = "off" /\ requests = <<>> /\ stdout = <<>> /\ typed = <<>>
      /\ device = [d \in Devices |-> Idle] /\ waking = 0 /\ cpu = "none"
      /\ app = [here |-> TRUE, made |-> 0, pending |-> {}, method |-> [i \in Ids |-> "none"],
                result |-> [i \in Ids |-> "none"], after |-> [i \in Ids |-> {}], done |-> "none"]
      /\ stdin = <<>> /\ worker = [i \in Ids |-> [pc |-> "none", result |-> "ok"]] /\ ~running
  BY Zenon DEF Init, MachineInit
<1>2. SandboxInv
  BY SandboxInit, SMTT(30)
<1> HIDE DEF Init
<1>3. \A x \in Ids : worker[x].pc = "none" /\ app.method[x] = "none" /\ app.result[x] = "none" /\ app.after[x] = {}
  BY <1>1, SMTT(30)
<1>4. CallsKept
  BY <1>1, <1>3, SMTT(30) DEF CallsKept
<1>5. BootKept
  <2>1. device["console"].got = <<>> /\ device["console"].queued = <<>>
    BY <1>1 DEF Devices, Idle
  <2> QED  BY <1>1, <1>3, <2>1, Zenon DEF BootKept
<1>6. AnsweredKept
  BY <1>1, <1>3, SMTT(30) DEF AnsweredKept
<1>7. KeyKept
  BY <1>1 DEF KeyKept
<1> QED  BY <1>2, <1>4, <1>5, <1>6, <1>7 DEF TypedInv, CallsInv

LEMMA TypedNext == TypedInv /\ [Next]_vars => TypedInv'
<1> SUFFICES ASSUME TypedInv, [Next]_vars PROVE TypedInv'
  OBVIOUS
<1>1. SandboxInv'
  BY SandboxNext DEF TypedInv
<1>2. CASE Next
  <2>1. CallsInv'
    BY <1>2, CallsNext, BootNext, AnsweredNext DEF TypedInv, CallsInv
  <2>2. KeyKept'
    BY <1>2, KeyNext DEF TypedInv
  <2> QED  BY <1>1, <2>1, <2>2 DEF TypedInv
<1>3. CASE UNCHANGED vars
  <2>1. UNCHANGED <<machine, requests, typed, device, waking, cpu, stdout, app, stdin, worker, running, proc>>
    BY <1>3, Zenon DEF vars, machineVars, serverVars
  <2>2. CallsKept' /\ BootKept' /\ AnsweredKept'
    <3>1. CallsKept /\ BootKept /\ AnsweredKept
      BY SMTT(30) DEF TypedInv, CallsInv
    <3>2. CallsKept'
      BY <2>1, <3>1, SMTT(30) DEF CallsKept
    <3>3. BootKept'
      BY <2>1, <3>1, SMTT(30) DEF BootKept, Worked
    <3>4. AnsweredKept'
      BY <2>1, <3>1, Zenon DEF AnsweredKept, Answered
    <3> QED  BY <3>2, <3>3, <3>4
  <2>3. KeyKept'
    <3> SUFFICES ASSUME machine' = "up" PROVE KeyKept'
      BY DEF KeyKept
    <3>1. machine = "up" /\ SandboxInv /\ KeyKept
      BY <2>1 DEF TypedInv
    <3>2. KeyMoves
      BY <2>1, <3>1, KeyQuiet
    <3>3. app.made \in Nat /\ app'.made \in Nat /\ app.made <= app'.made
      BY <2>1, <3>1 DEF SandboxInv, ServerType, AppType, AppSet
    <3>4. \A y \in 0..app.made : \A x \in Prior(y)' : x \in Prior(y)
      BY <2>1 DEF Prior
    <3>5. \A x \in Ids : app'.method[x] = "write" /\ Worked(x)' => app.method[x] = "write" /\ Worked(x)
      BY <2>1 DEF Worked
    <3> QED  BY <3>1, <3>2, <3>3, <3>4, <3>5, KeyShape, SMTT(30)
  <2> QED  BY <1>1, <2>2, <2>3 DEF TypedInv, CallsInv
<1> QED  BY <1>2, <1>3

\* Two writes of which the second was called when the first had been answered reach the guest in that
\* order, whichever of the server's threads runs when: the write hands its bytes to console_input's
\* channel before it answers, and channel, main thread, write_input and deliver keep their order.
THEOREM TypedInOrderHolds == Spec => []TypedInOrder
<1>1. TypedInv => TypedInOrder
  <2> SUFFICES ASSUME TypedInv, machine = "up" PROVE TypedInOrder
    BY DEF TypedInOrder
  <2>1. /\ Got \in Seq(0..app.made) /\ Queued \in Seq(0..app.made) /\ Inputs \in Seq(0..app.made)
        /\ typed \in Seq(0..app.made) /\ Blocks(PriorOf, Got, Queued, Inputs, typed)
    BY KeyFacts, SMTT(30) DEF TypedInv
  <2>2. ASSUME NEW s \in Seq(0..app.made), NEW C, Ordered(PriorOf, C, s) PROVE InOrder(C, s)
    <3>1. \A j \in 1..Len(s) : PriorOf[s[j]] = Prior(s[j])
      <4>1. \A j \in 1..Len(s) : s[j] \in 0..app.made
        BY ElementOfSeq, Zenon
      <4>2. \A y \in 0..app.made : PriorOf[y] = Prior(y)
        BY DEF PriorOf
      <4> QED  BY <4>1, <4>2, Zenon
    <3> QED  BY <2>2, <3>1 DEF InOrder, Ordered
  <2>3. InOrder({}, Got) /\ InOrder(Elements(Got), Queued)
    BY <2>1, <2>2 DEF Blocks
  <2>4. InOrder(Elements(Got) \union Elements(Queued), Inputs)
    BY <2>1, <2>2 DEF Blocks
  <2>5. InOrder(Elements(Got) \union Elements(Queued) \union Elements(Inputs), typed)
    BY <2>1, <2>2 DEF Blocks
  <2> QED  BY <2>3, <2>4, <2>5, Zenon DEF TypedInOrder, Got, Queued
<1> QED  BY <1>1, TypedInit, TypedNext, PTL DEF Spec
==============================================================================
