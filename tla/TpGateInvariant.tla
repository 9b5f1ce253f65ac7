-------------------------- MODULE TpGateInvariant --------------------------
(***************************************************************************)
(* The inductive invariant of the gate transport, for two engines that run *)
(* the same program (~MayDiverge), and the first part of the proof that    *)
(* every step keeps it: the order of the decode messages, type correctness, *)
(* the lemmas on the parts of the invariant, and the operations that carry *)
(* bulk messages.  TpGateProofs has the other steps and the results.       *)
(*                                                                         *)
(* The messages of the decode gates are numbered in the order in which they *)
(* are sent: the rows of gate 1, its auxiliary payload if its slot has one, *)
(* the rows of gate 2, and so on.  Receives posted and messages sent are then *)
(* intervals of numbers, and that each message meets its receive means that *)
(* both intervals begin at the same number.                                *)
(*                                                                         *)
(* The invariant speaks of the progress P of each rank: where it is in its *)
(* operation.  For a rank that has not failed that is op; a failed rank has *)
(* left its operation, but what it sent and posted before it failed is still *)
(* in the queues of its peer, so P keeps for it the place where it was when *)
(* it failed.                                                              *)
(***************************************************************************)
EXTENDS TpGate, FiniteSetTheorems, WellFoundedInduction, TLAPS

(* A nonempty set of naturals has a least element.                         *)
LEMMA LeastNat == ASSUME NEW S \in SUBSET Nat, S # {} PROVE \E x \in S : \A y \in S : x <= y
<1>1. PICK x \in S : \A y \in S : ~(<<y, x>> \in OpToRel(<, Nat))
  BY NatLessThanWellFounded, WFMin
<1>2. \A y \in S : x <= y
  <2> SUFFICES ASSUME NEW y \in S PROVE x <= y
    OBVIOUS
  <2>1. <<y, x>> \in Nat \X Nat /\ <<y, x>>[1] = y /\ <<y, x>>[2] = x
    OBVIOUS
  <2>2. ~(y < x)
    BY <1>1, <2>1 DEF OpToRel
  <2> QED BY <2>2
<1> QED BY <1>2

(* A set of naturals up to k that holds 0 and what follows each of its     *)
(* elements holds all of them.                                             *)
LEMMA UpTo ==
  ASSUME NEW k \in Nat, NEW T \in SUBSET (0 .. k), 0 \in T,
         \A n \in 0 .. k : n # k /\ n \in T => n + 1 \in T
  PROVE  T = 0 .. k
<1> DEFINE R == (0 .. k) \ T
<1>1. SUFFICES ASSUME R # {} PROVE FALSE
  OBVIOUS
<1>2. R \in SUBSET Nat
  OBVIOUS
<1> HIDE DEF R
<1>3. PICK x \in R : \A y \in R : x <= y
  BY <1>1, <1>2, LeastNat
<1>4. x \in 0 .. k /\ x # 0 /\ x \notin T
  BY <1>3 DEF R
<1>5. x - 1 \in 0 .. k /\ x - 1 # k /\ (x - 1) + 1 = x
  BY <1>4
<1>6. x - 1 \in T
  <2>1. x - 1 \notin R
    BY <1>3, <1>4
  <2> QED BY <1>5, <2>1 DEF R
<1> QED BY <1>4, <1>5, <1>6

-----------------------------------------------------------------------------
(* The places of s that hold an element of V, and how many they are.       *)
Picks(s, V) == {i \in 1 .. Len(s) : s[i] \in V}
Count(s, V) == Cardinality(Picks(s, V))

(* The numbers up to n are n.                                              *)
LEMMA UpToCount == ASSUME NEW n \in Nat PROVE IsFiniteSet(1 .. n) /\ Cardinality(1 .. n) = n
<1>1. Cardinality(1 .. n) = IF 1 > n THEN 0 ELSE n - 1 + 1
  BY FS_Interval
<1> QED BY <1>1, FS_Interval

(* A count is a natural number.                                            *)
LEMMA CountType ==
  ASSUME NEW s, Len(s) \in Nat, NEW V
  PROVE  Count(s, V) \in Nat /\ IsFiniteSet(Picks(s, V)) /\ Count(s, V) <= Len(s)
<1>1. IsFiniteSet(1 .. Len(s)) /\ Cardinality(1 .. Len(s)) = Len(s)
  BY UpToCount
<1>2. Picks(s, V) \in SUBSET (1 .. Len(s))
  BY DEF Picks
<1> HIDE DEF Picks
<1> QED BY <1>1, <1>2, FS_Subset, FS_CardinalityType DEF Count

(* The count is zero exactly when no element is in V.                      *)
LEMMA CountZero ==
  ASSUME NEW s, Len(s) \in Nat, NEW V
  PROVE  Count(s, V) = 0 <=> \A i \in 1 .. Len(s) : s[i] \notin V
<1>1. IsFiniteSet(Picks(s, V))
  BY CountType
<1>2. Count(s, V) = 0 <=> Picks(s, V) = {}
  BY <1>1, FS_EmptySet DEF Count
<1> QED BY <1>2 DEF Picks

(* The count is the length when every element is in V.                     *)
LEMMA CountAll ==
  ASSUME NEW s, Len(s) \in Nat, NEW V, \A i \in 1 .. Len(s) : s[i] \in V
  PROVE  Count(s, V) = Len(s)
<1>1. Picks(s, V) = 1 .. Len(s)
  BY DEF Picks
<1> QED BY <1>1, UpToCount DEF Count

(* The count is one when exactly one place holds an element of V.          *)
LEMMA CountOne ==
  ASSUME NEW s, Len(s) \in Nat, NEW V, NEW k \in 1 .. Len(s),
         \A i \in 1 .. Len(s) : s[i] \in V <=> i = k
  PROVE  Count(s, V) = 1
<1>1. Picks(s, V) = {k}
  BY DEF Picks
<1> QED BY <1>1, FS_Singleton DEF Count

(* An appended element counts if it is in V.                               *)
LEMMA CountAppend ==
  ASSUME NEW S, NEW s \in Seq(S), NEW e, NEW V
  PROVE  Count(Append(s, e), V) = Count(s, V) + (IF e \in V THEN 1 ELSE 0)
<1> DEFINE t == Append(s, e)
<1>1. Len(s) \in Nat /\ Len(t) = Len(s) + 1 /\ t[Len(s) + 1] = e
      /\ \A i \in 1 .. Len(s) : t[i] = s[i]
  OBVIOUS
<1>2. IsFiniteSet(Picks(s, V)) /\ Count(s, V) \in Nat
  BY <1>1, CountType
<1>3. Len(s) + 1 \notin Picks(s, V)
  BY <1>1 DEF Picks
<1> HIDE DEF t
<1>4. CASE e \in V
  <2>1. Picks(t, V) = Picks(s, V) \cup {Len(s) + 1}
    BY <1>1, <1>4 DEF Picks
  <2>2. Cardinality(Picks(s, V) \cup {Len(s) + 1}) = Cardinality(Picks(s, V)) + 1
    BY <1>2, <1>3, FS_AddElement
  <2> QED BY <1>4, <2>1, <2>2 DEF Count, t
<1>5. CASE e \notin V
  <2>1. Picks(t, V) = Picks(s, V)
    BY <1>1, <1>5 DEF Picks
  <2> QED BY <1>2, <1>5, <2>1 DEF Count, t
<1> QED BY <1>4, <1>5

(* Places moved by k are as many as before.                                *)
LEMMA Shifted ==
  ASSUME NEW n \in Nat, NEW A \in SUBSET (1 .. n), NEW k \in Nat
  PROVE  LET B == {k + i : i \in A}
         IN  IsFiniteSet(B) /\ Cardinality(B) = Cardinality(A)
<1> DEFINE B == {k + i : i \in A}
           f == [i \in A |-> k + i]
<1>1. IsFiniteSet(A)
  <2>1. IsFiniteSet(1 .. n)
    BY FS_Interval
  <2> QED BY <2>1, FS_Subset
<1>2. f \in Bijection(A, B)
  BY DEF Bijection, Injection, Surjection, IsInjective
<1>3. ExistsBijection(A, B)
  BY <1>2 DEF ExistsBijection
<1> HIDE DEF B
<1>4. IsFiniteSet(B) /\ Cardinality(B) = Cardinality(A)
  BY <1>1, <1>3, FS_Bijection
<1> QED BY <1>4 DEF B

(* Counts of a concatenation add up.                                       *)
LEMMA CountConcat ==
  ASSUME NEW S, NEW s \in Seq(S), NEW t \in Seq(S), NEW V
  PROVE  Count(s \o t, V) = Count(s, V) + Count(t, V)
<1> DEFINE u == s \o t
           B == {Len(s) + i : i \in Picks(t, V)}
<1>1. Len(s) \in Nat /\ Len(t) \in Nat /\ Len(u) = Len(s) + Len(t)
      /\ \A i \in 1 .. Len(u) : u[i] = IF i <= Len(s) THEN s[i] ELSE t[i - Len(s)]
  OBVIOUS
<1> HIDE DEF u
<1>2. Picks(t, V) \in SUBSET (1 .. Len(t)) /\ Picks(s, V) \in SUBSET (1 .. Len(s))
  BY DEF Picks
<1>3. IsFiniteSet(B) /\ Cardinality(B) = Count(t, V)
  BY <1>1, <1>2, Shifted DEF Count
<1>4. IsFiniteSet(Picks(s, V))
  BY <1>1, CountType
<1>5. Picks(u, V) = Picks(s, V) \cup B
  <2>1. ASSUME NEW i \in Picks(u, V) PROVE i \in Picks(s, V) \cup B
    <3>1. i \in 1 .. Len(u) /\ u[i] \in V
      BY <2>1 DEF Picks
    <3>2. CASE i <= Len(s)
      BY <1>1, <3>1, <3>2 DEF Picks
    <3>3. CASE i > Len(s)
      <4>1. i - Len(s) \in Picks(t, V) /\ Len(s) + (i - Len(s)) = i
        BY <1>1, <3>1, <3>3 DEF Picks
      <4> QED BY <4>1
    <3> QED BY <1>1, <3>1, <3>2, <3>3
  <2>2. ASSUME NEW i \in Picks(s, V) PROVE i \in Picks(u, V)
    BY <1>1, <2>2 DEF Picks
  <2>3. ASSUME NEW j \in Picks(t, V) PROVE Len(s) + j \in Picks(u, V)
    BY <1>1, <2>3 DEF Picks
  <2> QED BY <2>1, <2>2, <2>3
<1>6. Picks(s, V) \cap B = {}
  BY <1>1, <1>2
<1> HIDE DEF B
<1>7. Cardinality(Picks(s, V) \cup B) = Cardinality(Picks(s, V)) + Cardinality(B)
  <2>1. Cardinality(Picks(s, V) \cup B)
          = Cardinality(Picks(s, V)) + Cardinality(B) - Cardinality(Picks(s, V) \cap B)
    BY <1>3, <1>4, FS_Union
  <2>2. Cardinality(Picks(s, V) \cap B) = 0
    BY <1>6, FS_EmptySet
  <2>3. Cardinality(Picks(s, V)) \in Nat /\ Cardinality(B) \in Nat
    BY <1>3, <1>4, FS_CardinalityType
  <2> QED BY <2>1, <2>2, <2>3
<1> QED BY <1>3, <1>5, <1>7 DEF Count, u

(* A sequence of one.                                                      *)
LEMMA CountSingle ==
  ASSUME NEW x, NEW V
  PROVE  Count(<<x>>, V) = IF x \in V THEN 1 ELSE 0
<1>1. PICK h : h = <<x>>
  OBVIOUS
<1>2. Len(h) = 1 /\ \A i \in 1 .. Len(h) : h[i] = x
  BY <1>1
<1>3. Len(h) \in Nat
  BY <1>2
<1>4. x \in V => Count(h, V) = 1
  BY <1>2, <1>3, CountAll
<1>5. x \notin V => Count(h, V) = 0
  BY <1>2, <1>3, CountZero
<1> QED BY <1>1, <1>4, <1>5

(* The tail loses what the head counted.                                   *)
LEMMA CountTail ==
  ASSUME NEW S, NEW s \in Seq(S), s # <<>>, NEW V
  PROVE  Count(Tail(s), V) = Count(s, V) - (IF Head(s) \in V THEN 1 ELSE 0)
<1>1. <<Head(s)>> \in Seq(S) /\ Tail(s) \in Seq(S) /\ <<Head(s)>> \o Tail(s) = s
  OBVIOUS
<1>2. Count(s, V) = Count(<<Head(s)>>, V) + Count(Tail(s), V)
  <2>1. \A h, t \in Seq(S) : Count(h \o t, V) = Count(h, V) + Count(t, V)
    BY CountConcat
  <2>2. \A h, t \in Seq(S) : h \o t = s => Count(s, V) = Count(h, V) + Count(t, V)
    BY <2>1
  <2> QED BY <1>1, <2>2, Zenon
<1>3. Len(<<Head(s)>>) \in Nat /\ Len(Tail(s)) \in Nat /\ Len(s) \in Nat
  BY <1>1
<1>4. Count(<<Head(s)>>, V) = IF Head(s) \in V THEN 1 ELSE 0
  BY CountSingle
<1>5. Count(Tail(s), V) \in Nat /\ Count(<<Head(s)>>, V) \in Nat /\ Count(s, V) \in Nat
  <2>1. \A z : Len(z) \in Nat => Count(z, V) \in Nat
    BY CountType
  <2> QED BY <1>3, <2>1
<1> QED BY <1>2, <1>4, <1>5

-----------------------------------------------------------------------------
(* Numbers of the decode messages.                                         *)

LastGate == MaxOps + Window + 1
Eligible(m, k) == SlotOf(k) \in m.aux
Size(m, k) == m.chunks + (IF Eligible(m, k) THEN 1 ELSE 0)

(* First(m)[k]: the number of the first message of gate k.                 *)
Numbers(m, b) == b[1] = 0 /\ \A k \in 1 .. LastGate - 1 : b[k + 1] = b[k] + Size(m, k)
First(m) == CHOOSE b \in [1 .. LastGate -> Nat] : Numbers(m, b)

(* A message, receive or completion u of a decode gate, and its number.    *)
Unit(m, u) ==
  /\ u.id \in 1 .. LastGate - 1
  /\ \/ u.tag = "gate" /\ u.part \in 1 .. m.chunks
     \/ u.tag = "aux" /\ u.part = 1 /\ Eligible(m, u.id)
Number(m, u) == First(m)[u.id] + (IF u.tag = "aux" THEN m.chunks ELSE u.part - 1)

(* s holds the messages numbered from a up to, but not with, b.            *)
Stream(m, s, a, b) ==
  /\ Len(s) = b - a
  /\ \A i \in 1 .. Len(s) : Unit(m, s[i]) /\ s[i].kind = s[i].tag /\ Number(m, s[i]) = a + i - 1

(* s holds the bulk messages of operation k after a and up to b.           *)
BulkMsg(k, p) == Msg("bulk", k, p, "bulk", TRUE)
Segment(s, k, a, b) == Len(s) = b - a /\ \A i \in 1 .. Len(s) : s[i] = BulkMsg(k, a + i)

Tags == {"gate", "aux", "bulk"}
Message == [kind : Tags, id : Nat, part : Nat, tag : Tags, sig : BOOLEAN]
Completion == [dir : {"recv", "send"}, tag : Tags, id : Nat, part : Nat]

(* A mode's gate vector has at least one message.                          *)
Vector(m) == m.chunks \in Nat \ {0}

(* The last gate is beyond the first.                                      *)
LEMMA LastGateNat == LastGate \in Nat /\ LastGate >= 2
BY WindowAssumption, ModeAssumption DEF LastGate

(* A gate has one message at least.                                        *)
LEMMA SizeNat ==
  ASSUME NEW m, Vector(m), NEW k
  PROVE  Size(m, k) \in Nat /\ Size(m, k) >= m.chunks /\ m.chunks >= 1
         /\ (Eligible(m, k) => Size(m, k) = m.chunks + 1)
         /\ (~Eligible(m, k) => Size(m, k) = m.chunks)
BY DEF Size, Vector

(* The numbering exists.                                                   *)
LEMMA FirstIs ==
  ASSUME NEW m, Vector(m)
  PROVE  First(m) \in [1 .. LastGate -> Nat] /\ Numbers(m, First(m))
<1> DEFINE K == LastGate - 1
           Upto(n, b) == b[1] = 0 /\ \A k \in 1 .. n : b[k + 1] = b[k] + Size(m, k)
           T == {n \in 0 .. K : \E b \in [1 .. n + 1 -> Nat] : Upto(n, b)}
<1>0. K \in Nat /\ K + 1 = LastGate
  BY LastGateNat
<1>1. 0 \in T
  <2>1. [k \in 1 .. 0 + 1 |-> 0] \in [1 .. 0 + 1 -> Nat] /\ Upto(0, [k \in 1 .. 0 + 1 |-> 0])
    OBVIOUS
  <2>2. 0 \in 0 .. K
    BY <1>0
  <2> QED BY <2>1, <2>2
<1>2. ASSUME NEW n \in 0 .. K, n # K, n \in T PROVE n + 1 \in T
  <2>1. PICK b \in [1 .. n + 1 -> Nat] : Upto(n, b)
    BY <1>2
  <2> DEFINE h == [k \in 1 .. (n + 1) + 1 |-> IF k = n + 2 THEN b[n + 1] + Size(m, n + 1) ELSE b[k]]
  <2>2. n \in Nat /\ n + 1 \in 0 .. K
    BY <1>0, <1>2
  <2>3. b[n + 1] \in Nat /\ Size(m, n + 1) \in Nat
    BY <2>2, SizeNat
  <2>4. h \in [1 .. (n + 1) + 1 -> Nat]
    BY <2>2, <2>3
  <2>5. h[1] = 0
    BY <2>1, <2>2
  <2>6. ASSUME NEW k \in 1 .. n + 1 PROVE h[k + 1] = h[k] + Size(m, k)
    <3>1. CASE k = n + 1
      <4>1. h[k + 1] = b[n + 1] + Size(m, n + 1) /\ h[k] = b[n + 1]
        BY <2>2, <3>1
      <4> QED BY <4>1, <3>1
    <3>2. CASE k \in 1 .. n
      <4>1. h[k + 1] = b[k + 1] /\ h[k] = b[k]
        BY <2>2, <3>2
      <4> QED BY <2>1, <4>1, <3>2
    <3> QED BY <2>2, <3>1, <3>2
  <2> HIDE DEF h
  <2> QED BY <2>2, <2>4, <2>5, <2>6
<1>3. T \in SUBSET (0 .. K)
  OBVIOUS
<1>4. K \in T
  <2> HIDE DEF T, K
  <2>1. T = 0 .. K
    BY <1>0, <1>1, <1>2, <1>3, UpTo
  <2> QED BY <1>0, <2>1
<1>5. PICK b \in [1 .. LastGate -> Nat] : Upto(K, b)
  BY <1>0, <1>4
<1>6. Numbers(m, b)
  BY <1>5 DEF Numbers
<1> QED BY <1>6 DEF First

(* One gate further, the numbers go on by the size of the gate.            *)
LEMMA FirstStep ==
  ASSUME NEW m, Vector(m)
  PROVE  /\ First(m)[1] = 0
         /\ \A k \in 1 .. LastGate : First(m)[k] \in Nat
         /\ \A k \in 1 .. LastGate - 1 : First(m)[k + 1] = First(m)[k] + Size(m, k)
BY FirstIs DEF Numbers

(* The messages of a gate come before those of every later one.            *)
LEMMA FirstOrder ==
  ASSUME NEW m, Vector(m), NEW j \in 1 .. LastGate, NEW k \in 1 .. LastGate, j < k
  PROVE  First(m)[j] + Size(m, j) <= First(m)[k]
<1> DEFINE K == LastGate - 1 - j
           T == {n \in 0 .. K : First(m)[j] + Size(m, j) <= First(m)[j + 1 + n]}
<1>0. K \in Nat /\ j \in Nat /\ j + 1 \in 1 .. LastGate /\ LastGate \in Nat /\ j \in 1 .. LastGate - 1
  BY LastGateNat
<1>1. First(m)[j] \in Nat /\ Size(m, j) \in Nat
  BY FirstStep, SizeNat
<1>2. 0 \in T
  <2>1. First(m)[j + 1] = First(m)[j] + Size(m, j) /\ j + 1 + 0 = j + 1
    BY <1>0, FirstStep
  <2> QED BY <1>0, <1>1, <2>1
<1>3. ASSUME NEW n \in 0 .. K, n # K, n \in T PROVE n + 1 \in T
  <2>1. n \in Nat /\ n + 1 \in 0 .. K /\ j + 1 + n \in 1 .. LastGate - 1
        /\ j + 1 + n \in 1 .. LastGate /\ j + 1 + (n + 1) = (j + 1 + n) + 1
    BY <1>0, <1>3
  <2>2. First(m)[(j + 1 + n) + 1] = First(m)[j + 1 + n] + Size(m, j + 1 + n)
    BY <2>1, FirstStep
  <2>3. First(m)[j + 1 + n] \in Nat /\ Size(m, j + 1 + n) \in Nat
    BY <2>1, FirstStep, SizeNat
  <2>4. First(m)[j] + Size(m, j) <= First(m)[j + 1 + n]
    BY <1>3
  <2> QED BY <1>1, <2>1, <2>2, <2>3, <2>4
<1>4. T \in SUBSET (0 .. K)
  OBVIOUS
<1>5. k - j - 1 \in 0 .. K /\ j + 1 + (k - j - 1) = k
  BY <1>0
<1>6. k - j - 1 \in T
  <2> HIDE DEF T, K
  <2>1. T = 0 .. K
    BY <1>0, <1>2, <1>3, <1>4, UpTo
  <2> QED BY <1>5, <2>1
<1> QED BY <1>5, <1>6

(* The number of a message lies in its gate.                               *)
LEMMA NumberIn ==
  ASSUME NEW m, Vector(m), NEW u, Unit(m, u)
  PROVE  /\ Number(m, u) \in Nat
         /\ First(m)[u.id] <= Number(m, u) /\ Number(m, u) < First(m)[u.id + 1]
         /\ u.tag = "gate" => Number(m, u) < First(m)[u.id] + m.chunks
                              /\ Number(m, u) = First(m)[u.id] + u.part - 1
         /\ u.tag = "aux" => Number(m, u) = First(m)[u.id] + m.chunks
                             /\ First(m)[u.id + 1] = First(m)[u.id] + m.chunks + 1
<1>1. u.id \in 1 .. LastGate - 1 /\ u.id \in 1 .. LastGate
  BY LastGateNat DEF Unit
<1>2. First(m)[u.id + 1] = First(m)[u.id] + Size(m, u.id) /\ First(m)[u.id] \in Nat
  BY <1>1, FirstStep
<1>3. Size(m, u.id) \in Nat /\ Size(m, u.id) >= m.chunks /\ m.chunks >= 1 /\ m.chunks \in Nat
      /\ (Eligible(m, u.id) => Size(m, u.id) = m.chunks + 1)
  BY SizeNat DEF Vector
<1>4. CASE u.tag = "gate"
  <2>1. u.part \in 1 .. m.chunks /\ Number(m, u) = First(m)[u.id] + (u.part - 1)
    BY <1>4 DEF Unit, Number
  <2> QED BY <1>2, <1>3, <1>4, <2>1
<1>5. CASE u.tag = "aux"
  <2>1. Eligible(m, u.id) /\ Number(m, u) = First(m)[u.id] + m.chunks
    BY <1>5 DEF Unit, Number
  <2> QED BY <1>2, <1>3, <1>5, <2>1
<1> QED BY <1>4, <1>5 DEF Unit

(* Messages with the same number are the same message of the same gate.    *)
LEMMA SameNumber ==
  ASSUME NEW m, Vector(m), NEW u, NEW v, Unit(m, u), Unit(m, v), Number(m, u) = Number(m, v)
  PROVE  u.id = v.id /\ u.tag = v.tag /\ u.part = v.part
<1>1. u.id \in 1 .. LastGate - 1 /\ u.id + 1 \in 1 .. LastGate /\ u.id \in 1 .. LastGate
      /\ v.id \in 1 .. LastGate - 1 /\ v.id + 1 \in 1 .. LastGate /\ v.id \in 1 .. LastGate
  BY LastGateNat DEF Unit
<1>2. ~(u.id < v.id)
  <2> SUFFICES ASSUME u.id < v.id PROVE FALSE
    OBVIOUS
  <2>1. First(m)[u.id] + Size(m, u.id) <= First(m)[v.id]
    BY <1>1, FirstOrder
  <2>2. First(m)[u.id + 1] = First(m)[u.id] + Size(m, u.id)
    BY <1>1, FirstStep
  <2>3. First(m)[u.id + 1] \in Nat /\ First(m)[v.id] \in Nat
    BY <1>1, FirstStep
  <2> QED BY <2>1, <2>2, <2>3, NumberIn
<1>3. ~(v.id < u.id)
  <2> SUFFICES ASSUME v.id < u.id PROVE FALSE
    OBVIOUS
  <2>1. First(m)[v.id] + Size(m, v.id) <= First(m)[u.id]
    BY <1>1, FirstOrder
  <2>2. First(m)[v.id + 1] = First(m)[v.id] + Size(m, v.id)
    BY <1>1, FirstStep
  <2>3. First(m)[v.id + 1] \in Nat /\ First(m)[u.id] \in Nat
    BY <1>1, FirstStep
  <2> QED BY <2>1, <2>2, <2>3, NumberIn
<1>4. u.id = v.id
  BY <1>1, <1>2, <1>3
<1>5. First(m)[u.id] \in Nat /\ m.chunks \in Nat
  BY <1>1, FirstStep DEF Vector
<1> QED BY <1>4, <1>5, NumberIn DEF Unit

-----------------------------------------------------------------------------
(* Streams.                                                                *)

(* Two streams, the second starting where the first ends, are one.         *)
LEMMA StreamConcat ==
  ASSUME NEW m, NEW s \in Seq(Message), NEW t \in Seq(Message),
         NEW a \in Int, NEW b \in Int, NEW c \in Int,
         Stream(m, s, a, b), Stream(m, t, b, c)
  PROVE  s \o t \in Seq(Message) /\ Stream(m, s \o t, a, c)
<1> DEFINE u == s \o t
<1>1. Len(s) = b - a /\ Len(t) = c - b /\ Len(u) = Len(s) + Len(t) /\ u \in Seq(Message)
      /\ Len(s) \in Nat /\ Len(t) \in Nat
      /\ \A i \in 1 .. Len(u) : u[i] = IF i <= Len(s) THEN s[i] ELSE t[i - Len(s)]
  BY DEF Stream
<1> HIDE DEF u
<1>2. ASSUME NEW i \in 1 .. Len(u)
      PROVE  Unit(m, u[i]) /\ u[i].kind = u[i].tag /\ Number(m, u[i]) = a + i - 1
  <2>1. CASE i <= Len(s)
    <3>1. i \in 1 .. Len(s) /\ u[i] = s[i]
      BY <1>1, <2>1
    <3> QED BY <3>1 DEF Stream
  <2>2. CASE i > Len(s)
    <3>0. u[i] = t[i - Len(s)]
      BY <1>1, <2>2
    <3>1. i - Len(s) \in 1 .. Len(t) /\ u[i] = t[i - Len(s)] /\ b + (i - Len(s)) - 1 = a + i - 1
      <4>1. \A x, y \in Nat : i \in 1 .. x + y /\ i > x /\ x = b - a =>
              i - x \in 1 .. y /\ b + (i - x) - 1 = a + i - 1
        OBVIOUS
      <4> QED BY <1>1, <2>2, <3>0, <4>1
    <3> QED BY <3>1 DEF Stream
  <2> QED BY <1>1, <2>1, <2>2
<1>3. u \in Seq(Message) /\ Stream(m, u, a, c)
  <2>1. Len(u) = c - a
    BY <1>1
  <2> QED BY <1>1, <1>2, <2>1 DEF Stream
<1> QED BY <1>3 DEF u

(* The head of a stream has its first number, its tail the rest.           *)
LEMMA StreamTail ==
  ASSUME NEW m, NEW s \in Seq(Message), s # <<>>, NEW a \in Int, NEW b \in Int, Stream(m, s, a, b)
  PROVE  /\ Unit(m, Head(s)) /\ Head(s).kind = Head(s).tag /\ Number(m, Head(s)) = a
         /\ Head(s) \in Message /\ Tail(s) \in Seq(Message) /\ Stream(m, Tail(s), a + 1, b)
         /\ Len(s) \in Nat /\ Len(s) >= 1 /\ Len(Tail(s)) = Len(s) - 1
<1> DEFINE t == Tail(s)
<1>1. Len(s) \in Nat /\ Len(s) >= 1 /\ t \in Seq(Message) /\ Len(t) = Len(s) - 1 /\ Head(s) = s[1]
      /\ Head(s) \in Message /\ \A i \in 1 .. Len(t) : t[i] = s[i + 1]
  OBVIOUS
<1> HIDE DEF t
<1>2. Len(s) = b - a
  BY DEF Stream
<1>3. 1 \in 1 .. Len(s) /\ a + 1 - 1 = a
  BY <1>1
<1>4. Unit(m, s[1]) /\ s[1].kind = s[1].tag /\ Number(m, s[1]) = a
  BY <1>3 DEF Stream
<1>5. ASSUME NEW i \in 1 .. Len(t)
      PROVE  Unit(m, t[i]) /\ t[i].kind = t[i].tag /\ Number(m, t[i]) = (a + 1) + i - 1
  <2>1. i + 1 \in 1 .. Len(s) /\ t[i] = s[i + 1] /\ a + (i + 1) - 1 = (a + 1) + i - 1
    BY <1>1
  <2> QED BY <2>1 DEF Stream
<1>6. Stream(m, t, a + 1, b)
  <2>1. Len(t) = b - (a + 1)
    BY <1>1, <1>2
  <2> QED BY <1>5, <2>1 DEF Stream
<1>7. Tail(s) = t
  BY DEF t
<1> QED BY <1>1, <1>4, <1>6, <1>7

(* Streams that begin at the same number agree place by place.             *)
LEMMA StreamSame ==
  ASSUME NEW m, Vector(m), NEW s, NEW t, NEW a \in Int, NEW b, NEW c,
         Stream(m, s, a, b), Stream(m, t, a, c),
         NEW i \in Nat, i \in 1 .. Len(s), i \in 1 .. Len(t)
  PROVE  s[i].id = t[i].id /\ s[i].tag = t[i].tag /\ s[i].part = t[i].part /\ s[i].kind = t[i].kind
<1>1. Unit(m, s[i]) /\ Unit(m, t[i]) /\ Number(m, s[i]) = Number(m, t[i])
      /\ s[i].kind = s[i].tag /\ t[i].kind = t[i].tag
  BY DEF Stream
<1> QED BY <1>1, SameNumber

(* The rows of a gate.                                                     *)
LEMMA GateRowStream ==
  ASSUME Vector(mode), NEW k \in 1 .. LastGate - 1, NEW S
  PROVE  /\ GateRow(k, "gate", k, S) \in Seq(Message)
         /\ Stream(mode, GateRow(k, "gate", k, S), First(mode)[k], First(mode)[k] + mode.chunks)
         /\ \A i \in 1 .. mode.chunks : GateRow(k, "gate", k, S)[i] = Msg("gate", k, i, "gate", i \in S)
<1> DEFINE g == GateRow(k, "gate", k, S)
<1>1. mode.chunks \in Nat /\ k \in Nat
  BY LastGateNat DEF Vector
<1>2. \A i \in 1 .. mode.chunks : g[i] = Msg("gate", k, i, "gate", i \in S)
  BY DEF GateRow
<1>3. ASSUME NEW i \in 1 .. mode.chunks PROVE Msg("gate", k, i, "gate", i \in S) \in Message
  <2>1. (i \in S) \in BOOLEAN /\ i \in Nat
    BY <1>1
  <2> QED BY <1>1, <2>1 DEF Msg, Message, Tags
<1>4. g \in Seq(Message) /\ Len(g) = mode.chunks
  BY <1>1, <1>3 DEF GateRow
<1> HIDE DEF g
<1>5. First(mode)[k] \in Nat
  BY <1>1, FirstStep, LastGateNat
<1>6. ASSUME NEW i \in 1 .. Len(g)
      PROVE  Unit(mode, g[i]) /\ g[i].kind = g[i].tag /\ Number(mode, g[i]) = First(mode)[k] + i - 1
  <2>0. i \in 1 .. mode.chunks /\ g[i] = Msg("gate", k, i, "gate", i \in S)
    BY <1>2, <1>4
  <2>1. g[i].id = k /\ g[i].tag = "gate" /\ g[i].kind = "gate" /\ g[i].part = i /\ i \in 1 .. mode.chunks
    <3> HIDE DEF g
    <3>1. \A z : Msg("gate", k, i, "gate", z).id = k /\ Msg("gate", k, i, "gate", z).tag = "gate"
               /\ Msg("gate", k, i, "gate", z).kind = "gate" /\ Msg("gate", k, i, "gate", z).part = i
      BY Zenon DEF Msg
    <3> QED BY <2>0, <3>1
  <2>2. Unit(mode, g[i])
    BY <2>1 DEF Unit
  <2>3. Number(mode, g[i]) = First(mode)[k] + (i - 1)
    BY <2>1 DEF Number
  <2> QED BY <1>1, <1>4, <1>5, <2>1, <2>2, <2>3
<1>7. Stream(mode, g, First(mode)[k], First(mode)[k] + mode.chunks)
  <2>1. Len(g) = (First(mode)[k] + mode.chunks) - First(mode)[k]
    BY <1>1, <1>4, <1>5
  <2> QED BY <1>6, <2>1 DEF Stream
<1> QED BY <1>2, <1>4, <1>7 DEF g

(* The auxiliary message of a gate.                                        *)
LEMMA AuxStream ==
  ASSUME Vector(mode), NEW k \in 1 .. LastGate - 1, Eligible(mode, k), NEW g \in BOOLEAN
  PROVE  /\ <<Msg("aux", k, 1, "aux", g)>> \in Seq(Message)
         /\ Stream(mode, <<Msg("aux", k, 1, "aux", g)>>, First(mode)[k] + mode.chunks, First(mode)[k + 1])
<1>1. k \in Nat /\ k \in 1 .. LastGate
  BY LastGateNat
<1>2. PICK u : u = Msg("aux", k, 1, "aux", g)
  OBVIOUS
<1>3. u \in Message /\ u.id = k /\ u.tag = "aux" /\ u.kind = "aux" /\ u.part = 1
  BY <1>1, <1>2 DEF Msg, Message, Tags
<1>4. Unit(mode, u) /\ Number(mode, u) = First(mode)[k] + mode.chunks
  BY <1>3 DEF Unit, Number
<1>5. First(mode)[k + 1] = First(mode)[k] + mode.chunks + 1 /\ First(mode)[k] \in Nat
  BY <1>3, <1>4, <1>1, FirstStep, NumberIn
<1>6. PICK s : s = <<u>>
  OBVIOUS
<1>7. s \in Seq(Message) /\ Len(s) = 1 /\ s[1] = u
  BY <1>3, <1>6
<1>8. mode.chunks \in Nat
  BY DEF Vector
<1>9. Stream(mode, s, First(mode)[k] + mode.chunks, First(mode)[k + 1])
  <2>1. Len(s) = First(mode)[k + 1] - (First(mode)[k] + mode.chunks)
    BY <1>5, <1>7, <1>8
  <2>2. ASSUME NEW i \in 1 .. Len(s)
        PROVE  Unit(mode, s[i]) /\ s[i].kind = s[i].tag
               /\ Number(mode, s[i]) = (First(mode)[k] + mode.chunks) + i - 1
    <3>1. i = 1
      BY <1>7
    <3> QED BY <1>3, <1>4, <1>5, <1>7, <1>8, <3>1
  <2> QED BY <2>1, <2>2 DEF Stream
<1> QED BY <1>2, <1>6, <1>7, <1>9

(* The receives of a gate.                                                 *)
LEMMA GateReceivesStream ==
  ASSUME Vector(mode), NEW k \in 1 .. LastGate - 1
  PROVE  /\ GateReceives(k) \in Seq(Message)
         /\ Stream(mode, GateReceives(k), First(mode)[k], First(mode)[k + 1])
<1> DEFINE g == GateRow(k, "gate", k, {})
<1>1. g \in Seq(Message) /\ Stream(mode, g, First(mode)[k], First(mode)[k] + mode.chunks)
  BY GateRowStream
<1>2. k \in 1 .. LastGate /\ k + 1 \in 1 .. LastGate
  BY LastGateNat
<1>3. First(mode)[k + 1] = First(mode)[k] + Size(mode, k) /\ First(mode)[k] \in Nat
      /\ First(mode)[k + 1] \in Nat /\ mode.chunks \in Nat
  BY <1>2, FirstStep DEF Vector
<1>4. AuxEligible(k) <=> Eligible(mode, k)
  BY DEF AuxEligible, Eligible
<1>5. CASE Eligible(mode, k)
  <2> DEFINE h == <<Msg("aux", k, 1, "aux", FALSE)>>
  <2>1. h \in Seq(Message) /\ Stream(mode, h, First(mode)[k] + mode.chunks, First(mode)[k + 1])
    BY <1>5, AuxStream
  <2>2. GateReceives(k) = g \o h
    BY <1>4, <1>5 DEF GateReceives
  <2> HIDE DEF g, h
  <2> QED BY <1>1, <1>3, <2>1, <2>2, StreamConcat
<1>6. CASE ~Eligible(mode, k)
  <2>1. First(mode)[k + 1] = First(mode)[k] + mode.chunks
    BY <1>3, <1>6, SizeNat
  <2>2. GateReceives(k) = g
    <3>1. GateReceives(k) = g \o <<>>
      BY <1>4, <1>6 DEF GateReceives
    <3> HIDE DEF g
    <3> QED BY <1>1, <3>1
  <2> QED BY <1>1, <2>1, <2>2
<1> QED BY <1>5, <1>6

(* What FlattenSeq joins up to each place.                                 *)
Joins(q, g) == g = [i \in 1 .. Len(q) |-> IF i = 1 THEN q[i] ELSE g[i - 1] \o q[i]]

(* The recursion of FlattenSeq is well defined.                            *)
LEMMA FlattenJoins ==
  ASSUME NEW q, Len(q) \in Nat \ {0}
  PROVE  \E g : Joins(q, g) /\ FlattenSeq(q) = g[Len(q)]
<1> DEFINE K == Len(q) - 1
           Upto(n, g) == \A i \in 1 .. n + 1 : g[i] = IF i = 1 THEN q[i] ELSE g[i - 1] \o q[i]
           T == {n \in 0 .. K : \E g : Upto(n, g)}
<1>0. K \in Nat /\ K + 1 = Len(q)
  OBVIOUS
<1>1. 0 \in T
  <2>1. Upto(0, [i \in 1 .. 0 + 1 |-> q[i]])
    OBVIOUS
  <2>2. 0 \in 0 .. K
    BY <1>0
  <2> QED BY <2>1, <2>2
<1>2. ASSUME NEW n \in 0 .. K, n # K, n \in T PROVE n + 1 \in T
  <2>1. PICK g : Upto(n, g)
    BY <1>2
  <2> DEFINE h == [i \in 1 .. (n + 1) + 1 |-> IF i = n + 2 THEN g[n + 1] \o q[n + 2] ELSE g[i]]
  <2>2. n \in Nat /\ n + 1 \in 0 .. K
    <3>1. \A k \in Nat : \A x \in 0 .. k : x # k => x \in Nat /\ x + 1 \in 0 .. k
      OBVIOUS
    <3> HIDE DEF K
    <3> QED BY <1>0, <1>2, <3>1
  <2>3. ASSUME NEW i \in 1 .. (n + 1) + 1 PROVE h[i] = IF i = 1 THEN q[i] ELSE h[i - 1] \o q[i]
    <3>1. CASE i = n + 2
      <4>1. i - 1 = n + 1 /\ n + 1 \in 1 .. (n + 1) + 1 /\ n + 1 # n + 2 /\ i # 1
        BY <2>2, <3>1
      <4>2. h[i - 1] = g[n + 1]
        BY <4>1
      <4>3. h[i] = g[n + 1] \o q[n + 2]
        BY <3>1
      <4> QED BY <4>1, <4>2, <4>3, <3>1
    <3>2. CASE i \in 1 .. n + 1 /\ i # 1
      <4>1. h[i] = g[i] /\ h[i - 1] = g[i - 1]
        BY <2>2, <3>2
      <4> QED BY <2>1, <4>1, <3>2
    <3>3. CASE i = 1
      <4>1. h[i] = g[i] /\ i \in 1 .. n + 1
        BY <2>2, <3>3
      <4> QED BY <2>1, <4>1, <3>3
    <3> QED BY <2>2, <3>1, <3>2, <3>3
  <2> HIDE DEF h
  <2> QED BY <2>2, <2>3
<1>3. T \in SUBSET (0 .. K)
  OBVIOUS
<1>4. K \in T
  <2> HIDE DEF T, K
  <2>1. T = 0 .. K
    BY <1>0, <1>1, <1>2, <1>3, UpTo
  <2> QED BY <1>0, <2>1
<1>5. PICK g : \A i \in 1 .. Len(q) : g[i] = IF i = 1 THEN q[i] ELSE g[i - 1] \o q[i]
  BY <1>0, <1>4
<1> DEFINE f == [i \in 1 .. Len(q) |-> g[i]]
<1>6. Joins(q, f)
  <2>1. ASSUME NEW i \in 1 .. Len(q) PROVE f[i] = IF i = 1 THEN q[i] ELSE f[i - 1] \o q[i]
    <3>1. i # 1 => f[i - 1] = g[i - 1]
      OBVIOUS
    <3> QED BY <1>5, <3>1
  <2> QED BY <2>1 DEF Joins
<1> DEFINE c == CHOOSE c : c = [i \in 1 .. Len(q) |-> IF i = 1 THEN q[i] ELSE c[i - 1] \o q[i]]
<1>7. Joins(q, c)
  BY <1>6 DEF Joins
<1>8. FlattenSeq(q) = c[Len(q)]
  BY DEF FlattenSeq
<1> QED BY <1>7, <1>8

(* The receives of several gates in a row.                                 *)
LEMMA ReceivesStream ==
  ASSUME Vector(mode), NEW a \in 1 .. LastGate - 1, NEW b \in 1 .. LastGate - 1, a <= b
  PROVE  /\ ReceivesOf(<<a, b>>) \in Seq(Message)
         /\ Stream(mode, ReceivesOf(<<a, b>>), First(mode)[a], First(mode)[b + 1])
<1> DEFINE K == b - a
           q == [i \in 1 .. b - a + 1 |-> GateReceives(a + i - 1)]
<1>0. K \in Nat /\ a \in Nat /\ b \in Nat /\ LastGate \in Nat
  BY LastGateNat
<1>1. ASSUME NEW i \in 1 .. K + 1
      PROVE  a + i - 1 \in 1 .. LastGate - 1 /\ a + i \in 1 .. LastGate /\ a + i - 1 \in 1 .. LastGate
  BY <1>0
<1>2. Len(q) = K + 1 /\ Len(q) \in Nat \ {0} /\ \A i \in 1 .. K + 1 : q[i] = GateReceives(a + i - 1)
  <2>1. \A i \in 1 .. K + 1 : GateReceives(a + i - 1) \in Seq(Message)
    BY <1>1, GateReceivesStream
  <2>2. q \in Seq(Seq(Message)) /\ Len(q) = K + 1
    BY <1>0, <2>1
  <2> QED BY <1>0, <2>2
<1>3. ReceivesOf(<<a, b>>) = FlattenSeq(q)
  BY DEF ReceivesOf
<1> HIDE DEF q
<1>4. PICK g : Joins(q, g) /\ FlattenSeq(q) = g[Len(q)]
  BY <1>2, FlattenJoins
<1>5. \A i \in 1 .. K + 1 : g[i] = IF i = 1 THEN q[i] ELSE g[i - 1] \o q[i]
  BY <1>2, <1>4 DEF Joins
<1> DEFINE T == {n \in 0 .. K : /\ g[n + 1] \in Seq(Message)
                                /\ Stream(mode, g[n + 1], First(mode)[a], First(mode)[a + n + 1])}
<1>6. 0 \in T
  <2>1. g[1] = GateReceives(a) /\ 0 \in 0 .. K
    <3>1. 1 \in 1 .. K + 1 /\ a + 1 - 1 = a
      BY <1>0
    <3> QED BY <1>0, <1>2, <1>5, <3>1
  <2>2. g[0 + 1] \in Seq(Message) /\ Stream(mode, g[0 + 1], First(mode)[a], First(mode)[a + 0 + 1])
    <3>1. GateReceives(a) \in Seq(Message)
          /\ Stream(mode, GateReceives(a), First(mode)[a], First(mode)[a + 1])
      BY GateReceivesStream
    <3>2. 0 + 1 = 1 /\ a + 0 + 1 = a + 1
      BY <1>0
    <3> QED BY <2>1, <3>1, <3>2
  <2> QED BY <2>1, <2>2
<1>7. ASSUME NEW n \in 0 .. K, n # K, n \in T PROVE n + 1 \in T
  <2>1. n \in Nat /\ n + 1 \in 0 .. K /\ n + 2 \in 1 .. K + 1 /\ n + 1 \in 1 .. K + 1
        /\ a + (n + 2) - 1 = a + n + 1 /\ a + n + 2 = (a + n + 1) + 1 /\ (n + 2) - 1 = n + 1
        /\ (n + 1) + 1 = n + 2 /\ n + 2 # 1 /\ a + (n + 1) + 1 = a + n + 2
    BY <1>0, <1>7
  <2>2. g[n + 2] = g[n + 1] \o q[n + 2] /\ q[n + 2] = GateReceives(a + n + 1)
    BY <1>2, <1>5, <2>1
  <2>3. a + n + 1 \in 1 .. LastGate - 1 /\ a + n + 1 \in 1 .. LastGate /\ a + n + 2 \in 1 .. LastGate
    BY <1>1, <2>1
  <2>4. q[n + 2] \in Seq(Message) /\ Stream(mode, q[n + 2], First(mode)[a + n + 1], First(mode)[a + n + 2])
    BY <2>1, <2>2, <2>3, GateReceivesStream
  <2>5. g[n + 1] \in Seq(Message) /\ Stream(mode, g[n + 1], First(mode)[a], First(mode)[a + n + 1])
    BY <1>7
  <2>6. First(mode)[a] \in Int /\ First(mode)[a + n + 1] \in Int /\ First(mode)[a + n + 2] \in Int
    BY <2>3, <1>0, FirstStep
  <2>7. g[n + 2] \in Seq(Message) /\ Stream(mode, g[n + 2], First(mode)[a], First(mode)[a + n + 2])
    BY <2>2, <2>4, <2>5, <2>6, StreamConcat
  <2> QED BY <2>1, <2>7
<1>8. T \in SUBSET (0 .. K)
  OBVIOUS
<1>9. K \in T
  <2> HIDE DEF T, K
  <2>1. T = 0 .. K
    BY <1>0, <1>6, <1>7, <1>8, UpTo
  <2> QED BY <1>0, <2>1
<1>10. a + K + 1 = b + 1
  BY <1>0
<1> QED BY <1>2, <1>3, <1>4, <1>9, <1>10

-----------------------------------------------------------------------------
(* Types.  A rank that runs an operation has started one, and a decode     *)
(* gate under way has a number.                                            *)

Pc == {"idle", "arm", "send", "wait", "auxwait", "announce", "header", "drain",
       "drainwait", "post", "tellready", "ready", "bulksend", "bulkwait"}
HeaderRecord == [kind : Row \cup Bulk \cup {"aux", "ready"}, at : Int, seq : Nat, from : Nat]
n(r) == Len(plan[r])

TpType == [win : BOOLEAN, last : Nat, recvDone : Nat, auxRecv : Nat, auxSend : Nat,
           failed : BOOLEAN, closed : BOOLEAN]
OpType == [pc : Pc, off : Nat, rd : Nat, sd : Nat]

(* What bounds the numbers of a rank.                                      *)
Bounded(r) ==
  /\ n(r) <= MaxOps /\ gates[r] <= n(r) /\ tp[r].last <= gates[r]
  /\ op[r].pc # "idle" => plan[r] # <<>>
  /\ op[r].pc \in {"arm", "send", "wait"} => gates[r] >= 1

Typed ==
  /\ mode \in Modes
  /\ plan \in [Rank -> Seq(Op)] /\ done \in [Rank -> Nat] /\ gates \in [Rank -> Nat]
  /\ tp \in [Rank -> TpType] /\ op \in [Rank -> OpType]
  /\ rq \in [Rank -> Seq(Message)] /\ wire \in [Rank -> Seq(Message)]
  /\ unacked \in [Rank -> Seq(Message)] /\ cq \in [Rank -> Seq(Completion)]
  /\ hdr \in [Rank -> Seq(HeaderRecord)]
  /\ DOMAIN inbuf = Rank /\ \A r \in Rank : DOMAIN inbuf[r] = Places
  /\ \A r \in Rank : Bounded(r)

(* The ranks are each other's peers.                                       *)
LEMMA TwoRanks ==
  ASSUME NEW r \in Rank
  PROVE  Peer(r) \in Rank /\ Peer(r) # r /\ Peer(Peer(r)) = r /\ Rank = {r, Peer(r)}
BY DEF Rank, Peer

(* Every mode has a gate vector of at least one message.                   *)
LEMMA ModeVector == ASSUME mode \in Modes PROVE Vector(mode) /\ mode.chunks \in Nat \ {0}
BY ModeAssumption DEF Vector

(* The operation a rank runs is one of the program's.                      *)
LEMMA CurrentOp ==
  ASSUME NEW r \in Rank, Typed, plan[r] # <<>>
  PROVE  /\ Current(r) \in Op /\ Current(r).size \in Nat \ {0} /\ Current(r).at \in Slot
         /\ Current(r).at \in Nat /\ n(r) \in Nat /\ n(r) >= 1
         /\ Current(r).kind \in Row \cup Bulk \cup {"aux"}
<1>1. plan[r] \in Seq(Op) /\ n(r) \in Nat /\ n(r) >= 1
  BY DEF Typed, TypeOK, n
<1>2. Current(r) \in Op
  BY <1>1 DEF Current, n
<1>3. \A o \in Op : o.size \in Nat \ {0} /\ o.at \in Slot /\ o.at \in Nat
                    /\ o.kind \in Row \cup Bulk \cup {"aux"}
  <2> SUFFICES ASSUME NEW o \in Op
               PROVE  o.size \in Nat \ {0} /\ o.at \in Slot /\ o.at \in Nat
                      /\ o.kind \in Row \cup Bulk \cup {"aux"}
    OBVIOUS
  <2>1. 1 \in Slot /\ Slot \subseteq Nat
    BY SlotAssumption DEF Slot
  <2>2. CASE o \in [kind : Row \cup {"aux"}, at : Slot, size : {1}]
    <3>1. o.kind \in Row \cup {"aux"} /\ o.at \in Slot /\ o.size = 1
      BY <2>2
    <3>2. o.size \in Nat \ {0}
      BY <3>1
    <3>3. o.at \in Nat
      BY <2>1, <3>1
    <3>4. o.kind \in Row \cup Bulk \cup {"aux"}
      BY <3>1
    <3> QED BY <3>1, <3>2, <3>3, <3>4
  <2>3. CASE o \in [kind : {"batch"}, at : {1}, size : {1}]
    BY <2>1, <2>3 DEF Bulk
  <2>4. CASE o \in [kind : {"big"}, at : {1}, size : BulkSizes]
    BY <2>1, <2>4, BulkAssumption DEF Bulk
  <2> QED BY <2>2, <2>3, <2>4 DEF Op
<1> QED BY <1>1, <1>2, <1>3

(* The sequence number of bulk operations is a natural number.             *)
LEMMA SeqnoNat ==
  ASSUME NEW r \in Rank, plan[r] \in Seq(Op)
  PROVE  Seqno(r) \in Nat /\ IsFiniteSet({i \in DOMAIN plan[r] : plan[r][i].kind \in Bulk})
<1>1. Len(plan[r]) \in Nat /\ DOMAIN plan[r] = 1 .. Len(plan[r])
  OBVIOUS
<1>2. IsFiniteSet(1 .. Len(plan[r]))
  BY <1>1, UpToCount
<1> DEFINE S == {i \in DOMAIN plan[r] : plan[r][i].kind \in Bulk}
<1>3. S \in SUBSET (1 .. Len(plan[r]))
  BY <1>1
<1> HIDE DEF S
<1>4. IsFiniteSet(S) /\ Cardinality(S) \in Nat
  BY <1>2, <1>3, FS_Subset, FS_CardinalityType
<1> QED BY <1>4 DEF S, Seqno

-----------------------------------------------------------------------------
(* Every step keeps the types.                                             *)

(* The types of one rank's variables, one by one.                          *)
LEMMA TypedRank ==
  ASSUME NEW r \in Rank, Typed
  PROVE  /\ plan[r] \in Seq(Op) /\ done[r] \in Nat /\ gates[r] \in Nat
         /\ tp[r] \in TpType /\ op[r] \in OpType
         /\ rq[r] \in Seq(Message) /\ wire[r] \in Seq(Message) /\ unacked[r] \in Seq(Message)
         /\ cq[r] \in Seq(Completion) /\ hdr[r] \in Seq(HeaderRecord)
         /\ Bounded(r) /\ n(r) \in Nat /\ mode \in Modes /\ Vector(mode) /\ mode.chunks \in Nat \ {0}
<1>1. mode \in Modes
  BY DEF Typed
<1>2. Vector(mode) /\ mode.chunks \in Nat \ {0}
  BY <1>1, ModeVector
<1> QED BY <1>1, <1>2 DEF Typed, n

(* The gates a rank may post receives of have numbers.                     *)
LEMMA GateNumbers ==
  ASSUME NEW r \in Rank, Typed
  PROVE  /\ MaxOps \in Nat /\ Window \in Nat /\ Window >= 1 /\ LastGate \in Nat /\ LastGate = MaxOps + Window + 1
         /\ gates[r] \in Nat /\ gates[r] <= MaxOps /\ tp[r].last \in Nat /\ tp[r].last <= gates[r]
         /\ tp[r].last + 1 \in 1 .. LastGate - 1 /\ tp[r].last + Window \in 1 .. LastGate - 1
         /\ gates[r] + Window \in 1 .. LastGate - 1
<1>1. gates[r] \in Nat /\ tp[r] \in TpType /\ Bounded(r) /\ n(r) \in Nat
  BY TypedRank
<1>2. tp[r].last \in Nat /\ n(r) <= MaxOps /\ gates[r] <= n(r) /\ tp[r].last <= gates[r]
  BY <1>1 DEF TpType, Bounded
<1>3. MaxOps \in Nat
  BY ModeAssumption
<1>4. Window \in Nat /\ Window >= 1
  BY WindowAssumption
<1>5. \A x, y, z \in Nat : x <= y /\ y <= z /\ z <= MaxOps =>
        /\ y <= MaxOps /\ x + 1 \in 1 .. MaxOps + Window /\ x + Window \in 1 .. MaxOps + Window
        /\ y + Window \in 1 .. MaxOps + Window
  BY <1>3, <1>4
<1>6. LastGate - 1 = MaxOps + Window /\ LastGate \in Nat /\ LastGate = MaxOps + Window + 1
  BY <1>3, <1>4 DEF LastGate
<1> QED BY <1>1, <1>2, <1>3, <1>4, <1>5, <1>6

(* The places of memory depend on what the hello agreed alone.             *)
LEMMA PlacesSame == mode' = mode => Places' = Places
BY DEF Places

(* The types of the variables, one by one.                                 *)
LEMMA TypedVars ==
  Typed => /\ plan \in [Rank -> Seq(Op)] /\ done \in [Rank -> Nat] /\ gates \in [Rank -> Nat]
           /\ tp \in [Rank -> TpType] /\ op \in [Rank -> OpType]
           /\ rq \in [Rank -> Seq(Message)] /\ wire \in [Rank -> Seq(Message)]
           /\ unacked \in [Rank -> Seq(Message)] /\ cq \in [Rank -> Seq(Completion)]
           /\ hdr \in [Rank -> Seq(HeaderRecord)]
BY DEF Typed

(* A decode gate under way.                                                *)
LEMMA GateBefore ==
  ASSUME NEW r \in Rank, Typed, gates[r] >= 1
  PROVE  gates[r] \in 1 .. LastGate - 1 /\ gates[r] + Window - 1 \in 1 .. LastGate - 1
         /\ gates[r] <= gates[r] + Window - 1 /\ (gates[r] + Window - 1) + 1 = gates[r] + Window
BY GateNumbers

(* Sending or posting more messages.                                       *)
LEMMA MoreMessages ==
  ASSUME NEW f \in [Rank -> Seq(Message)], NEW r \in Rank, NEW ms \in Seq(Message)
  PROVE  [f EXCEPT ![r] = @ \o ms] \in [Rank -> Seq(Message)]
OBVIOUS

(* A completion has a number.                                              *)
LEMMA CqHead ==
  ASSUME NEW s \in Seq(Completion), s # <<>>
  PROVE  Head(s) \in Completion /\ Head(s).id \in Nat /\ Head(s).part \in Nat
         /\ Head(s).tag \in Tags /\ Head(s).dir \in {"recv", "send"}
<1>1. Head(s) \in Completion
  OBVIOUS
<1> QED BY <1>1 DEF Completion

(* The completion of a request or message.                                 *)
LEMMA CqeTyped ==
  ASSUME NEW d \in {"recv", "send"}, NEW s \in Seq(Message), s # <<>>
  PROVE  CQE(d, Head(s)) \in Completion /\ Head(s) \in Message
<1>1. Head(s) \in Message
  OBVIOUS
<1> QED BY <1>1 DEF CQE, Completion, Message

(* A function on 1 .. k is a sequence of length k.                         *)
LEMMA MessageSeq ==
  ASSUME NEW k \in Nat, NEW f, f = [i \in 1 .. k |-> f[i]], \A i \in 1 .. k : f[i] \in Message
  PROVE  f \in Seq(Message) /\ Len(f) = k
OBVIOUS

(* The messages a .. b of a bulk operation.                                *)
LEMMA BulkRoundTyped ==
  ASSUME NEW k \in Nat, NEW a \in Nat, NEW b \in Nat, a >= 1
  PROVE  /\ BulkRound(k, a, b) \in Seq(Message)
         /\ a <= b + 1 => Len(BulkRound(k, a, b)) = b - a + 1
         /\ \A i \in 1 .. b - a + 1 : BulkRound(k, a, b)[i] = BulkMsg(k, a + i - 1)
<1> DEFINE N == b - a + 1
<1>1. \A i \in 1 .. N : BulkMsg(k, a + i - 1) \in Message
  BY DEF Msg, BulkMsg, Message, Tags
<1>2. N \in Int /\ BulkRound(k, a, b) = [i \in 1 .. N |-> BulkMsg(k, a + i - 1)]
  BY DEF BulkRound, BulkMsg
<1> HIDE DEF N
<1>3. CASE N >= 0
  <2>1. N \in Nat
    BY <1>2, <1>3
  <2>2. [i \in 1 .. N |-> BulkMsg(k, a + i - 1)] \in Seq(Message)
        /\ Len([i \in 1 .. N |-> BulkMsg(k, a + i - 1)]) = N
    BY <1>1, <2>1
  <2> QED BY <1>2, <2>2 DEF N
<1>4. CASE N < 0
  <2>1. 1 .. N = {}
    BY <1>2, <1>4
  <2>2. BulkRound(k, a, b) = <<>>
    BY <1>2, <2>1
  <2>3. ~(a <= b + 1)
    BY <1>4 DEF N
  <2> QED BY <2>1, <2>2, <2>3 DEF N
<1> QED BY <1>2, <1>3, <1>4 DEF N

(* A round of a bulk operation.                                            *)
LEMMA RoundTyped ==
  ASSUME NEW r \in Rank, Typed, op[r].pc # "idle"
  PROVE  /\ Round(r).to \in Nat /\ Round(r).from \in Nat /\ RoundLen(r) \in Int
         /\ Round(r).from = op[r].off + 1 /\ Opno(r) \in Nat
         /\ BulkRound(Opno(r), Round(r).from, Round(r).to) \in Seq(Message)
<1>1. op[r].off \in Nat /\ plan[r] # <<>> /\ n(r) \in Nat
  BY TypedRank DEF Bounded, OpType
<1>2. Current(r).size \in Nat /\ BulkSlots \in Nat
  BY <1>1, CurrentOp, BulkAssumption
<1>3. Round(r).from = op[r].off + 1 /\ Round(r).to \in Nat
  BY <1>1, <1>2 DEF Round
<1>4. RoundLen(r) \in Int
  BY <1>1, <1>3 DEF RoundLen
<1>5. Opno(r) \in Nat
  BY <1>1 DEF Opno, n
<1>6. BulkRound(Opno(r), Round(r).from, Round(r).to) \in Seq(Message)
  <2>1. Round(r).from >= 1 /\ Round(r).from \in Nat
    BY <1>1, <1>3
  <2> QED BY <1>3, <1>5, <2>1, BulkRoundTyped
<1> QED BY <1>1, <1>3, <1>4, <1>5, <1>6

(* The header and the receive-ready record of an operation.                *)
LEMMA HeaderTyped ==
  ASSUME NEW r \in Rank, Typed, op[r].pc # "idle"
  PROVE  Header(r) \in HeaderRecord /\ Ready(r) \in HeaderRecord
<1>1. op[r].off \in Nat /\ plan[r] # <<>> /\ n(r) \in Nat
  BY TypedRank DEF Bounded, OpType
<1>2. Current(r).size \in Nat /\ Current(r).at \in Int /\ Current(r).kind \in Row \cup Bulk \cup {"aux"}
  BY <1>1, CurrentOp
<1>3. RoundLen(r) \in Int
  BY RoundTyped
<1>4. Seqno(r) \in Nat
  BY TypedRank, SeqnoNat
<1> QED BY <1>1, <1>2, <1>3, <1>4 DEF Header, Ready, HeaderRecord

(* The filler of a drain.                                                  *)
LEMMA FillerTyped ==
  ASSUME NEW r \in Rank, Typed
  PROVE  LET s == ReceivesOf(<<DrainFrom(r), DrainTo(r)>>)
             f == Filler(DrainFrom(r), DrainTo(r))
         IN  /\ s \in Seq(Message)
             /\ Stream(mode, s, First(mode)[tp[r].last + 1], First(mode)[tp[r].last + Window + 1])
             /\ f \in Seq(Message) /\ Len(f) = Len(s) /\ Len(s) \in Nat
             /\ \A i \in 1 .. Len(s) : f[i] = Msg(s[i].kind, 0, s[i].part, "bulk", i = Len(s))
<1> DEFINE s == ReceivesOf(<<DrainFrom(r), DrainTo(r)>>)
           f == Filler(DrainFrom(r), DrainTo(r))
<1>1. DrainFrom(r) \in 1 .. LastGate - 1 /\ DrainTo(r) \in 1 .. LastGate - 1 /\ DrainFrom(r) <= DrainTo(r)
      /\ DrainFrom(r) = tp[r].last + 1 /\ DrainTo(r) = tp[r].last + Window
  BY GateNumbers DEF DrainFrom, DrainTo
<1>2. s \in Seq(Message) /\ Stream(mode, s, First(mode)[DrainFrom(r)], First(mode)[DrainTo(r) + 1])
  BY <1>1, TypedRank, ReceivesStream
<1>3. f = [i \in DOMAIN s |-> Msg(s[i].kind, 0, s[i].part, "bulk", i = Len(s))]
  BY DEF Filler
<1> HIDE DEF s, f
<1>4. DOMAIN s = 1 .. Len(s) /\ Len(s) \in Nat
  BY <1>2
<1>5. \A i \in 1 .. Len(s) : Msg(s[i].kind, 0, s[i].part, "bulk", i = Len(s)) \in Message
  <2>1. \A i \in 1 .. Len(s) : s[i] \in Message
    BY <1>2
  <2> QED BY <2>1 DEF Msg, Message, Tags
<1>6. f \in Seq(Message) /\ Len(f) = Len(s)
  <2>1. \A i \in 1 .. Len(s) : f[i] \in Message
    BY <1>3, <1>4, <1>5
  <2>2. f = [i \in 1 .. Len(s) |-> f[i]]
    BY <1>3, <1>4
  <2> QED BY <1>4, <2>1, <2>2, MessageSeq
<1>7. \A i \in 1 .. Len(s) : f[i] = Msg(s[i].kind, 0, s[i].part, "bulk", i = Len(s))
  BY <1>3, <1>4
<1> QED BY <1>1, <1>2, <1>4, <1>6, <1>7 DEF s, f

(* StartGate keeps the types.                                           *)
LEMMA StartGateTyped ==
  ASSUME Typed, NEW r \in Rank, NEW o \in Op, StartGate(r, o), mode' = mode
  PROVE  Typed'
<1>m. Len(plan[r]) < MaxOps /\ op[r].pc = "idle"
  BY DEF StartGate, Issues
<1>plan1. plan' = [plan EXCEPT ![r] = Append(@, o)]
  BY DEF StartGate, Issues, Goto, ReturnFailed
<1>plan2. plan \in [Rank -> Seq(Op)]
  BY TypedVars
<1>plan. plan' \in [Rank -> Seq(Op)]
  BY <1>m, <1>plan1, <1>plan2
<1>gates1. gates' = [gates EXCEPT ![r] = @ + 1]
  BY DEF StartGate, Issues, Goto, ReturnFailed
<1>gates2. gates \in [Rank -> Nat]
  BY TypedVars
<1>gates. gates' \in [Rank -> Nat]
  BY <1>m, <1>gates1, <1>gates2
<1>tp1. tp' = tp \/ tp' = [tp EXCEPT ![r].failed = TRUE]
  BY DEF StartGate, Issues, Goto, ReturnFailed
<1>tp2. tp \in [Rank -> TpType]
  BY TypedVars
<1>tp. tp' \in [Rank -> TpType]
  <2>1. CASE tp' = tp
    BY <1>m, <1>tp2, <2>1 DEF TpType, AtLeast, AfterDrain
  <2>2. CASE tp' = [tp EXCEPT ![r].failed = TRUE]
    BY <1>m, <1>tp2, <2>2 DEF TpType, AtLeast, AfterDrain
  <2> QED BY <1>tp1, <2>1, <2>2
<1>op1. op' = [op EXCEPT ![r].pc = "idle"] \/ op' = [op EXCEPT ![r].pc = "send"] \/ op' = [op EXCEPT ![r].pc = "arm"]
  BY DEF StartGate, Issues, Goto, ReturnFailed
<1>op2. op \in [Rank -> OpType]
  BY TypedVars
<1>op. op' \in [Rank -> OpType]
  <2>1. CASE op' = [op EXCEPT ![r].pc = "idle"]
    BY <1>op2, <2>1 DEF OpType, Pc
  <2>2. CASE op' = [op EXCEPT ![r].pc = "send"]
    BY <1>op2, <2>2 DEF OpType, Pc
  <2>3. CASE op' = [op EXCEPT ![r].pc = "arm"]
    BY <1>op2, <2>3 DEF OpType, Pc
  <2> QED BY <1>op1, <2>1, <2>2, <2>3
<1>same. UNCHANGED <<done, rq, wire, unacked, cq, hdr>>
  BY DEF StartGate, Issues, Goto, ReturnFailed, nicVars
<1>inbuf. DOMAIN inbuf' = Rank /\ \A s \in Rank : DOMAIN inbuf'[s] = Places'
  BY PlacesSame DEF Typed, StartGate, Issues, Goto, ReturnFailed, nicVars
<1>guard. op[r].pc = "idle" /\ n(r) \in Nat
  BY TypedRank DEF StartGate, Issues
<1>plan3. \A s \in Rank : plan[s] # <<>> \/ s = r => plan'[s] # <<>>
  BY <1>plan1, <1>plan2
<1>plan4. \A s \in Rank : n(s)' = IF s = r THEN n(s) + 1 ELSE n(s)
  BY <1>plan1, <1>plan2 DEF n
<1>gates3. \A s \in Rank : gates'[s] = IF s = r THEN gates[s] + 1 ELSE gates[s]
  BY <1>gates1, <1>gates2
<1>tp3. \A s \in Rank : tp'[s].last = tp[s].last
  <2>1. CASE tp' = tp
    BY <1>tp2, <2>1 DEF TpType
  <2>2. CASE tp' = [tp EXCEPT ![r].failed = TRUE]
    BY <1>tp2, <2>2 DEF TpType
  <2> QED BY <1>tp1, <2>1, <2>2
<1>op3. \A s \in Rank : s # r => op'[s].pc = op[s].pc
  <2>1. CASE op' = [op EXCEPT ![r].pc = "idle"]
    BY <1>op2, <2>1 DEF OpType
  <2>2. CASE op' = [op EXCEPT ![r].pc = "send"]
    BY <1>op2, <2>2 DEF OpType
  <2>3. CASE op' = [op EXCEPT ![r].pc = "arm"]
    BY <1>op2, <2>3 DEF OpType
  <2> QED BY <1>op1, <2>1, <2>2, <2>3
<1>bounds. ASSUME NEW s \in Rank PROVE Bounded(s)'
  <2>1. Bounded(s) /\ n(s) \in Nat /\ gates[s] \in Nat /\ tp[s] \in TpType /\ tp[s].last \in Nat
    BY TypedRank DEF TpType
  <2> QED BY <1>m, ModeAssumption, <1>same, <1>guard, <1>plan3, <1>plan4, <1>gates3, <1>tp3, <1>op3, <1>plan1, <1>plan2, <2>1 DEF Bounded, n
<1> QED BY <1>plan, <1>gates, <1>tp, <1>op, <1>same, <1>inbuf, <1>bounds, TypedVars DEF Typed

(* StartAux keeps the types.                                            *)
LEMMA StartAuxTyped ==
  ASSUME Typed, NEW r \in Rank, NEW o \in Op, StartAux(r, o), mode' = mode
  PROVE  Typed'
<1>m. Len(plan[r]) < MaxOps
  BY DEF StartAux, Issues
<1>w. << Msg("aux", tp[r].last, 1, "aux", TRUE) >> \in Seq(Message) /\ Peer(r) \in Rank
  BY TypedRank, TwoRanks DEF Msg, Message, Tags, TpType
<1>plan1. plan' = [plan EXCEPT ![r] = Append(@, o)]
  BY DEF StartAux, Issues, Goto, Send
<1>plan2. plan \in [Rank -> Seq(Op)]
  BY TypedVars
<1>plan. plan' \in [Rank -> Seq(Op)]
  BY <1>m, <1>w, <1>plan1, <1>plan2
<1>op1. op' = [op EXCEPT ![r].pc = "auxwait"]
  BY DEF StartAux, Issues, Goto, Send
<1>op2. op \in [Rank -> OpType]
  BY TypedVars
<1>op. op' \in [Rank -> OpType]
  BY <1>m, <1>w, <1>op1, <1>op2 DEF OpType, Pc
<1>wire1. wire' = [wire EXCEPT ![Peer(r)] = @ \o << Msg("aux", tp[r].last, 1, "aux", TRUE) >>]
  BY DEF StartAux, Issues, Goto, Send
<1>wire2. wire \in [Rank -> Seq(Message)]
  BY TypedVars
<1>wire. wire' \in [Rank -> Seq(Message)]
  BY <1>m, <1>w, <1>wire1, <1>wire2, MoreMessages
<1>same. UNCHANGED <<done, gates, tp, rq, unacked, cq, hdr>>
  BY DEF StartAux, Issues, Goto, Send, nicVars
<1>inbuf. DOMAIN inbuf' = Rank /\ \A s \in Rank : DOMAIN inbuf'[s] = Places'
  BY PlacesSame DEF Typed, StartAux, Issues, Goto, Send, nicVars
<1>guard. op[r].pc = "idle" /\ n(r) \in Nat
  BY TypedRank DEF StartAux, Issues
<1>plan3. \A s \in Rank : plan[s] # <<>> \/ s = r => plan'[s] # <<>>
  BY <1>plan1, <1>plan2
<1>plan4. \A s \in Rank : n(s)' = IF s = r THEN n(s) + 1 ELSE n(s)
  BY <1>plan1, <1>plan2 DEF n
<1>op3. \A s \in Rank : op'[s].pc = op[s].pc \/ op'[s].pc = "idle" \/ (s = r /\ op'[s].pc \notin {"arm", "send", "wait"})
  BY <1>op1, <1>op2 DEF OpType
<1>bounds. ASSUME NEW s \in Rank PROVE Bounded(s)'
  <2>1. Bounded(s) /\ n(s) \in Nat /\ gates[s] \in Nat /\ tp[s] \in TpType /\ tp[s].last \in Nat
    BY TypedRank DEF TpType
  <2> QED BY <1>m, ModeAssumption, <1>same, <1>guard, <1>plan3, <1>plan4, <1>op3, <1>plan1, <1>plan2, <2>1 DEF Bounded, n
<1> QED BY <1>plan, <1>op, <1>wire, <1>same, <1>inbuf, <1>bounds, TypedVars DEF Typed

(* StartBulk keeps the types.                                           *)
LEMMA StartBulkTyped ==
  ASSUME Typed, NEW r \in Rank, NEW o \in Op, StartBulk(r, o), mode' = mode
  PROVE  Typed'
<1>m. Len(plan[r]) < MaxOps
  BY DEF StartBulk, Issues
<1>plan1. plan' = [plan EXCEPT ![r] = Append(@, o)]
  BY DEF StartBulk, Issues, Goto
<1>plan2. plan \in [Rank -> Seq(Op)]
  BY TypedVars
<1>plan. plan' \in [Rank -> Seq(Op)]
  BY <1>m, <1>plan1, <1>plan2
<1>op1. op' = [op EXCEPT ![r].pc = "drain"] \/ op' = [op EXCEPT ![r].pc = "announce"]
  BY DEF StartBulk, Issues, Goto
<1>op2. op \in [Rank -> OpType]
  BY TypedVars
<1>op. op' \in [Rank -> OpType]
  <2>1. CASE op' = [op EXCEPT ![r].pc = "drain"]
    BY <1>op2, <2>1 DEF OpType, Pc
  <2>2. CASE op' = [op EXCEPT ![r].pc = "announce"]
    BY <1>op2, <2>2 DEF OpType, Pc
  <2> QED BY <1>op1, <2>1, <2>2
<1>same. UNCHANGED <<done, gates, tp, rq, wire, unacked, cq, hdr>>
  BY DEF StartBulk, Issues, Goto, nicVars
<1>inbuf. DOMAIN inbuf' = Rank /\ \A s \in Rank : DOMAIN inbuf'[s] = Places'
  BY PlacesSame DEF Typed, StartBulk, Issues, Goto, nicVars
<1>guard. op[r].pc = "idle" /\ n(r) \in Nat
  BY TypedRank DEF StartBulk, Issues
<1>plan3. \A s \in Rank : plan[s] # <<>> \/ s = r => plan'[s] # <<>>
  BY <1>plan1, <1>plan2
<1>plan4. \A s \in Rank : n(s)' = IF s = r THEN n(s) + 1 ELSE n(s)
  BY <1>plan1, <1>plan2 DEF n
<1>op3. \A s \in Rank : op'[s].pc = op[s].pc \/ op'[s].pc = "idle" \/ (s = r /\ op'[s].pc \notin {"arm", "send", "wait"})
  <2>1. CASE op' = [op EXCEPT ![r].pc = "drain"]
    BY <1>op2, <2>1 DEF OpType
  <2>2. CASE op' = [op EXCEPT ![r].pc = "announce"]
    BY <1>op2, <2>2 DEF OpType
  <2> QED BY <1>op1, <2>1, <2>2
<1>bounds. ASSUME NEW s \in Rank PROVE Bounded(s)'
  <2>1. Bounded(s) /\ n(s) \in Nat /\ gates[s] \in Nat /\ tp[s] \in TpType /\ tp[s].last \in Nat
    BY TypedRank DEF TpType
  <2> QED BY <1>m, ModeAssumption, <1>same, <1>guard, <1>plan3, <1>plan4, <1>op3, <1>plan1, <1>plan2, <2>1 DEF Bounded, n
<1> QED BY <1>plan, <1>op, <1>same, <1>inbuf, <1>bounds, TypedVars DEF Typed

(* Arm keeps the types.                                                 *)
LEMMA ArmTyped ==
  ASSUME Typed, NEW r \in Rank, Arm(r), mode' = mode
  PROVE  Typed'
<1>g. op[r].pc = "arm" /\ gates[r] >= 1
  BY TypedRank DEF Arm, Bounded
<1>w. ReceivesOf(<<gates[r], gates[r] + Window - 1>>) \in Seq(Message)
  BY <1>g, TypedRank, GateNumbers, GateBefore, ReceivesStream
<1>tp1. tp' = [tp EXCEPT ![r].win = TRUE]
  BY DEF Arm, Post, Goto
<1>tp2. tp \in [Rank -> TpType]
  BY TypedVars
<1>tp. tp' \in [Rank -> TpType]
  BY <1>g, <1>w, <1>tp1, <1>tp2 DEF TpType, AtLeast, AfterDrain
<1>op1. op' = [op EXCEPT ![r].pc = "send"]
  BY DEF Arm, Post, Goto
<1>op2. op \in [Rank -> OpType]
  BY TypedVars
<1>op. op' \in [Rank -> OpType]
  BY <1>g, <1>w, <1>op1, <1>op2 DEF OpType, Pc
<1>rq1. rq' = [rq EXCEPT ![r] = @ \o ReceivesOf(<<gates[r], gates[r] + Window - 1>>)]
  BY DEF Arm, Post, Goto
<1>rq2. rq \in [Rank -> Seq(Message)]
  BY TypedVars
<1>rq. rq' \in [Rank -> Seq(Message)]
  BY <1>g, <1>w, <1>rq1, <1>rq2, MoreMessages
<1>same. UNCHANGED <<plan, done, gates, wire, unacked, cq, hdr>>
  BY DEF Arm, Post, Goto, nicVars
<1>inbuf. DOMAIN inbuf' = Rank /\ \A s \in Rank : DOMAIN inbuf'[s] = Places'
  BY PlacesSame DEF Typed, Arm, Post, Goto, nicVars
<1>guard. op[r].pc # "idle" /\ n(r) \in Nat /\ plan[r] # <<>>
  BY TypedRank DEF Arm, Bounded, Polling, Posting
<1>tp3. \A s \in Rank : tp'[s].last = tp[s].last
  BY <1>tp1, <1>tp2 DEF TpType
<1>op3. \A s \in Rank : op'[s].pc = op[s].pc \/ (s = r /\ op'[s].pc \in {"send", "wait"})
  BY <1>op1, <1>op2 DEF OpType
<1>bounds. ASSUME NEW s \in Rank PROVE Bounded(s)'
  <2>1. Bounded(s) /\ n(s) \in Nat /\ gates[s] \in Nat /\ tp[s] \in TpType /\ tp[s].last \in Nat
    BY TypedRank DEF TpType
  <2> QED BY <1>g, <1>same, <1>guard, <1>tp3, <1>op3, <2>1 DEF Bounded, n
<1> QED BY <1>tp, <1>op, <1>rq, <1>same, <1>inbuf, <1>bounds, TypedVars DEF Typed

(* SendGate keeps the types.                                            *)
LEMMA SendGateTyped ==
  ASSUME Typed, NEW r \in Rank, SendGate(r), mode' = mode
  PROVE  Typed'
<1>g. op[r].pc = "send" /\ gates[r] >= 1
  BY TypedRank DEF SendGate, Bounded
<1>w. Peer(r) \in Rank /\ GateRow(gates[r], "gate", gates[r], IF Current(r).kind = "gate" THEN 1 .. mode.chunks ELSE {mode.chunks}) \in Seq(Message)
  BY <1>g, TypedRank, GateBefore, GateRowStream, TwoRanks
<1>op1. op' = [op EXCEPT ![r] = [@ EXCEPT !.pc = "wait", !.sd = 0]]
  BY DEF SendGate, Send
<1>op2. op \in [Rank -> OpType]
  BY TypedVars
<1>op. op' \in [Rank -> OpType]
  BY <1>g, <1>w, <1>op1, <1>op2 DEF OpType, Pc
<1>wire1. wire' = [wire EXCEPT ![Peer(r)] = @ \o GateRow(gates[r], "gate", gates[r], IF Current(r).kind = "gate" THEN 1 .. mode.chunks ELSE {mode.chunks})]
  BY DEF SendGate, Send
<1>wire2. wire \in [Rank -> Seq(Message)]
  BY TypedVars
<1>wire. wire' \in [Rank -> Seq(Message)]
  BY <1>g, <1>w, <1>wire1, <1>wire2, MoreMessages
<1>same. UNCHANGED <<plan, done, gates, tp, rq, unacked, cq, hdr>>
  BY DEF SendGate, Send, nicVars
<1>inbuf. DOMAIN inbuf' = Rank /\ \A s \in Rank : DOMAIN inbuf'[s] = Places'
  BY PlacesSame DEF Typed, SendGate, Send, nicVars
<1>guard. op[r].pc # "idle" /\ n(r) \in Nat /\ plan[r] # <<>>
  BY TypedRank DEF SendGate, Bounded, Polling, Posting
<1>op3. \A s \in Rank : op'[s].pc = op[s].pc \/ (s = r /\ op'[s].pc \in {"send", "wait"})
  BY <1>op1, <1>op2 DEF OpType
<1>bounds. ASSUME NEW s \in Rank PROVE Bounded(s)'
  <2>1. Bounded(s) /\ n(s) \in Nat /\ gates[s] \in Nat /\ tp[s] \in TpType /\ tp[s].last \in Nat
    BY TypedRank DEF TpType
  <2> QED BY <1>g, <1>same, <1>guard, <1>op3, <2>1 DEF Bounded, n
<1> QED BY <1>op, <1>wire, <1>same, <1>inbuf, <1>bounds, TypedVars DEF Typed

(* PollGate keeps the types.                                            *)
LEMMA PollGateTyped ==
  ASSUME Typed, NEW r \in Rank, PollGate(r), mode' = mode
  PROVE  Typed'
<1>w. cq[r] # <<>> /\ Head(cq[r]).id \in Nat
  BY TypedRank, CqHead DEF PollGate, Reap
<1>tp1. tp' = tp \/ tp' = [tp EXCEPT ![r].auxRecv = AtLeast(@, Head(cq[r]).id)] \/ tp' = [tp EXCEPT ![r].recvDone = AtLeast(@, Head(cq[r]).id)] \/ tp' = [tp EXCEPT ![r].auxSend = AtLeast(@, Head(cq[r]).id)]
  <2>1. tp' = [tp EXCEPT ![r] = Watermark(@, Head(cq[r]))]
    BY DEF PollGate
  <2>2. tp[r] = [tp[r] EXCEPT !.win = @] /\ tp = [tp EXCEPT ![r] = @]
    BY TypedVars DEF TpType
  <2> QED BY <2>1, <2>2 DEF Watermark
<1>tp2. tp \in [Rank -> TpType]
  BY TypedVars
<1>tp. tp' \in [Rank -> TpType]
  <2>1. CASE tp' = tp
    BY <1>w, <1>tp2, <2>1 DEF TpType, AtLeast, AfterDrain
  <2>2. CASE tp' = [tp EXCEPT ![r].auxRecv = AtLeast(@, Head(cq[r]).id)]
    BY <1>w, <1>tp2, <2>2 DEF TpType, AtLeast, AfterDrain
  <2>3. CASE tp' = [tp EXCEPT ![r].recvDone = AtLeast(@, Head(cq[r]).id)]
    BY <1>w, <1>tp2, <2>3 DEF TpType, AtLeast, AfterDrain
  <2>4. CASE tp' = [tp EXCEPT ![r].auxSend = AtLeast(@, Head(cq[r]).id)]
    BY <1>w, <1>tp2, <2>4 DEF TpType, AtLeast, AfterDrain
  <2> QED BY <1>tp1, <2>1, <2>2, <2>3, <2>4
<1>op1. op' = op \/ op' = [op EXCEPT ![r].sd = 1]
  BY DEF PollGate, Reap, Watermark
<1>op2. op \in [Rank -> OpType]
  BY TypedVars
<1>op. op' \in [Rank -> OpType]
  <2>1. CASE op' = op
    BY <1>op2, <2>1 DEF OpType, Pc
  <2>2. CASE op' = [op EXCEPT ![r].sd = 1]
    BY <1>op2, <2>2 DEF OpType, Pc
  <2> QED BY <1>op1, <2>1, <2>2
<1>cq1. cq' = [cq EXCEPT ![r] = Tail(@)]
  BY DEF PollGate, Reap, Watermark
<1>cq2. cq \in [Rank -> Seq(Completion)]
  BY TypedVars
<1>cq. cq' \in [Rank -> Seq(Completion)]
  BY <1>w, <1>cq1, <1>cq2
<1>same. UNCHANGED <<plan, done, gates, rq, wire, unacked, hdr>>
  BY DEF PollGate, Reap, Watermark, nicVars
<1>inbuf. DOMAIN inbuf' = Rank /\ \A s \in Rank : DOMAIN inbuf'[s] = Places'
  BY PlacesSame DEF Typed, PollGate, Reap, Watermark, nicVars
<1>guard. op[r].pc # "idle" /\ n(r) \in Nat /\ plan[r] # <<>>
  BY TypedRank DEF PollGate, Bounded, Polling, Posting
<1>tp3. \A s \in Rank : tp'[s].last = tp[s].last
  <2>1. CASE tp' = tp
    BY <1>tp2, <2>1 DEF TpType
  <2>2. CASE tp' = [tp EXCEPT ![r].auxRecv = AtLeast(@, Head(cq[r]).id)]
    BY <1>tp2, <2>2 DEF TpType
  <2>3. CASE tp' = [tp EXCEPT ![r].recvDone = AtLeast(@, Head(cq[r]).id)]
    BY <1>tp2, <2>3 DEF TpType
  <2>4. CASE tp' = [tp EXCEPT ![r].auxSend = AtLeast(@, Head(cq[r]).id)]
    BY <1>tp2, <2>4 DEF TpType
  <2> QED BY <1>tp1, <2>1, <2>2, <2>3, <2>4
<1>op3. \A s \in Rank : op'[s].pc = op[s].pc \/ op'[s].pc = "idle" \/ (s = r /\ op'[s].pc \notin {"arm", "send", "wait"})
  <2>1. CASE op' = op
    BY <1>op2, <2>1 DEF OpType
  <2>2. CASE op' = [op EXCEPT ![r].sd = 1]
    BY <1>op2, <2>2 DEF OpType
  <2> QED BY <1>op1, <2>1, <2>2
<1>bounds. ASSUME NEW s \in Rank PROVE Bounded(s)'
  <2>1. Bounded(s) /\ n(s) \in Nat /\ gates[s] \in Nat /\ tp[s] \in TpType /\ tp[s].last \in Nat
    BY TypedRank DEF TpType
  <2> QED BY <1>same, <1>guard, <1>tp3, <1>op3, <2>1 DEF Bounded, n
<1> QED BY <1>tp, <1>op, <1>cq, <1>same, <1>inbuf, <1>bounds, TypedVars DEF Typed

(* FinishGate keeps the types.                                          *)
LEMMA FinishGateTyped ==
  ASSUME Typed, NEW r \in Rank, FinishGate(r), mode' = mode
  PROVE  Typed'
<1>w. GateReceives(gates[r] + Window) \in Seq(Message)
  BY TypedRank, GateNumbers, GateReceivesStream
<1>tp1. tp' = [tp EXCEPT ![r].last = gates[r]]
  BY DEF FinishGate, Post, Return, Goto
<1>tp2. tp \in [Rank -> TpType]
  BY TypedVars
<1>tp. tp' \in [Rank -> TpType]
  BY <1>w, <1>tp1, <1>tp2, TypedVars DEF TpType, AtLeast, AfterDrain
<1>op1. op' = [op EXCEPT ![r].pc = "idle"]
  BY DEF FinishGate, Post, Return, Goto
<1>op2. op \in [Rank -> OpType]
  BY TypedVars
<1>op. op' \in [Rank -> OpType]
  BY <1>w, <1>op1, <1>op2 DEF OpType, Pc
<1>done1. done' = [done EXCEPT ![r] = @ + 1]
  BY DEF FinishGate, Post, Return, Goto
<1>done2. done \in [Rank -> Nat]
  BY TypedVars
<1>done. done' \in [Rank -> Nat]
  BY <1>w, <1>done1, <1>done2
<1>rq1. rq' = [rq EXCEPT ![r] = @ \o GateReceives(gates[r] + Window)]
  BY DEF FinishGate, Post, Return, Goto
<1>rq2. rq \in [Rank -> Seq(Message)]
  BY TypedVars
<1>rq. rq' \in [Rank -> Seq(Message)]
  BY <1>w, <1>rq1, <1>rq2, MoreMessages
<1>same. UNCHANGED <<plan, gates, wire, unacked, cq, hdr>>
  BY DEF FinishGate, Post, Return, Goto, nicVars
<1>inbuf. DOMAIN inbuf' = Rank /\ \A s \in Rank : DOMAIN inbuf'[s] = Places'
  BY PlacesSame DEF Typed, FinishGate, Post, Return, Goto, nicVars
<1>guard. op[r].pc # "idle" /\ n(r) \in Nat /\ plan[r] # <<>>
  BY TypedRank DEF FinishGate, Bounded, Polling, Posting
<1>tp3. \A s \in Rank : tp'[s].last = IF s = r THEN gates[r] ELSE tp[s].last
  BY <1>tp1, <1>tp2 DEF TpType
<1>op3. \A s \in Rank : op'[s].pc = op[s].pc \/ op'[s].pc = "idle" \/ (s = r /\ op'[s].pc \notin {"arm", "send", "wait"})
  BY <1>op1, <1>op2 DEF OpType
<1>bounds. ASSUME NEW s \in Rank PROVE Bounded(s)'
  <2>1. Bounded(s) /\ n(s) \in Nat /\ gates[s] \in Nat /\ tp[s] \in TpType /\ tp[s].last \in Nat
    BY TypedRank DEF TpType
  <2> QED BY <1>same, <1>guard, <1>tp3, <1>op3, <2>1 DEF Bounded, n
<1> QED BY <1>tp, <1>op, <1>done, <1>rq, <1>same, <1>inbuf, <1>bounds, TypedVars DEF Typed

(* FinishAux keeps the types.                                           *)
LEMMA FinishAuxTyped ==
  ASSUME Typed, NEW r \in Rank, FinishAux(r), mode' = mode
  PROVE  Typed'
<1>tp1. tp' = tp \/ tp' = [tp EXCEPT ![r].failed = TRUE]
  BY DEF FinishAux, Return, ReturnFailed, Goto
<1>tp2. tp \in [Rank -> TpType]
  BY TypedVars
<1>tp. tp' \in [Rank -> TpType]
  <2>1. CASE tp' = tp
    BY <1>tp2, <2>1 DEF TpType, AtLeast, AfterDrain
  <2>2. CASE tp' = [tp EXCEPT ![r].failed = TRUE]
    BY <1>tp2, <2>2 DEF TpType, AtLeast, AfterDrain
  <2> QED BY <1>tp1, <2>1, <2>2
<1>op1. op' = [op EXCEPT ![r].pc = "idle"]
  BY DEF FinishAux, Return, ReturnFailed, Goto
<1>op2. op \in [Rank -> OpType]
  BY TypedVars
<1>op. op' \in [Rank -> OpType]
  BY <1>op1, <1>op2 DEF OpType, Pc
<1>done1. done' = done \/ done' = [done EXCEPT ![r] = @ + 1]
  BY DEF FinishAux, Return, ReturnFailed, Goto
<1>done2. done \in [Rank -> Nat]
  BY TypedVars
<1>done. done' \in [Rank -> Nat]
  <2>1. CASE done' = done
    BY <1>done2, <2>1
  <2>2. CASE done' = [done EXCEPT ![r] = @ + 1]
    BY <1>done2, <2>2
  <2> QED BY <1>done1, <2>1, <2>2
<1>same. UNCHANGED <<plan, gates, rq, wire, unacked, cq, hdr>>
  BY DEF FinishAux, Return, ReturnFailed, Goto, nicVars
<1>inbuf. DOMAIN inbuf' = Rank /\ \A s \in Rank : DOMAIN inbuf'[s] = Places'
  BY PlacesSame DEF Typed, FinishAux, Return, ReturnFailed, Goto, nicVars
<1>guard. op[r].pc # "idle" /\ n(r) \in Nat /\ plan[r] # <<>>
  BY TypedRank DEF FinishAux, Bounded, Polling, Posting
<1>tp3. \A s \in Rank : tp'[s].last = tp[s].last
  <2>1. CASE tp' = tp
    BY <1>tp2, <2>1 DEF TpType
  <2>2. CASE tp' = [tp EXCEPT ![r].failed = TRUE]
    BY <1>tp2, <2>2 DEF TpType
  <2> QED BY <1>tp1, <2>1, <2>2
<1>op3. \A s \in Rank : op'[s].pc = op[s].pc \/ op'[s].pc = "idle" \/ (s = r /\ op'[s].pc \notin {"arm", "send", "wait"})
  BY <1>op1, <1>op2 DEF OpType
<1>bounds. ASSUME NEW s \in Rank PROVE Bounded(s)'
  <2>1. Bounded(s) /\ n(s) \in Nat /\ gates[s] \in Nat /\ tp[s] \in TpType /\ tp[s].last \in Nat
    BY TypedRank DEF TpType
  <2> QED BY <1>same, <1>guard, <1>tp3, <1>op3, <2>1 DEF Bounded, n
<1> QED BY <1>tp, <1>op, <1>done, <1>same, <1>inbuf, <1>bounds, TypedVars DEF Typed

(* WriteHeader keeps the types.                                         *)
LEMMA WriteHeaderTyped ==
  ASSUME Typed, NEW r \in Rank, WriteHeader(r), mode' = mode
  PROVE  Typed'
<1>w. Peer(r) \in Rank /\ Header(r) \in HeaderRecord
  BY HeaderTyped, TwoRanks DEF WriteHeader
<1>op1. op' = [op EXCEPT ![r].pc = "header"]
  BY DEF WriteHeader, Tell, Goto
<1>op2. op \in [Rank -> OpType]
  BY TypedVars
<1>op. op' \in [Rank -> OpType]
  BY <1>w, <1>op1, <1>op2 DEF OpType, Pc
<1>hdr1. hdr' = [hdr EXCEPT ![Peer(r)] = Append(@, Header(r))]
  BY DEF WriteHeader, Tell, Goto
<1>hdr2. hdr \in [Rank -> Seq(HeaderRecord)]
  BY TypedVars
<1>hdr. hdr' \in [Rank -> Seq(HeaderRecord)]
  BY <1>w, <1>hdr1, <1>hdr2
<1>same. UNCHANGED <<plan, done, gates, tp, rq, wire, unacked, cq>>
  BY DEF WriteHeader, Tell, Goto, nicVars
<1>inbuf. DOMAIN inbuf' = Rank /\ \A s \in Rank : DOMAIN inbuf'[s] = Places'
  BY PlacesSame DEF Typed, WriteHeader, Tell, Goto, nicVars
<1>guard. op[r].pc # "idle" /\ n(r) \in Nat /\ plan[r] # <<>>
  BY TypedRank DEF WriteHeader, Bounded, Polling, Posting
<1>op3. \A s \in Rank : op'[s].pc = op[s].pc \/ op'[s].pc = "idle" \/ (s = r /\ op'[s].pc \notin {"arm", "send", "wait"})
  BY <1>op1, <1>op2 DEF OpType
<1>bounds. ASSUME NEW s \in Rank PROVE Bounded(s)'
  <2>1. Bounded(s) /\ n(s) \in Nat /\ gates[s] \in Nat /\ tp[s] \in TpType /\ tp[s].last \in Nat
    BY TypedRank DEF TpType
  <2> QED BY <1>same, <1>guard, <1>op3, <2>1 DEF Bounded, n
<1> QED BY <1>op, <1>hdr, <1>same, <1>inbuf, <1>bounds, TypedVars DEF Typed

(* ReadHeader keeps the types.                                          *)
LEMMA ReadHeaderTyped ==
  ASSUME Typed, NEW r \in Rank, ReadHeader(r), mode' = mode
  PROVE  Typed'
<1>w. hdr[r] # <<>>
  BY DEF ReadHeader, Hear
<1>tp1. tp' = tp \/ tp' = [tp EXCEPT ![r].failed = TRUE]
  BY DEF ReadHeader, Hear, Goto, ReturnFailed
<1>tp2. tp \in [Rank -> TpType]
  BY TypedVars
<1>tp. tp' \in [Rank -> TpType]
  <2>1. CASE tp' = tp
    BY <1>w, <1>tp2, <2>1 DEF TpType, AtLeast, AfterDrain
  <2>2. CASE tp' = [tp EXCEPT ![r].failed = TRUE]
    BY <1>w, <1>tp2, <2>2 DEF TpType, AtLeast, AfterDrain
  <2> QED BY <1>tp1, <2>1, <2>2
<1>op1. op' = [op EXCEPT ![r].pc = "idle"] \/ op' = [op EXCEPT ![r].pc = "drain"]
  BY DEF ReadHeader, Hear, Goto, ReturnFailed
<1>op2. op \in [Rank -> OpType]
  BY TypedVars
<1>op. op' \in [Rank -> OpType]
  <2>1. CASE op' = [op EXCEPT ![r].pc = "idle"]
    BY <1>op2, <2>1 DEF OpType, Pc
  <2>2. CASE op' = [op EXCEPT ![r].pc = "drain"]
    BY <1>op2, <2>2 DEF OpType, Pc
  <2> QED BY <1>op1, <2>1, <2>2
<1>hdr1. hdr' = [hdr EXCEPT ![r] = Tail(@)]
  BY DEF ReadHeader, Hear, Goto, ReturnFailed
<1>hdr2. hdr \in [Rank -> Seq(HeaderRecord)]
  BY TypedVars
<1>hdr. hdr' \in [Rank -> Seq(HeaderRecord)]
  BY <1>w, <1>hdr1, <1>hdr2
<1>same. UNCHANGED <<plan, done, gates, rq, wire, unacked, cq>>
  BY DEF ReadHeader, Hear, Goto, ReturnFailed, nicVars
<1>inbuf. DOMAIN inbuf' = Rank /\ \A s \in Rank : DOMAIN inbuf'[s] = Places'
  BY PlacesSame DEF Typed, ReadHeader, Hear, Goto, ReturnFailed, nicVars
<1>guard. op[r].pc # "idle" /\ n(r) \in Nat /\ plan[r] # <<>>
  BY TypedRank DEF ReadHeader, Bounded, Polling, Posting
<1>tp3. \A s \in Rank : tp'[s].last = tp[s].last
  <2>1. CASE tp' = tp
    BY <1>tp2, <2>1 DEF TpType
  <2>2. CASE tp' = [tp EXCEPT ![r].failed = TRUE]
    BY <1>tp2, <2>2 DEF TpType
  <2> QED BY <1>tp1, <2>1, <2>2
<1>op3. \A s \in Rank : op'[s].pc = op[s].pc \/ op'[s].pc = "idle" \/ (s = r /\ op'[s].pc \notin {"arm", "send", "wait"})
  <2>1. CASE op' = [op EXCEPT ![r].pc = "idle"]
    BY <1>op2, <2>1 DEF OpType
  <2>2. CASE op' = [op EXCEPT ![r].pc = "drain"]
    BY <1>op2, <2>2 DEF OpType
  <2> QED BY <1>op1, <2>1, <2>2
<1>bounds. ASSUME NEW s \in Rank PROVE Bounded(s)'
  <2>1. Bounded(s) /\ n(s) \in Nat /\ gates[s] \in Nat /\ tp[s] \in TpType /\ tp[s].last \in Nat
    BY TypedRank DEF TpType
  <2> QED BY <1>same, <1>guard, <1>tp3, <1>op3, <2>1 DEF Bounded, n
<1> QED BY <1>tp, <1>op, <1>hdr, <1>same, <1>inbuf, <1>bounds, TypedVars DEF Typed

(* NothingToDrain keeps the types.                                      *)
LEMMA NothingToDrainTyped ==
  ASSUME Typed, NEW r \in Rank, NothingToDrain(r), mode' = mode
  PROVE  Typed'
<1>op1. op' = [op EXCEPT ![r] = [pc |-> "post", off |-> 0, rd |-> 0, sd |-> 0]]
  BY DEF NothingToDrain, StartLoop
<1>op2. op \in [Rank -> OpType]
  BY TypedVars
<1>op. op' \in [Rank -> OpType]
  BY <1>op1, <1>op2 DEF OpType, Pc
<1>same. UNCHANGED <<plan, done, gates, tp, rq, wire, unacked, cq, hdr>>
  BY DEF NothingToDrain, StartLoop, nicVars
<1>inbuf. DOMAIN inbuf' = Rank /\ \A s \in Rank : DOMAIN inbuf'[s] = Places'
  BY PlacesSame DEF Typed, NothingToDrain, StartLoop, nicVars
<1>guard. op[r].pc # "idle" /\ n(r) \in Nat /\ plan[r] # <<>>
  BY TypedRank DEF NothingToDrain, Bounded, Polling, Posting
<1>op3. \A s \in Rank : op'[s].pc = op[s].pc \/ op'[s].pc = "idle" \/ (s = r /\ op'[s].pc \notin {"arm", "send", "wait"})
  BY <1>op1, <1>op2 DEF OpType
<1>bounds. ASSUME NEW s \in Rank PROVE Bounded(s)'
  <2>1. Bounded(s) /\ n(s) \in Nat /\ gates[s] \in Nat /\ tp[s] \in TpType /\ tp[s].last \in Nat
    BY TypedRank DEF TpType
  <2> QED BY <1>same, <1>guard, <1>op3, <2>1 DEF Bounded, n
<1> QED BY <1>op, <1>same, <1>inbuf, <1>bounds, TypedVars DEF Typed

(* SendFiller keeps the types.                                          *)
LEMMA SendFillerTyped ==
  ASSUME Typed, NEW r \in Rank, SendFiller(r), mode' = mode
  PROVE  Typed'
<1>w. Peer(r) \in Rank /\ Filler(DrainFrom(r), DrainTo(r)) \in Seq(Message)
  BY FillerTyped, TwoRanks
<1>op1. op' = [op EXCEPT ![r] = [pc |-> "drainwait", off |-> 0, rd |-> 0, sd |-> 0]]
  BY DEF SendFiller, StartLoop, Send
<1>op2. op \in [Rank -> OpType]
  BY TypedVars
<1>op. op' \in [Rank -> OpType]
  BY <1>w, <1>op1, <1>op2 DEF OpType, Pc
<1>wire1. wire' = [wire EXCEPT ![Peer(r)] = @ \o Filler(DrainFrom(r), DrainTo(r))]
  BY DEF SendFiller, StartLoop, Send
<1>wire2. wire \in [Rank -> Seq(Message)]
  BY TypedVars
<1>wire. wire' \in [Rank -> Seq(Message)]
  BY <1>w, <1>wire1, <1>wire2, MoreMessages
<1>same. UNCHANGED <<plan, done, gates, tp, rq, unacked, cq, hdr>>
  BY DEF SendFiller, StartLoop, Send, nicVars
<1>inbuf. DOMAIN inbuf' = Rank /\ \A s \in Rank : DOMAIN inbuf'[s] = Places'
  BY PlacesSame DEF Typed, SendFiller, StartLoop, Send, nicVars
<1>guard. op[r].pc # "idle" /\ n(r) \in Nat /\ plan[r] # <<>>
  BY TypedRank DEF SendFiller, Bounded, Polling, Posting
<1>op3. \A s \in Rank : op'[s].pc = op[s].pc \/ op'[s].pc = "idle" \/ (s = r /\ op'[s].pc \notin {"arm", "send", "wait"})
  BY <1>op1, <1>op2 DEF OpType
<1>bounds. ASSUME NEW s \in Rank PROVE Bounded(s)'
  <2>1. Bounded(s) /\ n(s) \in Nat /\ gates[s] \in Nat /\ tp[s] \in TpType /\ tp[s].last \in Nat
    BY TypedRank DEF TpType
  <2> QED BY <1>same, <1>guard, <1>op3, <2>1 DEF Bounded, n
<1> QED BY <1>op, <1>wire, <1>same, <1>inbuf, <1>bounds, TypedVars DEF Typed

(* PollDrain keeps the types.                                           *)
LEMMA PollDrainTyped ==
  ASSUME Typed, NEW r \in Rank, PollDrain(r), mode' = mode
  PROVE  Typed'
<1>w. cq[r] # <<>>
  BY DEF PollDrain, Reap
<1>op1. op' = op \/ op' = [op EXCEPT ![r].rd = @ + 1] \/ op' = [op EXCEPT ![r].sd = 1]
  BY DEF PollDrain, Reap
<1>op2. op \in [Rank -> OpType]
  BY TypedVars
<1>op. op' \in [Rank -> OpType]
  <2>1. CASE op' = op
    BY <1>op2, <2>1 DEF OpType
  <2>2. CASE op' = [op EXCEPT ![r].rd = @ + 1]
    BY <1>op2, <2>2 DEF OpType
  <2>3. CASE op' = [op EXCEPT ![r].sd = 1]
    BY <1>op2, <2>3 DEF OpType
  <2> QED BY <1>op1, <2>1, <2>2, <2>3
<1>cq1. cq' = [cq EXCEPT ![r] = Tail(@)]
  BY DEF PollDrain, Reap
<1>cq2. cq \in [Rank -> Seq(Completion)]
  BY TypedVars
<1>cq. cq' \in [Rank -> Seq(Completion)]
  BY <1>w, <1>cq1, <1>cq2
<1>same. UNCHANGED <<plan, done, gates, tp, rq, wire, unacked, hdr>>
  BY DEF PollDrain, Reap, nicVars
<1>inbuf. DOMAIN inbuf' = Rank /\ \A s \in Rank : DOMAIN inbuf'[s] = Places'
  BY PlacesSame DEF Typed, PollDrain, Reap, nicVars
<1>guard. op[r].pc # "idle" /\ n(r) \in Nat /\ plan[r] # <<>>
  BY TypedRank DEF PollDrain, Bounded, Polling, Posting
<1>op3. \A s \in Rank : op'[s].pc = op[s].pc \/ op'[s].pc = "idle" \/ (s = r /\ op'[s].pc \notin {"arm", "send", "wait"})
  <2>1. CASE op' = op
    BY <1>op2, <2>1 DEF OpType
  <2>2. CASE op' = [op EXCEPT ![r].rd = @ + 1]
    BY <1>op2, <2>2 DEF OpType
  <2>3. CASE op' = [op EXCEPT ![r].sd = 1]
    BY <1>op2, <2>3 DEF OpType
  <2> QED BY <1>op1, <2>1, <2>2, <2>3
<1>bounds. ASSUME NEW s \in Rank PROVE Bounded(s)'
  <2>1. Bounded(s) /\ n(s) \in Nat /\ gates[s] \in Nat /\ tp[s] \in TpType /\ tp[s].last \in Nat
    BY TypedRank DEF TpType
  <2> QED BY <1>same, <1>guard, <1>op3, <2>1 DEF Bounded, n
<1> QED BY <1>op, <1>cq, <1>same, <1>inbuf, <1>bounds, TypedVars DEF Typed

(* FinishDrain keeps the types.                                         *)
LEMMA FinishDrainTyped ==
  ASSUME Typed, NEW r \in Rank, FinishDrain(r), mode' = mode
  PROVE  Typed'
<1>tp1. tp' = [tp EXCEPT ![r] = AfterDrain(@)]
  BY DEF FinishDrain, StartLoop
<1>tp2. tp \in [Rank -> TpType]
  BY TypedVars
<1>tp. tp' \in [Rank -> TpType]
  BY <1>tp1, <1>tp2 DEF TpType, AtLeast, AfterDrain
<1>op1. op' = [op EXCEPT ![r] = [pc |-> "post", off |-> 0, rd |-> 0, sd |-> 0]]
  BY DEF FinishDrain, StartLoop
<1>op2. op \in [Rank -> OpType]
  BY TypedVars
<1>op. op' \in [Rank -> OpType]
  BY <1>op1, <1>op2 DEF OpType, Pc
<1>same. UNCHANGED <<plan, done, gates, rq, wire, unacked, cq, hdr>>
  BY DEF FinishDrain, StartLoop, nicVars
<1>inbuf. DOMAIN inbuf' = Rank /\ \A s \in Rank : DOMAIN inbuf'[s] = Places'
  BY PlacesSame DEF Typed, FinishDrain, StartLoop, nicVars
<1>guard. op[r].pc # "idle" /\ n(r) \in Nat /\ plan[r] # <<>>
  BY TypedRank DEF FinishDrain, Bounded, Polling, Posting
<1>tp3. \A s \in Rank : tp'[s].last = tp[s].last
  BY <1>tp1, <1>tp2 DEF TpType, AfterDrain
<1>op3. \A s \in Rank : op'[s].pc = op[s].pc \/ op'[s].pc = "idle" \/ (s = r /\ op'[s].pc \notin {"arm", "send", "wait"})
  BY <1>op1, <1>op2 DEF OpType
<1>bounds. ASSUME NEW s \in Rank PROVE Bounded(s)'
  <2>1. Bounded(s) /\ n(s) \in Nat /\ gates[s] \in Nat /\ tp[s] \in TpType /\ tp[s].last \in Nat
    BY TypedRank DEF TpType
  <2> QED BY <1>same, <1>guard, <1>tp3, <1>op3, <2>1 DEF Bounded, n
<1> QED BY <1>tp, <1>op, <1>same, <1>inbuf, <1>bounds, TypedVars DEF Typed

(* PostRound keeps the types.                                           *)
LEMMA PostRoundTyped ==
  ASSUME Typed, NEW r \in Rank, PostRound(r), mode' = mode
  PROVE  Typed'
<1>w. BulkRound(Opno(r), Round(r).from, Round(r).to) \in Seq(Message)
  BY RoundTyped DEF PostRound
<1>op1. op' = [op EXCEPT ![r].pc = "tellready"] \/ op' = [op EXCEPT ![r].pc = "bulksend"]
  BY DEF PostRound, Post, Goto
<1>op2. op \in [Rank -> OpType]
  BY TypedVars
<1>op. op' \in [Rank -> OpType]
  <2>1. CASE op' = [op EXCEPT ![r].pc = "tellready"]
    BY <1>op2, <2>1 DEF OpType, Pc
  <2>2. CASE op' = [op EXCEPT ![r].pc = "bulksend"]
    BY <1>op2, <2>2 DEF OpType, Pc
  <2> QED BY <1>op1, <2>1, <2>2
<1>rq1. rq' = [rq EXCEPT ![r] = @ \o BulkRound(Opno(r), Round(r).from, Round(r).to)]
  BY DEF PostRound, Post, Goto
<1>rq2. rq \in [Rank -> Seq(Message)]
  BY TypedVars
<1>rq. rq' \in [Rank -> Seq(Message)]
  BY <1>w, <1>rq1, <1>rq2, MoreMessages
<1>same. UNCHANGED <<plan, done, gates, tp, wire, unacked, cq, hdr>>
  BY DEF PostRound, Post, Goto, nicVars
<1>inbuf. DOMAIN inbuf' = Rank /\ \A s \in Rank : DOMAIN inbuf'[s] = Places'
  BY PlacesSame DEF Typed, PostRound, Post, Goto, nicVars
<1>guard. op[r].pc # "idle" /\ n(r) \in Nat /\ plan[r] # <<>>
  BY TypedRank DEF PostRound, Bounded, Polling, Posting
<1>op3. \A s \in Rank : op'[s].pc = op[s].pc \/ op'[s].pc = "idle" \/ (s = r /\ op'[s].pc \notin {"arm", "send", "wait"})
  <2>1. CASE op' = [op EXCEPT ![r].pc = "tellready"]
    BY <1>op2, <2>1 DEF OpType
  <2>2. CASE op' = [op EXCEPT ![r].pc = "bulksend"]
    BY <1>op2, <2>2 DEF OpType
  <2> QED BY <1>op1, <2>1, <2>2
<1>bounds. ASSUME NEW s \in Rank PROVE Bounded(s)'
  <2>1. Bounded(s) /\ n(s) \in Nat /\ gates[s] \in Nat /\ tp[s] \in TpType /\ tp[s].last \in Nat
    BY TypedRank DEF TpType
  <2> QED BY <1>same, <1>guard, <1>op3, <2>1 DEF Bounded, n
<1> QED BY <1>op, <1>rq, <1>same, <1>inbuf, <1>bounds, TypedVars DEF Typed

(* TellReady keeps the types.                                           *)
LEMMA TellReadyTyped ==
  ASSUME Typed, NEW r \in Rank, TellReady(r), mode' = mode
  PROVE  Typed'
<1>w. Peer(r) \in Rank /\ Ready(r) \in HeaderRecord
  BY HeaderTyped, TwoRanks DEF TellReady
<1>op1. op' = [op EXCEPT ![r].pc = "ready"]
  BY DEF TellReady, Tell, Goto
<1>op2. op \in [Rank -> OpType]
  BY TypedVars
<1>op. op' \in [Rank -> OpType]
  BY <1>w, <1>op1, <1>op2 DEF OpType, Pc
<1>hdr1. hdr' = [hdr EXCEPT ![Peer(r)] = Append(@, Ready(r))]
  BY DEF TellReady, Tell, Goto
<1>hdr2. hdr \in [Rank -> Seq(HeaderRecord)]
  BY TypedVars
<1>hdr. hdr' \in [Rank -> Seq(HeaderRecord)]
  BY <1>w, <1>hdr1, <1>hdr2
<1>same. UNCHANGED <<plan, done, gates, tp, rq, wire, unacked, cq>>
  BY DEF TellReady, Tell, Goto, nicVars
<1>inbuf. DOMAIN inbuf' = Rank /\ \A s \in Rank : DOMAIN inbuf'[s] = Places'
  BY PlacesSame DEF Typed, TellReady, Tell, Goto, nicVars
<1>guard. op[r].pc # "idle" /\ n(r) \in Nat /\ plan[r] # <<>>
  BY TypedRank DEF TellReady, Bounded, Polling, Posting
<1>op3. \A s \in Rank : op'[s].pc = op[s].pc \/ op'[s].pc = "idle" \/ (s = r /\ op'[s].pc \notin {"arm", "send", "wait"})
  BY <1>op1, <1>op2 DEF OpType
<1>bounds. ASSUME NEW s \in Rank PROVE Bounded(s)'
  <2>1. Bounded(s) /\ n(s) \in Nat /\ gates[s] \in Nat /\ tp[s] \in TpType /\ tp[s].last \in Nat
    BY TypedRank DEF TpType
  <2> QED BY <1>same, <1>guard, <1>op3, <2>1 DEF Bounded, n
<1> QED BY <1>op, <1>hdr, <1>same, <1>inbuf, <1>bounds, TypedVars DEF Typed

(* HearReady keeps the types.                                           *)
LEMMA HearReadyTyped ==
  ASSUME Typed, NEW r \in Rank, HearReady(r), mode' = mode
  PROVE  Typed'
<1>w. hdr[r] # <<>>
  BY DEF HearReady, Hear
<1>tp1. tp' = tp \/ tp' = [tp EXCEPT ![r] = [@ EXCEPT !.failed = TRUE, !.closed = TRUE]]
  BY DEF HearReady, Hear, Goto
<1>tp2. tp \in [Rank -> TpType]
  BY TypedVars
<1>tp. tp' \in [Rank -> TpType]
  <2>1. CASE tp' = tp
    BY <1>w, <1>tp2, <2>1 DEF TpType, AtLeast, AfterDrain
  <2>2. CASE tp' = [tp EXCEPT ![r] = [@ EXCEPT !.failed = TRUE, !.closed = TRUE]]
    BY <1>w, <1>tp2, <2>2 DEF TpType, AtLeast, AfterDrain
  <2> QED BY <1>tp1, <2>1, <2>2
<1>op1. op' = [op EXCEPT ![r].pc = "idle"] \/ op' = [op EXCEPT ![r].pc = "bulksend"]
  BY DEF HearReady, Hear, Goto
<1>op2. op \in [Rank -> OpType]
  BY TypedVars
<1>op. op' \in [Rank -> OpType]
  <2>1. CASE op' = [op EXCEPT ![r].pc = "idle"]
    BY <1>op2, <2>1 DEF OpType, Pc
  <2>2. CASE op' = [op EXCEPT ![r].pc = "bulksend"]
    BY <1>op2, <2>2 DEF OpType, Pc
  <2> QED BY <1>op1, <2>1, <2>2
<1>hdr1. hdr' = [hdr EXCEPT ![r] = Tail(@)]
  BY DEF HearReady, Hear, Goto
<1>hdr2. hdr \in [Rank -> Seq(HeaderRecord)]
  BY TypedVars
<1>hdr. hdr' \in [Rank -> Seq(HeaderRecord)]
  BY <1>w, <1>hdr1, <1>hdr2
<1>same. UNCHANGED <<plan, done, gates, rq, wire, unacked, cq>>
  BY DEF HearReady, Hear, Goto, nicVars
<1>inbuf. DOMAIN inbuf' = Rank /\ \A s \in Rank : DOMAIN inbuf'[s] = Places'
  BY PlacesSame DEF Typed, HearReady, Hear, Goto, nicVars
<1>guard. op[r].pc # "idle" /\ n(r) \in Nat /\ plan[r] # <<>>
  BY TypedRank DEF HearReady, Bounded, Polling, Posting
<1>tp3. \A s \in Rank : tp'[s].last = tp[s].last
  <2>1. CASE tp' = tp
    BY <1>tp2, <2>1 DEF TpType
  <2>2. CASE tp' = [tp EXCEPT ![r] = [@ EXCEPT !.failed = TRUE, !.closed = TRUE]]
    BY <1>tp2, <2>2 DEF TpType
  <2> QED BY <1>tp1, <2>1, <2>2
<1>op3. \A s \in Rank : op'[s].pc = op[s].pc \/ op'[s].pc = "idle" \/ (s = r /\ op'[s].pc \notin {"arm", "send", "wait"})
  <2>1. CASE op' = [op EXCEPT ![r].pc = "idle"]
    BY <1>op2, <2>1 DEF OpType
  <2>2. CASE op' = [op EXCEPT ![r].pc = "bulksend"]
    BY <1>op2, <2>2 DEF OpType
  <2> QED BY <1>op1, <2>1, <2>2
<1>bounds. ASSUME NEW s \in Rank PROVE Bounded(s)'
  <2>1. Bounded(s) /\ n(s) \in Nat /\ gates[s] \in Nat /\ tp[s] \in TpType /\ tp[s].last \in Nat
    BY TypedRank DEF TpType
  <2> QED BY <1>same, <1>guard, <1>tp3, <1>op3, <2>1 DEF Bounded, n
<1> QED BY <1>tp, <1>op, <1>hdr, <1>same, <1>inbuf, <1>bounds, TypedVars DEF Typed

(* SendRound keeps the types.                                           *)
LEMMA SendRoundTyped ==
  ASSUME Typed, NEW r \in Rank, SendRound(r), mode' = mode
  PROVE  Typed'
<1>w. Peer(r) \in Rank /\ BulkRound(Opno(r), Round(r).from, Round(r).to) \in Seq(Message) /\ op[r].off \in Nat
  BY RoundTyped, TypedRank, TwoRanks DEF SendRound, OpType
<1>op1. op' = [op EXCEPT ![r] = [pc |-> "bulkwait", off |-> op[r].off, rd |-> 0, sd |-> 0]]
  BY DEF SendRound, Send, StartLoop
<1>op2. op \in [Rank -> OpType]
  BY TypedVars
<1>op. op' \in [Rank -> OpType]
  BY <1>w, <1>op1, <1>op2 DEF OpType, Pc
<1>wire1. wire' = [wire EXCEPT ![Peer(r)] = @ \o BulkRound(Opno(r), Round(r).from, Round(r).to)]
  BY DEF SendRound, Send, StartLoop
<1>wire2. wire \in [Rank -> Seq(Message)]
  BY TypedVars
<1>wire. wire' \in [Rank -> Seq(Message)]
  BY <1>w, <1>wire1, <1>wire2, MoreMessages
<1>same. UNCHANGED <<plan, done, gates, tp, rq, unacked, cq, hdr>>
  BY DEF SendRound, Send, StartLoop, nicVars
<1>inbuf. DOMAIN inbuf' = Rank /\ \A s \in Rank : DOMAIN inbuf'[s] = Places'
  BY PlacesSame DEF Typed, SendRound, Send, StartLoop, nicVars
<1>guard. op[r].pc # "idle" /\ n(r) \in Nat /\ plan[r] # <<>>
  BY TypedRank DEF SendRound, Bounded, Polling, Posting
<1>op3. \A s \in Rank : op'[s].pc = op[s].pc \/ op'[s].pc = "idle" \/ (s = r /\ op'[s].pc \notin {"arm", "send", "wait"})
  BY <1>op1, <1>op2 DEF OpType
<1>bounds. ASSUME NEW s \in Rank PROVE Bounded(s)'
  <2>1. Bounded(s) /\ n(s) \in Nat /\ gates[s] \in Nat /\ tp[s] \in TpType /\ tp[s].last \in Nat
    BY TypedRank DEF TpType
  <2> QED BY <1>same, <1>guard, <1>op3, <2>1 DEF Bounded, n
<1> QED BY <1>op, <1>wire, <1>same, <1>inbuf, <1>bounds, TypedVars DEF Typed

(* PollBulk keeps the types.                                            *)
LEMMA PollBulkTyped ==
  ASSUME Typed, NEW r \in Rank, PollBulk(r), mode' = mode
  PROVE  Typed'
<1>w. cq[r] # <<>> /\ Head(cq[r]).id \in Nat
  BY TypedRank, CqHead DEF PollBulk, Reap
<1>tp1. tp' = tp \/ tp' = [tp EXCEPT ![r].recvDone = AtLeast(@, Head(cq[r]).id)]
  BY DEF PollBulk, Reap
<1>tp2. tp \in [Rank -> TpType]
  BY TypedVars
<1>tp. tp' \in [Rank -> TpType]
  <2>1. CASE tp' = tp
    BY <1>w, <1>tp2, <2>1 DEF TpType, AtLeast, AfterDrain
  <2>2. CASE tp' = [tp EXCEPT ![r].recvDone = AtLeast(@, Head(cq[r]).id)]
    BY <1>w, <1>tp2, <2>2 DEF TpType, AtLeast, AfterDrain
  <2> QED BY <1>tp1, <2>1, <2>2
<1>op1. op' = op \/ op' = [op EXCEPT ![r].rd = @ + 1] \/ op' = [op EXCEPT ![r].sd = @ + 1]
  BY DEF PollBulk, Reap
<1>op2. op \in [Rank -> OpType]
  BY TypedVars
<1>op. op' \in [Rank -> OpType]
  <2>1. CASE op' = op
    BY <1>op2, <2>1 DEF OpType
  <2>2. CASE op' = [op EXCEPT ![r].rd = @ + 1]
    BY <1>op2, <2>2 DEF OpType
  <2>3. CASE op' = [op EXCEPT ![r].sd = @ + 1]
    BY <1>op2, <2>3 DEF OpType
  <2> QED BY <1>op1, <2>1, <2>2, <2>3
<1>cq1. cq' = [cq EXCEPT ![r] = Tail(@)]
  BY DEF PollBulk, Reap
<1>cq2. cq \in [Rank -> Seq(Completion)]
  BY TypedVars
<1>cq. cq' \in [Rank -> Seq(Completion)]
  BY <1>w, <1>cq1, <1>cq2
<1>same. UNCHANGED <<plan, done, gates, rq, wire, unacked, hdr>>
  BY DEF PollBulk, Reap, nicVars
<1>inbuf. DOMAIN inbuf' = Rank /\ \A s \in Rank : DOMAIN inbuf'[s] = Places'
  BY PlacesSame DEF Typed, PollBulk, Reap, nicVars
<1>guard. op[r].pc # "idle" /\ n(r) \in Nat /\ plan[r] # <<>>
  BY TypedRank DEF PollBulk, Bounded, Polling, Posting
<1>tp3. \A s \in Rank : tp'[s].last = tp[s].last
  <2>1. CASE tp' = tp
    BY <1>tp2, <2>1 DEF TpType
  <2>2. CASE tp' = [tp EXCEPT ![r].recvDone = AtLeast(@, Head(cq[r]).id)]
    BY <1>tp2, <2>2 DEF TpType
  <2> QED BY <1>tp1, <2>1, <2>2
<1>op3. \A s \in Rank : op'[s].pc = op[s].pc \/ op'[s].pc = "idle" \/ (s = r /\ op'[s].pc \notin {"arm", "send", "wait"})
  <2>1. CASE op' = op
    BY <1>op2, <2>1 DEF OpType
  <2>2. CASE op' = [op EXCEPT ![r].rd = @ + 1]
    BY <1>op2, <2>2 DEF OpType
  <2>3. CASE op' = [op EXCEPT ![r].sd = @ + 1]
    BY <1>op2, <2>3 DEF OpType
  <2> QED BY <1>op1, <2>1, <2>2, <2>3
<1>bounds. ASSUME NEW s \in Rank PROVE Bounded(s)'
  <2>1. Bounded(s) /\ n(s) \in Nat /\ gates[s] \in Nat /\ tp[s] \in TpType /\ tp[s].last \in Nat
    BY TypedRank DEF TpType
  <2> QED BY <1>same, <1>guard, <1>tp3, <1>op3, <2>1 DEF Bounded, n
<1> QED BY <1>tp, <1>op, <1>cq, <1>same, <1>inbuf, <1>bounds, TypedVars DEF Typed

(* FinishRound keeps the types.                                         *)
LEMMA FinishRoundTyped ==
  ASSUME Typed, NEW r \in Rank, FinishRound(r), mode' = mode
  PROVE  Typed'
<1>w. Round(r).to \in Nat
  BY RoundTyped DEF FinishRound
<1>op1. op' = [op EXCEPT ![r].pc = "idle"] \/ op' = [op EXCEPT ![r] = [pc |-> "post", off |-> Round(r).to, rd |-> 0, sd |-> 0]]
  BY DEF FinishRound, StartLoop, Return, Goto
<1>op2. op \in [Rank -> OpType]
  BY TypedVars
<1>op. op' \in [Rank -> OpType]
  <2>1. CASE op' = [op EXCEPT ![r].pc = "idle"]
    BY <1>op2, <2>1 DEF OpType, Pc
  <2>2. CASE op' = [op EXCEPT ![r] = [pc |-> "post", off |-> Round(r).to, rd |-> 0, sd |-> 0]]
    BY <1>w, <1>op2, <2>2 DEF OpType, Pc
  <2> QED BY <1>op1, <2>1, <2>2
<1>done1. done' = done \/ done' = [done EXCEPT ![r] = @ + 1]
  BY DEF FinishRound, StartLoop, Return, Goto
<1>done2. done \in [Rank -> Nat]
  BY TypedVars
<1>done. done' \in [Rank -> Nat]
  <2>1. CASE done' = done
    BY <1>w, <1>done2, <2>1
  <2>2. CASE done' = [done EXCEPT ![r] = @ + 1]
    BY <1>w, <1>done2, <2>2
  <2> QED BY <1>done1, <2>1, <2>2
<1>same. UNCHANGED <<plan, gates, tp, rq, wire, unacked, cq, hdr>>
  BY DEF FinishRound, StartLoop, Return, Goto, nicVars
<1>inbuf. DOMAIN inbuf' = Rank /\ \A s \in Rank : DOMAIN inbuf'[s] = Places'
  BY PlacesSame DEF Typed, FinishRound, StartLoop, Return, Goto, nicVars
<1>guard. op[r].pc # "idle" /\ n(r) \in Nat /\ plan[r] # <<>>
  BY TypedRank DEF FinishRound, Bounded, Polling, Posting
<1>op3. \A s \in Rank : op'[s].pc = op[s].pc \/ op'[s].pc = "idle" \/ (s = r /\ op'[s].pc \notin {"arm", "send", "wait"})
  <2>1. CASE op' = [op EXCEPT ![r].pc = "idle"]
    BY <1>op2, <2>1 DEF OpType
  <2>2. CASE op' = [op EXCEPT ![r] = [pc |-> "post", off |-> Round(r).to, rd |-> 0, sd |-> 0]]
    BY <1>op2, <2>2 DEF OpType
  <2> QED BY <1>op1, <2>1, <2>2
<1>bounds. ASSUME NEW s \in Rank PROVE Bounded(s)'
  <2>1. Bounded(s) /\ n(s) \in Nat /\ gates[s] \in Nat /\ tp[s] \in TpType /\ tp[s].last \in Nat
    BY TypedRank DEF TpType
  <2> QED BY <1>same, <1>guard, <1>op3, <2>1 DEF Bounded, n
<1> QED BY <1>op, <1>done, <1>same, <1>inbuf, <1>bounds, TypedVars DEF Typed

(* TimeoutOrError keeps the types.                                      *)
LEMMA TimeoutOrErrorTyped ==
  ASSUME Typed, NEW r \in Rank, TimeoutOrError(r), mode' = mode
  PROVE  Typed'
<1>tp1. tp' = [tp EXCEPT ![r].failed = TRUE]
  BY DEF TimeoutOrError, ReturnFailed, Goto
<1>tp2. tp \in [Rank -> TpType]
  BY TypedVars
<1>tp. tp' \in [Rank -> TpType]
  BY <1>tp1, <1>tp2 DEF TpType, AtLeast, AfterDrain
<1>op1. op' = [op EXCEPT ![r].pc = "idle"]
  BY DEF TimeoutOrError, ReturnFailed, Goto
<1>op2. op \in [Rank -> OpType]
  BY TypedVars
<1>op. op' \in [Rank -> OpType]
  BY <1>op1, <1>op2 DEF OpType, Pc
<1>same. UNCHANGED <<plan, done, gates, rq, wire, unacked, cq, hdr>>
  BY DEF TimeoutOrError, ReturnFailed, Goto, nicVars
<1>inbuf. DOMAIN inbuf' = Rank /\ \A s \in Rank : DOMAIN inbuf'[s] = Places'
  BY PlacesSame DEF Typed, TimeoutOrError, ReturnFailed, Goto, nicVars
<1>guard. op[r].pc # "idle" /\ n(r) \in Nat /\ plan[r] # <<>>
  BY TypedRank DEF TimeoutOrError, Bounded, Polling, Posting
<1>tp3. \A s \in Rank : tp'[s].last = tp[s].last
  BY <1>tp1, <1>tp2 DEF TpType
<1>op3. \A s \in Rank : op'[s].pc = op[s].pc \/ op'[s].pc = "idle" \/ (s = r /\ op'[s].pc \notin {"arm", "send", "wait"})
  BY <1>op1, <1>op2 DEF OpType
<1>bounds. ASSUME NEW s \in Rank PROVE Bounded(s)'
  <2>1. Bounded(s) /\ n(s) \in Nat /\ gates[s] \in Nat /\ tp[s] \in TpType /\ tp[s].last \in Nat
    BY TypedRank DEF TpType
  <2> QED BY <1>same, <1>guard, <1>tp3, <1>op3, <2>1 DEF Bounded, n
<1> QED BY <1>tp, <1>op, <1>same, <1>inbuf, <1>bounds, TypedVars DEF Typed

(* ReadyTimeout keeps the types.                                        *)
LEMMA ReadyTimeoutTyped ==
  ASSUME Typed, NEW r \in Rank, ReadyTimeout(r), mode' = mode
  PROVE  Typed'
<1>tp1. tp' = [tp EXCEPT ![r] = [@ EXCEPT !.failed = TRUE, !.closed = TRUE]]
  BY DEF ReadyTimeout, Goto
<1>tp2. tp \in [Rank -> TpType]
  BY TypedVars
<1>tp. tp' \in [Rank -> TpType]
  BY <1>tp1, <1>tp2 DEF TpType, AtLeast, AfterDrain
<1>op1. op' = [op EXCEPT ![r].pc = "idle"]
  BY DEF ReadyTimeout, Goto
<1>op2. op \in [Rank -> OpType]
  BY TypedVars
<1>op. op' \in [Rank -> OpType]
  BY <1>op1, <1>op2 DEF OpType, Pc
<1>same. UNCHANGED <<plan, done, gates, rq, wire, unacked, cq, hdr>>
  BY DEF ReadyTimeout, Goto, nicVars
<1>inbuf. DOMAIN inbuf' = Rank /\ \A s \in Rank : DOMAIN inbuf'[s] = Places'
  BY PlacesSame DEF Typed, ReadyTimeout, Goto, nicVars
<1>guard. op[r].pc # "idle" /\ n(r) \in Nat /\ plan[r] # <<>>
  BY TypedRank DEF ReadyTimeout, Bounded, Polling, Posting
<1>tp3. \A s \in Rank : tp'[s].last = tp[s].last
  BY <1>tp1, <1>tp2 DEF TpType
<1>op3. \A s \in Rank : op'[s].pc = op[s].pc \/ op'[s].pc = "idle" \/ (s = r /\ op'[s].pc \notin {"arm", "send", "wait"})
  BY <1>op1, <1>op2 DEF OpType
<1>bounds. ASSUME NEW s \in Rank PROVE Bounded(s)'
  <2>1. Bounded(s) /\ n(s) \in Nat /\ gates[s] \in Nat /\ tp[s] \in TpType /\ tp[s].last \in Nat
    BY TypedRank DEF TpType
  <2> QED BY <1>same, <1>guard, <1>tp3, <1>op3, <2>1 DEF Bounded, n
<1> QED BY <1>tp, <1>op, <1>same, <1>inbuf, <1>bounds, TypedVars DEF Typed

(* PeerClosed keeps the types.                                          *)
LEMMA PeerClosedTyped ==
  ASSUME Typed, NEW r \in Rank, PeerClosed(r), mode' = mode
  PROVE  Typed'
<1>tp1. tp' = [tp EXCEPT ![r].failed = TRUE]
  BY DEF PeerClosed, ReturnFailed, Goto
<1>tp2. tp \in [Rank -> TpType]
  BY TypedVars
<1>tp. tp' \in [Rank -> TpType]
  BY <1>tp1, <1>tp2 DEF TpType, AtLeast, AfterDrain
<1>op1. op' = [op EXCEPT ![r].pc = "idle"]
  BY DEF PeerClosed, ReturnFailed, Goto
<1>op2. op \in [Rank -> OpType]
  BY TypedVars
<1>op. op' \in [Rank -> OpType]
  BY <1>op1, <1>op2 DEF OpType, Pc
<1>same. UNCHANGED <<plan, done, gates, rq, wire, unacked, cq, hdr>>
  BY DEF PeerClosed, ReturnFailed, Goto, nicVars
<1>inbuf. DOMAIN inbuf' = Rank /\ \A s \in Rank : DOMAIN inbuf'[s] = Places'
  BY PlacesSame DEF Typed, PeerClosed, ReturnFailed, Goto, nicVars
<1>guard. op[r].pc # "idle" /\ n(r) \in Nat /\ plan[r] # <<>>
  BY TypedRank DEF PeerClosed, Bounded, Polling, Posting
<1>tp3. \A s \in Rank : tp'[s].last = tp[s].last
  BY <1>tp1, <1>tp2 DEF TpType
<1>op3. \A s \in Rank : op'[s].pc = op[s].pc \/ op'[s].pc = "idle" \/ (s = r /\ op'[s].pc \notin {"arm", "send", "wait"})
  BY <1>op1, <1>op2 DEF OpType
<1>bounds. ASSUME NEW s \in Rank PROVE Bounded(s)'
  <2>1. Bounded(s) /\ n(s) \in Nat /\ gates[s] \in Nat /\ tp[s] \in TpType /\ tp[s].last \in Nat
    BY TypedRank DEF TpType
  <2> QED BY <1>same, <1>guard, <1>tp3, <1>op3, <2>1 DEF Bounded, n
<1> QED BY <1>tp, <1>op, <1>same, <1>inbuf, <1>bounds, TypedVars DEF Typed

(* Close keeps the types.                                               *)
LEMMA CloseTyped ==
  ASSUME Typed, NEW r \in Rank, Close(r), mode' = mode
  PROVE  Typed'
<1>tp1. tp' = [tp EXCEPT ![r].closed = TRUE]
  BY DEF Close
<1>tp2. tp \in [Rank -> TpType]
  BY TypedVars
<1>tp. tp' \in [Rank -> TpType]
  BY <1>tp1, <1>tp2 DEF TpType, AtLeast, AfterDrain
<1>same. UNCHANGED <<plan, done, gates, op, rq, wire, unacked, cq, hdr>>
  BY DEF Close, nicVars
<1>inbuf. DOMAIN inbuf' = Rank /\ \A s \in Rank : DOMAIN inbuf'[s] = Places'
  BY PlacesSame DEF Typed, Close, nicVars
<1>guard. mode' = mode
  BY <1>same
<1>tp3. \A s \in Rank : tp'[s].last = tp[s].last
  BY <1>tp1, <1>tp2 DEF TpType
<1>bounds. ASSUME NEW s \in Rank PROVE Bounded(s)'
  <2>1. Bounded(s) /\ n(s) \in Nat /\ gates[s] \in Nat /\ tp[s] \in TpType /\ tp[s].last \in Nat
    BY TypedRank DEF TpType
  <2> QED BY <1>same, <1>guard, <1>tp3, <2>1 DEF Bounded, n
<1> QED BY <1>tp, <1>same, <1>inbuf, <1>bounds, TypedVars DEF Typed

(* Deliver keeps the types.                                             *)
LEMMA DeliverTyped ==
  ASSUME Typed, NEW r \in Rank, Deliver(r), mode' = mode
  PROVE  Typed'
<1>w. rq[r] # <<>> /\ wire[r] # <<>> /\ Peer(r) \in Rank
  BY TwoRanks DEF Deliver
<1>e. CQE("recv", Head(rq[r])) \in Completion /\ Head(wire[r]) \in Message
  BY <1>w, TypedRank, CqeTyped
<1>rq1. rq' = [rq EXCEPT ![r] = Tail(@)]
  BY DEF Deliver
<1>rq2. rq \in [Rank -> Seq(Message)]
  BY TypedVars
<1>rq. rq' \in [Rank -> Seq(Message)]
  BY <1>w, <1>e, <1>rq1, <1>rq2
<1>wire1. wire' = [wire EXCEPT ![r] = Tail(@)]
  BY DEF Deliver
<1>wire2. wire \in [Rank -> Seq(Message)]
  BY TypedVars
<1>wire. wire' \in [Rank -> Seq(Message)]
  BY <1>w, <1>e, <1>wire1, <1>wire2
<1>unacked1. unacked' = unacked \/ unacked' = [unacked EXCEPT ![Peer(r)] = Append(@, Head(wire[r]))]
  BY DEF Deliver
<1>unacked2. unacked \in [Rank -> Seq(Message)]
  BY TypedVars
<1>unacked. unacked' \in [Rank -> Seq(Message)]
  <2>1. CASE unacked' = unacked
    BY <1>w, <1>e, <1>unacked2, <2>1
  <2>2. CASE unacked' = [unacked EXCEPT ![Peer(r)] = Append(@, Head(wire[r]))]
    BY <1>w, <1>e, <1>unacked2, <2>2
  <2> QED BY <1>unacked1, <2>1, <2>2
<1>cq1. cq' = [cq EXCEPT ![r] = Append(@, CQE("recv", Head(rq[r])))]
  BY DEF Deliver
<1>cq2. cq \in [Rank -> Seq(Completion)]
  BY TypedVars
<1>cq. cq' \in [Rank -> Seq(Completion)]
  BY <1>w, <1>e, <1>cq1, <1>cq2
<1>same. UNCHANGED <<plan, done, gates, tp, op, hdr>>
  BY DEF Deliver, nicVars
<1>inbuf. DOMAIN inbuf' = Rank /\ \A s \in Rank : DOMAIN inbuf'[s] = Places'
  BY PlacesSame DEF Typed, Deliver, nicVars
<1>guard. mode' = mode
  BY <1>same
<1>bounds. ASSUME NEW s \in Rank PROVE Bounded(s)'
  <2>1. Bounded(s) /\ n(s) \in Nat /\ gates[s] \in Nat /\ tp[s] \in TpType /\ tp[s].last \in Nat
    BY TypedRank DEF TpType
  <2> QED BY <1>same, <1>guard, <2>1 DEF Bounded, n
<1> QED BY <1>rq, <1>wire, <1>unacked, <1>cq, <1>same, <1>inbuf, <1>bounds, TypedVars DEF Typed

(* Ack keeps the types.                                                 *)
LEMMA AckTyped ==
  ASSUME Typed, NEW r \in Rank, Ack(r), mode' = mode
  PROVE  Typed'
<1>w. unacked[r] # <<>>
  BY DEF Ack
<1>e. CQE("send", Head(unacked[r])) \in Completion
  BY <1>w, TypedRank, CqeTyped
<1>unacked1. unacked' = [unacked EXCEPT ![r] = Tail(@)]
  BY DEF Ack
<1>unacked2. unacked \in [Rank -> Seq(Message)]
  BY TypedVars
<1>unacked. unacked' \in [Rank -> Seq(Message)]
  BY <1>w, <1>e, <1>unacked1, <1>unacked2
<1>cq1. cq' = [cq EXCEPT ![r] = Append(@, CQE("send", Head(unacked[r])))]
  BY DEF Ack
<1>cq2. cq \in [Rank -> Seq(Completion)]
  BY TypedVars
<1>cq. cq' \in [Rank -> Seq(Completion)]
  BY <1>w, <1>e, <1>cq1, <1>cq2
<1>same. UNCHANGED <<plan, done, gates, tp, op, rq, wire, hdr>>
  BY DEF Ack, nicVars
<1>inbuf. DOMAIN inbuf' = Rank /\ \A s \in Rank : DOMAIN inbuf'[s] = Places'
  BY PlacesSame DEF Typed, Ack, nicVars
<1>guard. mode' = mode
  BY <1>same
<1>bounds. ASSUME NEW s \in Rank PROVE Bounded(s)'
  <2>1. Bounded(s) /\ n(s) \in Nat /\ gates[s] \in Nat /\ tp[s] \in TpType /\ tp[s].last \in Nat
    BY TypedRank DEF TpType
  <2> QED BY <1>same, <1>guard, <2>1 DEF Bounded, n
<1> QED BY <1>unacked, <1>cq, <1>same, <1>inbuf, <1>bounds, TypedVars DEF Typed

(* The types hold at first.                                                *)
LEMMA InitTyped == Init => Typed
<1> SUFFICES ASSUME Init PROVE Typed
  OBVIOUS
<1>1. TpInit \in TpType /\ OpInit \in OpType
  BY DEF TpInit, OpInit, TpType, OpType, Pc
<1>2. <<>> \in Seq(Op) /\ <<>> \in Seq(Message) /\ <<>> \in Seq(Completion) /\ <<>> \in Seq(HeaderRecord)
  OBVIOUS
<1>3. /\ plan \in [Rank -> Seq(Op)] /\ done \in [Rank -> Nat] /\ gates \in [Rank -> Nat]
      /\ tp \in [Rank -> TpType] /\ op \in [Rank -> OpType]
  BY <1>1, <1>2 DEF Init
<1>4. /\ rq \in [Rank -> Seq(Message)] /\ wire \in [Rank -> Seq(Message)]
      /\ unacked \in [Rank -> Seq(Message)] /\ cq \in [Rank -> Seq(Completion)]
      /\ hdr \in [Rank -> Seq(HeaderRecord)] /\ mode \in Modes
      /\ DOMAIN inbuf = Rank /\ \A r \in Rank : DOMAIN inbuf[r] = Places
  BY <1>2 DEF Init
<1>5. ASSUME NEW r \in Rank PROVE Bounded(r)
  <2>1. plan[r] = <<>> /\ gates[r] = 0 /\ tp[r].last = 0 /\ op[r].pc = "idle"
    BY DEF Init, TpInit, OpInit
  <2> QED BY <2>1, ModeAssumption DEF Bounded, n
<1> QED BY <1>3, <1>4, <1>5 DEF Typed

(* Every step keeps the types.                                             *)
LEMMA TypedNext == Typed /\ [Next]_vars => Typed'
<1> SUFFICES ASSUME Typed, [Next]_vars PROVE Typed'
  OBVIOUS
<1>1. CASE UNCHANGED vars
  BY <1>1, PlacesSame DEF Typed, vars, nicVars, Bounded, n
<1>2. ASSUME NEW r \in Rank, mode' = mode, Start(r) PROVE Typed'
  BY <1>2, StartGateTyped, StartAuxTyped, StartBulkTyped DEF Start
<1>3. ASSUME NEW r \in Rank, mode' = mode, Continue(r) PROVE Typed'
  <2>1. CASE Arm(r) \/ SendGate(r) \/ PollGate(r) \/ FinishGate(r) \/ FinishAux(r)
    BY <1>3, <2>1, ArmTyped, SendGateTyped, PollGateTyped, FinishGateTyped, FinishAuxTyped
  <2>2. CASE WriteHeader(r) \/ ReadHeader(r) \/ NothingToDrain(r) \/ SendFiller(r) \/ PollDrain(r) \/ FinishDrain(r)
    BY <1>3, <2>2, WriteHeaderTyped, ReadHeaderTyped, NothingToDrainTyped, SendFillerTyped,
       PollDrainTyped, FinishDrainTyped
  <2>3. CASE PostRound(r) \/ TellReady(r) \/ HearReady(r) \/ SendRound(r) \/ PollBulk(r) \/ FinishRound(r)
    BY <1>3, <2>3, PostRoundTyped, TellReadyTyped, HearReadyTyped, SendRoundTyped, PollBulkTyped,
       FinishRoundTyped
  <2> QED BY <1>3, <2>1, <2>2, <2>3 DEF Continue
<1>4. ASSUME NEW r \in Rank, mode' = mode, Failure(r) PROVE Typed'
  BY <1>4, TimeoutOrErrorTyped, ReadyTimeoutTyped, PeerClosedTyped, CloseTyped DEF Failure
<1>5. ASSUME NEW r \in Rank, mode' = mode, Deliver(r) \/ Ack(r) PROVE Typed'
  BY <1>5, DeliverTyped, AckTyped
<1> QED BY <1>1, <1>2, <1>3, <1>4, <1>5 DEF Next, Step

(* Type correctness, whatever the engines do: every message, completion    *)
(* and header stays well formed and every receive is for a gate that the   *)
(* bound allows.                                                           *)
THEOREM TypeCorrect == Spec => []TypeOK
<1>1. Typed => TypeOK
  BY DEF Typed, TypeOK, TpType, OpType, Pc
<1> QED BY InitTyped, TypedNext, <1>1, PTL DEF Spec

-----------------------------------------------------------------------------
(* The invariant.                                                          *)

Progress == [Rank -> OpType]
RowPc == {"arm", "send", "wait"}
HeadPc == {"announce", "header", "drain"}
Body == {"post", "tellready", "ready", "bulksend", "bulkwait"}
(* Where the rank sends and receives decode messages only.                 *)
DecodePc == RowPc \cup {"idle", "auxwait"}

IsKind(r, ks) == n(r) > 0 /\ Current(r).kind \in ks
(* The decode window was open when the operation began.                    *)
WindowBefore(r) == n(r) > 1 /\ plan[r][n(r) - 1].kind \notin Bulk

Ahead(r) == n(r) = n(Peer(r)) + 1
Level(r) == n(r) = n(Peer(r))

(* The end of the rank's current round, what it has posted and sent of the *)
(* current bulk operation, and what it sent of the decode gates.           *)
To(P, r) == IF Current(r).size > P[r].off + BulkSlots THEN P[r].off + BulkSlots
            ELSE Current(r).size
Posted(P, r) ==
  IF ~IsKind(r, Bulk) THEN 0 ELSE
  IF P[r].pc = "idle" THEN Current(r).size ELSE
  IF P[r].pc = "post" THEN P[r].off ELSE
  IF P[r].pc \in Body THEN To(P, r) ELSE 0
Sent(P, r) ==
  IF ~IsKind(r, Bulk) THEN 0 ELSE
  IF P[r].pc = "idle" THEN Current(r).size ELSE
  IF P[r].pc = "bulkwait" THEN To(P, r) ELSE
  IF P[r].pc \in Body THEN P[r].off ELSE 0
SentDecode(P, r) ==
  IF P[r].pc \in {"arm", "send"} THEN First(mode)[gates[r]] ELSE
  IF IsKind(r, Row) THEN First(mode)[gates[r]] + mode.chunks ELSE First(mode)[gates[r] + 1]

(* Decode receives are posted up to here; what has been delivered of them; *)
(* and the least that has been polled.                                     *)
End(r) == First(mode)[tp[r].last + 1 + (IF tp[r].win THEN Window ELSE 0)]
Delivered(P, r) ==
  IF P[r].pc \in Body THEN First(mode)[tp[r].last + 1] ELSE End(r) - Len(rq[r])
Polled(P, r) ==
  IF P[r].pc = "auxwait" \/ (P[r].pc = "idle" /\ IsKind(r, Row))
    THEN First(mode)[tp[r].last] + mode.chunks ELSE First(mode)[tp[r].last + 1]
WindowLen(r) == First(mode)[tp[r].last + Window + 1] - First(mode)[tp[r].last + 1]

Received == {e \in Completion : e.dir = "recv"}
SignalsBulk == {u \in Message : u.tag = "bulk" /\ u.sig}
CarriesBulk == {u \in Message : u.tag = "bulk"}
SentBulk == {e \in Completion : e.dir = "send" /\ e.tag = "bulk"}

-----------------------------------------------------------------------------
(* The invariant, of one rank.                                             *)

PcOf(P, r) ==
  /\ IF tp[r].failed THEN op[r].pc = "idle" ELSE P[r] = op[r]
  /\ P[r].pc \in RowPc => IsKind(r, Row)
  /\ P[r].pc = "auxwait" => IsKind(r, {"aux"})
  /\ P[r].pc \in HeadPc \cup {"drainwait"} \cup Body => IsKind(r, Bulk)
  /\ P[r].pc \in Body => P[r].off < Current(r).size
  /\ P[r].pc \in {"drainwait", "wait"} => P[r].sd \in {0, 1}

WindowOf(P, r) ==
  /\ P[r].pc \in {"arm"} \cup Body => ~tp[r].win
  /\ P[r].pc \in {"send", "wait", "auxwait", "drainwait"} => tp[r].win
  /\ P[r].pc \in HeadPc => (tp[r].win <=> WindowBefore(r))
  /\ P[r].pc = "drainwait" => WindowBefore(r)
  /\ P[r].pc = "idle" => (tp[r].win <=> IsKind(r, Row \cup {"aux"}))
  /\ ~tp[r].win => tp[r].recvDone <= tp[r].last /\ tp[r].auxRecv <= tp[r].last

GateOf(P, r) ==
  /\ IF P[r].pc \in RowPc THEN gates[r] = tp[r].last + 1 ELSE gates[r] = tp[r].last
  /\ IsKind(r, Row) => gates[r] >= 1 /\ Current(r).at = SlotOf(gates[r])
  /\ IsKind(r, {"aux"}) => /\ gates[r] >= 1 /\ Current(r).at = SlotOf(gates[r])
                           /\ Eligible(mode, gates[r])
                           /\ n(r) > 1 /\ plan[r][n(r) - 1].kind \in Row
  /\ tp[r].recvDone < LastGate /\ tp[r].auxRecv < LastGate /\ tp[r].auxSend < LastGate

DoneOf(P, r) == done[r] = n(r) - (IF P[r].pc = "idle" THEN 0 ELSE 1)

(* The two ranks run the same program, at most one operation apart.        *)
ProgramOf(r) ==
  /\ n(r) <= n(Peer(r)) + 1
  /\ \A i \in 1 .. n(r) : i <= n(Peer(r)) => plan[r][i] = plan[Peer(r)][i]
  /\ n(r) = n(Peer(r)) => gates[r] = gates[Peer(r)]
  /\ n(r) = n(Peer(r)) + 1 =>
       gates[r] = gates[Peer(r)] + (IF Current(r).kind \in Row THEN 1 ELSE 0)

(* The rank has sent all of its operation.                                 *)
SentAll(P, r) ==
  \/ P[r].pc \in {"idle", "wait", "auxwait"}
  \/ P[r].pc = "bulkwait" /\ To(P, r) = Current(r).size

SyncOf(P, r) ==
  /\ Ahead(r) => /\ P[r].pc # "idle" /\ SentAll(P, Peer(r))
                 /\ P[Peer(r)].pc \in Body => rq[Peer(r)] = <<>>
  /\ Level(r) /\ P[r].pc = "idle" => SentAll(P, Peer(r))
  /\ Ahead(r) /\ P[r].pc \in {"drain", "drainwait"} \cup Body => ~WindowBefore(r)
  /\ Level(r) /\ WindowBefore(r) /\ P[r].pc \in {"drain", "drainwait"} \cup Body =>
       P[Peer(r)].pc # "announce"
  /\ Level(r) /\ WindowBefore(r) /\ P[r].pc \in Body => P[Peer(r)].pc \notin HeadPc

(* A header tells that its sender has reached that bulk operation.         *)
HeaderOf(P, r) ==
  \A i \in 1 .. Len(hdr[r]) : hdr[r][i].kind \in Bulk =>
    hdr[r][i].seq <= Seqno(Peer(r)) - (IF P[Peer(r)].pc = "announce" THEN 1 ELSE 0)

-----------------------------------------------------------------------------
(* The queues of a rank.                                                   *)

QueueOf(P, r) ==
  IF P[r].pc \in Body
    THEN Segment(rq[r], n(r), Posted(P, r) - Len(rq[r]), Posted(P, r))
    ELSE Stream(mode, rq[r], End(r) - Len(rq[r]), End(r)) /\ (~tp[r].win => rq[r] = <<>>)

(* Receives posted and not polled: those the drain counts, and of a round. *)
RecvOf(P, r) ==
  LET k == Count(cq[r], Received) + Len(rq[r])
  IN /\ P[r].pc \in HeadPc /\ tp[r].win => k = WindowLen(r)
     /\ P[r].pc = "drainwait" => k + P[r].rd = WindowLen(r)
     /\ P[r].pc \in Body =>
          /\ k + P[r].rd + P[r].off = Posted(P, r)
          /\ P[r].pc # "bulkwait" => P[r].rd = 0
          /\ \A i \in 1 .. Len(cq[r]) : cq[r][i].dir = "recv" => cq[r][i].tag = "bulk"
     /\ ~tp[r].win /\ P[r].pc \notin Body => Count(cq[r], Received) = 0

(* Completions of bulk messages: one for each not yet counted.             *)
Awaited(P, r) ==
  IF P[r].pc = "drainwait" THEN 1 - P[r].sd ELSE
  IF P[r].pc = "bulkwait" THEN To(P, r) - P[r].off - P[r].sd ELSE 0
SendOf(P, r) ==
  Count(wire[Peer(r)], SignalsBulk) + Count(unacked[r], CarriesBulk) + Count(cq[r], SentBulk)
    = Awaited(P, r)

(* The messages on their way to a rank: the filler of its peer, and behind *)
(* it bulk messages; bulk messages; or decode messages.                    *)
Filling(P, r) ==
  Level(r) /\ tp[r].win /\ P[Peer(r)].pc \in {"drainwait"} \cup Body
Bulking(P, r) ==
  /\ ~Filling(P, r)
  /\ \/ P[Peer(r)].pc \in Body /\ n(Peer(r)) >= n(r)
     \/ P[r].pc \in Body /\ n(r) >= n(Peer(r))

Filled(s, q, k) ==
  /\ Len(s) >= Len(q)
  /\ \A i \in 1 .. Len(q) : s[i] = Msg(q[i].kind, 0, q[i].part, "bulk", i = Len(q))
  /\ \A i \in Len(q) + 1 .. Len(s) : s[i] = BulkMsg(k, i - Len(q))

(* Of the operation of the rank that is not behind: what the rank has got, *)
(* and what its peer has sent.                                             *)
Got(P, r) == IF n(r) < n(Peer(r)) THEN 0 ELSE Posted(P, r) - Len(rq[r])
Out(P, r) == IF n(Peer(r)) < n(r) THEN 0 ELSE Sent(P, Peer(r))

WireOf(P, r) ==
  /\ Filling(P, r) => Filled(wire[r], rq[r], n(r))
                      /\ Len(wire[r]) = Len(rq[r]) + Sent(P, Peer(r))
  /\ Bulking(P, r) => Segment(wire[r], n(Peer(r)), Got(P, r), Out(P, r))
  /\ ~Filling(P, r) /\ ~Bulking(P, r) =>
       Stream(mode, wire[r], Delivered(P, r), SentDecode(P, Peer(r)))

-----------------------------------------------------------------------------
(* What a rank knows.                                                      *)

(* What has been delivered to it, before a filler.                         *)
MarkOf(P, r) ==
  P[r].pc \in DecodePc =>
    /\ Polled(P, r) <= Delivered(P, r)
    /\ tp[r].recvDone >= 1 => First(mode)[tp[r].recvDone] + mode.chunks <= Delivered(P, r)
    /\ tp[r].auxRecv >= 1 => First(mode)[tp[r].auxRecv + 1] <= Delivered(P, r)
    /\ \A i \in 1 .. Len(cq[r]) : cq[r][i].dir = "recv" =>
         /\ Unit(mode, cq[r][i])
         /\ Number(mode, cq[r][i]) < Delivered(P, r) /\ Polled(P, r) <= Number(mode, cq[r][i])
         /\ tp[r].recvDone >= 1 =>
              First(mode)[tp[r].recvDone] + mode.chunks <= Number(mode, cq[r][i])
         /\ tp[r].auxRecv >= 1 => First(mode)[tp[r].auxRecv + 1] <= Number(mode, cq[r][i])
    /\ \A i, j \in 1 .. Len(cq[r]) : i < j /\ cq[r][i].dir = "recv" /\ cq[r][j].dir = "recv" =>
         Number(mode, cq[r][i]) < Number(mode, cq[r][j])

(* What has been delivered to its peer is before what is on the wire.      *)
Before(m, x, s) == \A i \in 1 .. Len(s) : s[i].tag # "bulk" => x <= Number(m, s[i])
Behind(m, u, x, w) == Unit(m, u) /\ Number(m, u) < x /\ Before(m, Number(m, u) + 1, w)
AckSent(m, s, x, w) == \A i \in 1 .. Len(s) : s[i].tag # "bulk" => Behind(m, s[i], x, w)
AckDone(m, s, x, w) ==
  \A i \in 1 .. Len(s) : s[i].dir = "send" /\ s[i].tag # "bulk" => Behind(m, s[i], x, w)
AckAux(m, k, x, w) == k >= 1 => First(m)[k + 1] <= x /\ Before(m, First(m)[k + 1], w)
AckRow(m, k, w) == Before(m, First(m)[k] + m.chunks, w)
AckOf(P, r) ==
  /\ AckSent(mode, unacked[r], SentDecode(P, r), wire[Peer(r)])
  /\ AckDone(mode, cq[r], SentDecode(P, r), wire[Peer(r)])
  /\ AckAux(mode, tp[r].auxSend, SentDecode(P, r), wire[Peer(r)])
  /\ IsKind(r, {"rgate"}) /\ (P[r].pc = "idle" \/ (P[r].pc = "wait" /\ P[r].sd = 1)) =>
       AckRow(mode, gates[r], wire[Peer(r)])
  /\ IsKind(r, {"aux"}) /\ P[r].pc = "idle" => tp[r].auxSend >= tp[r].last

(* Of a registered row only the last message is signaled.                  *)
LastSignals(r, u) == u.tag = "gate" /\ u.id = gates[r] => u.part = mode.chunks
RowOf(P, r) ==
  IsKind(r, {"rgate"}) /\ P[r].pc \in RowPc =>
    /\ \A i \in 1 .. Len(wire[Peer(r)]) : wire[Peer(r)][i].sig => LastSignals(r, wire[Peer(r)][i])
    /\ \A i \in 1 .. Len(unacked[r]) : LastSignals(r, unacked[r][i])
    /\ \A i \in 1 .. Len(cq[r]) : cq[r][i].dir = "send" => LastSignals(r, cq[r][i])

(* What is in memory: the gates delivered since the engine's last one, and *)
(* the bulk messages of the operation.                                     *)
DataOf(P, r) ==
  /\ P[r].pc \in DecodePc =>
       \A k \in 1 .. LastGate - 1 :
         k >= gates[r] + (IF IsKind(r, Bulk) THEN 1 ELSE 0) =>
           /\ \A p \in 1 .. mode.chunks :
                First(mode)[k] + p - 1 < Delivered(P, r) => inbuf[r][<<"gate", SlotOf(k), p>>] = k
           /\ Eligible(mode, k) /\ First(mode)[k] + mode.chunks < Delivered(P, r) =>
                inbuf[r][<<"aux", SlotOf(k), 1>>] = k
  /\ IsKind(r, Bulk) /\ P[r].pc \in Body \cup {"idle"} =>
       \A p \in 1 .. Posted(P, r) - Len(rq[r]) : inbuf[r][<<"bulk", p>>] = n(r)

-----------------------------------------------------------------------------
(* What the invariant says of a rank's own state, and of the rank with its *)
(* peer.                                                                   *)
Own(P, r) ==
  /\ PcOf(P, r) /\ WindowOf(P, r) /\ GateOf(P, r) /\ DoneOf(P, r)
  /\ QueueOf(P, r) /\ RecvOf(P, r) /\ MarkOf(P, r) /\ DataOf(P, r)
Shared(P, r) ==
  /\ ProgramOf(r) /\ SyncOf(P, r) /\ HeaderOf(P, r)
  /\ SendOf(P, r) /\ WireOf(P, r) /\ AckOf(P, r) /\ RowOf(P, r)

Inv(P) == P \in Progress /\ Typed /\ \A r \in Rank : Own(P, r) /\ Shared(P, r)

IInv == \E P \in Progress : Inv(P)

-----------------------------------------------------------------------------
(* What follows from the invariant in one state.                           *)

(* The invariant, part by part.                                            *)
LEMMA InvOf ==
  ASSUME NEW P, NEW r \in Rank, Inv(P)
  PROVE  /\ P \in Progress /\ Typed /\ Own(P, r) /\ Shared(P, r)
         /\ PcOf(P, r) /\ WindowOf(P, r) /\ GateOf(P, r) /\ DoneOf(P, r)
         /\ QueueOf(P, r) /\ RecvOf(P, r) /\ MarkOf(P, r) /\ DataOf(P, r)
         /\ ProgramOf(r) /\ SyncOf(P, r) /\ HeaderOf(P, r)
         /\ SendOf(P, r) /\ WireOf(P, r) /\ AckOf(P, r) /\ RowOf(P, r)
<1>1. P \in Progress /\ Typed /\ Own(P, r) /\ Shared(P, r)
  BY DEF Inv
<1> QED BY <1>1 DEF Own, Shared

(* The types of what a rank has.                                           *)
LEMMA RankFacts ==
  ASSUME NEW P \in Progress, NEW r \in Rank, Typed
  PROVE  /\ P[r] \in OpType /\ P[r].pc \in Pc /\ P[r].off \in Nat /\ P[r].rd \in Nat /\ P[r].sd \in Nat
         /\ tp[r].win \in BOOLEAN /\ tp[r].failed \in BOOLEAN
         /\ tp[r].last \in Nat /\ tp[r].recvDone \in Nat /\ tp[r].auxRecv \in Nat /\ tp[r].auxSend \in Nat
         /\ n(r) \in Nat /\ gates[r] \in Nat /\ gates[r] <= n(r) /\ n(r) <= MaxOps /\ tp[r].last <= gates[r]
         /\ mode.chunks \in Nat /\ mode.chunks >= 1 /\ Vector(mode)
         /\ rq[r] \in Seq(Message) /\ wire[r] \in Seq(Message) /\ unacked[r] \in Seq(Message)
         /\ cq[r] \in Seq(Completion) /\ hdr[r] \in Seq(HeaderRecord) /\ plan[r] \in Seq(Op)
         /\ Len(rq[r]) \in Nat /\ Len(wire[r]) \in Nat /\ Len(unacked[r]) \in Nat /\ Len(cq[r]) \in Nat
         /\ Len(hdr[r]) \in Nat /\ (plan[r] # <<>> <=> n(r) > 0)
<1>1. P[r] \in OpType
  BY DEF Progress
<1>2. tp[r] \in TpType /\ Bounded(r) /\ plan[r] \in Seq(Op) /\ gates[r] \in Nat
  BY TypedRank
<1>3. n(r) \in Nat /\ (plan[r] # <<>> <=> n(r) > 0)
  BY <1>2 DEF n
<1>4. P[r].pc \in Pc /\ P[r].off \in Nat /\ P[r].rd \in Nat /\ P[r].sd \in Nat
  BY <1>1 DEF OpType
<1>5. /\ tp[r].win \in BOOLEAN /\ tp[r].failed \in BOOLEAN
      /\ tp[r].last \in Nat /\ tp[r].recvDone \in Nat /\ tp[r].auxRecv \in Nat /\ tp[r].auxSend \in Nat
  BY <1>2 DEF TpType
<1>6. gates[r] <= n(r) /\ n(r) <= MaxOps /\ tp[r].last <= gates[r]
  BY <1>2 DEF Bounded
<1>7. mode.chunks \in Nat /\ mode.chunks >= 1 /\ Vector(mode)
  BY TypedRank
<1>8. /\ rq[r] \in Seq(Message) /\ wire[r] \in Seq(Message) /\ unacked[r] \in Seq(Message)
      /\ cq[r] \in Seq(Completion) /\ hdr[r] \in Seq(HeaderRecord)
  BY TypedRank
<1>9. \A S : \A s \in Seq(S) : Len(s) \in Nat
  OBVIOUS
<1> QED BY <1>1, <1>2, <1>3, <1>4, <1>5, <1>6, <1>7, <1>8, <1>9

(* Numbers grow with the gates.                                            *)
LEMMA FirstLe ==
  ASSUME NEW m, Vector(m), NEW j \in 1 .. LastGate, NEW k \in 1 .. LastGate, j <= k
  PROVE  First(m)[j] \in Nat /\ First(m)[k] \in Nat /\ First(m)[j] <= First(m)[k]
         /\ (j < k => First(m)[j] + m.chunks <= First(m)[k])
         /\ (j < k /\ Eligible(m, j) => First(m)[j] + m.chunks + 1 <= First(m)[k])
<1>1. First(m)[j] \in Nat /\ First(m)[k] \in Nat /\ m.chunks \in Nat
  BY FirstStep DEF Vector
<1>2. CASE j = k
  BY <1>1, <1>2
<1>3. CASE j < k
  <2>1. First(m)[j] + Size(m, j) <= First(m)[k]
    BY <1>3, FirstOrder
  <2> QED BY <1>1, <1>3, <2>1, SizeNat
<1> QED BY <1>2, <1>3, LastGateNat

(* The numbers of one gate.                                                *)
LEMMA FirstNext ==
  ASSUME NEW m, Vector(m), NEW k \in 1 .. LastGate - 1
  PROVE  /\ k \in 1 .. LastGate /\ k + 1 \in 1 .. LastGate
         /\ First(m)[k] \in Nat /\ First(m)[k + 1] \in Nat
         /\ First(m)[k] + m.chunks <= First(m)[k + 1]
         /\ Eligible(m, k) => First(m)[k + 1] = First(m)[k] + m.chunks + 1
         /\ ~Eligible(m, k) => First(m)[k + 1] = First(m)[k] + m.chunks
<1>1. k \in 1 .. LastGate /\ k + 1 \in 1 .. LastGate
  BY LastGateNat
<1>2. First(m)[k] \in Nat /\ First(m)[k + 1] \in Nat /\ First(m)[k + 1] = First(m)[k] + Size(m, k)
  BY <1>1, FirstStep
<1>3. m.chunks \in Nat /\ Size(m, k) \in Nat /\ Size(m, k) >= m.chunks
      /\ (Eligible(m, k) => Size(m, k) = m.chunks + 1) /\ (~Eligible(m, k) => Size(m, k) = m.chunks)
  BY SizeNat DEF Vector
<1> QED BY <1>1, <1>2, <1>3

(* Numbers in a row differ modulo N.                                       *)
LEMMA ModNext ==
  ASSUME NEW N \in Nat, N >= 2, NEW x \in Nat
  PROVE  x % N # (x + 1) % N
<1> DEFINE a == x \div N
           b == (x + 1) \div N
<1>1. a \in Int /\ x = N * a + (x % N)
  BY SMT
<1>2. b \in Int /\ x + 1 = N * b + ((x + 1) % N)
  BY SMT
<1>3. x % N \in Int /\ (x + 1) % N \in Int
  BY SMT
<1> HIDE DEF a, b
<1>4. SUFFICES ASSUME x % N = (x + 1) % N PROVE FALSE
  OBVIOUS
<1>5. N * b = N * a + 1
  BY <1>1, <1>2, <1>3, <1>4
<1>6. \A c, d \in Int : c <= d => N * c <= N * d
  BY SMT
<1>7. \A c \in Int : N * (c + 1) = N * c + N
  BY SMT
<1>8. CASE b <= a
  BY <1>1, <1>2, <1>5, <1>6, <1>8
<1>9. CASE b >= a + 1
  <2>1. N * (a + 1) <= N * b
    BY <1>1, <1>2, <1>6, <1>9
  <2> QED BY <1>1, <1>2, <1>5, <1>7, <2>1
<1> QED BY <1>1, <1>2, <1>8, <1>9

(* Two gates in a row use different slots.                                 *)
LEMMA SlotsDiffer ==
  ASSUME NEW k \in Nat \ {0}
  PROVE  SlotOf(k) \in Slot /\ SlotOf(k) # SlotOf(k + 1)
<1>1. PerToken \in Nat /\ PerToken >= 2
  BY SlotAssumption
<1>2. \A x \in Nat : x % PerToken \in 0 .. PerToken - 1
  BY <1>1
<1>3. k - 1 \in Nat /\ (k + 1) - 1 = (k - 1) + 1
  OBVIOUS
<1>4. (k - 1) % PerToken # ((k - 1) + 1) % PerToken
  BY <1>1, <1>3, ModNext
<1>5. (k - 1) % PerToken \in 0 .. PerToken - 1 /\ ((k - 1) + 1) % PerToken \in 0 .. PerToken - 1
  BY <1>2, <1>3
<1>6. SlotOf(k) = ((k - 1) % PerToken) + 1 /\ SlotOf(k + 1) = (((k - 1) + 1) % PerToken) + 1
  BY <1>3 DEF SlotOf
<1> QED BY <1>1, <1>4, <1>5, <1>6 DEF Slot

(* Where the two ranks are with respect to each other.                     *)
LEMMA Sides ==
  ASSUME NEW P, NEW r \in Rank, NEW p, p = Peer(r), Inv(P)
  PROVE  /\ p \in Rank /\ p # r /\ Peer(p) = r /\ Rank = {r, p}
         /\ Level(r) \/ Ahead(r) \/ Ahead(p)
         /\ (Level(r) <=> n(r) = n(p)) /\ (Level(p) <=> n(r) = n(p))
         /\ (Ahead(r) <=> n(r) = n(p) + 1) /\ (Ahead(p) <=> n(p) = n(r) + 1)
         /\ Level(r) => gates[r] = gates[p] /\ (n(r) > 0 => Current(r) = Current(p))
         /\ Level(r) => (WindowBefore(r) <=> WindowBefore(p))
         /\ Ahead(r) => /\ gates[r] = gates[p] + (IF IsKind(r, Row) THEN 1 ELSE 0)
                        /\ n(p) > 0 => plan[r][n(r) - 1] = Current(p)
                        /\ WindowBefore(r) <=> n(p) > 0 /\ Current(p).kind \notin Bulk
<1>1. p \in Rank /\ p # r /\ Peer(p) = r /\ Rank = {r, p}
  BY TwoRanks
<1>2. ProgramOf(r) /\ ProgramOf(p)
  BY <1>1, InvOf
<1>3. n(r) \in Nat /\ n(p) \in Nat
  BY <1>1, InvOf, RankFacts
<1>4. /\ (Level(r) <=> n(r) = n(p)) /\ (Level(p) <=> n(r) = n(p))
      /\ (Ahead(r) <=> n(r) = n(p) + 1) /\ (Ahead(p) <=> n(p) = n(r) + 1)
  BY <1>1 DEF Level, Ahead
<1>5. n(r) <= n(p) + 1 /\ n(p) <= n(r) + 1
  BY <1>1, <1>2 DEF ProgramOf
<1>6. \A i \in 1 .. n(r) : i <= n(p) => plan[r][i] = plan[p][i]
  BY <1>2 DEF ProgramOf
<1>7. ASSUME Level(r)
      PROVE  /\ gates[r] = gates[p] /\ (n(r) > 0 => Current(r) = Current(p))
             /\ WindowBefore(r) <=> WindowBefore(p)
  <2>1. gates[r] = gates[p] /\ n(r) = n(p)
    BY <1>2, <1>4, <1>7 DEF ProgramOf
  <2>2. n(r) > 0 => Current(r) = Current(p)
    BY <1>3, <1>6, <2>1 DEF Current, n
  <2>3. n(r) > 1 => plan[r][n(r) - 1] = plan[p][n(p) - 1]
    BY <1>3, <1>6, <2>1
  <2> QED BY <2>1, <2>2, <2>3 DEF WindowBefore
<1>8. ASSUME Ahead(r)
      PROVE  /\ gates[r] = gates[p] + (IF IsKind(r, Row) THEN 1 ELSE 0)
             /\ n(p) > 0 => plan[r][n(r) - 1] = Current(p)
             /\ WindowBefore(r) <=> n(p) > 0 /\ Current(p).kind \notin Bulk
  <2>1. n(r) = n(p) + 1 /\ n(r) > 0
    BY <1>3, <1>4, <1>8
  <2>2. gates[r] = gates[p] + (IF Current(r).kind \in Row THEN 1 ELSE 0)
    BY <1>2, <2>1 DEF ProgramOf
  <2>3. n(p) > 0 => plan[r][n(r) - 1] = Current(p)
    <3>1. n(p) > 0 => n(r) - 1 = n(p) /\ n(p) \in 1 .. n(r) /\ n(p) <= n(p)
      BY <1>3, <2>1
    <3> QED BY <1>6, <3>1 DEF Current, n
  <2>4. n(r) > 1 <=> n(p) > 0
    BY <1>3, <2>1
  <2> QED BY <2>1, <2>2, <2>3, <2>4 DEF IsKind, WindowBefore
<1> QED BY <1>1, <1>3, <1>4, <1>5, <1>7, <1>8

(* Where a rank can be in an operation of each kind.                       *)
LEMMA KindPc ==
  ASSUME NEW P, NEW r \in Rank, Inv(P)
  PROVE  /\ IsKind(r, Row) => P[r].pc \in RowPc \cup {"idle"}
         /\ IsKind(r, {"aux"}) => P[r].pc \in {"auxwait", "idle"}
         /\ IsKind(r, Bulk) => P[r].pc \in HeadPc \cup {"drainwait", "idle"} \cup Body
         /\ n(r) = 0 => P[r].pc = "idle"
         /\ n(r) > 0 => IsKind(r, Row) \/ IsKind(r, {"aux"}) \/ IsKind(r, Bulk)
         /\ IsKind(r, Row \cup {"aux"}) <=> IsKind(r, Row) \/ IsKind(r, {"aux"})
         /\ ~(IsKind(r, Row) /\ IsKind(r, Bulk)) /\ ~(IsKind(r, {"aux"}) /\ IsKind(r, Bulk))
         /\ ~(IsKind(r, {"aux"}) /\ IsKind(r, Row))
         /\ IsKind(r, Bulk) <=> n(r) > 0 /\ Current(r).kind \in Bulk
         /\ IsKind(r, {"rgate"}) => IsKind(r, Row)
<1>1. PcOf(P, r) /\ Typed /\ P \in Progress
  BY InvOf
<1>2. P[r].pc \in Pc /\ n(r) \in Nat /\ (plan[r] # <<>> <=> n(r) > 0)
  BY <1>1, RankFacts
<1>3. n(r) > 0 => Current(r).kind \in Row \cup Bulk \cup {"aux"}
  BY <1>1, <1>2, CurrentOp
<1>4. /\ P[r].pc \in RowPc => IsKind(r, Row)
      /\ P[r].pc = "auxwait" => IsKind(r, {"aux"})
      /\ P[r].pc \in HeadPc \cup {"drainwait"} \cup Body => IsKind(r, Bulk)
  BY <1>1 DEF PcOf
<1>5. Pc = RowPc \cup {"auxwait", "idle"} \cup HeadPc \cup {"drainwait"} \cup Body
  BY DEF Pc, RowPc, HeadPc, Body
<1>6. /\ n(r) > 0 => IsKind(r, Row) \/ IsKind(r, {"aux"}) \/ IsKind(r, Bulk)
      /\ IsKind(r, Row \cup {"aux"}) <=> IsKind(r, Row) \/ IsKind(r, {"aux"})
      /\ ~(IsKind(r, Row) /\ IsKind(r, Bulk)) /\ ~(IsKind(r, {"aux"}) /\ IsKind(r, Bulk))
      /\ ~(IsKind(r, {"aux"}) /\ IsKind(r, Row))
      /\ IsKind(r, Bulk) <=> n(r) > 0 /\ Current(r).kind \in Bulk
      /\ IsKind(r, {"rgate"}) => IsKind(r, Row)
      /\ n(r) = 0 => ~IsKind(r, Row) /\ ~IsKind(r, {"aux"}) /\ ~IsKind(r, Bulk)
  BY <1>2, <1>3 DEF IsKind, Row, Bulk
<1> QED BY <1>2, <1>4, <1>5, <1>6

(* While the rank that is not behind runs a decode operation, only decode  *)
(* messages are on their way.                                              *)
LEMMA DecodeRegime ==
  ASSUME NEW P, NEW r \in Rank, NEW p, p = Peer(r), Inv(P),
         IsKind(r, Row \cup {"aux"}), ~Ahead(p)
  PROVE  /\ ~Filling(P, r) /\ ~Bulking(P, r) /\ ~Filling(P, p) /\ ~Bulking(P, p)
         /\ P[r].pc \notin Body \cup {"drainwait"}
         /\ Level(r) => P[p].pc \notin HeadPc \cup {"drainwait"} \cup Body /\ n(r) = n(p)
<1>1. p \in Rank /\ Peer(p) = r /\ n(r) \in Nat /\ n(p) \in Nat
  BY Sides, InvOf, RankFacts
<1>2. (Level(r) <=> n(r) = n(p)) /\ (Level(p) <=> n(r) = n(p)) /\ n(r) >= n(p)
      /\ (Level(r) => n(r) = n(p) /\ Current(r) = Current(p))
      /\ (~Level(r) => n(r) > n(p))
  <2>1. n(r) > 0
    BY DEF IsKind
  <2> QED BY <1>1, <2>1, Sides
<1>3. P[r].pc \notin HeadPc \cup {"drainwait"} \cup Body
  BY KindPc DEF RowPc, HeadPc, Body
<1>4. Level(r) => P[p].pc \notin HeadPc \cup {"drainwait"} \cup Body
  <2>1. Level(r) => IsKind(p, Row \cup {"aux"})
    BY <1>2 DEF IsKind
  <2> QED BY <1>1, <2>1, KindPc DEF RowPc, HeadPc, Body
<1>5. ~Filling(P, r) /\ ~Filling(P, p)
  BY <1>1, <1>2, <1>3, <1>4 DEF Filling
<1>6. ~Bulking(P, r) /\ ~Bulking(P, p)
  BY <1>1, <1>2, <1>3, <1>4 DEF Bulking
<1> QED BY <1>2, <1>3, <1>4, <1>5, <1>6

(* What a rank has sent of the decode gates.                               *)
LEMMA SentBounds ==
  ASSUME NEW P, NEW r \in Rank, Inv(P)
  PROVE  /\ SentDecode(P, r) \in Nat
         /\ gates[r] + 1 \in 1 .. LastGate /\ First(mode)[gates[r] + 1] \in Nat
         /\ SentDecode(P, r) <= First(mode)[gates[r] + 1]
         /\ P[r].pc \in {"arm", "send"} => SentDecode(P, r) = First(mode)[gates[r]]
         /\ P[r].pc \notin {"arm", "send"} /\ ~IsKind(r, Row) =>
              SentDecode(P, r) = First(mode)[gates[r] + 1]
         /\ P[r].pc \notin {"arm", "send"} /\ IsKind(r, Row) =>
              SentDecode(P, r) = First(mode)[gates[r]] + mode.chunks
         /\ IsKind(r, Row) \/ IsKind(r, {"aux"}) =>
              gates[r] \in 1 .. LastGate - 1 /\ Current(r).at = SlotOf(gates[r])
         /\ IsKind(r, {"aux"}) => Eligible(mode, gates[r])
<1>1. Vector(mode) /\ mode.chunks \in Nat /\ gates[r] \in Nat /\ gates[r] <= MaxOps /\ Typed
      /\ PcOf(P, r) /\ GateOf(P, r)
  BY InvOf, RankFacts, GateNumbers
<1>2. gates[r] + 1 \in 1 .. LastGate /\ (gates[r] >= 1 => gates[r] \in 1 .. LastGate - 1)
  BY <1>1, GateNumbers
<1>3. IsKind(r, Row) \/ IsKind(r, {"aux"}) =>
              gates[r] \in 1 .. LastGate - 1 /\ Current(r).at = SlotOf(gates[r])
  BY <1>1, <1>2 DEF GateOf
<1>4. First(mode)[gates[r] + 1] \in Nat
  BY <1>1, <1>2, FirstLe
<1>5. P[r].pc \in {"arm", "send"} => IsKind(r, Row)
  BY <1>1 DEF PcOf, RowPc
<1>6. IsKind(r, Row) => /\ First(mode)[gates[r]] \in Nat
                        /\ First(mode)[gates[r]] + mode.chunks <= First(mode)[gates[r] + 1]
  BY <1>1, <1>3, FirstNext
<1>7. IsKind(r, {"aux"}) => Eligible(mode, gates[r])
  BY <1>1 DEF GateOf
<1> QED BY <1>1, <1>2, <1>3, <1>4, <1>5, <1>6, <1>7 DEF SentDecode

(* The gate an engine ended without a paired exchange is all the rank sent. *)
LEMMA RowDone ==
  ASSUME NEW P, NEW r \in Rank, Inv(P), P[r].pc = "idle", ~AuxDue(r)
  PROVE  /\ SentDecode(P, r) = First(mode)[gates[r] + 1] /\ gates[r] = tp[r].last
         /\ Polled(P, r) = First(mode)[tp[r].last + 1]
<1>1. Vector(mode) /\ GateOf(P, r) /\ Typed /\ n(r) \in Nat /\ (plan[r] # <<>> <=> n(r) > 0)
  BY InvOf, RankFacts
<1>2. gates[r] = tp[r].last
  BY <1>1 DEF GateOf, RowPc
<1>3. CASE ~IsKind(r, Row)
  BY <1>2, <1>3, SentBounds DEF Polled
<1>4. CASE IsKind(r, Row)
  <2>1. gates[r] \in 1 .. LastGate - 1 /\ Current(r).at = SlotOf(gates[r])
    BY <1>4, SentBounds
  <2>2. ~Eligible(mode, gates[r])
    BY <1>1, <1>4, <2>1 DEF AuxDue, IsKind, Eligible
  <2>3. First(mode)[gates[r] + 1] = First(mode)[gates[r]] + mode.chunks
    BY <1>1, <2>1, <2>2, FirstNext
  <2> QED BY <1>2, <1>4, <2>3, SentBounds DEF Polled
<1> QED BY <1>3, <1>4

(* The numbers of a rank's window, and that the drain counts it.           *)
LEMMA WindowFacts ==
  ASSUME NEW r \in Rank, Typed
  PROVE  /\ tp[r].last + 1 \in 1 .. LastGate - 1 /\ tp[r].last + 1 \in 1 .. LastGate
         /\ tp[r].last + Window + 1 \in 1 .. LastGate
         /\ First(mode)[tp[r].last + 1] \in Nat /\ First(mode)[tp[r].last + Window + 1] \in Nat
         /\ WindowLen(r) \in Nat /\ WindowLen(r) >= 1
         /\ First(mode)[tp[r].last + Window + 1] = First(mode)[tp[r].last + 1] + WindowLen(r)
         /\ End(r) \in Nat
         /\ tp[r].win => End(r) = First(mode)[tp[r].last + 1] + WindowLen(r)
         /\ ~tp[r].win => End(r) = First(mode)[tp[r].last + 1]
         /\ DrainCount(r) = WindowLen(r)
<1>1. /\ tp[r].last \in Nat /\ Window \in Nat /\ Window >= 1 /\ LastGate \in Nat
      /\ tp[r].last + 1 \in 1 .. LastGate - 1 /\ tp[r].last + Window \in 1 .. LastGate - 1
      /\ Vector(mode) /\ mode.chunks \in Nat \ {0}
  BY GateNumbers, TypedRank
<1>2. tp[r].last + 1 \in 1 .. LastGate /\ tp[r].last + Window + 1 \in 1 .. LastGate
      /\ tp[r].last + 1 < tp[r].last + Window + 1
  BY <1>1
<1>3. /\ First(mode)[tp[r].last + 1] \in Nat /\ First(mode)[tp[r].last + Window + 1] \in Nat
      /\ First(mode)[tp[r].last + 1] + mode.chunks <= First(mode)[tp[r].last + Window + 1]
  BY <1>1, <1>2, FirstLe
<1>4. /\ WindowLen(r) \in Nat /\ WindowLen(r) >= 1
      /\ First(mode)[tp[r].last + Window + 1] = First(mode)[tp[r].last + 1] + WindowLen(r)
  BY <1>1, <1>3 DEF WindowLen
<1>5. tp[r].win => tp[r].last + 1 + (IF tp[r].win THEN Window ELSE 0) = tp[r].last + Window + 1
  BY <1>1
<1>6. ~tp[r].win => tp[r].last + 1 + (IF tp[r].win THEN Window ELSE 0) = tp[r].last + 1
  BY <1>1
<1>7. DrainCount(r) = WindowLen(r)
  <2>1. Stream(mode, ReceivesOf(<<DrainFrom(r), DrainTo(r)>>),
               First(mode)[tp[r].last + 1], First(mode)[tp[r].last + Window + 1])
    BY FillerTyped
  <2> QED BY <2>1 DEF Stream, DrainCount, WindowLen
<1> QED BY <1>1, <1>2, <1>3, <1>4, <1>5, <1>6, <1>7 DEF End

(* What has been delivered to a rank.                                      *)
LEMMA DeliveredIs ==
  ASSUME NEW P, NEW r \in Rank, Inv(P)
  PROVE  /\ Delivered(P, r) \in Int
         /\ P[r].pc \in Body => Delivered(P, r) = First(mode)[tp[r].last + 1]
         /\ P[r].pc \notin Body => Delivered(P, r) = End(r) - Len(rq[r])
         /\ P[r].pc \notin Body /\ ~tp[r].win =>
              rq[r] = <<>> /\ Delivered(P, r) = First(mode)[tp[r].last + 1]
<1>1. Typed /\ QueueOf(P, r) /\ Len(rq[r]) \in Nat /\ tp[r].win \in BOOLEAN
  BY InvOf, RankFacts
<1>2. P[r].pc \notin Body /\ ~tp[r].win => rq[r] = <<>>
  BY <1>1 DEF QueueOf
<1>3. Len(<<>>) = 0
  OBVIOUS
<1>4. First(mode)[tp[r].last + 1] \in Nat /\ End(r) \in Nat /\ (~tp[r].win => End(r) = First(mode)[tp[r].last + 1])
  BY <1>1, WindowFacts
<1> QED BY <1>1, <1>2, <1>3, <1>4 DEF Delivered

(* The decode messages on their way to a rank: what its peer sent and it   *)
(* was not delivered.                                                      *)
LEMMA DecodeWire ==
  ASSUME NEW P, NEW r \in Rank, NEW p, p = Peer(r), Inv(P), ~Filling(P, r), ~Bulking(P, r)
  PROVE  /\ Stream(mode, wire[r], Delivered(P, r), SentDecode(P, p))
         /\ Len(wire[r]) = SentDecode(P, p) - Delivered(P, r) /\ Len(wire[r]) \in Nat
         /\ Delivered(P, r) \in Int /\ SentDecode(P, p) \in Nat
         /\ Delivered(P, r) <= SentDecode(P, p)
         /\ \A i \in 1 .. Len(wire[r]) :
              /\ Unit(mode, wire[r][i]) /\ wire[r][i].kind = wire[r][i].tag
              /\ wire[r][i].tag # "bulk"
              /\ Delivered(P, r) <= Number(mode, wire[r][i])
              /\ Number(mode, wire[r][i]) < SentDecode(P, p)
<1>1. p \in Rank /\ Typed /\ WireOf(P, r) /\ Len(wire[r]) \in Nat
  BY Sides, InvOf, RankFacts
<1>2. Stream(mode, wire[r], Delivered(P, r), SentDecode(P, p))
  BY <1>1 DEF WireOf
<1>3. Delivered(P, r) \in Int /\ SentDecode(P, p) \in Nat
  BY <1>1, DeliveredIs, SentBounds
<1>4. Len(wire[r]) = SentDecode(P, p) - Delivered(P, r)
  BY <1>2 DEF Stream
<1>5. \A i \in 1 .. Len(wire[r]) : Unit(mode, wire[r][i]) /\ wire[r][i].kind = wire[r][i].tag
        /\ Number(mode, wire[r][i]) = Delivered(P, r) + i - 1
  BY <1>2 DEF Stream
<1>6. \A u : Unit(mode, u) => u.tag # "bulk"
  BY DEF Unit
<1> QED BY <1>1, <1>2, <1>3, <1>4, <1>5, <1>6

(* A rank that awaits no completion of a bulk message has none of them on  *)
(* their way.                                                              *)
LEMMA NoBulk ==
  ASSUME NEW P, NEW r \in Rank, NEW p, p = Peer(r), Inv(P), Awaited(P, r) = 0
  PROVE  /\ Count(wire[p], SignalsBulk) = 0 /\ Count(unacked[r], CarriesBulk) = 0
         /\ Count(cq[r], SentBulk) = 0
         /\ \A i \in 1 .. Len(wire[p]) : wire[p][i] \notin SignalsBulk
         /\ \A i \in 1 .. Len(cq[r]) : cq[r][i] \notin SentBulk
<1>1. p \in Rank /\ Typed /\ SendOf(P, r)
  BY Sides, InvOf
<1>2. Len(wire[p]) \in Nat /\ Len(unacked[r]) \in Nat /\ Len(cq[r]) \in Nat
  BY <1>1, InvOf, RankFacts
<1>3. Count(wire[p], SignalsBulk) \in Nat /\ Count(unacked[r], CarriesBulk) \in Nat
      /\ Count(cq[r], SentBulk) \in Nat
  BY <1>2, CountType
<1>4. Count(wire[p], SignalsBulk) + Count(unacked[r], CarriesBulk) + Count(cq[r], SentBulk) = 0
  BY <1>1 DEF SendOf
<1>5. Count(wire[p], SignalsBulk) = 0 /\ Count(unacked[r], CarriesBulk) = 0 /\ Count(cq[r], SentBulk) = 0
  BY <1>3, <1>4
<1> QED BY <1>2, <1>5, CountZero

(* A bulk message is signaled.                                             *)
LEMMA BulkSignals ==
  ASSUME NEW k \in Nat, NEW j \in Nat
  PROVE  BulkMsg(k, j) \in SignalsBulk /\ BulkMsg(k, j) \in CarriesBulk /\ BulkMsg(k, j) \in Message
         /\ BulkMsg(k, j).tag = "bulk" /\ BulkMsg(k, j).kind = "bulk" /\ BulkMsg(k, j).sig = TRUE
         /\ BulkMsg(k, j).id = k /\ BulkMsg(k, j).part = j
BY DEF BulkMsg, Msg, Message, Tags, SignalsBulk, CarriesBulk

(* A segment of length zero is empty.                                      *)
LEMMA EmptySeq == ASSUME NEW S, NEW s \in Seq(S) PROVE s = <<>> <=> Len(s) = 0
OBVIOUS

(* The round of a bulk operation, and what was posted and sent of it.      *)
LEMMA BulkFacts ==
  ASSUME NEW P, NEW r \in Rank, Inv(P)
  PROVE  /\ IsKind(r, Bulk) => /\ Current(r).size \in Nat /\ Current(r).size >= 1
                               /\ To(P, r) \in Nat /\ To(P, r) <= Current(r).size
         /\ P[r].pc \in Body => IsKind(r, Bulk) /\ P[r].off < To(P, r)
         /\ Posted(P, r) \in Nat /\ Sent(P, r) \in Nat
         /\ P[r].pc \in Body => /\ Posted(P, r) = IF P[r].pc = "post" THEN P[r].off ELSE To(P, r)
                                /\ Sent(P, r) = IF P[r].pc = "bulkwait" THEN To(P, r) ELSE P[r].off
                                /\ Count(cq[r], Received) + P[r].rd + P[r].off = Posted(P, r) - Len(rq[r])
                                /\ Count(cq[r], Received) \in Nat /\ Posted(P, r) - Len(rq[r]) \in Nat
         /\ IsKind(r, Bulk) /\ P[r].pc = "idle" =>
              Posted(P, r) = Current(r).size /\ Sent(P, r) = Current(r).size
         /\ P[r].pc \notin Body \cup {"idle"} => Posted(P, r) = 0 /\ Sent(P, r) = 0
         /\ P[r].pc \notin Body => Posted(P, r) - Len(rq[r]) \in Int
<1>1. Typed /\ PcOf(P, r) /\ RecvOf(P, r) /\ P[r].off \in Nat /\ P[r].rd \in Nat /\ Len(rq[r]) \in Nat
      /\ Len(cq[r]) \in Nat /\ n(r) \in Nat /\ (plan[r] # <<>> <=> n(r) > 0)
  BY InvOf, RankFacts
<1>2. IsKind(r, Bulk) => Current(r).size \in Nat /\ Current(r).size >= 1
  BY <1>1, CurrentOp DEF IsKind
<1>3. BulkSlots \in Nat /\ BulkSlots >= 1
  BY BulkAssumption
<1>4. IsKind(r, Bulk) => To(P, r) \in Nat /\ To(P, r) <= Current(r).size
  BY <1>1, <1>2, <1>3 DEF To
<1>5. P[r].pc \in Body => IsKind(r, Bulk) /\ P[r].off < Current(r).size
  BY <1>1 DEF PcOf
<1>6. P[r].pc \in Body => P[r].off < To(P, r)
  BY <1>1, <1>2, <1>3, <1>5 DEF To
<1>7. "idle" \notin Body /\ "post" \in Body /\ "bulkwait" \in Body
  BY DEF Body
<1>8. /\ Posted(P, r) \in Nat /\ Sent(P, r) \in Nat
      /\ P[r].pc \in Body => /\ Posted(P, r) = IF P[r].pc = "post" THEN P[r].off ELSE To(P, r)
                             /\ Sent(P, r) = IF P[r].pc = "bulkwait" THEN To(P, r) ELSE P[r].off
      /\ IsKind(r, Bulk) /\ P[r].pc = "idle" =>
           Posted(P, r) = Current(r).size /\ Sent(P, r) = Current(r).size
      /\ P[r].pc \notin Body \cup {"idle"} => Posted(P, r) = 0 /\ Sent(P, r) = 0
  BY <1>1, <1>2, <1>4, <1>5, <1>7 DEF Posted, Sent
<1>9. Count(cq[r], Received) \in Nat
  BY <1>1, CountType
<1>10. P[r].pc \in Body => Count(cq[r], Received) + Len(rq[r]) + P[r].rd + P[r].off = Posted(P, r)
  BY <1>1 DEF RecvOf
<1>11. P[r].pc \in Body => /\ Count(cq[r], Received) + P[r].rd + P[r].off = Posted(P, r) - Len(rq[r])
                            /\ Posted(P, r) - Len(rq[r]) \in Nat
  <2>1. \A a, b, c, d, e \in Nat : a + b + c + d = e => a + c + d = e - b /\ e - b \in Nat
    OBVIOUS
  <2> DEFINE a == Count(cq[r], Received)
             b == Len(rq[r])
             c == P[r].rd
             d == P[r].off
             e == Posted(P, r)
  <2>2. a \in Nat /\ b \in Nat /\ c \in Nat /\ d \in Nat /\ e \in Nat
    BY <1>1, <1>8, <1>9
  <2>3. P[r].pc \in Body => a + b + c + d = e
    BY <1>10
  <2>4. P[r].pc \in Body => a + c + d = e - b /\ e - b \in Nat
    <3> HIDE DEF a, b, c, d, e
    <3> QED BY <2>1, <2>2, <2>3
  <2> QED BY <2>4
<1>12. Posted(P, r) - Len(rq[r]) \in Int
  BY <1>1, <1>8
<1>13. IsKind(r, Bulk) => /\ Current(r).size \in Nat /\ Current(r).size >= 1
                          /\ To(P, r) \in Nat /\ To(P, r) <= Current(r).size
  BY <1>2, <1>4
<1> QED BY <1>5, <1>6, <1>8, <1>9, <1>11, <1>12, <1>13

(* A rank that returned from a bulk operation its peer still ends has      *)
(* received and been told of everything.                                   *)
LEMMA CaughtUp ==
  ASSUME NEW P, NEW r \in Rank, NEW p, p = Peer(r), Inv(P),
         P[r].pc = "idle", Level(r), P[p].pc \in Body
  PROVE  /\ wire[p] = <<>> /\ rq[p] = <<>> /\ wire[r] = <<>> /\ rq[r] = <<>>
         /\ ~tp[r].win /\ ~tp[p].win /\ P[p].pc = "bulkwait" /\ IsKind(r, Bulk) /\ IsKind(p, Bulk)
<1>1. p \in Rank /\ Peer(p) = r /\ n(r) = n(p) /\ n(r) \in Nat /\ n(p) \in Nat /\ Typed
  BY Sides, InvOf, RankFacts
<1>2. P[p].pc = "bulkwait" /\ To(P, p) = Current(p).size
  <2>1. SentAll(P, p)
    BY InvOf DEF SyncOf
  <2> QED BY <2>1 DEF SentAll, Body
<1>3. IsKind(p, Bulk) /\ IsKind(r, Bulk) /\ Current(r) = Current(p)
  <2>1. IsKind(p, Bulk)
    BY <1>1, BulkFacts
  <2>2. n(r) > 0
    BY <1>1, <2>1 DEF IsKind
  <2>3. Current(r) = Current(p)
    BY <2>2, Sides
  <2> QED BY <2>1, <2>2, <2>3 DEF IsKind
<1>4. ~tp[r].win /\ ~tp[p].win
  <2>1. WindowOf(P, r) /\ WindowOf(P, p)
    BY <1>1, InvOf
  <2>2. ~IsKind(r, Row \cup {"aux"})
    BY <1>3, KindPc
  <2> QED BY <2>1, <2>2 DEF WindowOf
<1>5. rq[r] = <<>> /\ Len(rq[r]) = 0
  <2>1. P[r].pc \notin Body
    BY DEF Body
  <2> QED BY <1>4, <2>1, DeliveredIs
<1>6. ~Filling(P, r) /\ ~Filling(P, p)
  BY <1>1, <1>4 DEF Filling
<1>7. Bulking(P, r) /\ Bulking(P, p)
  <2>1. n(p) >= n(r)
    BY <1>1
  <2> QED BY <1>1, <1>6, <2>1 DEF Bulking
<1>8. /\ Segment(wire[r], n(p), Got(P, r), Out(P, r)) /\ Segment(wire[p], n(r), Got(P, p), Out(P, p))
  BY <1>1, <1>7, InvOf DEF WireOf
<1>9. Current(r).size \in Nat /\ Posted(P, r) = Current(r).size /\ Sent(P, r) = Current(r).size
      /\ Posted(P, p) = Current(r).size /\ Sent(P, p) = Current(r).size
  BY <1>1, <1>2, <1>3, BulkFacts
<1>0. wire[p] \in Seq(Message) /\ wire[r] \in Seq(Message) /\ rq[p] \in Seq(Message)
  BY <1>1, InvOf, RankFacts
<1>10. Len(rq[p]) \in Nat /\ Len(wire[p]) \in Nat /\ Len(wire[r]) \in Nat
  BY <1>1, InvOf, RankFacts
<1>11. /\ Got(P, r) = Current(r).size /\ Out(P, r) = Current(r).size
       /\ Got(P, p) = Current(r).size - Len(rq[p]) /\ Out(P, p) = Current(r).size
  <2>1. ~(n(r) < n(p)) /\ ~(n(p) < n(r))
    BY <1>1
  <2>2. Got(P, r) = Posted(P, r) - Len(rq[r]) /\ Out(P, r) = Sent(P, p)
        /\ Got(P, p) = Posted(P, p) - Len(rq[p]) /\ Out(P, p) = Sent(P, r)
    BY <1>1, <2>1 DEF Got, Out
  <2> QED BY <1>5, <1>9, <2>2
<1>12. Len(wire[r]) = 0 /\ Len(wire[p]) = Len(rq[p])
  BY <1>8, <1>9, <1>10, <1>11 DEF Segment
<1>13. Len(wire[p]) = 0
  <2>1. Awaited(P, r) = 0
    BY DEF Awaited
  <2>2. SUFFICES ASSUME Len(wire[p]) >= 1 PROVE FALSE
    BY <1>10
  <2>3. 1 \in 1 .. Len(wire[p])
    BY <1>10, <2>2
  <2>4. wire[p][1] = BulkMsg(n(r), Got(P, p) + 1)
    BY <1>8, <2>3 DEF Segment
  <2>5. Got(P, p) + 1 \in Nat
    <3>1. Got(P, p) \in Nat
      BY <1>1, <1>9, <1>11, BulkFacts
    <3> QED BY <3>1
  <2>6. wire[p][1] \in SignalsBulk
    <3>1. BulkMsg(n(r), Got(P, p) + 1) \in SignalsBulk
      BY <1>1, <2>5, BulkSignals
    <3> QED BY <2>4, <3>1
  <2> QED BY <2>1, <2>3, <2>6, NoBulk
<1> QED BY <1>0, <1>2, <1>3, <1>4, <1>5, <1>12, <1>13, EmptySeq

-----------------------------------------------------------------------------
(* What a step leaves alone stays as it was.                               *)

(* A rank's program.                                                       *)
LEMMA SamePlan ==
  ASSUME NEW s, plan'[s] = plan[s]
  PROVE  /\ n(s)' = n(s) /\ Current(s)' = Current(s) /\ (WindowBefore(s)' <=> WindowBefore(s))
         /\ Seqno(s)' = Seqno(s) /\ \A ks : IsKind(s, ks)' <=> IsKind(s, ks)
<1>1. n(s)' = n(s)
  BY DEF n
<1>2. Current(s)' = Current(s)
  BY DEF Current
<1>3. WindowBefore(s)' <=> WindowBefore(s)
  BY <1>1 DEF WindowBefore
<1>4. Seqno(s)' = Seqno(s)
  BY DEF Seqno
<1>5. ASSUME NEW ks PROVE IsKind(s, ks)' <=> IsKind(s, ks)
  BY <1>1, <1>2 DEF IsKind
<1> QED BY <1>1, <1>2, <1>3, <1>4, <1>5

(* Where the ranks are with respect to each other.                         *)
LEMMA SameSides ==
  ASSUME NEW s, n(s)' = n(s), n(Peer(s))' = n(Peer(s))
  PROVE  (Level(s)' <=> Level(s)) /\ (Ahead(s)' <=> Ahead(s))
BY DEF Level, Ahead

(* A rank of which nothing changes but its wire and its headers.           *)
Untouched(s) ==
  /\ mode' = mode /\ plan'[s] = plan[s] /\ done'[s] = done[s] /\ gates'[s] = gates[s]
  /\ tp'[s] = tp[s] /\ op'[s] = op[s] /\ rq'[s] = rq[s] /\ cq'[s] = cq[s] /\ inbuf'[s] = inbuf[s]

(* What it has posted, sent, received and polled is as before.             *)
LEMMA SameValues ==
  ASSUME NEW P, NEW Q, NEW s, Q[s] = P[s], mode' = mode, plan'[s] = plan[s], gates'[s] = gates[s],
         tp'[s] = tp[s], rq'[s] = rq[s]
  PROVE  /\ n(s)' = n(s) /\ Current(s)' = Current(s) /\ (WindowBefore(s)' <=> WindowBefore(s))
         /\ Seqno(s)' = Seqno(s) /\ \A ks : IsKind(s, ks)' <=> IsKind(s, ks)
         /\ To(Q, s)' = To(P, s) /\ Posted(Q, s)' = Posted(P, s) /\ Sent(Q, s)' = Sent(P, s)
         /\ SentDecode(Q, s)' = SentDecode(P, s) /\ End(s)' = End(s)
         /\ Delivered(Q, s)' = Delivered(P, s) /\ Polled(Q, s)' = Polled(P, s)
         /\ WindowLen(s)' = WindowLen(s) /\ Awaited(Q, s)' = Awaited(P, s)
         /\ (SentAll(Q, s)' <=> SentAll(P, s))
<1>1. /\ n(s)' = n(s) /\ Current(s)' = Current(s) /\ (WindowBefore(s)' <=> WindowBefore(s))
      /\ Seqno(s)' = Seqno(s) /\ \A ks : IsKind(s, ks)' <=> IsKind(s, ks)
  BY SamePlan
<1>2. To(Q, s)' = To(P, s)
  BY <1>1 DEF To
<1>3. Posted(Q, s)' = Posted(P, s) /\ Sent(Q, s)' = Sent(P, s)
  BY <1>1, <1>2 DEF Posted, Sent
<1>4. SentDecode(Q, s)' = SentDecode(P, s)
  BY <1>1 DEF SentDecode
<1>5. End(s)' = End(s)
  BY DEF End
<1>6. Delivered(Q, s)' = Delivered(P, s)
  BY <1>5 DEF Delivered
<1>7. Polled(Q, s)' = Polled(P, s)
  BY <1>1 DEF Polled
<1>8. WindowLen(s)' = WindowLen(s)
  BY DEF WindowLen
<1>9. Awaited(Q, s)' = Awaited(P, s) /\ (SentAll(Q, s)' <=> SentAll(P, s))
  BY <1>1, <1>2 DEF Awaited, SentAll
<1> QED BY <1>1, <1>2, <1>3, <1>4, <1>5, <1>6, <1>7, <1>8, <1>9

(* So what the invariant says of its own state still holds.                *)
LEMMA PeerOwn ==
  ASSUME NEW P, NEW Q, NEW s, Own(P, s), Q[s] = P[s], Untouched(s)
  PROVE  Own(Q, s)'
<1>1. /\ n(s)' = n(s) /\ Current(s)' = Current(s) /\ (WindowBefore(s)' <=> WindowBefore(s))
      /\ \A ks : IsKind(s, ks)' <=> IsKind(s, ks)
      /\ To(Q, s)' = To(P, s) /\ Posted(Q, s)' = Posted(P, s) /\ Sent(Q, s)' = Sent(P, s)
      /\ End(s)' = End(s) /\ Delivered(Q, s)' = Delivered(P, s) /\ Polled(Q, s)' = Polled(P, s)
      /\ WindowLen(s)' = WindowLen(s)
  BY SameValues DEF Untouched
<1>2. PcOf(Q, s)'
  BY <1>1 DEF PcOf, Own, Untouched
<1>3. WindowOf(Q, s)'
  BY <1>1 DEF WindowOf, Own, Untouched
<1>4. GateOf(Q, s)'
  BY <1>1 DEF GateOf, Own, Untouched, Eligible, SlotOf
<1>5. DoneOf(Q, s)'
  BY <1>1 DEF DoneOf, Own, Untouched
<1>6. QueueOf(Q, s)'
  BY <1>1 DEF QueueOf, Own, Untouched
<1>7. RecvOf(Q, s)'
  BY <1>1 DEF RecvOf, Own, Untouched
<1>8. MarkOf(Q, s)'
  BY <1>1 DEF MarkOf, Own, Untouched
<1>9. DataOf(Q, s)'
  BY <1>1 DEF DataOf, Own, Untouched
<1> QED BY <1>2, <1>3, <1>4, <1>5, <1>6, <1>7, <1>8, <1>9 DEF Own

(* If what it sent stays on its way too, so does what it knows of it.      *)
LEMMA PeerShared ==
  ASSUME NEW P, NEW Q, NEW s, Shared(P, s), Q[s] = P[s], Untouched(s),
         unacked'[s] = unacked[s], wire'[Peer(s)] = wire[Peer(s)]
  PROVE  SendOf(Q, s)' /\ AckOf(Q, s)' /\ RowOf(Q, s)'
<1>1. /\ \A ks : IsKind(s, ks)' <=> IsKind(s, ks)
      /\ SentDecode(Q, s)' = SentDecode(P, s) /\ Awaited(Q, s)' = Awaited(P, s)
  BY SameValues DEF Untouched
<1>2. SendOf(Q, s)'
  BY <1>1 DEF SendOf, Shared, Untouched
<1>3. AckOf(Q, s)'
  BY <1>1 DEF AckOf, Shared, Untouched
<1>4. RowOf(Q, s)'
  BY <1>1 DEF RowOf, Shared, Untouched, LastSignals
<1> QED BY <1>2, <1>3, <1>4

(* What a turn of a rank leaves of its progress and of its peer's.         *)
Turned(P, Q, r, p) ==
  /\ Q \in Progress /\ Q[r] = op'[r] /\ Q[p] = P[p] /\ P[r] = op[r] /\ ~tp[r].failed
  /\ op \in [Rank -> OpType] /\ tp \in [Rank -> TpType] /\ p \in Rank /\ p # r /\ Peer(p) = r

(* A step of a rank inside an operation: its progress is that of the code. *)
LEMMA Turn ==
  ASSUME NEW P, NEW Q, NEW r \in Rank, NEW p, p = Peer(r), Inv(P), Typed',
         op[r].pc # "idle" \/ ~tp[r].failed, Q = [P EXCEPT ![r] = op'[r]]
  PROVE  Turned(P, Q, r, p)
<1>1. p \in Rank /\ p # r /\ Peer(p) = r /\ P \in Progress /\ Typed /\ PcOf(P, r)
  BY Sides, InvOf
<1>2. op'[r] \in OpType
  <2>1. op' \in [Rank -> OpType]
    BY DEF Typed
  <2> QED BY <2>1
<1>3. Q \in Progress /\ Q[r] = op'[r] /\ Q[p] = P[p]
  BY <1>1, <1>2 DEF Progress
<1>4. P[r] = op[r] /\ ~tp[r].failed
  BY <1>1 DEF PcOf
<1> QED BY <1>1, <1>3, <1>4 DEF Typed, Turned

(* The invariant, from its parts.                                          *)
LEMMA Whole ==
  ASSUME NEW Q \in Progress, NEW r \in Rank, NEW p, p = Peer(r), Typed',
         Own(Q, r)', Own(Q, p)', Shared(Q, r)', Shared(Q, p)'
  PROVE  Inv(Q)'
<1>1. Rank = {r, p}
  BY TwoRanks
<1>2. ASSUME NEW s \in Rank PROVE Own(Q, s)' /\ Shared(Q, s)'
  BY <1>1, <1>2
<1> QED BY <1>2 DEF Inv

(* The two ranks' programs.                                                *)
LEMMA ProgramSame ==
  ASSUME NEW s \in Rank, ProgramOf(s), plan' = plan, gates' = gates
  PROVE  ProgramOf(s)'
<1>1. n(s)' = n(s) /\ n(Peer(s))' = n(Peer(s)) /\ Current(s)' = Current(s)
  BY SamePlan
<1> QED BY <1>1 DEF ProgramOf

(* The headers on their way: the sender has not gone back.                 *)
LEMMA HeaderSame ==
  ASSUME NEW P, NEW Q, NEW s \in Rank, NEW t, t = Peer(s), Typed, HeaderOf(P, s),
         hdr'[s] = hdr[s], Seqno(t)' = Seqno(t), Q[t].pc = "announce" => P[t].pc = "announce"
  PROVE  HeaderOf(Q, s)'
<1>1. t \in Rank /\ hdr[s] \in Seq(HeaderRecord) /\ plan[t] \in Seq(Op)
  BY TwoRanks, TypedRank
<1>2. Seqno(t) \in Nat
  BY <1>1, SeqnoNat
<1>3. SUFFICES ASSUME NEW i \in 1 .. Len(hdr[s]), hdr[s][i].kind \in Bulk
               PROVE  hdr[s][i].seq <= Seqno(t) - (IF Q[t].pc = "announce" THEN 1 ELSE 0)
  BY DEF HeaderOf
<1>4. hdr[s][i].seq <= Seqno(t) - (IF P[t].pc = "announce" THEN 1 ELSE 0)
  BY <1>3 DEF HeaderOf
<1>5. hdr[s][i].seq \in Nat
  <2>1. hdr[s][i] \in HeaderRecord
    BY <1>1
  <2> QED BY <2>1 DEF HeaderRecord
<1>6. CASE Q[t].pc = "announce"
  BY <1>4, <1>6
<1>7. CASE Q[t].pc # "announce"
  BY <1>2, <1>4, <1>5, <1>7
<1> QED BY <1>6, <1>7

(* What is on the way to a rank, if neither its regime nor what it stands  *)
(* for changes.                                                            *)
LEMMA WireFrame ==
  ASSUME NEW P, NEW Q, NEW s, NEW t, t = Peer(s), WireOf(P, s), mode' = mode, wire'[s] = wire[s],
         Filling(Q, s)' <=> Filling(P, s), Bulking(Q, s)' <=> Bulking(P, s),
         Filling(P, s) => rq'[s] = rq[s] /\ n(s)' = n(s) /\ Sent(Q, t)' = Sent(P, t),
         Bulking(P, s) => n(t)' = n(t) /\ Got(Q, s)' = Got(P, s) /\ Out(Q, s)' = Out(P, s),
         ~Filling(P, s) /\ ~Bulking(P, s) =>
           Delivered(Q, s)' = Delivered(P, s) /\ SentDecode(Q, t)' = SentDecode(P, t)
  PROVE  WireOf(Q, s)'
<1>1. CASE Filling(P, s)
  <2>1. ~Bulking(P, s)
    BY <1>1 DEF Bulking
  <2>2. Filled(wire[s], rq[s], n(s)) /\ Len(wire[s]) = Len(rq[s]) + Sent(P, t)
    BY <1>1 DEF WireOf
  <2> QED BY <1>1, <2>1, <2>2 DEF WireOf
<1>2. CASE Bulking(P, s)
  <2>1. ~Filling(P, s)
    BY <1>2 DEF Bulking
  <2>2. Segment(wire[s], n(t), Got(P, s), Out(P, s))
    BY <1>2 DEF WireOf
  <2> QED BY <1>2, <2>1, <2>2 DEF WireOf
<1>3. CASE ~Filling(P, s) /\ ~Bulking(P, s)
  <2>1. Stream(mode, wire[s], Delivered(P, s), SentDecode(P, t))
    BY <1>3 DEF WireOf
  <2> QED BY <1>3, <2>1 DEF WireOf
<1> QED BY <1>1, <1>2, <1>3

(* Where the peer of the rank that steps stands with respect to it.        *)
LEMMA SyncPeer ==
  ASSUME NEW P, NEW Q, NEW r \in Rank, NEW p, p = Peer(r), Inv(P), plan' = plan, Q[p] = P[p],
         Q[r].pc \in HeadPc => P[r].pc \in HeadPc, Q[r].pc # "announce",
         SentAll(P, r) => SentAll(Q, r)',
         SentAll(P, r) /\ Q[r].pc \in Body => P[r].pc \in Body /\ rq'[r] = rq[r]
  PROVE  SyncOf(Q, p)'
<1>1. p \in Rank /\ Peer(p) = r
  BY Sides
<1>2. SyncOf(P, p)
  BY <1>1, InvOf
<1>3. (Level(p)' <=> Level(p)) /\ (Ahead(p)' <=> Ahead(p)) /\ (WindowBefore(p)' <=> WindowBefore(p))
  BY <1>1, SamePlan, SameSides
<1>4. Ahead(p)' => /\ Q[p].pc # "idle" /\ SentAll(Q, r)'
                   /\ Q[r].pc \in Body => rq'[r] = <<>>
  BY <1>1, <1>2, <1>3 DEF SyncOf
<1>5. Level(p)' /\ Q[p].pc = "idle" => SentAll(Q, r)'
  BY <1>1, <1>2, <1>3 DEF SyncOf
<1>6. /\ Ahead(p)' /\ Q[p].pc \in {"drain", "drainwait"} \cup Body => ~WindowBefore(p)'
      /\ Level(p)' /\ WindowBefore(p)' /\ Q[p].pc \in {"drain", "drainwait"} \cup Body =>
           Q[r].pc # "announce"
      /\ Level(p)' /\ WindowBefore(p)' /\ Q[p].pc \in Body => Q[r].pc \notin HeadPc
  BY <1>1, <1>2, <1>3 DEF SyncOf
<1> QED BY <1>1, <1>4, <1>5, <1>6 DEF SyncOf

(* Where the rank that steps stands.                                       *)
LEMMA SyncOwn ==
  ASSUME NEW P, NEW Q, NEW r \in Rank, NEW p, p = Peer(r), Inv(P), plan' = plan, Q[p] = P[p],
         rq'[p] = rq[p], P[r].pc # "idle",
         Q[r].pc = "idle" => ~Ahead(r) /\ (Level(r) => SentAll(P, p)),
         Q[r].pc \in {"drain", "drainwait"} \cup Body =>
           \/ P[r].pc \in {"drain", "drainwait"} \cup Body
           \/ (Ahead(r) => ~WindowBefore(r)) /\ (Level(r) /\ WindowBefore(r) => P[p].pc # "announce"),
         Q[r].pc \in Body => \/ P[r].pc \in Body
                             \/ (Level(r) /\ WindowBefore(r) => P[p].pc \notin HeadPc)
  PROVE  SyncOf(Q, r)'
<1>1. p \in Rank /\ SyncOf(P, r)
  BY Sides, InvOf
<1>2. (Level(r)' <=> Level(r)) /\ (Ahead(r)' <=> Ahead(r)) /\ (WindowBefore(r)' <=> WindowBefore(r))
  BY SamePlan, SameSides
<1>3. SentAll(Q, p)' <=> SentAll(P, p)
  <2>1. To(Q, p)' = To(P, p) /\ Current(p)' = Current(p)
    BY SamePlan DEF To
  <2> QED BY <2>1 DEF SentAll
<1>4. Ahead(r)' => /\ Q[r].pc # "idle" /\ SentAll(Q, p)'
                   /\ Q[p].pc \in Body => rq'[p] = <<>>
  BY <1>1, <1>2, <1>3 DEF SyncOf
<1>5. Level(r)' /\ Q[r].pc = "idle" => SentAll(Q, p)'
  BY <1>2, <1>3
<1>6. Ahead(r)' /\ Q[r].pc \in {"drain", "drainwait"} \cup Body => ~WindowBefore(r)'
  BY <1>1, <1>2 DEF SyncOf
<1>7. Level(r)' /\ WindowBefore(r)' /\ Q[r].pc \in {"drain", "drainwait"} \cup Body =>
           Q[p].pc # "announce"
  BY <1>1, <1>2 DEF SyncOf
<1>8. Level(r)' /\ WindowBefore(r)' /\ Q[r].pc \in Body => Q[p].pc \notin HeadPc
  BY <1>1, <1>2 DEF SyncOf
<1> QED BY <1>4, <1>5, <1>6, <1>7, <1>8 DEF SyncOf

(* What a step of a rank leaves of its peer, and of both programs.         *)
Rested(P, Q, r, p) ==
  /\ Own(Q, p)' /\ ProgramOf(r)' /\ ProgramOf(p)' /\ SendOf(Q, p)' /\ AckOf(Q, p)' /\ RowOf(Q, p)'
  /\ n(r)' = n(r) /\ Current(r)' = Current(r) /\ (WindowBefore(r)' <=> WindowBefore(r))
  /\ Seqno(r)' = Seqno(r) /\ \A ks : IsKind(r, ks)' <=> IsKind(r, ks)
  /\ n(p)' = n(p) /\ Current(p)' = Current(p) /\ (WindowBefore(p)' <=> WindowBefore(p))
  /\ Seqno(p)' = Seqno(p) /\ \A ks : IsKind(p, ks)' <=> IsKind(p, ks)
  /\ (Level(r)' <=> Level(r)) /\ (Ahead(r)' <=> Ahead(r))
  /\ (Level(p)' <=> Level(p)) /\ (Ahead(p)' <=> Ahead(p))
  /\ To(Q, p)' = To(P, p) /\ Posted(Q, p)' = Posted(P, p) /\ Sent(Q, p)' = Sent(P, p)
  /\ SentDecode(Q, p)' = SentDecode(P, p) /\ Delivered(Q, p)' = Delivered(P, p)

(* The peer of the rank that steps, when its memory, queues and wire stay  *)
(* as they are, and what does not depend on the step at all.               *)
LEMMA Rest ==
  ASSUME NEW P, NEW Q, NEW r \in Rank, NEW p, p = Peer(r), Inv(P), Q[p] = P[p], Untouched(p),
         unacked'[p] = unacked[p], wire'[r] = wire[r], plan' = plan, gates' = gates
  PROVE  Rested(P, Q, r, p)
<1>1. p \in Rank /\ Peer(p) = r
  BY Sides
<1>2. Own(P, p) /\ Shared(P, p) /\ ProgramOf(r) /\ ProgramOf(p)
  BY <1>1, InvOf
<1>3. Own(Q, p)' /\ SendOf(Q, p)' /\ AckOf(Q, p)' /\ RowOf(Q, p)'
  BY <1>1, <1>2, PeerOwn, PeerShared
<1>4. ProgramOf(r)' /\ ProgramOf(p)'
  BY <1>1, <1>2, ProgramSame
<1>5. /\ n(r)' = n(r) /\ Current(r)' = Current(r) /\ (WindowBefore(r)' <=> WindowBefore(r))
      /\ Seqno(r)' = Seqno(r) /\ \A ks : IsKind(r, ks)' <=> IsKind(r, ks)
  BY SamePlan
<1>6. /\ n(p)' = n(p) /\ Current(p)' = Current(p) /\ (WindowBefore(p)' <=> WindowBefore(p))
      /\ Seqno(p)' = Seqno(p) /\ \A ks : IsKind(p, ks)' <=> IsKind(p, ks)
      /\ To(Q, p)' = To(P, p) /\ Posted(Q, p)' = Posted(P, p) /\ Sent(Q, p)' = Sent(P, p)
      /\ SentDecode(Q, p)' = SentDecode(P, p) /\ Delivered(Q, p)' = Delivered(P, p)
  BY SameValues DEF Untouched
<1>7. /\ (Level(r)' <=> Level(r)) /\ (Ahead(r)' <=> Ahead(r))
      /\ (Level(p)' <=> Level(p)) /\ (Ahead(p)' <=> Ahead(p))
  BY <1>1, <1>5, <1>6, SameSides
<1> QED BY <1>3, <1>4, <1>5, <1>6, <1>7 DEF Rested

(* The regime of both wires while the step does not enter or leave the     *)
(* drain or a round.                                                       *)
LEMMA SameRegime ==
  ASSUME NEW P, NEW Q, NEW r \in Rank, NEW p, p = Peer(r), Inv(P), Q[p] = P[p],
         plan' = plan, tp'[r].win = tp[r].win, tp'[p] = tp[p],
         Q[r].pc \in Body <=> P[r].pc \in Body,
         Q[r].pc = "drainwait" <=> P[r].pc = "drainwait"
  PROVE  /\ (Filling(Q, r)' <=> Filling(P, r)) /\ (Filling(Q, p)' <=> Filling(P, p))
         /\ (Bulking(Q, r)' <=> Bulking(P, r)) /\ (Bulking(Q, p)' <=> Bulking(P, p))
<1>1. p \in Rank /\ Peer(p) = r
  BY Sides
<1>2. n(r)' = n(r) /\ n(p)' = n(p)
  BY SamePlan
<1>3. (Level(r)' <=> Level(r)) /\ (Level(p)' <=> Level(p))
  BY <1>1, <1>2, SameSides
<1>4. (Filling(Q, r)' <=> Filling(P, r)) /\ (Filling(Q, p)' <=> Filling(P, p))
  BY <1>1, <1>3 DEF Filling
<1> QED BY <1>1, <1>2, <1>4 DEF Bulking

(* Both wires, when the step changes neither them nor what they stand for. *)
LEMMA SameWires ==
  ASSUME NEW P, NEW Q, NEW r \in Rank, NEW p, p = Peer(r), Inv(P), Q[p] = P[p], mode' = mode,
         plan' = plan, gates'[p] = gates[p], tp'[r].win = tp[r].win, tp'[p] = tp[p], rq' = rq, wire' = wire,
         Q[r].pc \in Body <=> P[r].pc \in Body,
         Q[r].pc = "drainwait" <=> P[r].pc = "drainwait",
         Posted(Q, r)' = Posted(P, r), Sent(Q, r)' = Sent(P, r),
         SentDecode(Q, r)' = SentDecode(P, r), Delivered(Q, r)' = Delivered(P, r)
  PROVE  WireOf(Q, r)' /\ WireOf(Q, p)'
<1>1. p \in Rank /\ Peer(p) = r /\ WireOf(P, r) /\ WireOf(P, p)
  BY Sides, InvOf
<1>2. n(r)' = n(r) /\ n(p)' = n(p)
  BY SamePlan
<1>3. Posted(Q, p)' = Posted(P, p) /\ Sent(Q, p)' = Sent(P, p)
      /\ SentDecode(Q, p)' = SentDecode(P, p) /\ Delivered(Q, p)' = Delivered(P, p)
  BY SameValues
<1>4. Got(Q, r)' = Got(P, r) /\ Out(Q, r)' = Out(P, r) /\ Got(Q, p)' = Got(P, p) /\ Out(Q, p)' = Out(P, p)
  BY <1>1, <1>2, <1>3 DEF Got, Out
<1>5. WireOf(Q, r)'
  BY <1>1, <1>2, <1>3, <1>4, SameRegime, WireFrame
<1>6. WireOf(Q, p)'
  BY <1>1, <1>2, <1>3, <1>4, SameRegime, WireFrame
<1> QED BY <1>5, <1>6

(* A step within the header exchange, or within a round before its         *)
(* messages are sent.                                                      *)
LEMMA PcMove ==
  ASSUME NEW P, NEW Q, NEW r \in Rank, NEW p, p = Peer(r), Inv(P), Typed', mode' = mode,
         NEW x, op[r].pc # "idle", op' = [op EXCEPT ![r].pc = x], Q = [P EXCEPT ![r] = op'[r]],
         UNCHANGED <<plan, done, gates, tp, nicVars>>,
         \/ op[r].pc \in {"announce", "header"} /\ x \in {"header", "drain"}
         \/ op[r].pc \in {"tellready", "ready"} /\ x \in {"ready", "bulksend"},
         x = "drain" => (Ahead(r) => ~WindowBefore(r)) /\ (Level(r) /\ WindowBefore(r) => P[p].pc # "announce"),
         HeaderOf(Q, r)', HeaderOf(Q, p)'
  PROVE  Inv(Q)'
<1>0. /\ Q \in Progress /\ Q[r] = op'[r] /\ Q[p] = P[p] /\ P[r] = op[r] /\ ~tp[r].failed
      /\ op \in [Rank -> OpType] /\ tp \in [Rank -> TpType] /\ p \in Rank /\ p # r /\ Peer(p) = r
  <2>1. Turned(P, Q, r, p)
    BY Turn
  <2> QED BY <2>1 DEF Turned
<1>1. /\ Q[r].pc = x /\ Q[r].off = P[r].off /\ Q[r].rd = P[r].rd /\ Q[r].sd = P[r].sd
      /\ op'[r] = Q[r] /\ op'[p] = op[p]
  <2>1. op'[r] = [op[r] EXCEPT !.pc = x] /\ op'[p] = op[p]
    BY <1>0
  <2>2. op[r] \in [pc : Pc, off : Nat, rd : Nat, sd : Nat]
    BY <1>0 DEF OpType
  <2> QED BY <1>0, <2>1, <2>2
<1>2. UNCHANGED <<plan, done, gates, tp, rq, wire, unacked, cq, inbuf>> /\ Untouched(p)
  BY <1>1 DEF nicVars, Untouched
<1>3. /\ Own(Q, p)' /\ ProgramOf(r)' /\ ProgramOf(p)' /\ SendOf(Q, p)' /\ AckOf(Q, p)' /\ RowOf(Q, p)'
      /\ n(r)' = n(r) /\ Current(r)' = Current(r) /\ (WindowBefore(r)' <=> WindowBefore(r))
      /\ \A ks : IsKind(r, ks)' <=> IsKind(r, ks)
  <2>1. Rested(P, Q, r, p)
    BY <1>0, <1>2, Rest
  <2> QED BY <2>1 DEF Rested
<1>4. /\ P[r].pc \in HeadPc \/ P[r].pc \in Body \ {"post", "bulkwait"}
      /\ Q[r].pc \in HeadPc <=> P[r].pc \in HeadPc
      /\ Q[r].pc \in Body <=> P[r].pc \in Body
      /\ Q[r].pc \notin {"idle", "arm", "send", "wait", "auxwait", "drainwait", "post", "bulkwait", "announce"}
      /\ P[r].pc \notin {"idle", "arm", "send", "wait", "auxwait", "drainwait", "post", "bulkwait"}
      /\ P[r].pc \notin DecodePc /\ Q[r].pc \notin DecodePc
      /\ Q[r].pc \notin RowPc /\ P[r].pc \notin RowPc
  BY <1>0, <1>1 DEF HeadPc, Body, DecodePc, RowPc
<1>5. /\ To(Q, r)' = To(P, r) /\ Posted(Q, r)' = Posted(P, r) /\ Sent(Q, r)' = Sent(P, r)
      /\ SentDecode(Q, r)' = SentDecode(P, r) /\ End(r)' = End(r)
      /\ Delivered(Q, r)' = Delivered(P, r) /\ WindowLen(r)' = WindowLen(r)
      /\ Awaited(Q, r)' = 0 /\ Awaited(P, r) = 0 /\ ~SentAll(P, r) /\ ~SentAll(Q, r)'
  <2>1. To(Q, r)' = To(P, r)
    BY <1>1, <1>3 DEF To
  <2>2. Posted(Q, r)' = Posted(P, r) /\ Sent(Q, r)' = Sent(P, r)
    BY <1>1, <1>3, <1>4, <2>1 DEF Posted, Sent
  <2>3. SentDecode(Q, r)' = SentDecode(P, r)
    BY <1>2, <1>3, <1>4 DEF SentDecode
  <2>4. End(r)' = End(r) /\ WindowLen(r)' = WindowLen(r)
    BY <1>2 DEF End, WindowLen
  <2>5. Delivered(Q, r)' = Delivered(P, r)
    BY <1>2, <1>4, <2>4 DEF Delivered
  <2>6. Awaited(Q, r)' = 0 /\ Awaited(P, r) = 0 /\ ~SentAll(P, r) /\ ~SentAll(Q, r)'
    BY <1>4 DEF Awaited, SentAll
  <2> QED BY <2>1, <2>2, <2>3, <2>4, <2>5, <2>6
<1>6. /\ PcOf(P, r) /\ WindowOf(P, r) /\ GateOf(P, r) /\ DoneOf(P, r)
      /\ QueueOf(P, r) /\ RecvOf(P, r) /\ MarkOf(P, r) /\ DataOf(P, r)
      /\ SendOf(P, r) /\ AckOf(P, r) /\ RowOf(P, r)
  BY InvOf
<1>7. PcOf(Q, r)'
  BY <1>0, <1>1, <1>2, <1>3, <1>4, <1>6 DEF PcOf
<1>8. WindowOf(Q, r)'
  BY <1>2, <1>3, <1>4, <1>6 DEF WindowOf
<1>9. GateOf(Q, r)'
  BY <1>2, <1>3, <1>4, <1>6 DEF GateOf, Eligible, SlotOf
<1>10. DoneOf(Q, r)'
  BY <1>2, <1>3, <1>4, <1>6 DEF DoneOf
<1>11. QueueOf(Q, r)'
  BY <1>2, <1>3, <1>4, <1>5, <1>6 DEF QueueOf
<1>12. RecvOf(Q, r)'
  BY <1>1, <1>2, <1>4, <1>5, <1>6 DEF RecvOf
<1>13. MarkOf(Q, r)'
  BY <1>4 DEF MarkOf
<1>14. DataOf(Q, r)'
  BY <1>2, <1>3, <1>4, <1>5, <1>6 DEF DataOf
<1>15. SyncOf(Q, p)'
  BY <1>0, <1>2, <1>4, <1>5, SyncPeer
<1>16. SyncOf(Q, r)'
  <2>1. Q[r].pc \in {"drain", "drainwait"} \cup Body => x = "drain" \/ P[r].pc \in Body
    BY <1>1, <1>4
  <2>2. /\ P[r].pc # "idle" /\ Q[r].pc # "idle" /\ (Q[r].pc \in Body => P[r].pc \in Body)
        /\ plan' = plan /\ rq'[p] = rq[p] /\ Q[p] = P[p]
    BY <1>0, <1>2, <1>4
  <2>3. Q[r].pc \in {"drain", "drainwait"} \cup Body =>
           \/ P[r].pc \in {"drain", "drainwait"} \cup Body
           \/ (Ahead(r) => ~WindowBefore(r)) /\ (Level(r) /\ WindowBefore(r) => P[p].pc # "announce")
    BY <2>1
  <2> QED BY <2>2, <2>3, SyncOwn
<1>17. SendOf(Q, r)'
  BY <1>2, <1>5, <1>6 DEF SendOf
<1>18. WireOf(Q, r)' /\ WireOf(Q, p)'
  BY <1>0, <1>2, <1>4, <1>5, SameWires
<1>19. AckOf(Q, r)'
  BY <1>2, <1>3, <1>4, <1>5, <1>6 DEF AckOf
<1>20. RowOf(Q, r)'
  BY <1>4 DEF RowOf
<1>21. Own(Q, r)'
  BY <1>7, <1>8, <1>9, <1>10, <1>11, <1>12, <1>13, <1>14 DEF Own
<1>22. Shared(Q, r)' /\ Shared(Q, p)'
  BY <1>3, <1>15, <1>16, <1>17, <1>18, <1>19, <1>20 DEF Shared
<1> QED BY <1>0, <1>3, <1>21, <1>22, Whole

(* The ranks count the same bulk operations.                               *)
LEMMA SeqnoSides ==
  ASSUME NEW P, NEW r \in Rank, NEW p, p = Peer(r), Inv(P)
  PROVE  /\ Seqno(r) \in Nat /\ Seqno(p) \in Nat
         /\ Level(r) => Seqno(r) = Seqno(p)
         /\ Ahead(r) /\ IsKind(r, Bulk) => Seqno(r) = Seqno(p) + 1
<1> DEFINE A == {i \in DOMAIN plan[r] : plan[r][i].kind \in Bulk}
           B == {i \in DOMAIN plan[p] : plan[p][i].kind \in Bulk}
<1>1. p \in Rank /\ Typed /\ ProgramOf(r) /\ n(r) \in Nat /\ n(p) \in Nat
      /\ plan[r] \in Seq(Op) /\ plan[p] \in Seq(Op)
  BY Sides, InvOf, RankFacts
<1>2. (Level(r) <=> n(r) = n(p)) /\ (Ahead(r) <=> n(r) = n(p) + 1)
  BY Sides
<1>3. DOMAIN plan[r] = 1 .. n(r) /\ DOMAIN plan[p] = 1 .. n(p)
  BY <1>1 DEF n
<1>4. \A i \in 1 .. n(r) : i <= n(p) => plan[r][i] = plan[p][i]
  BY <1>1 DEF ProgramOf
<1>5. Seqno(r) \in Nat /\ Seqno(p) \in Nat /\ IsFiniteSet(B)
  BY <1>1, SeqnoNat
<1>6. Seqno(r) = Cardinality(A) /\ Seqno(p) = Cardinality(B)
  BY DEF Seqno
<1>7. Level(r) => A = B
  BY <1>1, <1>2, <1>3, <1>4
<1>8. ASSUME Ahead(r), IsKind(r, Bulk) PROVE A = B \cup {n(p) + 1} /\ n(p) + 1 \notin B
  <2>1. n(r) = n(p) + 1 /\ plan[r][n(p) + 1].kind \in Bulk
    BY <1>2, <1>8 DEF IsKind, Current, n
  <2> QED BY <1>1, <1>3, <1>4, <2>1
<1> HIDE DEF A, B
<1>9. Ahead(r) /\ IsKind(r, Bulk) => Cardinality(A) = Cardinality(B) + 1
  BY <1>5, <1>8, FS_AddElement
<1> QED BY <1>5, <1>6, <1>7, <1>9

(* Headers that are left keep what they told.                              *)
LEMMA HeaderTail ==
  ASSUME NEW P, NEW Q, NEW s \in Rank, NEW t, t = Peer(s), Typed, HeaderOf(P, s), hdr[s] # <<>>,
         hdr'[s] = Tail(hdr[s]), Seqno(t)' = Seqno(t), Q[t].pc = P[t].pc
  PROVE  HeaderOf(Q, s)'
<1>1. hdr[s] \in Seq(HeaderRecord)
  BY TypedRank
<1>2. \A i \in 1 .. Len(Tail(hdr[s])) : i + 1 \in 1 .. Len(hdr[s]) /\ Tail(hdr[s])[i] = hdr[s][i + 1]
  BY <1>1
<1>3. SUFFICES ASSUME NEW i \in 1 .. Len(Tail(hdr[s])), Tail(hdr[s])[i].kind \in Bulk
               PROVE  Tail(hdr[s])[i].seq <= Seqno(t) - (IF P[t].pc = "announce" THEN 1 ELSE 0)
  BY DEF HeaderOf
<1> QED BY <1>2, <1>3 DEF HeaderOf

(* A rank that fails keeps everything but its own progress, and its        *)
(* progress is what it was.                                                *)
LEMMA Frozen ==
  ASSUME NEW P, NEW r \in Rank, NEW p, p = Peer(r), Inv(P), Typed', mode' = mode,
         UNCHANGED <<plan, done, gates, nicVars>>, tp'[p] = tp[p], op'[p] = op[p],
         tp'[r].failed, op'[r].pc = "idle",
         tp'[r].win = tp[r].win, tp'[r].last = tp[r].last, tp'[r].recvDone = tp[r].recvDone,
         tp'[r].auxRecv = tp[r].auxRecv, tp'[r].auxSend = tp[r].auxSend,
         hdr'[p] = hdr[p], hdr'[r] = hdr[r] \/ (hdr[r] # <<>> /\ hdr'[r] = Tail(hdr[r]))
  PROVE  Inv(P)'
<1>0. p \in Rank /\ p # r /\ Peer(p) = r /\ Typed /\ P \in Progress
  BY Sides, InvOf
<1>2. UNCHANGED <<plan, done, gates, rq, wire, unacked, cq, inbuf>> /\ Untouched(p)
  BY DEF nicVars, Untouched
<1>3. /\ Own(P, p)' /\ ProgramOf(r)' /\ ProgramOf(p)' /\ SendOf(P, p)' /\ AckOf(P, p)' /\ RowOf(P, p)'
      /\ n(r)' = n(r) /\ Current(r)' = Current(r) /\ (WindowBefore(r)' <=> WindowBefore(r))
      /\ Seqno(r)' = Seqno(r) /\ Seqno(p)' = Seqno(p) /\ \A ks : IsKind(r, ks)' <=> IsKind(r, ks)
      /\ (WindowBefore(p)' <=> WindowBefore(p))
      /\ (Level(r)' <=> Level(r)) /\ (Ahead(r)' <=> Ahead(r))
      /\ (Level(p)' <=> Level(p)) /\ (Ahead(p)' <=> Ahead(p)) /\ To(P, p)' = To(P, p) /\ Current(p)' = Current(p)
  <2>1. Rested(P, P, r, p)
    BY <1>0, <1>2, Rest
  <2> QED BY <2>1 DEF Rested
<1>5. /\ To(P, r)' = To(P, r) /\ Posted(P, r)' = Posted(P, r) /\ Sent(P, r)' = Sent(P, r)
      /\ SentDecode(P, r)' = SentDecode(P, r) /\ End(r)' = End(r)
      /\ Delivered(P, r)' = Delivered(P, r) /\ WindowLen(r)' = WindowLen(r) /\ Polled(P, r)' = Polled(P, r)
      /\ Awaited(P, r)' = Awaited(P, r) /\ (SentAll(P, r)' <=> SentAll(P, r))
      /\ (SentAll(P, p)' <=> SentAll(P, p))
  <2>1. To(P, r)' = To(P, r)
    BY <1>3 DEF To
  <2>2. Posted(P, r)' = Posted(P, r) /\ Sent(P, r)' = Sent(P, r)
    BY <1>3, <2>1 DEF Posted, Sent
  <2>3. SentDecode(P, r)' = SentDecode(P, r)
    BY <1>2, <1>3 DEF SentDecode
  <2>4. End(r)' = End(r) /\ WindowLen(r)' = WindowLen(r)
    BY <1>2 DEF End, WindowLen
  <2>5. Delivered(P, r)' = Delivered(P, r)
    BY <1>2, <2>4 DEF Delivered
  <2>6. Awaited(P, r)' = Awaited(P, r) /\ (SentAll(P, r)' <=> SentAll(P, r)) /\ (SentAll(P, p)' <=> SentAll(P, p))
    BY <1>3, <2>1 DEF Awaited, SentAll
  <2>7. Polled(P, r)' = Polled(P, r)
    BY <1>3 DEF Polled
  <2> QED BY <2>1, <2>2, <2>3, <2>4, <2>5, <2>6, <2>7
<1>6. /\ PcOf(P, r) /\ WindowOf(P, r) /\ GateOf(P, r) /\ DoneOf(P, r)
      /\ QueueOf(P, r) /\ RecvOf(P, r) /\ MarkOf(P, r) /\ DataOf(P, r)
      /\ SendOf(P, r) /\ AckOf(P, r) /\ RowOf(P, r) /\ SyncOf(P, r) /\ SyncOf(P, p)
      /\ HeaderOf(P, r) /\ HeaderOf(P, p)
  BY <1>0, InvOf
<1>7. PcOf(P, r)'
  BY <1>3, <1>6 DEF PcOf
<1>8. WindowOf(P, r)'
  BY <1>2, <1>3, <1>6 DEF WindowOf
<1>9. GateOf(P, r)'
  BY <1>2, <1>3, <1>6 DEF GateOf, Eligible, SlotOf
<1>10. DoneOf(P, r)'
  BY <1>2, <1>3, <1>6 DEF DoneOf
<1>11. QueueOf(P, r)'
  BY <1>2, <1>3, <1>5, <1>6 DEF QueueOf
<1>12. RecvOf(P, r)'
  BY <1>2, <1>5, <1>6 DEF RecvOf
<1>13. MarkOf(P, r)'
  BY <1>2, <1>5, <1>6 DEF MarkOf
<1>14. DataOf(P, r)'
  BY <1>2, <1>3, <1>5, <1>6 DEF DataOf
<1>15. SyncOf(P, p)'
  BY <1>0, <1>2, <1>3, <1>5, <1>6 DEF SyncOf
<1>16. SyncOf(P, r)'
  BY <1>0, <1>2, <1>3, <1>5, <1>6 DEF SyncOf
<1>17. SendOf(P, r)'
  BY <1>2, <1>5, <1>6 DEF SendOf
<1>18. WireOf(P, r)' /\ WireOf(P, p)'
  BY <1>0, <1>2, <1>5, SameWires
<1>19. AckOf(P, r)'
  BY <1>2, <1>3, <1>5, <1>6 DEF AckOf
<1>20. RowOf(P, r)'
  BY <1>2, <1>3, <1>6 DEF RowOf, LastSignals
<1>23. HeaderOf(P, p)'
  BY <1>0, <1>3, <1>6, HeaderSame
<1>24. HeaderOf(P, r)'
  BY <1>0, <1>3, <1>6, HeaderSame, HeaderTail
<1>21. Own(P, r)'
  BY <1>7, <1>8, <1>9, <1>10, <1>11, <1>12, <1>13, <1>14 DEF Own
<1>22. Shared(P, r)' /\ Shared(P, p)'
  BY <1>3, <1>15, <1>16, <1>17, <1>18, <1>19, <1>20, <1>23, <1>24 DEF Shared
<1> QED BY <1>0, <1>3, <1>21, <1>22, Whole

-----------------------------------------------------------------------------
(* The steps, one by one.  Q is the progress after the step.               *)

(* A header that is written tells of the operation the rank has reached.   *)
LEMMA HeaderAppend ==
  ASSUME NEW P, NEW Q, NEW s \in Rank, NEW t, t = Peer(s), Typed, HeaderOf(P, s), NEW h,
         hdr'[s] = Append(hdr[s], h), Seqno(t)' = Seqno(t), Q[t].pc # "announce",
         h.kind \in Bulk => h.seq <= Seqno(t)
  PROVE  HeaderOf(Q, s)'
<1>1. t \in Rank /\ hdr[s] \in Seq(HeaderRecord) /\ plan[t] \in Seq(Op)
  BY TwoRanks, TypedRank
<1>2. Seqno(t) \in Nat
  BY <1>1, SeqnoNat
<1>3. SUFFICES ASSUME NEW i \in 1 .. Len(Append(hdr[s], h)), Append(hdr[s], h)[i].kind \in Bulk
               PROVE  Append(hdr[s], h)[i].seq <= Seqno(t)
  BY <1>2 DEF HeaderOf
<1>4. CASE i \in 1 .. Len(hdr[s])
  <2>1. Append(hdr[s], h)[i] = hdr[s][i]
    BY <1>1, <1>4
  <2>2. hdr[s][i].seq <= Seqno(t) - (IF P[t].pc = "announce" THEN 1 ELSE 0)
    BY <1>3, <1>4, <2>1 DEF HeaderOf
  <2>3. hdr[s][i].seq \in Nat
    <3>1. hdr[s][i] \in HeaderRecord
      BY <1>1, <1>4
    <3> QED BY <3>1 DEF HeaderRecord
  <2> QED BY <1>2, <2>1, <2>2, <2>3
<1>5. CASE i = Len(hdr[s]) + 1
  <2>1. Append(hdr[s], h)[i] = h
    BY <1>1, <1>5
  <2> QED BY <1>3, <2>1
<1>6. i \in 1 .. Len(hdr[s]) + 1
  BY <1>1, <1>3
<1> QED BY <1>1, <1>4, <1>5, <1>6

(* A header is written.                                                    *)
LEMMA WriteHeaderInv ==
  ASSUME NEW P, NEW Q, NEW r \in Rank, NEW p, p = Peer(r), Inv(P), Typed', mode' = mode,
         WriteHeader(r), Q = [P EXCEPT ![r] = op'[r]]
  PROVE  Inv(Q)'
<1>1. /\ op[r].pc = "announce" /\ op' = [op EXCEPT ![r].pc = "header"]
      /\ hdr' = [hdr EXCEPT ![p] = Append(@, Header(r))]
      /\ UNCHANGED <<plan, done, gates, tp, nicVars>>
  BY DEF WriteHeader, Goto, Tell
<1>2. /\ Q[r] = op'[r] /\ Q[p] = P[p] /\ P[r] = op[r] /\ op \in [Rank -> OpType]
      /\ p \in Rank /\ p # r /\ Peer(p) = r
  <2>1. Turned(P, Q, r, p)
    BY <1>1, Turn
  <2> QED BY <2>1 DEF Turned
<1>3. Q[r].pc = "header"
  <2>1. op'[r] = [op[r] EXCEPT !.pc = "header"]
    BY <1>1, <1>2
  <2>2. op[r] \in [pc : Pc, off : Nat, rd : Nat, sd : Nat]
    BY <1>2 DEF OpType
  <2> QED BY <1>2, <2>1, <2>2
<1>4. Typed /\ HeaderOf(P, r) /\ HeaderOf(P, p) /\ hdr \in [Rank -> Seq(HeaderRecord)]
  BY <1>2, InvOf DEF Typed
<1>5. hdr'[r] = hdr[r] /\ hdr'[p] = Append(hdr[p], Header(r))
  BY <1>1, <1>2, <1>4
<1>6. Seqno(r)' = Seqno(r) /\ Seqno(p)' = Seqno(p) /\ Seqno(r) \in Nat
  BY <1>1, SamePlan, SeqnoSides
<1>7. HeaderOf(Q, r)'
  BY <1>2, <1>4, <1>5, <1>6, HeaderSame
<1>8. HeaderOf(Q, p)'
  <2>1. Header(r).seq = Seqno(r)
    BY DEF Header
  <2>2. /\ r = Peer(p) /\ hdr'[p] = Append(hdr[p], Header(r)) /\ Seqno(r)' = Seqno(r)
        /\ Q[r].pc # "announce" /\ (Header(r).kind \in Bulk => Header(r).seq <= Seqno(r))
    BY <1>2, <1>3, <1>5, <1>6, <2>1
  <2> QED BY <1>2, <1>4, <2>2, HeaderAppend
<1> QED BY <1>1, <1>7, <1>8, PcMove

(* A receive-ready record is written.                                      *)
LEMMA TellReadyInv ==
  ASSUME NEW P, NEW Q, NEW r \in Rank, NEW p, p = Peer(r), Inv(P), Typed', mode' = mode,
         TellReady(r), Q = [P EXCEPT ![r] = op'[r]]
  PROVE  Inv(Q)'
<1>1. /\ op[r].pc = "tellready" /\ op' = [op EXCEPT ![r].pc = "ready"]
      /\ hdr' = [hdr EXCEPT ![p] = Append(@, Ready(r))]
      /\ UNCHANGED <<plan, done, gates, tp, nicVars>>
  BY DEF TellReady, Goto, Tell
<1>2. /\ Q[r] = op'[r] /\ Q[p] = P[p] /\ P[r] = op[r] /\ op \in [Rank -> OpType]
      /\ p \in Rank /\ p # r /\ Peer(p) = r
  <2>1. Turned(P, Q, r, p)
    BY <1>1, Turn
  <2> QED BY <2>1 DEF Turned
<1>3. Q[r].pc = "ready"
  <2>1. op'[r] = [op[r] EXCEPT !.pc = "ready"]
    BY <1>1, <1>2
  <2>2. op[r] \in [pc : Pc, off : Nat, rd : Nat, sd : Nat]
    BY <1>2 DEF OpType
  <2> QED BY <1>2, <2>1, <2>2
<1>4. Typed /\ HeaderOf(P, r) /\ HeaderOf(P, p) /\ hdr \in [Rank -> Seq(HeaderRecord)]
  BY <1>2, InvOf DEF Typed
<1>5. hdr'[r] = hdr[r] /\ hdr'[p] = Append(hdr[p], Ready(r))
  BY <1>1, <1>2, <1>4
<1>6. Seqno(r)' = Seqno(r) /\ Seqno(p)' = Seqno(p)
  BY <1>1, SamePlan
<1>7. HeaderOf(Q, r)'
  BY <1>2, <1>4, <1>5, <1>6, HeaderSame
<1>8. HeaderOf(Q, p)'
  <2>1. Ready(r).kind \notin Bulk
    BY DEF Ready, Bulk
  <2> QED BY <1>2, <1>3, <1>4, <1>5, <1>6, <2>1, HeaderAppend
<1> QED BY <1>1, <1>7, <1>8, PcMove

(* A receive-ready record is read.                                         *)
LEMMA HearReadyInv ==
  ASSUME NEW P, NEW Q, NEW r \in Rank, NEW p, p = Peer(r), Inv(P), Typed', mode' = mode,
         HearReady(r), Q = [P EXCEPT ![r] = op'[r]]
  PROVE  Inv(Q)' \/ Inv(P)'
<1>1. /\ op[r].pc = "ready" /\ hdr[r] # <<>> /\ hdr' = [hdr EXCEPT ![r] = Tail(@)]
      /\ UNCHANGED <<plan, done, gates, nicVars>>
      /\ \/ op' = [op EXCEPT ![r].pc = "bulksend"] /\ UNCHANGED tp
         \/ /\ op' = [op EXCEPT ![r].pc = "idle"]
            /\ tp' = [tp EXCEPT ![r] = [@ EXCEPT !.failed = TRUE, !.closed = TRUE]]
  BY DEF HearReady, Goto, Hear
<1>2. /\ Q[r] = op'[r] /\ Q[p] = P[p] /\ P[r] = op[r] /\ op \in [Rank -> OpType]
      /\ tp \in [Rank -> TpType] /\ p \in Rank /\ p # r /\ Peer(p) = r
  <2>1. Turned(P, Q, r, p)
    BY <1>1, Turn
  <2> QED BY <2>1 DEF Turned
<1>4. Typed /\ HeaderOf(P, r) /\ HeaderOf(P, p) /\ hdr \in [Rank -> Seq(HeaderRecord)]
  BY <1>2, InvOf DEF Typed
<1>5. hdr'[p] = hdr[p] /\ hdr'[r] = Tail(hdr[r])
  BY <1>1, <1>2, <1>4
<1>6. Seqno(r)' = Seqno(r) /\ Seqno(p)' = Seqno(p)
  BY <1>1, SamePlan
<1>7. op[r] \in [pc : Pc, off : Nat, rd : Nat, sd : Nat]
  BY <1>2 DEF OpType
<1>8. CASE op' = [op EXCEPT ![r].pc = "bulksend"] /\ UNCHANGED tp
  <2>1. op'[r] = [op[r] EXCEPT !.pc = "bulksend"]
    BY <1>2, <1>8
  <2>2. Q[r].pc = "bulksend"
    BY <1>2, <1>7, <2>1
  <2>3. HeaderOf(Q, r)'
    <3>1. hdr[r] # <<>> /\ Q[p].pc = P[p].pc
      BY <1>1, <1>2
    <3> QED BY <1>4, <1>5, <1>6, <3>1, HeaderTail
  <2>4. HeaderOf(Q, p)'
    BY <1>2, <1>4, <1>5, <1>6, <2>2, HeaderSame
  <2>5. op[r].pc # "idle"
    BY <1>1
  <2> QED BY <1>1, <1>8, <2>3, <2>4, <2>5, PcMove
<1>9. CASE /\ op' = [op EXCEPT ![r].pc = "idle"]
           /\ tp' = [tp EXCEPT ![r] = [@ EXCEPT !.failed = TRUE, !.closed = TRUE]]
  <2>1. op'[r].pc = "idle" /\ op'[p] = op[p]
    BY <1>2, <1>7, <1>9
  <2>2. tp[r] \in TpType /\ tp'[r] = [tp[r] EXCEPT !.failed = TRUE, !.closed = TRUE] /\ tp'[p] = tp[p]
    BY <1>2, <1>9
  <2>3. /\ tp'[r].failed /\ tp'[r].win = tp[r].win /\ tp'[r].last = tp[r].last
        /\ tp'[r].recvDone = tp[r].recvDone /\ tp'[r].auxRecv = tp[r].auxRecv
        /\ tp'[r].auxSend = tp[r].auxSend
    BY <2>2 DEF TpType
  <2>4. hdr'[p] = hdr[p] /\ (hdr'[r] = hdr[r] \/ (hdr[r] # <<>> /\ hdr'[r] = Tail(hdr[r])))
    BY <1>1, <1>5
  <2>5. UNCHANGED <<plan, done, gates, nicVars>>
    BY <1>1
  <2>6. Inv(P)'
    BY <2>1, <2>2, <2>3, <2>4, <2>5, Frozen
  <2> QED BY <2>6
<1> QED BY <1>1, <1>8, <1>9

(* The failures keep the invariant.                                        *)
LEMMA FailureInv ==
  ASSUME NEW P, NEW r \in Rank, NEW p, p = Peer(r), Inv(P), Typed', mode' = mode,
         UNCHANGED <<plan, done, gates, nicVars>>, NEW b,
         op' = [op EXCEPT ![r].pc = "idle"] \/ (UNCHANGED op /\ op[r].pc = "idle" /\ tp[r].failed),
         tp' = [tp EXCEPT ![r] = [@ EXCEPT !.failed = TRUE, !.closed = b]] \/ tp' = [tp EXCEPT ![r].failed = TRUE]
           \/ (tp[r].failed /\ tp' = [tp EXCEPT ![r].closed = TRUE]),
         hdr'[p] = hdr[p], hdr'[r] = hdr[r] \/ (hdr[r] # <<>> /\ hdr'[r] = Tail(hdr[r]))
  PROVE  Inv(P)'
<1>1. Typed /\ p \in Rank /\ p # r
  BY Sides, InvOf
<1>2. op \in [Rank -> OpType] /\ tp \in [Rank -> TpType]
  BY <1>1 DEF Typed
<1>3. op'[r].pc = "idle" /\ op'[p] = op[p]
  <2>1. op[r] \in [pc : Pc, off : Nat, rd : Nat, sd : Nat]
    BY <1>2 DEF OpType
  <2> QED BY <1>1, <1>2, <2>1
<1>4. tp[r] \in [win : BOOLEAN, last : Nat, recvDone : Nat, auxRecv : Nat, auxSend : Nat,
                 failed : BOOLEAN, closed : BOOLEAN]
  BY <1>2 DEF TpType
<1>5. /\ tp'[p] = tp[p]
      /\ \/ tp'[r] = [tp[r] EXCEPT !.failed = TRUE, !.closed = b] \/ tp'[r] = [tp[r] EXCEPT !.failed = TRUE]
         \/ (tp[r].failed /\ tp'[r] = [tp[r] EXCEPT !.closed = TRUE])
  BY <1>1, <1>2
<1>6. /\ tp'[r].failed /\ tp'[r].win = tp[r].win /\ tp'[r].last = tp[r].last
      /\ tp'[r].recvDone = tp[r].recvDone /\ tp'[r].auxRecv = tp[r].auxRecv
      /\ tp'[r].auxSend = tp[r].auxSend
  BY <1>4, <1>5
<1> QED BY <1>3, <1>5, <1>6, Frozen

(* A timeout, an error or the end of the peer, and the end of a rank that  *)
(* failed.                                                                 *)
LEMMA FailuresInv ==
  ASSUME NEW P, NEW r \in Rank, NEW p, p = Peer(r), Inv(P), Typed', mode' = mode, Failure(r)
  PROVE  Inv(P)'
<1>1. CASE TimeoutOrError(r)
  <2>1. /\ op' = [op EXCEPT ![r].pc = "idle"] /\ tp' = [tp EXCEPT ![r].failed = TRUE]
        /\ UNCHANGED <<plan, done, gates, nicVars, hdr>>
    BY <1>1 DEF TimeoutOrError, ReturnFailed, Goto
  <2> QED BY <2>1, FailureInv
<1>2. CASE ReadyTimeout(r)
  <2>1. /\ op' = [op EXCEPT ![r].pc = "idle"]
        /\ tp' = [tp EXCEPT ![r] = [@ EXCEPT !.failed = TRUE, !.closed = TRUE]]
        /\ UNCHANGED <<plan, done, gates, nicVars, hdr>>
    BY <1>2 DEF ReadyTimeout, Goto
  <2> QED BY <2>1, FailureInv
<1>3. CASE PeerClosed(r)
  <2>1. /\ op' = [op EXCEPT ![r].pc = "idle"] /\ tp' = [tp EXCEPT ![r].failed = TRUE]
        /\ UNCHANGED <<plan, done, gates, nicVars, hdr>>
    BY <1>3 DEF PeerClosed, ReturnFailed, Goto
  <2> QED BY <2>1, FailureInv
<1>4. CASE Close(r)
  <2>1. /\ UNCHANGED op /\ op[r].pc = "idle" /\ tp[r].failed /\ tp' = [tp EXCEPT ![r].closed = TRUE]
        /\ UNCHANGED <<plan, done, gates, nicVars, hdr>>
    BY <1>4 DEF Close
  <2> QED BY <2>1, FailureInv
<1> QED BY <1>1, <1>2, <1>3, <1>4 DEF Failure

(* A header is read: it shows that the peer has reached the operation.     *)
LEMMA ReadHeaderInv ==
  ASSUME NEW P, NEW Q, NEW r \in Rank, NEW p, p = Peer(r), Inv(P), Typed', mode' = mode,
         ReadHeader(r), Q = [P EXCEPT ![r] = op'[r]]
  PROVE  Inv(Q)' \/ Inv(P)'
<1>1. /\ op[r].pc = "header" /\ hdr[r] # <<>> /\ hdr' = [hdr EXCEPT ![r] = Tail(@)]
      /\ UNCHANGED <<plan, done, gates, nicVars>>
      /\ \/ /\ op' = [op EXCEPT ![r].pc = "drain"] /\ UNCHANGED tp
            /\ Head(hdr[r]) = Header(r)
         \/ op' = [op EXCEPT ![r].pc = "idle"] /\ tp' = [tp EXCEPT ![r].failed = TRUE]
  BY DEF ReadHeader, Goto, Hear, SameHeader, ReturnFailed
<1>2. /\ Q[r] = op'[r] /\ Q[p] = P[p] /\ P[r] = op[r] /\ op \in [Rank -> OpType]
      /\ tp \in [Rank -> TpType] /\ p \in Rank /\ p # r /\ Peer(p) = r
  <2>1. Turned(P, Q, r, p)
    BY <1>1, Turn
  <2> QED BY <2>1 DEF Turned
<1>4. Typed /\ HeaderOf(P, r) /\ HeaderOf(P, p) /\ hdr \in [Rank -> Seq(HeaderRecord)] /\ PcOf(P, r)
  BY <1>2, InvOf DEF Typed
<1>5. hdr'[p] = hdr[p] /\ hdr'[r] = Tail(hdr[r])
  BY <1>1, <1>2, <1>4
<1>6. Seqno(r)' = Seqno(r) /\ Seqno(p)' = Seqno(p)
  BY <1>1, SamePlan
<1>8. CASE op' = [op EXCEPT ![r].pc = "drain"] /\ UNCHANGED tp /\ Head(hdr[r]) = Header(r)
  <2>1. op[r] \in [pc : Pc, off : Nat, rd : Nat, sd : Nat]
    BY <1>2 DEF OpType
  <2>2. op'[r] = [op[r] EXCEPT !.pc = "drain"]
    BY <1>2, <1>8
  <2>3. Q[r].pc = "drain"
    BY <1>2, <2>1, <2>2
  <2>4. IsKind(r, Bulk)
    BY <1>1, <1>2, <1>4 DEF PcOf, HeadPc
  <2>5. Header(r).kind \in Bulk /\ Header(r).seq = Seqno(r)
    BY <2>4 DEF Header, IsKind
  <2>6. 1 \in 1 .. Len(hdr[r]) /\ hdr[r][1] = Header(r)
    BY <1>1, <1>2, <1>4, <1>8
  <2>7. Seqno(r) <= Seqno(p) - (IF P[p].pc = "announce" THEN 1 ELSE 0)
    BY <1>4, <2>5, <2>6 DEF HeaderOf
  <2>8. ~Ahead(r) /\ (Level(r) => P[p].pc # "announce")
    BY <2>4, <2>7, SeqnoSides
  <2>9. HeaderOf(Q, r)'
    <3>1. hdr[r] # <<>> /\ Q[p].pc = P[p].pc
      BY <1>1, <1>2
    <3> QED BY <1>4, <1>5, <1>6, <3>1, HeaderTail
  <2>10. HeaderOf(Q, p)'
    BY <1>2, <1>4, <1>5, <1>6, <2>3, HeaderSame
  <2>11. op[r].pc # "idle"
    BY <1>1
  <2> QED BY <1>1, <1>8, <2>8, <2>9, <2>10, <2>11, PcMove
<1>9. CASE op' = [op EXCEPT ![r].pc = "idle"] /\ tp' = [tp EXCEPT ![r].failed = TRUE]
  <2>1. UNCHANGED <<plan, done, gates, nicVars>> /\ hdr[r] # <<>>
    BY <1>1
  <2>3. Inv(P)'
    BY <1>5, <1>9, <2>1, FailureInv
  <2> QED BY <2>3
<1> QED BY <1>1, <1>8, <1>9

BulkPc == HeadPc \cup {"drainwait"} \cup Body

(* What every step within a bulk operation leaves and keeps.               *)
BulkStepped(P, Q, r, p) ==
  /\ Q \in Progress /\ Q[r] = op'[r] /\ Q[p] = P[p] /\ P[r] = op[r]
  /\ p \in Rank /\ p # r /\ Peer(p) = r
  /\ Own(Q, p)' /\ ProgramOf(r)' /\ ProgramOf(p)' /\ SendOf(Q, p)' /\ AckOf(Q, p)' /\ RowOf(Q, p)'
  /\ PcOf(Q, r)' /\ GateOf(Q, r)' /\ DoneOf(Q, r)' /\ MarkOf(Q, r)' /\ RowOf(Q, r)'
  /\ HeaderOf(Q, r)' /\ HeaderOf(Q, p)'
  /\ IsKind(r, Bulk) /\ ~IsKind(r, Row) /\ ~IsKind(r, {"aux"}) /\ ~IsKind(r, {"rgate"})
  /\ n(r)' = n(r) /\ Current(r)' = Current(r) /\ (WindowBefore(r)' <=> WindowBefore(r))
  /\ (\A ks : IsKind(r, ks)' <=> IsKind(r, ks)) /\ n(p)' = n(p)
  /\ (Level(r)' <=> Level(r)) /\ (Ahead(r)' <=> Ahead(r))
  /\ (Level(p)' <=> Level(p)) /\ (Ahead(p)' <=> Ahead(p))
  /\ Posted(Q, p)' = Posted(P, p) /\ Sent(Q, p)' = Sent(P, p)
  /\ SentDecode(Q, p)' = SentDecode(P, p) /\ Delivered(Q, p)' = Delivered(P, p)
  /\ SentDecode(Q, r)' = SentDecode(P, r) /\ SentDecode(P, r) = First(mode)[gates[r] + 1]
  /\ gates[r] = tp[r].last /\ Current(r).size \in Nat /\ Current(r).size >= 1

(* A step within a bulk operation, before it returns: what does not depend *)
(* on which one.                                                           *)
LEMMA BulkStep ==
  ASSUME NEW P, NEW Q, NEW r \in Rank, NEW p, p = Peer(r), Inv(P), Typed', mode' = mode,
         op[r].pc \in BulkPc, op'[r].pc \in BulkPc, op'[r].pc # "announce",
         Q = [P EXCEPT ![r] = op'[r]], op'[p] = op[p],
         UNCHANGED <<plan, done, gates, hdr>>, Untouched(p), unacked'[p] = unacked[p], wire'[r] = wire[r],
         tp'[r].last = tp[r].last, tp'[r].failed = tp[r].failed,
         tp'[r].recvDone < LastGate, tp'[r].auxRecv < LastGate, tp'[r].auxSend < LastGate,
         op'[r].pc \in Body => op'[r].off < Current(r).size,
         op'[r].pc = "drainwait" => op'[r].sd \in {0, 1},
         op'[r].pc \in HeadPc => op[r].pc \in HeadPc
  PROVE  BulkStepped(P, Q, r, p)
<1>0. op[r].pc # "idle" /\ op'[r].pc # "idle"
  BY DEF BulkPc, HeadPc, Body
<1>1. /\ Q \in Progress /\ Q[r] = op'[r] /\ Q[p] = P[p] /\ P[r] = op[r] /\ ~tp[r].failed
      /\ op \in [Rank -> OpType] /\ tp \in [Rank -> TpType] /\ p \in Rank /\ p # r /\ Peer(p) = r
  <2>1. Turned(P, Q, r, p)
    BY <1>0, Turn
  <2> QED BY <2>1 DEF Turned
<1>2. /\ Own(Q, p)' /\ ProgramOf(r)' /\ ProgramOf(p)' /\ SendOf(Q, p)' /\ AckOf(Q, p)' /\ RowOf(Q, p)'
      /\ n(r)' = n(r) /\ Current(r)' = Current(r) /\ (WindowBefore(r)' <=> WindowBefore(r))
      /\ Seqno(r)' = Seqno(r) /\ Seqno(p)' = Seqno(p)
      /\ (\A ks : IsKind(r, ks)' <=> IsKind(r, ks)) /\ n(p)' = n(p)
      /\ (Level(r)' <=> Level(r)) /\ (Ahead(r)' <=> Ahead(r))
      /\ (Level(p)' <=> Level(p)) /\ (Ahead(p)' <=> Ahead(p))
      /\ Posted(Q, p)' = Posted(P, p) /\ Sent(Q, p)' = Sent(P, p)
      /\ SentDecode(Q, p)' = SentDecode(P, p) /\ Delivered(Q, p)' = Delivered(P, p)
  <2>1. Rested(P, Q, r, p)
    BY <1>1, Rest
  <2> QED BY <2>1 DEF Rested
<1>3. /\ PcOf(P, r) /\ GateOf(P, r) /\ DoneOf(P, r) /\ HeaderOf(P, r) /\ HeaderOf(P, p) /\ Typed
  BY <1>1, InvOf
<1>4. /\ IsKind(r, Bulk) /\ ~IsKind(r, Row) /\ ~IsKind(r, {"aux"}) /\ ~IsKind(r, {"rgate"})
  <2>1. IsKind(r, Bulk)
    BY <1>1, <1>3 DEF PcOf, BulkPc
  <2> QED BY <2>1, KindPc
<1>5. /\ P[r].pc \notin DecodePc \cup RowPc \cup {"idle", "wait", "auxwait", "arm", "send"}
      /\ Q[r].pc \notin DecodePc \cup RowPc \cup {"idle", "wait", "auxwait", "arm", "send"}
  BY <1>1 DEF BulkPc, HeadPc, Body, DecodePc, RowPc
<1>6. Current(r).size \in Nat /\ Current(r).size >= 1
  BY <1>4, BulkFacts
<1>7. SentDecode(Q, r)' = SentDecode(P, r) /\ SentDecode(P, r) = First(mode)[gates[r] + 1]
  BY <1>2, <1>4, <1>5 DEF SentDecode
<1>8. gates[r] = tp[r].last
  BY <1>3, <1>5 DEF GateOf
<1>9. PcOf(Q, r)'
  BY <1>1, <1>2, <1>4, <1>5 DEF PcOf
<1>10. GateOf(Q, r)'
  BY <1>2, <1>3, <1>4, <1>5, <1>8 DEF GateOf
<1>11. DoneOf(Q, r)'
  BY <1>2, <1>3, <1>5 DEF DoneOf
<1>12. MarkOf(Q, r)' /\ RowOf(Q, r)'
  BY <1>5 DEF MarkOf, RowOf
<1>13. HeaderOf(Q, p)'
  <2>1. r = Peer(p) /\ hdr'[p] = hdr[p] /\ Seqno(r)' = Seqno(r) /\ (Q[r].pc = "announce" => P[r].pc = "announce")
    BY <1>1, <1>2
  <2> QED BY <1>1, <1>3, <2>1, HeaderSame
<1>14. HeaderOf(Q, r)'
  <2>1. hdr'[r] = hdr[r] /\ Seqno(p)' = Seqno(p) /\ (Q[p].pc = "announce" => P[p].pc = "announce")
    BY <1>1, <1>2
  <2> QED BY <1>3, <2>1, HeaderSame
<1> QED BY <1>1, <1>2, <1>4, <1>6, <1>7, <1>8, <1>9, <1>10, <1>11, <1>12, <1>13, <1>14 DEF BulkStepped

(* A record of a loop that begins.                                         *)
LEMMA LoopBegins ==
  ASSUME NEW r \in Rank, Typed, NEW x, NEW k, StartLoop(r, x, k)
  PROVE  /\ op'[r].pc = x /\ op'[r].off = k /\ op'[r].rd = 0 /\ op'[r].sd = 0
         /\ op'[Peer(r)] = op[Peer(r)]
<1>1. op \in [Rank -> OpType] /\ Peer(r) \in Rank /\ Peer(r) # r
  BY TwoRanks DEF Typed
<1>2. op'[r] = [pc |-> x, off |-> k, rd |-> 0, sd |-> 0] /\ op'[Peer(r)] = op[Peer(r)]
  BY <1>1 DEF StartLoop
<1> QED BY <1>2

(* A rank without a window enters its rows: the queue pair is empty, or    *)
(* its peer is there already.                                              *)
LEMMA NothingToDrainInv ==
  ASSUME NEW P, NEW Q, NEW r \in Rank, NEW p, p = Peer(r), Inv(P), Typed', mode' = mode,
         NothingToDrain(r), Q = [P EXCEPT ![r] = op'[r]]
  PROVE  Inv(Q)'
<1>1. /\ op[r].pc = "drain" /\ ~tp[r].win /\ StartLoop(r, "post", 0)
      /\ UNCHANGED <<plan, done, gates, tp, rq, wire, unacked, cq, inbuf, hdr>>
  BY DEF NothingToDrain, nicVars
<1>2. /\ Typed /\ P \in Progress /\ PcOf(P, r) /\ GateOf(P, r) /\ WindowOf(P, r)
      /\ RecvOf(P, r) /\ DataOf(P, r) /\ SendOf(P, r) /\ AckOf(P, r) /\ WireOf(P, r) /\ WireOf(P, p)
      /\ SyncOf(P, r) /\ SyncOf(P, p) /\ PcOf(P, p) /\ WindowOf(P, p) /\ GateOf(P, p)
  BY Sides, InvOf
<1>3. op'[r].pc = "post" /\ op'[r].off = 0 /\ op'[r].rd = 0 /\ op'[r].sd = 0 /\ op'[p] = op[p]
  BY <1>1, <1>2, LoopBegins
<1>4. op[r].pc \in BulkPc /\ op'[r].pc \in BulkPc /\ op'[r].pc # "announce" /\ op'[r].pc \notin HeadPc
      /\ op'[r].pc # "drainwait" /\ op[r].pc \notin Body /\ op'[r].pc \in Body
  BY <1>1, <1>3 DEF BulkPc, HeadPc, Body
<1>5. P[r] = op[r]
  <2>1. Turned(P, Q, r, p)
    BY <1>1, Turn
  <2> QED BY <2>1 DEF Turned
<1>6. op'[r].pc \in Body => op'[r].off < Current(r).size
  <2>1. IsKind(r, Bulk)
    BY <1>2, <1>4, <1>5 DEF PcOf, BulkPc
  <2>2. Current(r).size \in Nat /\ Current(r).size >= 1
    BY <2>1, BulkFacts
  <2> QED BY <1>3, <2>2
<1>7. Untouched(p)
  BY <1>1, <1>3 DEF Untouched
<1>8. tp'[r].recvDone < LastGate /\ tp'[r].auxRecv < LastGate /\ tp'[r].auxSend < LastGate
  BY <1>1, <1>2 DEF GateOf
<1>9. /\ Q \in Progress /\ Q[r] = op'[r] /\ Q[p] = P[p]
      /\ p \in Rank /\ p # r /\ Peer(p) = r
      /\ Own(Q, p)' /\ ProgramOf(r)' /\ ProgramOf(p)' /\ SendOf(Q, p)' /\ AckOf(Q, p)' /\ RowOf(Q, p)'
      /\ PcOf(Q, r)' /\ GateOf(Q, r)' /\ DoneOf(Q, r)' /\ MarkOf(Q, r)' /\ RowOf(Q, r)'
      /\ HeaderOf(Q, r)' /\ HeaderOf(Q, p)'
      /\ IsKind(r, Bulk) /\ ~IsKind(r, Row) /\ ~IsKind(r, {"aux"}) /\ ~IsKind(r, {"rgate"})
      /\ n(r)' = n(r) /\ Current(r)' = Current(r)
      /\ (\A ks : IsKind(r, ks)' <=> IsKind(r, ks)) /\ n(p)' = n(p)
      /\ (Level(r)' <=> Level(r)) /\ (Level(p)' <=> Level(p))
      /\ Posted(Q, p)' = Posted(P, p) /\ Sent(Q, p)' = Sent(P, p)
      /\ SentDecode(Q, r)' = SentDecode(P, r) /\ SentDecode(P, r) = First(mode)[gates[r] + 1]
      /\ gates[r] = tp[r].last
  <2>1. BulkStepped(P, Q, r, p)
    BY <1>1, <1>3, <1>4, <1>6, <1>7, <1>8, BulkStep
  <2> QED BY <2>1 DEF BulkStepped
<1>10. ~WindowBefore(r)
  BY <1>1, <1>2, <1>5 DEF WindowOf, HeadPc
<1>11. rq[r] = <<>> /\ Delivered(P, r) = First(mode)[tp[r].last + 1] /\ Count(cq[r], Received) = 0
  <2>1. Count(cq[r], Received) = 0
    BY <1>1, <1>2, <1>4, <1>5 DEF RecvOf
  <2> QED BY <1>1, <1>4, <1>5, <2>1, DeliveredIs
<1>12. WindowOf(Q, r)'
  BY <1>1, <1>2, <1>3, <1>5, <1>9 DEF WindowOf, HeadPc
<1>13. Posted(Q, r)' = 0 /\ Sent(Q, r)' = 0 /\ Posted(P, r) = 0 /\ Sent(P, r) = 0 /\ Awaited(Q, r)' = 0
       /\ Awaited(P, r) = 0 /\ ~SentAll(P, r)
  <2>1. Posted(Q, r)' = 0 /\ Sent(Q, r)' = 0
    BY <1>3, <1>4, <1>9 DEF Posted, Sent
  <2>2. P[r].pc \notin Body \cup {"idle"}
    BY <1>1, <1>4, <1>5
  <2>3. Posted(P, r) = 0 /\ Sent(P, r) = 0
    BY <2>2, BulkFacts
  <2>4. Awaited(Q, r)' = 0 /\ Awaited(P, r) = 0 /\ ~SentAll(P, r)
    BY <1>1, <1>3, <1>5, <1>9 DEF Awaited, SentAll
  <2> QED BY <2>1, <2>3, <2>4
<1>14. Len(rq[r]) = 0
  BY <1>11
<1>15. QueueOf(Q, r)'
  BY <1>1, <1>4, <1>9, <1>13, <1>14 DEF QueueOf, Segment
<1>16. RecvOf(Q, r)'
  <2>1. \A i \in 1 .. Len(cq[r]) : cq[r][i] \notin Received
    BY <1>2, <1>11, CountZero, RankFacts
  <2>2. \A i \in 1 .. Len(cq[r]) : cq[r][i].dir # "recv"
    <3>1. cq[r] \in Seq(Completion)
      BY <1>2, TypedRank
    <3> QED BY <2>1, <3>1 DEF Received
  <2> QED BY <1>1, <1>3, <1>4, <1>9, <1>11, <1>13, <1>14, <2>2 DEF RecvOf
<1>17. DataOf(Q, r)'
  <2>1. Q[r].pc \notin DecodePc
    BY <1>3, <1>9 DEF DecodePc, RowPc
  <2>2. Posted(Q, r)' - Len(rq'[r]) = 0
    BY <1>1, <1>13, <1>14
  <2>3. ~\E k \in 1 .. Posted(Q, r)' - Len(rq'[r]) : TRUE
    BY <2>2
  <2> QED BY <2>1, <2>3 DEF DataOf
<1>18. SyncOf(Q, p)'
  BY <1>1, <1>3, <1>4, <1>9, <1>13, SyncPeer
<1>19. SyncOf(Q, r)'
  <2>1. P[r].pc # "idle" /\ P[r].pc \in {"drain", "drainwait"} \cup Body /\ Q[r].pc # "idle"
    BY <1>1, <1>3, <1>5, <1>9
  <2> QED BY <1>1, <1>9, <1>10, <2>1, SyncOwn
<1>20. SendOf(Q, r)'
  BY <1>1, <1>2, <1>13 DEF SendOf
<1>21. AckOf(Q, r)'
  BY <1>1, <1>2, <1>9 DEF AckOf
<1>22. /\ n(r) \in Nat /\ n(p) \in Nat /\ (Level(r) <=> n(r) = n(p)) /\ (Level(p) <=> n(r) = n(p))
       /\ (Ahead(r) <=> n(r) = n(p) + 1) /\ (Level(r) \/ Ahead(r)) /\ ~(n(r) < n(p)) /\ n(r) >= n(p)
       /\ (Level(r) <=> ~(n(p) < n(r))) /\ (Level(r) <=> n(p) >= n(r))
  <2>1. ~Ahead(p)
    BY <1>2, <1>9, <1>13 DEF SyncOf
  <2>2. n(r) \in Nat /\ n(p) \in Nat
    BY <1>2, <1>9, RankFacts
  <2>3. /\ (Level(r) <=> n(r) = n(p)) /\ (Level(p) <=> n(r) = n(p)) /\ (Ahead(r) <=> n(r) = n(p) + 1)
        /\ (Level(r) \/ Ahead(r))
    BY <2>1, Sides
  <2> QED BY <2>2, <2>3
<1>23. /\ SentDecode(P, p) = First(mode)[gates[p] + 1] /\ gates[p] = gates[r] /\ ~tp[p].win
       /\ P[p].pc \notin RowPc /\ (Level(r) => P[p].pc # "idle")
  <2>1. CASE Level(r)
    <3>1. gates[p] = gates[r] /\ (WindowBefore(p) <=> WindowBefore(r)) /\ Current(p) = Current(r) /\ n(r) > 0
      BY <1>9, <1>22, <2>1, Sides DEF IsKind
    <3>2. IsKind(p, Bulk) /\ ~IsKind(p, Row) /\ ~IsKind(p, Row \cup {"aux"})
      <4>1. IsKind(p, Bulk)
        BY <1>9, <1>22, <2>1, <3>1 DEF IsKind
      <4> QED BY <1>9, <4>1, KindPc
    <3>3. P[p].pc \in HeadPc \cup {"drainwait", "idle"} \cup Body
      BY <1>9, <3>2, KindPc
    <3>4. P[p].pc # "idle"
      BY <1>2, <1>9, <1>13, <1>22, <2>1 DEF SyncOf
    <3>5. ~tp[p].win
      BY <1>2, <1>10, <3>1, <3>3, <3>4 DEF WindowOf
    <3>6. P[p].pc \notin RowPc /\ P[p].pc \notin {"arm", "send"}
      BY <3>3 DEF RowPc, HeadPc, Body
    <3> QED BY <3>1, <3>2, <3>4, <3>5, <3>6 DEF SentDecode
  <2>2. CASE Ahead(r)
    <3>1. SentAll(P, p) /\ gates[p] = gates[r]
      <4>1. SentAll(P, p)
        BY <1>2, <2>2 DEF SyncOf
      <4> QED BY <1>9, <2>2, <4>1, Sides, RankFacts, <1>2
    <3>2. n(p) > 0 => Current(p).kind \in Bulk
      BY <1>10, <2>2, Sides
    <3>3. ~IsKind(p, Row) /\ ~IsKind(p, {"aux"}) /\ ~IsKind(p, Row \cup {"aux"})
      <4>1. IsKind(p, Bulk) \/ n(p) = 0
        BY <1>22, <3>2 DEF IsKind
      <4> QED BY <1>9, <4>1, KindPc DEF IsKind
    <3>4. P[p].pc \in {"idle", "bulkwait"}
      BY <1>2, <3>1, <3>3 DEF SentAll, PcOf, RowPc
    <3>5. ~tp[p].win
      BY <1>2, <3>3, <3>4 DEF WindowOf, Body
    <3>6. P[p].pc \notin RowPc /\ P[p].pc \notin {"arm", "send"}
      BY <3>4 DEF RowPc
    <3> QED BY <1>22, <2>2, <3>1, <3>3, <3>5, <3>6 DEF SentDecode
  <2> QED BY <1>22, <2>1, <2>2
<1>24. gates[p] = tp[p].last
  BY <1>2, <1>23 DEF GateOf
<1>25. /\ ~Filling(P, r) /\ ~Filling(P, p) /\ ~Filling(Q, r)' /\ ~Filling(Q, p)'
       /\ Bulking(Q, r)' /\ Bulking(Q, p)'
  <2>1. ~Filling(P, r) /\ ~Filling(P, p) /\ ~Filling(Q, r)' /\ ~Filling(Q, p)'
    BY <1>1, <1>9, <1>23 DEF Filling
  <2> QED BY <1>4, <1>9, <1>22, <2>1 DEF Bulking
<1>26. CASE Level(r) /\ P[p].pc \in Body
  <2>1. Bulking(P, r) /\ Bulking(P, p)
    BY <1>9, <1>22, <1>25, <1>26 DEF Bulking
  <2>2. Got(Q, r)' = Got(P, r) /\ Out(Q, r)' = Out(P, r) /\ Got(Q, p)' = Got(P, p) /\ Out(Q, p)' = Out(P, p)
    BY <1>1, <1>9, <1>13 DEF Got, Out
  <2>3. WireOf(Q, r)'
    BY <1>1, <1>2, <1>9, <1>25, <2>1, <2>2, WireFrame
  <2>4. WireOf(Q, p)'
    BY <1>1, <1>2, <1>9, <1>25, <2>1, <2>2, WireFrame
  <2> QED BY <1>9, <1>12, <1>15, <1>16, <1>17, <1>18, <1>19, <1>20, <1>21, <2>3, <2>4, Whole DEF Own, Shared
<1>27. CASE ~(Level(r) /\ P[p].pc \in Body)
  <2>1. ~Bulking(P, r) /\ ~Bulking(P, p)
    BY <1>4, <1>5, <1>9, <1>22, <1>27 DEF Bulking
  <2>2. Delivered(P, p) = First(mode)[tp[p].last + 1]
    BY <1>9, <1>23, DeliveredIs
  <2>3. Len(wire[r]) = 0 /\ Len(wire[p]) = 0
    <3>1. Len(wire[r]) = SentDecode(P, p) - Delivered(P, r) /\ SentDecode(P, p) \in Nat
      BY <1>25, <2>1, DecodeWire
    <3>2. Len(wire[p]) = SentDecode(P, r) - Delivered(P, p) /\ SentDecode(P, r) \in Nat
      BY <1>9, <1>25, <2>1, DecodeWire
    <3>3. SentDecode(P, p) = Delivered(P, r) /\ SentDecode(P, r) = Delivered(P, p)
      BY <1>9, <1>11, <1>23, <1>24, <2>2
    <3>4. Len(wire[r]) = 0
      BY <3>1, <3>3
    <3>5. Len(wire[p]) = 0
      BY <3>2, <3>3
    <3> QED BY <3>4, <3>5
  <2>4. Got(Q, r)' = 0 /\ Out(Q, r)' = 0 /\ Got(Q, p)' = 0 /\ Out(Q, p)' = 0
    <3>1. Got(Q, r)' = 0 /\ Out(Q, p)' = 0
      BY <1>1, <1>9, <1>13, <1>14, <1>22 DEF Got, Out
    <3>2. CASE Level(r)
      <4>1. P[p].pc \notin Body \cup {"idle"}
        BY <1>23, <1>27, <3>2
      <4>2. Posted(P, p) = 0 /\ Sent(P, p) = 0
        BY <1>9, <4>1, BulkFacts
      <4>3. Len(rq[p]) = 0
        BY <1>9, <1>23, <4>1, DeliveredIs
      <4> QED BY <1>1, <1>9, <1>22, <3>1, <3>2, <4>2, <4>3 DEF Got, Out
    <3>3. CASE ~Level(r)
      BY <1>9, <1>22, <3>1, <3>3 DEF Got, Out
    <3> QED BY <3>2, <3>3
  <2>5. WireOf(Q, r)' /\ WireOf(Q, p)'
    BY <1>1, <1>9, <1>25, <2>3, <2>4 DEF WireOf, Segment
  <2> QED BY <1>9, <1>12, <1>15, <1>16, <1>17, <1>18, <1>19, <1>20, <1>21, <2>5, Whole DEF Own, Shared
<1> QED BY <1>26, <1>27

(* A rank that goes on with its operation.                                 *)
LEMMA GotoIs ==
  ASSUME NEW r \in Rank, Typed, NEW x, Goto(r, x)
  PROVE  /\ op'[r].pc = x /\ op'[r].off = op[r].off /\ op'[r].rd = op[r].rd /\ op'[r].sd = op[r].sd
         /\ op'[Peer(r)] = op[Peer(r)]
<1>1. op \in [Rank -> OpType] /\ Peer(r) \in Rank /\ Peer(r) # r
  BY TwoRanks DEF Typed
<1>2. op' = [op EXCEPT ![r].pc = x]
  BY DEF Goto
<1>3. op'[r] = [op[r] EXCEPT !.pc = x] /\ op'[Peer(r)] = op[Peer(r)] /\ op[r] \in OpType
  BY <1>1, <1>2
<1> QED BY <1>3 DEF OpType

(* Receives that a rank posts.                                             *)
LEMMA PostIs ==
  ASSUME NEW r \in Rank, Typed, NEW ws, Post(r, ws)
  PROVE  rq'[r] = rq[r] \o ws /\ rq'[Peer(r)] = rq[Peer(r)]
<1>1. rq \in [Rank -> Seq(Message)] /\ Peer(r) \in Rank /\ Peer(r) # r
  BY TwoRanks DEF Typed
<1> QED BY <1>1 DEF Post

(* Messages that a rank sends.                                             *)
LEMMA SendIs ==
  ASSUME NEW r \in Rank, Typed, NEW ms, Send(r, ms)
  PROVE  wire'[Peer(r)] = wire[Peer(r)] \o ms /\ wire'[r] = wire[r]
<1>1. wire \in [Rank -> Seq(Message)] /\ Peer(r) \in Rank /\ Peer(r) # r
  BY TwoRanks DEF Typed
<1> QED BY <1>1 DEF Send

(* The round of a bulk operation under way.                                *)
LEMMA RoundIs ==
  ASSUME NEW P, NEW r \in Rank, Inv(P), P[r] = op[r], P[r].pc \in Body
  PROVE  /\ Opno(r) = n(r) /\ Round(r).from = P[r].off + 1 /\ Round(r).to = To(P, r)
         /\ RoundLen(r) = To(P, r) - P[r].off /\ P[r].off \in Nat /\ To(P, r) \in Nat /\ P[r].off < To(P, r)
         /\ To(P, r) <= Current(r).size /\ Current(r).size \in Nat
         /\ BulkRound(n(r), P[r].off + 1, To(P, r)) \in Seq(Message)
         /\ Segment(BulkRound(n(r), P[r].off + 1, To(P, r)), n(r), P[r].off, To(P, r))
<1>1. Typed /\ P \in Progress
  BY InvOf
<1>2. P[r].off \in Nat /\ n(r) \in Nat
  BY <1>1, RankFacts
<1>3. IsKind(r, Bulk) /\ P[r].off < To(P, r) /\ To(P, r) \in Nat /\ To(P, r) <= Current(r).size
      /\ Current(r).size \in Nat
  BY BulkFacts
<1>4. Opno(r) = n(r)
  BY DEF Opno, n
<1>5. Round(r).from = P[r].off + 1 /\ Round(r).to = To(P, r)
  BY DEF Round, To
<1>6. RoundLen(r) = To(P, r) - P[r].off
  BY <1>2, <1>3, <1>5 DEF RoundLen
<1> DEFINE a == P[r].off + 1
           b == To(P, r)
           s == BulkRound(n(r), a, b)
<1>7. a \in Nat /\ b \in Nat /\ a >= 1 /\ a <= b + 1 /\ b - a + 1 = b - P[r].off
  BY <1>2, <1>3
<1>8. /\ s \in Seq(Message) /\ Len(s) = b - a + 1
      /\ \A i \in 1 .. b - a + 1 : s[i] = BulkMsg(n(r), a + i - 1)
  <2> HIDE DEF a, b
  <2> QED BY <1>2, <1>7, BulkRoundTyped
<1>9. \A i \in 1 .. b - a + 1 : a + i - 1 = P[r].off + i
  BY <1>2, <1>7
<1>10. Segment(s, n(r), P[r].off, b)
  <2> HIDE DEF a, b, s
  <2> QED BY <1>7, <1>8, <1>9 DEF Segment
<1> QED BY <1>2, <1>3, <1>4, <1>5, <1>6, <1>8, <1>10

(* Inside a bulk operation the decode window stays as it is.               *)
LEMMA WindowBody ==
  ASSUME NEW P, NEW Q, NEW s, WindowOf(P, s), P[s].pc \in Body, Q[s].pc \in Body,
         tp'[s].win = tp[s].win,
         ~tp'[s].win => tp'[s].recvDone <= tp'[s].last /\ tp'[s].auxRecv <= tp'[s].last
  PROVE  WindowOf(Q, s)'
<1>1. /\ Q[s].pc \notin {"send", "wait", "auxwait", "drainwait", "idle"} \cup HeadPc
      /\ P[s].pc \notin {"send", "wait", "auxwait", "drainwait", "idle"} \cup HeadPc
  BY DEF Body, HeadPc
<1>2. ~tp[s].win
  BY DEF WindowOf
<1>3. (Q[s].pc \in {"arm"} \cup Body => ~tp[s].win)'
  BY <1>2
<1>4. (Q[s].pc \in {"send", "wait", "auxwait", "drainwait"} => tp[s].win)'
  BY <1>1
<1>5. (Q[s].pc \in HeadPc => (tp[s].win <=> WindowBefore(s)))' /\ (Q[s].pc = "drainwait" => WindowBefore(s))'
      /\ (Q[s].pc = "idle" => (tp[s].win <=> IsKind(s, Row \cup {"aux"})))'
  BY <1>1
<1> QED BY <1>3, <1>4, <1>5 DEF WindowOf
(* The receives of a round are posted.                                     *)
LEMMA PostRoundInv ==
  ASSUME NEW P, NEW Q, NEW r \in Rank, NEW p, p = Peer(r), Inv(P), Typed', mode' = mode,
         PostRound(r), Q = [P EXCEPT ![r] = op'[r]]
  PROVE  Inv(Q)'
<1> DEFINE x == IF mode.recvReady THEN "tellready" ELSE "bulksend"
           ws == BulkRound(Opno(r), Round(r).from, Round(r).to)
<1>1. /\ op[r].pc = "post" /\ Post(r, ws) /\ Goto(r, x)
      /\ UNCHANGED <<plan, done, gates, tp, hdr, wire, unacked, cq, inbuf>>
  BY DEF PostRound
<1>2. /\ Typed /\ P \in Progress /\ PcOf(P, r) /\ GateOf(P, r) /\ WindowOf(P, r) /\ QueueOf(P, r)
      /\ RecvOf(P, r) /\ DataOf(P, r) /\ SendOf(P, r) /\ AckOf(P, r) /\ WireOf(P, r) /\ WireOf(P, p)
  BY Sides, InvOf
<1>3. /\ op'[r].pc \in {"tellready", "bulksend"} /\ op'[r].off = op[r].off /\ op'[r].rd = op[r].rd
      /\ op'[r].sd = op[r].sd /\ op'[p] = op[p]
  <2>1. x \in {"tellready", "bulksend"}
    OBVIOUS
  <2> HIDE DEF x
  <2> QED BY <1>1, <1>2, <2>1, GotoIs
<1>4. rq'[r] = rq[r] \o ws /\ rq'[p] = rq[p]
  BY <1>1, <1>2, PostIs
<1> HIDE DEF x
<1>5. op[r].pc \in BulkPc /\ op'[r].pc \in BulkPc /\ op'[r].pc # "announce" /\ op'[r].pc \notin HeadPc
      /\ op'[r].pc # "drainwait" /\ op[r].pc \in Body /\ op'[r].pc \in Body /\ op'[r].pc # "idle"
      /\ op'[r].pc # "post" /\ op'[r].pc # "bulkwait" /\ op[r].pc # "bulkwait" /\ op[r].pc # "idle"
      /\ op[r].pc # "drainwait"
  BY <1>1, <1>3 DEF BulkPc, HeadPc, Body
<1>6. P[r] = op[r]
  <2>1. Turned(P, Q, r, p)
    BY <1>1, Turn
  <2> QED BY <2>1 DEF Turned
<1>7. op'[r].pc \in Body => op'[r].off < Current(r).size
  BY <1>2, <1>3, <1>5, <1>6 DEF PcOf
<1>8. Untouched(p)
  BY <1>1, <1>3, <1>4 DEF Untouched
<1>9. tp'[r].recvDone < LastGate /\ tp'[r].auxRecv < LastGate /\ tp'[r].auxSend < LastGate
  BY <1>1, <1>2 DEF GateOf
<1>10. /\ Q \in Progress /\ Q[r] = op'[r] /\ Q[p] = P[p]
      /\ p \in Rank /\ p # r /\ Peer(p) = r
      /\ Own(Q, p)' /\ ProgramOf(r)' /\ ProgramOf(p)' /\ SendOf(Q, p)' /\ AckOf(Q, p)' /\ RowOf(Q, p)'
      /\ PcOf(Q, r)' /\ GateOf(Q, r)' /\ DoneOf(Q, r)' /\ MarkOf(Q, r)' /\ RowOf(Q, r)'
      /\ HeaderOf(Q, r)' /\ HeaderOf(Q, p)'
      /\ IsKind(r, Bulk) /\ ~IsKind(r, Row) /\ ~IsKind(r, {"aux"}) /\ ~IsKind(r, {"rgate"})
      /\ n(r)' = n(r) /\ Current(r)' = Current(r)
      /\ (\A ks : IsKind(r, ks)' <=> IsKind(r, ks)) /\ n(p)' = n(p)
      /\ (Level(r)' <=> Level(r)) /\ (Level(p)' <=> Level(p))
      /\ Posted(Q, p)' = Posted(P, p) /\ Sent(Q, p)' = Sent(P, p)
      /\ SentDecode(Q, p)' = SentDecode(P, p)
      /\ SentDecode(Q, r)' = SentDecode(P, r) /\ SentDecode(P, r) = First(mode)[gates[r] + 1]
      /\ gates[r] = tp[r].last /\ Delivered(Q, p)' = Delivered(P, p)
  <2>1. BulkStepped(P, Q, r, p)
    BY <1>1, <1>3, <1>5, <1>7, <1>8, <1>9, BulkStep
  <2> QED BY <2>1 DEF BulkStepped
<1>11. /\ Opno(r) = n(r) /\ Round(r).from = P[r].off + 1 /\ Round(r).to = To(P, r)
       /\ P[r].off \in Nat /\ To(P, r) \in Nat /\ P[r].off < To(P, r)
       /\ ws \in Seq(Message) /\ Segment(ws, n(r), P[r].off, To(P, r))
  <2>1. P[r].pc \in Body
    BY <1>5, <1>6
  <2>2. /\ Opno(r) = n(r) /\ Round(r).from = P[r].off + 1 /\ Round(r).to = To(P, r)
        /\ P[r].off \in Nat /\ To(P, r) \in Nat /\ P[r].off < To(P, r)
        /\ BulkRound(n(r), P[r].off + 1, To(P, r)) \in Seq(Message)
        /\ Segment(BulkRound(n(r), P[r].off + 1, To(P, r)), n(r), P[r].off, To(P, r))
    BY <1>6, <2>1, RoundIs
  <2> QED BY <2>2
<1> HIDE DEF ws
<1>12. To(Q, r)' = To(P, r)
  BY <1>3, <1>6, <1>10 DEF To
<1>13. /\ Posted(P, r) = P[r].off /\ Sent(P, r) = P[r].off /\ Awaited(P, r) = 0
       /\ Posted(Q, r)' = To(P, r) /\ Sent(Q, r)' = P[r].off /\ Awaited(Q, r)' = 0 /\ ~SentAll(P, r)
  <2>1. Posted(P, r) = P[r].off /\ Sent(P, r) = P[r].off
    BY <1>1, <1>5, <1>6, BulkFacts
  <2>2. Posted(Q, r)' = To(P, r) /\ Sent(Q, r)' = P[r].off
    BY <1>3, <1>5, <1>6, <1>10, <1>12 DEF Posted, Sent
  <2>3. Awaited(P, r) = 0 /\ Awaited(Q, r)' = 0 /\ ~SentAll(P, r)
    BY <1>1, <1>5, <1>6, <1>10 DEF Awaited, SentAll
  <2> QED BY <2>1, <2>2, <2>3
<1>14. Count(cq[r], Received) = 0 /\ Len(rq[r]) = 0 /\ P[r].rd = 0
  <2>1. Count(cq[r], Received) + Len(rq[r]) + P[r].rd + P[r].off = Posted(P, r) /\ P[r].rd = 0
    BY <1>1, <1>5, <1>6, <1>2 DEF RecvOf
  <2>2. Count(cq[r], Received) \in Nat /\ Len(rq[r]) \in Nat
    BY <1>2, <1>5, <1>6, BulkFacts, RankFacts
  <2> QED BY <1>11, <1>13, <2>1, <2>2
<1>15. rq'[r] = ws /\ Len(rq'[r]) = To(P, r) - P[r].off
  <2>1. rq[r] = <<>>
    BY <1>2, <1>14, RankFacts, EmptySeq
  <2>2. rq'[r] = ws
    BY <1>4, <1>11, <2>1
  <2> QED BY <1>11, <2>2 DEF Segment
<1>16. Posted(Q, r)' - Len(rq'[r]) = P[r].off /\ Posted(P, r) - Len(rq[r]) = P[r].off
  BY <1>11, <1>13, <1>14, <1>15
<1>17. WindowOf(Q, r)'
  <2>1. WindowOf(P, r) /\ P[r].pc \in Body /\ Q[r].pc \in Body /\ tp'[r].win = tp[r].win
    BY <1>1, <1>2, <1>5, <1>6, <1>10
  <2>2. ~tp'[r].win => tp'[r].recvDone <= tp'[r].last /\ tp'[r].auxRecv <= tp'[r].last
    BY <1>1, <1>2 DEF WindowOf
  <2> QED BY <2>1, <2>2, WindowBody
<1>18. QueueOf(Q, r)'
  BY <1>5, <1>10, <1>11, <1>13, <1>15, <1>16 DEF QueueOf
<1>19. RecvOf(Q, r)'
  <2>1. \A i \in 1 .. Len(cq[r]) : cq[r][i].dir = "recv" => cq[r][i].tag = "bulk"
    BY <1>2, <1>5, <1>6 DEF RecvOf
  <2>2. 0 + Len(rq'[r]) + 0 + P[r].off = To(P, r)
    BY <1>11, <1>15
  <2> QED BY <1>1, <1>3, <1>5, <1>6, <1>10, <1>13, <1>14, <2>1, <2>2 DEF RecvOf
<1>20. DataOf(Q, r)'
  <2>1. Q[r].pc \notin DecodePc
    BY <1>3, <1>10 DEF DecodePc, RowPc
  <2>2. \A j \in 1 .. P[r].off : inbuf[r][<<"bulk", j>>] = n(r)
    BY <1>2, <1>5, <1>6, <1>10, <1>16 DEF DataOf
  <2> QED BY <1>1, <1>10, <1>16, <2>1, <2>2 DEF DataOf
<1>21. SyncOf(Q, p)'
  BY <1>1, <1>5, <1>10, <1>13, SyncPeer
<1>22. SyncOf(Q, r)'
  BY <1>1, <1>4, <1>5, <1>6, <1>10, SyncOwn
<1>23. SendOf(Q, r)'
  BY <1>1, <1>2, <1>13 DEF SendOf
<1>24. AckOf(Q, r)'
  BY <1>1, <1>2, <1>10 DEF AckOf
<1>25. /\ (Filling(Q, r)' <=> Filling(P, r)) /\ (Filling(Q, p)' <=> Filling(P, p))
       /\ (Bulking(Q, r)' <=> Bulking(P, r)) /\ (Bulking(Q, p)' <=> Bulking(P, p))
  BY <1>1, <1>5, <1>6, <1>10, SameRegime
<1>26. ~Filling(P, r)
  BY <1>2, <1>5, <1>6 DEF WindowOf, Filling
<1>27. Got(Q, r)' = Got(P, r) /\ Out(Q, r)' = Out(P, r) /\ Got(Q, p)' = Got(P, p) /\ Out(Q, p)' = Out(P, p)
  BY <1>4, <1>10, <1>13, <1>16 DEF Got, Out
<1>28. Delivered(Q, r)' = Delivered(P, r)
  BY <1>1, <1>5, <1>6, <1>10 DEF Delivered
<1>29. WireOf(Q, r)'
  BY <1>1, <1>2, <1>10, <1>25, <1>26, <1>27, <1>28, WireFrame
<1>30. WireOf(Q, p)'
  BY <1>1, <1>2, <1>4, <1>10, <1>13, <1>25, <1>27, WireFrame
<1> QED BY <1>10, <1>17, <1>18, <1>19, <1>20, <1>21, <1>22, <1>23, <1>24, <1>29, <1>30, Whole DEF Own, Shared

(* Bulk messages in a row.                                                 *)
LEMMA SegmentConcat ==
  ASSUME NEW s \in Seq(Message), NEW t \in Seq(Message), NEW k, NEW a \in Int, NEW b \in Int, NEW c \in Int,
         Segment(s, k, a, b), Segment(t, k, b, c)
  PROVE  Segment(s \o t, k, a, c)
<1>1. Len(s) = b - a /\ Len(t) = c - b /\ Len(s \o t) = Len(s) + Len(t) /\ Len(s) \in Nat /\ Len(t) \in Nat
  BY DEF Segment
<1>2. ASSUME NEW i \in 1 .. Len(s \o t) PROVE (s \o t)[i] = BulkMsg(k, a + i)
  <2>1. CASE i <= Len(s)
    <3>1. i \in 1 .. Len(s) /\ (s \o t)[i] = s[i]
      BY <1>1, <2>1
    <3> QED BY <3>1 DEF Segment
  <2>2. CASE i > Len(s)
    <3>1. i - Len(s) \in 1 .. Len(t) /\ (s \o t)[i] = t[i - Len(s)] /\ b + (i - Len(s)) = a + i
      BY <1>1, <2>2
    <3>2. t[i - Len(s)] = BulkMsg(k, b + (i - Len(s)))
      BY <3>1 DEF Segment
    <3> QED BY <3>1, <3>2
  <2> QED BY <1>1, <2>1, <2>2
<1> QED BY <1>1, <1>2 DEF Segment

(* Bulk messages behind a filler.                                          *)
LEMMA FilledConcat ==
  ASSUME NEW s \in Seq(Message), NEW t \in Seq(Message), NEW q, Len(q) \in Nat, NEW k,
         NEW x \in Int, NEW y \in Int,
         Filled(s, q, k), Len(s) = Len(q) + x, Segment(t, k, x, y)
  PROVE  Filled(s \o t, q, k) /\ Len(s \o t) = Len(q) + y
<1>1. /\ Len(t) = y - x /\ Len(s \o t) = Len(s) + Len(t) /\ Len(s) \in Nat /\ Len(t) \in Nat
      /\ Len(s) >= Len(q)
  <2>1. Len(t) = y - x
    BY DEF Segment
  <2>2. Len(s) >= Len(q)
    BY DEF Filled
  <2>3. Len(s \o t) = Len(s) + Len(t) /\ Len(s) \in Nat /\ Len(t) \in Nat
    OBVIOUS
  <2> QED BY <2>1, <2>2, <2>3
<1>2. ASSUME NEW i \in 1 .. Len(q)
      PROVE  (s \o t)[i] = Msg(q[i].kind, 0, q[i].part, "bulk", i = Len(q))
  <2>1. i \in 1 .. Len(s) /\ (s \o t)[i] = s[i]
    BY <1>1
  <2> QED BY <2>1 DEF Filled
<1>3. ASSUME NEW i \in Len(q) + 1 .. Len(s \o t) PROVE (s \o t)[i] = BulkMsg(k, i - Len(q))
  <2>1. CASE i <= Len(s)
    <3>1. i \in Len(q) + 1 .. Len(s) /\ (s \o t)[i] = s[i]
      BY <1>1, <2>1
    <3> QED BY <3>1 DEF Filled
  <2>2. CASE i > Len(s)
    <3>1. i - Len(s) \in 1 .. Len(t) /\ (s \o t)[i] = t[i - Len(s)] /\ x + (i - Len(s)) = i - Len(q)
      BY <1>1, <2>2
    <3>2. t[i - Len(s)] = BulkMsg(k, x + (i - Len(s)))
      BY <3>1 DEF Segment
    <3> QED BY <3>1, <3>2
  <2> QED BY <1>1, <2>1, <2>2
<1> QED BY <1>1, <1>2, <1>3 DEF Filled

(* Bulk messages behind decode messages.                                   *)
LEMMA BeforeConcat ==
  ASSUME NEW x, NEW s \in Seq(Message), NEW t \in Seq(Message), Before(mode, x, s), Before(mode, x, t)
  PROVE  Before(mode, x, s \o t)
<1>1. Len(s \o t) = Len(s) + Len(t) /\ Len(s) \in Nat /\ Len(t) \in Nat
  OBVIOUS
<1>2. ASSUME NEW i \in 1 .. Len(s \o t), (s \o t)[i].tag # "bulk" PROVE x <= Number(mode, (s \o t)[i])
  <2>1. CASE i <= Len(s)
    <3>1. i \in 1 .. Len(s) /\ (s \o t)[i] = s[i]
      BY <1>1, <2>1
    <3> QED BY <1>2, <3>1 DEF Before
  <2>2. CASE i > Len(s)
    <3>1. i - Len(s) \in 1 .. Len(t) /\ (s \o t)[i] = t[i - Len(s)]
      BY <1>1, <2>2
    <3> QED BY <1>2, <3>1 DEF Before
  <2> QED BY <1>1, <2>1, <2>2
<1> QED BY <1>2 DEF Before

(* Messages all tagged as bulk come after any number.                      *)
LEMMA BeforeBulk ==
  ASSUME NEW x, NEW s, \A i \in 1 .. Len(s) : s[i].tag = "bulk"
  PROVE  Before(mode, x, s)
BY DEF Before

(* What a rank knows of what was delivered, when it sends more.            *)
LEMMA AckMore ==
  ASSUME NEW P, NEW Q, NEW r \in Rank, NEW p, p = Peer(r), Inv(P), mode' = mode,
         tp'[r] = tp[r], unacked'[r] = unacked[r], cq'[r] = cq[r],
         NEW ms \in Seq(Message), wire'[p] = wire[p] \o ms,
         SentDecode(P, r) <= SentDecode(Q, r)', SentDecode(Q, r)' \in Nat,
         \A i \in 1 .. Len(ms) : ms[i].tag # "bulk" =>
           Number(mode, ms[i]) \in Nat /\ SentDecode(P, r) <= Number(mode, ms[i]),
         IsKind(r, {"rgate"})' => Q[r].pc # "idle" /\ ~(Q[r].pc = "wait" /\ Q[r].sd = 1),
         IsKind(r, {"aux"})' => Q[r].pc # "idle"
  PROVE  AckOf(Q, r)'
<1>1. AckOf(P, r) /\ Typed /\ P \in Progress /\ p \in Rank /\ PcOf(P, r) /\ GateOf(P, r)
  BY InvOf, TwoRanks
<1>2. wire[p] \in Seq(Message) /\ Vector(mode) /\ SentDecode(P, r) \in Nat
  BY <1>1, RankFacts, SentBounds
<1>3. \A u : Unit(mode, u) => Number(mode, u) \in Nat
  BY <1>2, NumberIn
<1>4. ASSUME NEW y \in Nat, y <= SentDecode(P, r), Before(mode, y, wire[p]) PROVE Before(mode, y, wire[p] \o ms)
  <2>1. Before(mode, y, ms)
    BY <1>2, <1>4 DEF Before
  <2> QED BY <1>2, <1>4, <2>1, BeforeConcat
<1>5. ASSUME NEW u, Unit(mode, u), Number(mode, u) < SentDecode(P, r), Before(mode, Number(mode, u) + 1, wire[p])
      PROVE  Number(mode, u) < SentDecode(Q, r)' /\ Before(mode, Number(mode, u) + 1, wire[p] \o ms)
  <2>1. Number(mode, u) + 1 \in Nat /\ Number(mode, u) + 1 <= SentDecode(P, r) /\ Number(mode, u) < SentDecode(Q, r)'
    BY <1>2, <1>3, <1>5
  <2> QED BY <1>4, <1>5, <2>1
<1>6. \A i \in 1 .. Len(unacked[r]) : unacked[r][i].tag # "bulk" =>
         /\ Unit(mode, unacked[r][i]) /\ Number(mode, unacked[r][i]) < SentDecode(Q, r)'
         /\ Before(mode, Number(mode, unacked[r][i]) + 1, wire[p] \o ms)
  BY <1>1, <1>5 DEF AckOf, Behind, AckSent, AckDone, AckAux, AckRow
<1>7. \A i \in 1 .. Len(cq[r]) : cq[r][i].dir = "send" /\ cq[r][i].tag # "bulk" =>
         /\ Unit(mode, cq[r][i]) /\ Number(mode, cq[r][i]) < SentDecode(Q, r)'
         /\ Before(mode, Number(mode, cq[r][i]) + 1, wire[p] \o ms)
  BY <1>1, <1>5 DEF AckOf, Behind, AckSent, AckDone, AckAux, AckRow
<1>8. tp[r].auxSend >= 1 => /\ First(mode)[tp[r].auxSend + 1] <= SentDecode(Q, r)'
                            /\ Before(mode, First(mode)[tp[r].auxSend + 1], wire[p] \o ms)
  <2>1. SUFFICES ASSUME tp[r].auxSend >= 1
                 PROVE  /\ First(mode)[tp[r].auxSend + 1] <= SentDecode(Q, r)'
                        /\ Before(mode, First(mode)[tp[r].auxSend + 1], wire[p] \o ms)
    OBVIOUS
  <2>2. First(mode)[tp[r].auxSend + 1] <= SentDecode(P, r) /\ Before(mode, First(mode)[tp[r].auxSend + 1], wire[p])
    BY <1>1, <2>1 DEF AckOf, Behind, AckSent, AckDone, AckAux, AckRow
  <2>3. First(mode)[tp[r].auxSend + 1] \in Nat
    <3>1. tp[r].auxSend + 1 \in 1 .. LastGate
      <4>1. tp[r].auxSend \in Nat /\ tp[r].auxSend < LastGate
        BY <1>1, RankFacts DEF GateOf
      <4> QED BY <2>1, <4>1, LastGateNat
    <3> QED BY <1>2, <3>1, FirstStep
  <2> QED BY <1>2, <1>4, <2>2, <2>3
<1> DEFINE x == SentDecode(Q, r)'
           w == wire[p] \o ms
<1>9. AckSent(mode, unacked[r], x, w) /\ AckDone(mode, cq[r], x, w)
  <2> HIDE DEF x, w
  <2> QED BY <1>6, <1>7 DEF AckSent, AckDone, Behind, x, w
<1>10. AckAux(mode, tp[r].auxSend, x, w)
  BY <1>8 DEF AckAux
<1>11. wire'[Peer(r)] = w /\ ~(IsKind(r, {"rgate"})' /\ (Q[r].pc = "idle" \/ (Q[r].pc = "wait" /\ Q[r].sd = 1)))
       /\ ~(IsKind(r, {"aux"})' /\ Q[r].pc = "idle")
  OBVIOUS
<1>12. /\ AckSent(mode, unacked[r], SentDecode(Q, r), wire[Peer(r)])'
       /\ AckDone(mode, cq[r], SentDecode(Q, r), wire[Peer(r)])'
       /\ AckAux(mode, tp[r].auxSend, SentDecode(Q, r), wire[Peer(r)])'
  BY <1>9, <1>10, <1>11
<1> QED BY <1>11, <1>12 DEF AckOf

(* The messages of a round are sent.                                       *)
LEMMA SendRoundInv ==
  ASSUME NEW P, NEW Q, NEW r \in Rank, NEW p, p = Peer(r), Inv(P), Typed', mode' = mode,
         SendRound(r), Q = [P EXCEPT ![r] = op'[r]]
  PROVE  Inv(Q)'
<1> DEFINE ws == BulkRound(Opno(r), Round(r).from, Round(r).to)
<1>1. /\ op[r].pc = "bulksend" /\ Send(r, ws) /\ StartLoop(r, "bulkwait", op[r].off)
      /\ UNCHANGED <<plan, done, gates, tp, hdr, rq, unacked, cq, inbuf>>
  BY DEF SendRound
<1>2. /\ Typed /\ P \in Progress /\ PcOf(P, r) /\ GateOf(P, r) /\ WindowOf(P, r) /\ QueueOf(P, r)
      /\ RecvOf(P, r) /\ DataOf(P, r) /\ SendOf(P, r) /\ AckOf(P, r) /\ WireOf(P, r) /\ WireOf(P, p)
      /\ SyncOf(P, p)
  BY Sides, InvOf
<1>3. op'[r].pc = "bulkwait" /\ op'[r].off = op[r].off /\ op'[r].rd = 0 /\ op'[r].sd = 0 /\ op'[p] = op[p]
  BY <1>1, <1>2, LoopBegins
<1>4. wire'[p] = wire[p] \o ws /\ wire'[r] = wire[r]
  BY <1>1, <1>2, SendIs
<1>5. op[r].pc \in BulkPc /\ op'[r].pc \in BulkPc /\ op'[r].pc # "announce" /\ op'[r].pc \notin HeadPc
      /\ op'[r].pc # "drainwait" /\ op[r].pc \in Body /\ op'[r].pc \in Body /\ op'[r].pc # "idle"
      /\ op'[r].pc # "post" /\ op[r].pc # "post" /\ op[r].pc # "bulkwait" /\ op[r].pc # "idle"
      /\ op[r].pc # "drainwait"
  BY <1>1, <1>3 DEF BulkPc, HeadPc, Body
<1>6. P[r] = op[r]
  <2>1. Turned(P, Q, r, p)
    BY <1>1, Turn
  <2> QED BY <2>1 DEF Turned
<1>7. op'[r].pc \in Body => op'[r].off < Current(r).size
  BY <1>2, <1>3, <1>5, <1>6 DEF PcOf
<1>8. Untouched(p)
  BY <1>1, <1>3, <1>4 DEF Untouched
<1>9. tp'[r].recvDone < LastGate /\ tp'[r].auxRecv < LastGate /\ tp'[r].auxSend < LastGate
  BY <1>1, <1>2 DEF GateOf
<1>10. /\ Q \in Progress /\ Q[r] = op'[r] /\ Q[p] = P[p]
      /\ p \in Rank /\ p # r /\ Peer(p) = r
      /\ Own(Q, p)' /\ ProgramOf(r)' /\ ProgramOf(p)' /\ SendOf(Q, p)' /\ AckOf(Q, p)' /\ RowOf(Q, p)'
      /\ PcOf(Q, r)' /\ GateOf(Q, r)' /\ DoneOf(Q, r)' /\ MarkOf(Q, r)' /\ RowOf(Q, r)'
      /\ HeaderOf(Q, r)' /\ HeaderOf(Q, p)'
      /\ IsKind(r, Bulk) /\ ~IsKind(r, Row) /\ ~IsKind(r, {"aux"}) /\ ~IsKind(r, {"rgate"})
      /\ n(r)' = n(r) /\ Current(r)' = Current(r)
      /\ (\A ks : IsKind(r, ks)' <=> IsKind(r, ks)) /\ n(p)' = n(p)
      /\ (Level(r)' <=> Level(r)) /\ (Level(p)' <=> Level(p))
      /\ Posted(Q, p)' = Posted(P, p) /\ Sent(Q, p)' = Sent(P, p)
      /\ SentDecode(Q, p)' = SentDecode(P, p)
      /\ SentDecode(Q, r)' = SentDecode(P, r) /\ SentDecode(P, r) = First(mode)[gates[r] + 1]
      /\ gates[r] = tp[r].last /\ Delivered(Q, p)' = Delivered(P, p)
  <2>1. BulkStepped(P, Q, r, p)
    BY <1>1, <1>3, <1>4, <1>5, <1>7, <1>8, <1>9, BulkStep
  <2> QED BY <2>1 DEF BulkStepped
<1>11. /\ P[r].off \in Nat /\ To(P, r) \in Nat /\ P[r].off < To(P, r)
       /\ ws \in Seq(Message) /\ Segment(ws, n(r), P[r].off, To(P, r))
  <2>1. P[r].pc \in Body
    BY <1>5, <1>6
  <2>2. /\ Opno(r) = n(r) /\ Round(r).from = P[r].off + 1 /\ Round(r).to = To(P, r)
        /\ P[r].off \in Nat /\ To(P, r) \in Nat /\ P[r].off < To(P, r)
        /\ BulkRound(n(r), P[r].off + 1, To(P, r)) \in Seq(Message)
        /\ Segment(BulkRound(n(r), P[r].off + 1, To(P, r)), n(r), P[r].off, To(P, r))
    BY <1>6, <2>1, RoundIs
  <2> QED BY <2>2
<1> HIDE DEF ws
<1>12. To(Q, r)' = To(P, r)
  BY <1>3, <1>6, <1>10 DEF To
<1>13. /\ Posted(P, r) = To(P, r) /\ Sent(P, r) = P[r].off /\ Awaited(P, r) = 0
       /\ Posted(Q, r)' = To(P, r) /\ Sent(Q, r)' = To(P, r) /\ Awaited(Q, r)' = To(P, r) - P[r].off
       /\ ~SentAll(P, r)
  <2>1. Posted(P, r) = To(P, r) /\ Sent(P, r) = P[r].off
    BY <1>1, <1>5, <1>6, BulkFacts
  <2>2. Posted(Q, r)' = To(P, r) /\ Sent(Q, r)' = To(P, r)
    BY <1>3, <1>5, <1>6, <1>10, <1>12 DEF Posted, Sent
  <2>3. Awaited(P, r) = 0 /\ ~SentAll(P, r)
    BY <1>1, <1>5, <1>6, <1>10 DEF Awaited, SentAll
  <2>4. Awaited(Q, r)' = To(P, r) - P[r].off - 0
    BY <1>3, <1>5, <1>6, <1>10, <1>12 DEF Awaited
  <2> QED BY <1>11, <2>1, <2>2, <2>3, <2>4
<1>14. P[r].rd = 0
  BY <1>1, <1>5, <1>6, <1>2 DEF RecvOf
<1>17. WindowOf(Q, r)'
  <2>1. WindowOf(P, r) /\ P[r].pc \in Body /\ Q[r].pc \in Body /\ tp'[r].win = tp[r].win
    BY <1>1, <1>2, <1>5, <1>6, <1>10
  <2>2. ~tp'[r].win => tp'[r].recvDone <= tp'[r].last /\ tp'[r].auxRecv <= tp'[r].last
    BY <1>1, <1>2 DEF WindowOf
  <2> QED BY <2>1, <2>2, WindowBody
<1>18. QueueOf(Q, r)'
  BY <1>1, <1>2, <1>5, <1>6, <1>10, <1>13 DEF QueueOf
<1>19. RecvOf(Q, r)'
  <2>1. \A i \in 1 .. Len(cq[r]) : cq[r][i].dir = "recv" => cq[r][i].tag = "bulk"
    BY <1>2, <1>5, <1>6 DEF RecvOf
  <2>2. Count(cq[r], Received) + Len(rq[r]) + 0 + P[r].off = To(P, r)
    BY <1>2, <1>5, <1>6, <1>13, <1>14 DEF RecvOf
  <2> QED BY <1>1, <1>3, <1>5, <1>6, <1>10, <1>13, <2>1, <2>2 DEF RecvOf
<1>20. DataOf(Q, r)'
  <2>1. Q[r].pc \notin DecodePc
    BY <1>3, <1>10 DEF DecodePc, RowPc
  <2>2. \A j \in 1 .. Posted(P, r) - Len(rq[r]) : inbuf[r][<<"bulk", j>>] = n(r)
    BY <1>2, <1>5, <1>6, <1>10 DEF DataOf
  <2> QED BY <1>1, <1>10, <1>13, <2>1, <2>2 DEF DataOf
<1>21. SyncOf(Q, p)'
  BY <1>1, <1>5, <1>10, <1>13, SyncPeer
<1>22. SyncOf(Q, r)'
  BY <1>1, <1>4, <1>5, <1>6, <1>10, SyncOwn
<1>23. SendOf(Q, r)'
  <2>1. Count(wire[p], SignalsBulk) = 0 /\ Count(unacked[r], CarriesBulk) = 0 /\ Count(cq[r], SentBulk) = 0
    BY <1>13, NoBulk
  <2>2. \A i \in 1 .. Len(ws) : ws[i] \in SignalsBulk
    <3>1. \A i \in 1 .. Len(ws) : ws[i] = BulkMsg(n(r), P[r].off + i)
      BY <1>11 DEF Segment
    <3>2. n(r) \in Nat /\ \A i \in 1 .. Len(ws) : P[r].off + i \in Nat
      BY <1>2, <1>11, RankFacts
    <3> QED BY <3>1, <3>2, BulkSignals
  <2>3. Len(ws) \in Nat /\ Len(ws) = To(P, r) - P[r].off
    BY <1>11 DEF Segment
  <2>4. Count(ws, SignalsBulk) = To(P, r) - P[r].off
    BY <2>2, <2>3, CountAll
  <2>5. wire[p] \in Seq(Message)
    BY <1>2, <1>10, RankFacts
  <2>6. Count(wire'[p], SignalsBulk) = 0 + (To(P, r) - P[r].off)
    BY <1>4, <1>11, <2>1, <2>4, <2>5, CountConcat
  <2> QED BY <1>1, <1>11, <1>13, <2>1, <2>6 DEF SendOf
<1>24. AckOf(Q, r)'
  <2>1. \A i \in 1 .. Len(ws) : ws[i].tag = "bulk"
    <3>1. n(r) \in Nat /\ Len(ws) \in Nat
      BY <1>2, <1>11, RankFacts
    <3>2. ASSUME NEW i \in 1 .. Len(ws) PROVE ws[i].tag = "bulk"
      <4>1. ws[i] = BulkMsg(n(r), P[r].off + i)
        BY <1>11 DEF Segment
      <4>2. P[r].off + i \in Nat
        <5>1. P[r].off \in Nat
          BY <1>11
        <5> QED BY <3>1, <5>1
      <4> DEFINE j == P[r].off + i
      <4> HIDE DEF j
      <4>3. j \in Nat /\ ws[i] = BulkMsg(n(r), j)
        BY <4>1, <4>2 DEF j
      <4>4. BulkMsg(n(r), j).tag = "bulk"
        BY <3>1, <4>3, BulkSignals
      <4> QED BY <4>3, <4>4
    <3> QED BY <3>2
  <2>2. SentDecode(P, r) \in Nat
    BY SentBounds
  <2>3. /\ tp'[r] = tp[r] /\ unacked'[r] = unacked[r] /\ cq'[r] = cq[r]
        /\ ws \in Seq(Message) /\ wire'[p] = wire[p] \o ws
        /\ SentDecode(P, r) <= SentDecode(Q, r)' /\ SentDecode(Q, r)' \in Nat
        /\ ~IsKind(r, {"rgate"})' /\ ~IsKind(r, {"aux"})'
    BY <1>1, <1>4, <1>10, <1>11, <2>2
  <2> QED BY <2>1, <2>3, AckMore
<1>25. /\ (Filling(Q, r)' <=> Filling(P, r)) /\ (Filling(Q, p)' <=> Filling(P, p))
       /\ (Bulking(Q, r)' <=> Bulking(P, r)) /\ (Bulking(Q, p)' <=> Bulking(P, p))
  BY <1>1, <1>5, <1>6, <1>10, SameRegime
<1>26. ~Filling(P, r)
  BY <1>2, <1>5, <1>6 DEF WindowOf, Filling
<1>27. Got(Q, r)' = Got(P, r) /\ Out(Q, r)' = Out(P, r) /\ Got(Q, p)' = Got(P, p)
  BY <1>1, <1>10, <1>13 DEF Got, Out
<1>28. Delivered(Q, r)' = Delivered(P, r)
  BY <1>1, <1>5, <1>6, <1>10 DEF Delivered
<1>29. WireOf(Q, r)'
  BY <1>1, <1>2, <1>4, <1>10, <1>25, <1>26, <1>27, <1>28, WireFrame
<1>30. ~(n(r) < n(p)) /\ n(r) >= n(p) /\ (Level(p) => n(r) = n(p)) /\ n(p) \in Nat
  <2>1. ~Ahead(p)
    BY <1>2, <1>10, <1>13 DEF SyncOf
  <2>2. n(r) \in Nat /\ n(p) \in Nat
    BY <1>2, <1>10, RankFacts
  <2>3. /\ Level(r) \/ Ahead(r) \/ Ahead(p)
        /\ (Level(r) <=> n(r) = n(p)) /\ (Level(p) <=> n(r) = n(p)) /\ (Ahead(r) <=> n(r) = n(p) + 1)
    BY Sides
  <2> QED BY <2>1, <2>2, <2>3
<1>31. wire[p] \in Seq(Message) /\ Len(rq[p]) \in Nat /\ n(r) \in Nat
  BY <1>2, <1>10, RankFacts
<1>32. Out(P, p) = P[r].off /\ Out(Q, p)' = To(P, r)
  BY <1>10, <1>13, <1>30 DEF Out
<1>33. WireOf(Q, p)'
  <2>1. CASE Filling(P, p)
    <3>1. Filled(wire[p], rq[p], n(p)) /\ Len(wire[p]) = Len(rq[p]) + P[r].off /\ n(p) = n(r)
      BY <1>2, <1>10, <1>13, <1>30, <2>1 DEF WireOf, Filling
    <3>2. /\ Filled(wire[p] \o ws, rq[p], n(r)) /\ Len(wire[p] \o ws) = Len(rq[p]) + To(P, r)
      <4>1. Filled(wire[p], rq[p], n(r)) /\ Len(wire[p]) = Len(rq[p]) + P[r].off
        BY <3>1
      <4>2. P[r].off \in Int /\ To(P, r) \in Int /\ wire[p] \in Seq(Message) /\ Len(rq[p]) \in Nat
        BY <1>11, <1>31
      <4>3. ws \in Seq(Message) /\ Segment(ws, n(r), P[r].off, To(P, r))
        BY <1>11
      <4> DEFINE w == wire[p]
                 q == rq[p]
                 x == P[r].off
                 y == To(P, r)
                 k == n(r)
      <4> HIDE DEF w, q, x, y, k
      <4>4. /\ Filled(w, q, k) /\ Len(w) = Len(q) + x /\ x \in Int /\ y \in Int
            /\ w \in Seq(Message) /\ Len(q) \in Nat /\ ws \in Seq(Message) /\ Segment(ws, k, x, y)
        BY <4>1, <4>2, <4>3 DEF w, q, x, y, k
      <4>5. Filled(w \o ws, q, k) /\ Len(w \o ws) = Len(q) + y
        BY <4>4, FilledConcat
      <4> QED BY <4>5 DEF w, q, x, y, k
    <3>3. ~Bulking(P, p)
      BY <2>1 DEF Bulking
    <3> QED BY <1>1, <1>4, <1>10, <1>13, <1>25, <2>1, <3>1, <3>2, <3>3 DEF WireOf
  <2>2. CASE ~Filling(P, p)
    <3>1. Bulking(P, p)
      BY <1>5, <1>6, <1>10, <1>30, <2>2 DEF Bulking
    <3>2. Segment(wire[p], n(r), Got(P, p), P[r].off)
      BY <1>2, <1>10, <1>32, <3>1 DEF WireOf
    <3>3. Got(P, p) \in Int
      <4>1. Posted(P, p) \in Nat
        BY <1>10, BulkFacts
      <4> QED BY <1>31, <4>1 DEF Got
    <3>4. Segment(wire[p] \o ws, n(r), Got(P, p), To(P, r))
      BY <1>11, <1>31, <3>2, <3>3, SegmentConcat
    <3> QED BY <1>4, <1>10, <1>25, <1>27, <1>32, <2>2, <3>1, <3>4 DEF WireOf
  <2> QED BY <2>1, <2>2
<1> QED BY <1>10, <1>17, <1>18, <1>19, <1>20, <1>21, <1>22, <1>23, <1>24, <1>29, <1>33, Whole DEF Own, Shared

(* The rest of a sequence.                                                 *)
LEMMA TailIs ==
  ASSUME NEW S, NEW s \in Seq(S), s # <<>>
  PROVE  /\ Len(Tail(s)) = Len(s) - 1 /\ Len(s) \in Nat /\ Len(s) >= 1 /\ Tail(s) \in Seq(S)
         /\ Head(s) = s[1] /\ Head(s) \in S /\ 1 \in 1 .. Len(s)
         /\ \A i \in 1 .. Len(Tail(s)) : i + 1 \in 1 .. Len(s) /\ Tail(s)[i] = s[i + 1]
OBVIOUS

(* A completion that is polled leaves what is known of the others.         *)
LEMMA AckTail ==
  ASSUME NEW P, NEW Q, NEW r \in Rank, Inv(P), mode' = mode,
         tp'[r].auxSend = tp[r].auxSend, unacked'[r] = unacked[r], wire'[Peer(r)] = wire[Peer(r)],
         cq[r] # <<>>, cq'[r] = Tail(cq[r]), SentDecode(Q, r)' = SentDecode(P, r),
         ~IsKind(r, {"rgate"})', ~IsKind(r, {"aux"})'
  PROVE  AckOf(Q, r)'
<1>1. AckOf(P, r) /\ cq[r] \in Seq(Completion)
  BY InvOf, TypedRank
<1>2. \A i \in 1 .. Len(Tail(cq[r])) : i + 1 \in 1 .. Len(cq[r]) /\ Tail(cq[r])[i] = cq[r][i + 1]
  BY <1>1, TailIs
<1>3. ASSUME NEW i \in 1 .. Len(cq'[r]), cq'[r][i].dir = "send", cq'[r][i].tag # "bulk"
      PROVE  Behind(mode, cq'[r][i], SentDecode(P, r), wire[Peer(r)])
  BY <1>1, <1>2, <1>3 DEF AckOf, AckDone
<1>4. /\ AckSent(mode, unacked[r], SentDecode(Q, r), wire[Peer(r)])'
      /\ AckAux(mode, tp[r].auxSend, SentDecode(Q, r), wire[Peer(r)])'
  BY <1>1 DEF AckOf
<1>5. AckDone(mode, cq[r], SentDecode(Q, r), wire[Peer(r)])'
  <2>1. AckDone(mode, cq'[r], SentDecode(P, r), wire[Peer(r)])
    BY <1>3 DEF AckDone
  <2> QED BY <2>1
<1> QED BY <1>4, <1>5 DEF AckOf

(* A rank takes a completion of its queue.                                 *)
LEMMA ReapIs ==
  ASSUME NEW r \in Rank, Typed, Reap(r)
  PROVE  /\ cq[r] # <<>> /\ cq[r] \in Seq(Completion) /\ cq'[r] = Tail(cq[r]) /\ cq'[Peer(r)] = cq[Peer(r)]
         /\ Head(cq[r]) \in Completion /\ Head(cq[r]) = cq[r][1] /\ 1 \in 1 .. Len(cq[r])
         /\ \A i \in 1 .. Len(Tail(cq[r])) : i + 1 \in 1 .. Len(cq[r]) /\ Tail(cq[r])[i] = cq[r][i + 1]
<1>1. cq \in [Rank -> Seq(Completion)] /\ Peer(r) \in Rank /\ Peer(r) # r
  BY TwoRanks DEF Typed
<1>2. cq[r] # <<>> /\ cq' = [cq EXCEPT ![r] = Tail(@)] /\ cq[r] \in Seq(Completion)
  BY <1>1 DEF Reap
<1>3. cq'[r] = Tail(cq[r]) /\ cq'[Peer(r)] = cq[Peer(r)]
  BY <1>1, <1>2
<1> QED BY <1>2, <1>3, TailIs

(* A completion of a round is counted.                                     *)
LEMMA PollBulkInv ==
  ASSUME NEW P, NEW Q, NEW r \in Rank, NEW p, p = Peer(r), Inv(P), Typed', mode' = mode,
         PollBulk(r), Q = [P EXCEPT ![r] = op'[r]]
  PROVE  Inv(Q)'
<1> DEFINE e == Head(cq[r])
<1>1. /\ op[r].pc = "bulkwait" /\ Reap(r)
      /\ UNCHANGED <<plan, done, gates, hdr, rq, wire, unacked, inbuf>>
      /\ e.tag = "bulk" => /\ op' = IF e.dir = "recv" THEN [op EXCEPT ![r].rd = @ + 1]
                                                      ELSE [op EXCEPT ![r].sd = @ + 1]
                           /\ tp' = tp
      /\ e.tag # "bulk" => op' = op /\ (e.dir # "recv" => tp' = tp)
  BY DEF PollBulk
<1>2. /\ Typed /\ P \in Progress /\ PcOf(P, r) /\ GateOf(P, r) /\ WindowOf(P, r) /\ QueueOf(P, r)
      /\ RecvOf(P, r) /\ DataOf(P, r) /\ SendOf(P, r) /\ AckOf(P, r) /\ WireOf(P, r) /\ WireOf(P, p)
  BY Sides, InvOf
<1>3. /\ cq[r] # <<>> /\ cq[r] \in Seq(Completion) /\ cq'[r] = Tail(cq[r]) /\ cq'[p] = cq[p]
      /\ e \in Completion /\ e = cq[r][1] /\ 1 \in 1 .. Len(cq[r])
      /\ \A i \in 1 .. Len(Tail(cq[r])) : i + 1 \in 1 .. Len(cq[r]) /\ Tail(cq[r])[i] = cq[r][i + 1]
  BY <1>1, <1>2, ReapIs
<1> HIDE DEF e
<1>4. P[r] = op[r]
  <2>1. Turned(P, Q, r, p)
    BY <1>1, Turn
  <2> QED BY <2>1 DEF Turned
<1>5. \A i \in 1 .. Len(cq[r]) : cq[r][i].dir = "recv" => cq[r][i].tag = "bulk"
  BY <1>1, <1>2, <1>4 DEF RecvOf, Body
<1>6. tp' = tp
  <2>1. e.dir = "recv" => e.tag = "bulk"
    BY <1>3, <1>5
  <2> QED BY <1>1, <2>1
<1>7. /\ op'[r].pc = "bulkwait" /\ op'[r].off = op[r].off /\ op'[p] = op[p]
      /\ op'[r].rd = op[r].rd + (IF e \in Received THEN 1 ELSE 0)
      /\ op'[r].sd = op[r].sd + (IF e \in SentBulk THEN 1 ELSE 0)
  <2>1. op \in [Rank -> OpType] /\ p \in Rank /\ p # r
    BY <1>2, TwoRanks DEF Typed
  <2>2. op[r].rd \in Nat /\ op[r].sd \in Nat
    BY <1>2, <1>4, RankFacts
  <2>3. op[r] \in [pc : Pc, off : Nat, rd : Nat, sd : Nat]
    BY <2>1 DEF OpType
  <2>4. CASE e.tag = "bulk" /\ e.dir = "recv"
    <3>1. e \in Received /\ e \notin SentBulk
      BY <1>3, <2>4 DEF Received, SentBulk
    <3>2. op' = [op EXCEPT ![r].rd = @ + 1]
      BY <1>1, <2>4
    <3>3. /\ op'[r].pc = op[r].pc /\ op'[r].off = op[r].off /\ op'[p] = op[p]
          /\ op'[r].rd = op[r].rd + 1 /\ op'[r].sd = op[r].sd
      BY <2>1, <2>3, <3>2
    <3> QED BY <1>1, <2>2, <3>1, <3>3
  <2>5. CASE e.tag = "bulk" /\ e.dir # "recv"
    <3>1. e \notin Received /\ e \in SentBulk
      BY <1>3, <2>5 DEF Received, SentBulk, Completion
    <3>2. op' = [op EXCEPT ![r].sd = @ + 1]
      BY <1>1, <2>5
    <3>3. /\ op'[r].pc = op[r].pc /\ op'[r].off = op[r].off /\ op'[p] = op[p]
          /\ op'[r].rd = op[r].rd /\ op'[r].sd = op[r].sd + 1
      BY <2>1, <2>3, <3>2
    <3> QED BY <1>1, <2>2, <3>1, <3>3
  <2>6. CASE e.tag # "bulk"
    <3>1. e \notin Received /\ e \notin SentBulk
      BY <1>3, <1>5, <2>6 DEF Received, SentBulk
    <3> QED BY <1>1, <2>2, <2>6, <3>1
  <2> QED BY <2>4, <2>5, <2>6
<1>8. op[r].pc \in BulkPc /\ op'[r].pc \in BulkPc /\ op'[r].pc # "announce" /\ op'[r].pc \notin HeadPc
      /\ op'[r].pc # "drainwait" /\ op[r].pc \in Body /\ op'[r].pc \in Body /\ op'[r].pc # "idle"
      /\ op'[r].pc # "post" /\ op[r].pc # "post" /\ op[r].pc # "idle" /\ op[r].pc # "drainwait"
  BY <1>1, <1>7 DEF BulkPc, HeadPc, Body
<1>9. op'[r].pc \in Body => op'[r].off < Current(r).size
  BY <1>2, <1>4, <1>7, <1>8 DEF PcOf
<1>10. Untouched(p)
  BY <1>1, <1>3, <1>6, <1>7 DEF Untouched
<1>11. tp'[r].recvDone < LastGate /\ tp'[r].auxRecv < LastGate /\ tp'[r].auxSend < LastGate
  BY <1>2, <1>6 DEF GateOf
<1>12. /\ Q \in Progress /\ Q[r] = op'[r] /\ Q[p] = P[p]
      /\ p \in Rank /\ p # r /\ Peer(p) = r
      /\ Own(Q, p)' /\ ProgramOf(r)' /\ ProgramOf(p)' /\ SendOf(Q, p)' /\ AckOf(Q, p)' /\ RowOf(Q, p)'
      /\ PcOf(Q, r)' /\ GateOf(Q, r)' /\ DoneOf(Q, r)' /\ MarkOf(Q, r)' /\ RowOf(Q, r)'
      /\ HeaderOf(Q, r)' /\ HeaderOf(Q, p)'
      /\ IsKind(r, Bulk) /\ ~IsKind(r, Row) /\ ~IsKind(r, {"aux"}) /\ ~IsKind(r, {"rgate"})
      /\ n(r)' = n(r) /\ Current(r)' = Current(r)
      /\ (\A ks : IsKind(r, ks)' <=> IsKind(r, ks)) /\ n(p)' = n(p)
      /\ (Level(r)' <=> Level(r)) /\ (Level(p)' <=> Level(p))
      /\ SentDecode(Q, r)' = SentDecode(P, r)
      /\ gates[r] = tp[r].last
  <2>1. BulkStepped(P, Q, r, p)
    BY <1>1, <1>6, <1>7, <1>8, <1>9, <1>10, <1>11, BulkStep
  <2> QED BY <2>1 DEF BulkStepped
<1>13. To(Q, r)' = To(P, r)
  BY <1>4, <1>7, <1>12 DEF To
<1>14. /\ Posted(P, r) = To(P, r) /\ Sent(P, r) = To(P, r) /\ Awaited(P, r) = To(P, r) - P[r].off - P[r].sd
       /\ Posted(Q, r)' = To(P, r) /\ Sent(Q, r)' = To(P, r) /\ Awaited(Q, r)' = To(P, r) - P[r].off - Q[r].sd
       /\ (SentAll(Q, r)' <=> SentAll(P, r))
  <2>1. Posted(P, r) = To(P, r) /\ Sent(P, r) = To(P, r)
    BY <1>1, <1>4, <1>8, BulkFacts
  <2>2. Posted(Q, r)' = To(P, r) /\ Sent(Q, r)' = To(P, r)
    BY <1>7, <1>8, <1>12, <1>13 DEF Posted, Sent
  <2>3. Awaited(P, r) = To(P, r) - P[r].off - P[r].sd
    BY <1>1, <1>4 DEF Awaited
  <2>4. Awaited(Q, r)' = To(P, r) - P[r].off - Q[r].sd
    BY <1>4, <1>7, <1>12, <1>13 DEF Awaited
  <2>5. SentAll(Q, r)' <=> SentAll(P, r)
    BY <1>1, <1>4, <1>7, <1>12, <1>13 DEF SentAll
  <2> QED BY <2>1, <2>2, <2>3, <2>4, <2>5
<1>15. /\ Count(cq'[r], Received) = Count(cq[r], Received) - (IF e \in Received THEN 1 ELSE 0)
       /\ Count(cq'[r], SentBulk) = Count(cq[r], SentBulk) - (IF e \in SentBulk THEN 1 ELSE 0)
       /\ Count(cq[r], Received) \in Nat /\ Count(cq[r], SentBulk) \in Nat
  <2>1. \A V : Count(Tail(cq[r]), V) = Count(cq[r], V) - (IF Head(cq[r]) \in V THEN 1 ELSE 0)
    BY <1>3, CountTail
  <2>2. Count(cq[r], Received) \in Nat /\ Count(cq[r], SentBulk) \in Nat
    BY <1>2, RankFacts, CountType
  <2> QED BY <1>3, <2>1, <2>2 DEF e
<1>16. WindowOf(Q, r)'
  <2>1. WindowOf(P, r) /\ P[r].pc \in Body /\ Q[r].pc \in Body /\ tp'[r].win = tp[r].win
    BY <1>2, <1>4, <1>6, <1>8, <1>12
  <2>2. ~tp'[r].win => tp'[r].recvDone <= tp'[r].last /\ tp'[r].auxRecv <= tp'[r].last
    BY <1>2, <1>6 DEF WindowOf
  <2> QED BY <2>1, <2>2, WindowBody
<1>17. QueueOf(Q, r)'
  BY <1>1, <1>2, <1>4, <1>8, <1>12, <1>14 DEF QueueOf
<1>18. RecvOf(Q, r)'
  <2>1. \A i \in 1 .. Len(cq'[r]) : cq'[r][i].dir = "recv" => cq'[r][i].tag = "bulk"
    BY <1>3, <1>5
  <2>2. Count(cq[r], Received) + Len(rq[r]) + P[r].rd + P[r].off = To(P, r)
    BY <1>2, <1>4, <1>8, <1>14 DEF RecvOf
  <2>3. P[r].rd \in Nat /\ P[r].off \in Nat /\ Len(rq[r]) \in Nat /\ To(P, r) \in Nat
    BY <1>2, <1>12, RankFacts, BulkFacts
  <2>4. Q[r].rd = P[r].rd + (IF e \in Received THEN 1 ELSE 0) /\ Q[r].off = P[r].off
    BY <1>4, <1>7, <1>12
  <2>5. Count(cq'[r], Received) + Len(rq[r]) + Q[r].rd + Q[r].off = To(P, r)
    <3>1. CASE e \in Received
      <4> DEFINE a == Count(cq[r], Received)
                 b == Len(rq[r])
      <4>1. Count(cq'[r], Received) = a - 1 /\ a \in Nat
        BY <1>15, <3>1
      <4>2. Q[r].rd = P[r].rd + 1 /\ Q[r].off = P[r].off
        BY <2>4, <3>1
      <4>3. a + b + P[r].rd + P[r].off = To(P, r) /\ b \in Nat /\ P[r].rd \in Nat /\ P[r].off \in Nat
        BY <2>2, <2>3
      <4> HIDE DEF a, b
      <4>4. (a - 1) + b + (P[r].rd + 1) + P[r].off = To(P, r)
        BY <4>1, <4>3
      <4> QED BY <4>1, <4>2, <4>4 DEF b
    <3>2. CASE e \notin Received
      BY <1>15, <2>2, <2>3, <2>4, <3>2
    <3> QED BY <3>1, <3>2
  <2> QED BY <1>1, <1>7, <1>8, <1>12, <1>14, <2>1, <2>5 DEF RecvOf
<1>19. DataOf(Q, r)'
  <2>1. Q[r].pc \notin DecodePc
    BY <1>7, <1>12 DEF DecodePc, RowPc
  <2>2. \A j \in 1 .. Posted(P, r) - Len(rq[r]) : inbuf[r][<<"bulk", j>>] = n(r)
    BY <1>2, <1>4, <1>8, <1>12 DEF DataOf
  <2> QED BY <1>1, <1>12, <1>14, <2>1, <2>2 DEF DataOf
<1>20. SyncOf(Q, p)'
  BY <1>1, <1>4, <1>8, <1>12, <1>14, SyncPeer
<1>21. SyncOf(Q, r)'
  <2>1. /\ plan' = plan /\ Q[p] = P[p] /\ rq'[p] = rq[p] /\ P[r].pc # "idle" /\ Q[r].pc # "idle"
        /\ P[r].pc \in {"drain", "drainwait"} \cup Body /\ P[r].pc \in Body
    BY <1>1, <1>4, <1>8, <1>12
  <2> QED BY <2>1, SyncOwn
<1>22. SendOf(Q, r)'
  <2>1. Count(wire[p], SignalsBulk) + Count(unacked[r], CarriesBulk) + Count(cq[r], SentBulk)
          = To(P, r) - P[r].off - P[r].sd
    BY <1>2, <1>14 DEF SendOf
  <2>2. Count(wire[p], SignalsBulk) \in Nat /\ Count(unacked[r], CarriesBulk) \in Nat
    BY <1>2, <1>12, RankFacts, CountType
  <2>3. P[r].sd \in Nat /\ P[r].off \in Nat /\ To(P, r) \in Nat
    BY <1>2, <1>12, RankFacts, BulkFacts
  <2>4. Q[r].sd = P[r].sd + (IF e \in SentBulk THEN 1 ELSE 0)
    BY <1>4, <1>7, <1>12
  <2>5. Count(wire[p], SignalsBulk) + Count(unacked[r], CarriesBulk) + Count(cq'[r], SentBulk)
          = To(P, r) - P[r].off - Q[r].sd
    <3>1. CASE e \in SentBulk
      BY <1>15, <2>1, <2>2, <2>3, <2>4, <3>1
    <3>2. CASE e \notin SentBulk
      BY <1>15, <2>1, <2>2, <2>3, <2>4, <3>2
    <3> QED BY <3>1, <3>2
  <2> QED BY <1>1, <1>14, <2>5 DEF SendOf
<1>23. AckOf(Q, r)'
  BY <1>1, <1>3, <1>6, <1>12, AckTail
<1>24. Delivered(Q, r)' = Delivered(P, r)
  BY <1>1, <1>4, <1>6, <1>8, <1>12 DEF Delivered
<1>25. WireOf(Q, r)' /\ WireOf(Q, p)'
  BY <1>1, <1>4, <1>6, <1>8, <1>12, <1>14, <1>24, SameWires
<1> QED BY <1>12, <1>16, <1>17, <1>18, <1>19, <1>20, <1>21, <1>22, <1>23, <1>25, Whole DEF Own, Shared

(* A completion is counted for the drain.                                  *)
LEMMA PollDrainInv ==
  ASSUME NEW P, NEW Q, NEW r \in Rank, NEW p, p = Peer(r), Inv(P), Typed', mode' = mode,
         PollDrain(r), Q = [P EXCEPT ![r] = op'[r]]
  PROVE  Inv(Q)'
<1> DEFINE e == Head(cq[r])
<1>1. /\ op[r].pc = "drainwait" /\ Reap(r)
      /\ UNCHANGED <<plan, done, gates, tp, hdr, rq, wire, unacked, inbuf>>
      /\ op' = IF e.dir = "recv" THEN [op EXCEPT ![r].rd = @ + 1]
               ELSE IF e.tag = "bulk" THEN [op EXCEPT ![r].sd = 1] ELSE op
  BY DEF PollDrain
<1>2. /\ Typed /\ P \in Progress /\ PcOf(P, r) /\ GateOf(P, r) /\ WindowOf(P, r) /\ QueueOf(P, r)
      /\ RecvOf(P, r) /\ DataOf(P, r) /\ SendOf(P, r) /\ AckOf(P, r) /\ WireOf(P, r) /\ WireOf(P, p)
  BY Sides, InvOf
<1>3. /\ cq[r] # <<>> /\ cq[r] \in Seq(Completion) /\ cq'[r] = Tail(cq[r]) /\ cq'[p] = cq[p]
      /\ e \in Completion /\ e = cq[r][1] /\ 1 \in 1 .. Len(cq[r])
      /\ \A i \in 1 .. Len(Tail(cq[r])) : i + 1 \in 1 .. Len(cq[r]) /\ Tail(cq[r])[i] = cq[r][i + 1]
  BY <1>1, <1>2, ReapIs
<1> HIDE DEF e
<1>4. P[r] = op[r]
  <2>1. Turned(P, Q, r, p)
    BY <1>1, Turn
  <2> QED BY <2>1 DEF Turned
<1>5. /\ op'[r].pc = "drainwait" /\ op'[r].off = op[r].off /\ op'[p] = op[p]
      /\ op'[r].rd = op[r].rd + (IF e \in Received THEN 1 ELSE 0)
      /\ op'[r].sd = IF e \in SentBulk THEN 1 ELSE op[r].sd
  <2>1. op \in [Rank -> OpType] /\ p \in Rank /\ p # r
    BY <1>2, TwoRanks DEF Typed
  <2>2. op[r].rd \in Nat /\ op[r].sd \in Nat
    BY <1>2, <1>4, RankFacts
  <2>3. op[r] \in [pc : Pc, off : Nat, rd : Nat, sd : Nat]
    BY <2>1 DEF OpType
  <2>4. CASE e.dir = "recv"
    <3>1. e \in Received /\ e \notin SentBulk
      BY <1>3, <2>4 DEF Received, SentBulk
    <3>2. op' = [op EXCEPT ![r].rd = @ + 1]
      BY <1>1, <2>4
    <3>3. /\ op'[r].pc = op[r].pc /\ op'[r].off = op[r].off /\ op'[p] = op[p]
          /\ op'[r].rd = op[r].rd + 1 /\ op'[r].sd = op[r].sd
      BY <2>1, <2>3, <3>2
    <3> QED BY <1>1, <2>2, <3>1, <3>3
  <2>5. CASE e.tag = "bulk" /\ e.dir # "recv"
    <3>1. e \notin Received /\ e \in SentBulk
      BY <1>3, <2>5 DEF Received, SentBulk, Completion
    <3>2. op' = [op EXCEPT ![r].sd = 1]
      BY <1>1, <2>5
    <3>3. /\ op'[r].pc = op[r].pc /\ op'[r].off = op[r].off /\ op'[p] = op[p]
          /\ op'[r].rd = op[r].rd /\ op'[r].sd = 1
      BY <2>1, <2>3, <3>2
    <3> QED BY <1>1, <2>2, <3>1, <3>3
  <2>6. CASE e.tag # "bulk" /\ e.dir # "recv"
    <3>1. e \notin Received /\ e \notin SentBulk
      BY <2>6 DEF Received, SentBulk
    <3>2. op' = op
      BY <1>1, <2>6
    <3>3. /\ op'[r].pc = "drainwait" /\ op'[r].off = op[r].off /\ op'[p] = op[p]
          /\ op'[r].rd = op[r].rd /\ op'[r].sd = op[r].sd
      BY <1>1, <3>2
    <3>4. op'[r].rd = op[r].rd + 0
      BY <2>2, <3>3
    <3> QED BY <3>1, <3>3, <3>4
  <2> QED BY <2>4, <2>5, <2>6
<1>6. op[r].pc \in BulkPc /\ op'[r].pc \in BulkPc /\ op'[r].pc # "announce" /\ op'[r].pc \notin HeadPc
      /\ op[r].pc \notin Body /\ op'[r].pc \notin Body /\ op'[r].pc # "idle" /\ op[r].pc # "idle"
      /\ op[r].pc \notin Body \cup {"idle"} /\ op'[r].pc # "bulkwait" /\ op[r].pc # "bulkwait"
  BY <1>1, <1>5 DEF BulkPc, HeadPc, Body
<1>7. op'[r].sd \in {0, 1}
  BY <1>1, <1>2, <1>4, <1>5 DEF PcOf
<1>8. Untouched(p)
  BY <1>1, <1>3, <1>5 DEF Untouched
<1>9. tp'[r].recvDone < LastGate /\ tp'[r].auxRecv < LastGate /\ tp'[r].auxSend < LastGate
  BY <1>1, <1>2 DEF GateOf
<1>10. /\ Q \in Progress /\ Q[r] = op'[r] /\ Q[p] = P[p]
      /\ p \in Rank /\ p # r /\ Peer(p) = r
      /\ Own(Q, p)' /\ ProgramOf(r)' /\ ProgramOf(p)' /\ SendOf(Q, p)' /\ AckOf(Q, p)' /\ RowOf(Q, p)'
      /\ PcOf(Q, r)' /\ GateOf(Q, r)' /\ DoneOf(Q, r)' /\ MarkOf(Q, r)' /\ RowOf(Q, r)'
      /\ HeaderOf(Q, r)' /\ HeaderOf(Q, p)'
      /\ IsKind(r, Bulk) /\ ~IsKind(r, Row) /\ ~IsKind(r, {"aux"}) /\ ~IsKind(r, {"rgate"})
      /\ n(r)' = n(r) /\ Current(r)' = Current(r) /\ (WindowBefore(r)' <=> WindowBefore(r))
      /\ (\A ks : IsKind(r, ks)' <=> IsKind(r, ks)) /\ n(p)' = n(p)
      /\ SentDecode(Q, r)' = SentDecode(P, r)
  <2>1. BulkStepped(P, Q, r, p)
    BY <1>1, <1>5, <1>6, <1>7, <1>8, <1>9, BulkStep
  <2> QED BY <2>1 DEF BulkStepped
<1>11. /\ Posted(P, r) = 0 /\ Sent(P, r) = 0 /\ Awaited(P, r) = 1 - P[r].sd
       /\ Posted(Q, r)' = 0 /\ Sent(Q, r)' = 0 /\ Awaited(Q, r)' = 1 - Q[r].sd
       /\ ~SentAll(P, r)
  <2>1. Posted(P, r) = 0 /\ Sent(P, r) = 0
    BY <1>4, <1>6, BulkFacts
  <2>2. Posted(Q, r)' = 0 /\ Sent(Q, r)' = 0
    BY <1>5, <1>6, <1>10 DEF Posted, Sent
  <2>3. Awaited(P, r) = 1 - P[r].sd /\ ~SentAll(P, r)
    BY <1>1, <1>4 DEF Awaited, SentAll
  <2>4. Awaited(Q, r)' = 1 - Q[r].sd
    BY <1>5, <1>10 DEF Awaited
  <2> QED BY <2>1, <2>2, <2>3, <2>4
<1>12. /\ Count(cq'[r], Received) = Count(cq[r], Received) - (IF e \in Received THEN 1 ELSE 0)
       /\ Count(cq'[r], SentBulk) = Count(cq[r], SentBulk) - (IF e \in SentBulk THEN 1 ELSE 0)
       /\ Count(cq[r], Received) \in Nat /\ Count(cq[r], SentBulk) \in Nat
       /\ Count(cq'[r], SentBulk) \in Nat
  <2>1. \A V : Count(Tail(cq[r]), V) = Count(cq[r], V) - (IF Head(cq[r]) \in V THEN 1 ELSE 0)
    BY <1>3, CountTail
  <2>2. Count(cq[r], Received) \in Nat /\ Count(cq[r], SentBulk) \in Nat
    BY <1>2, RankFacts, CountType
  <2>3. Len(Tail(cq[r])) \in Nat
    BY <1>3
  <2>4. Count(Tail(cq[r]), SentBulk) \in Nat
    BY <2>3, CountType
  <2> QED BY <1>3, <2>1, <2>2, <2>4 DEF e
<1>13. WindowOf(Q, r)'
  BY <1>1, <1>2, <1>4, <1>5, <1>6, <1>10 DEF WindowOf
<1>14. End(r)' = End(r) /\ WindowLen(r)' = WindowLen(r)
  BY <1>1 DEF End, WindowLen
<1>15. QueueOf(Q, r)'
  BY <1>1, <1>2, <1>4, <1>6, <1>10, <1>14 DEF QueueOf
<1>16. RecvOf(Q, r)'
  <2>1. Count(cq[r], Received) + Len(rq[r]) + P[r].rd = WindowLen(r)
    BY <1>1, <1>2, <1>4 DEF RecvOf
  <2>2. P[r].rd \in Nat /\ Len(rq[r]) \in Nat
    BY <1>2, <1>10, RankFacts
  <2>3. Q[r].rd = P[r].rd + (IF e \in Received THEN 1 ELSE 0)
    BY <1>4, <1>5, <1>10
  <2>4. Count(cq'[r], Received) + Len(rq[r]) + Q[r].rd = WindowLen(r)
    <3>1. CASE e \in Received
      <4> DEFINE a == Count(cq[r], Received)
                 b == Len(rq[r])
      <4>1. Count(cq'[r], Received) = a - 1 /\ a \in Nat
        BY <1>12, <3>1
      <4>2. Q[r].rd = P[r].rd + 1
        BY <2>3, <3>1
      <4>3. a + b + P[r].rd = WindowLen(r) /\ b \in Nat /\ P[r].rd \in Nat
        BY <2>1, <2>2
      <4> HIDE DEF a, b
      <4>4. (a - 1) + b + (P[r].rd + 1) = WindowLen(r)
        BY <4>1, <4>3
      <4> QED BY <4>1, <4>2, <4>4 DEF b
    <3>2. CASE e \notin Received
      BY <1>12, <2>1, <2>2, <2>3, <3>2
    <3> QED BY <3>1, <3>2
  <2>5. tp[r].win
    BY <1>1, <1>2, <1>4 DEF WindowOf
  <2> QED BY <1>1, <1>5, <1>6, <1>10, <1>14, <2>4, <2>5 DEF RecvOf
<1>17. DataOf(Q, r)'
  <2>1. Q[r].pc \notin DecodePc
    BY <1>5, <1>10 DEF DecodePc, RowPc
  <2> QED BY <1>6, <1>10, <2>1 DEF DataOf
<1>18. SyncOf(Q, p)'
  BY <1>1, <1>6, <1>10, <1>11, SyncPeer
<1>19. SyncOf(Q, r)'
  BY <1>1, <1>4, <1>6, <1>10, SyncOwn
<1>20. SendOf(Q, r)'
  <2>1. Count(wire[p], SignalsBulk) + Count(unacked[r], CarriesBulk) + Count(cq[r], SentBulk) = 1 - P[r].sd
    BY <1>2, <1>11 DEF SendOf
  <2>2. Count(wire[p], SignalsBulk) \in Nat /\ Count(unacked[r], CarriesBulk) \in Nat
    BY <1>2, <1>10, RankFacts, CountType
  <2>3. P[r].sd \in {0, 1}
    BY <1>1, <1>2, <1>4 DEF PcOf
  <2>4. Q[r].sd = IF e \in SentBulk THEN 1 ELSE P[r].sd
    BY <1>4, <1>5, <1>10
  <2>5. Count(wire[p], SignalsBulk) + Count(unacked[r], CarriesBulk) + Count(cq'[r], SentBulk) = 1 - Q[r].sd
    <3>1. CASE e \in SentBulk
      BY <1>12, <2>1, <2>2, <2>3, <2>4, <3>1
    <3>2. CASE e \notin SentBulk
      BY <1>12, <2>1, <2>2, <2>3, <2>4, <3>2
    <3> QED BY <3>1, <3>2
  <2> QED BY <1>1, <1>11, <2>5 DEF SendOf
<1>21. AckOf(Q, r)'
  BY <1>1, <1>3, <1>10, AckTail
<1>22. Delivered(Q, r)' = Delivered(P, r)
  BY <1>1, <1>4, <1>6, <1>10, <1>14 DEF Delivered
<1>23. WireOf(Q, r)' /\ WireOf(Q, p)'
  BY <1>1, <1>4, <1>5, <1>6, <1>10, <1>11, <1>22, SameWires
<1> QED BY <1>10, <1>13, <1>15, <1>16, <1>17, <1>18, <1>19, <1>20, <1>21, <1>23, Whole DEF Own, Shared

(* When a round may end, its receives have been polled and its sends have  *)
(* completed.                                                              *)
LEMMA RoundOver ==
  ASSUME NEW P, NEW r \in Rank, Inv(P), P[r] = op[r], op[r].pc = "bulkwait",
         op[r].rd >= RoundLen(r), op[r].sd >= RoundLen(r)
  PROVE  /\ rq[r] = <<>> /\ Len(rq[r]) = 0 /\ Count(cq[r], Received) = 0 /\ Awaited(P, r) = 0
         /\ \A i \in 1 .. Len(cq[r]) : cq[r][i].dir # "recv"
         /\ Posted(P, r) = To(P, r) /\ Sent(P, r) = To(P, r)
<1>1. Typed /\ P \in Progress /\ RecvOf(P, r) /\ SendOf(P, r) /\ P[r].pc \in Body
  BY InvOf DEF Body
<1>2. /\ RoundLen(r) = To(P, r) - P[r].off /\ P[r].off \in Nat /\ To(P, r) \in Nat /\ P[r].off < To(P, r)
  BY <1>1, RoundIs
<1>3. Posted(P, r) = To(P, r) /\ Sent(P, r) = To(P, r)
  BY <1>1, BulkFacts
<1>4. Count(cq[r], Received) + Len(rq[r]) + P[r].rd + P[r].off = To(P, r)
  BY <1>1, <1>3 DEF RecvOf
<1>5. Len(rq[r]) \in Nat /\ Count(cq[r], Received) \in Nat /\ P[r].rd \in Nat /\ P[r].sd \in Nat
      /\ cq[r] \in Seq(Completion) /\ rq[r] \in Seq(Message) /\ Len(cq[r]) \in Nat
  BY <1>1, RankFacts, CountType
<1>6. Len(rq[r]) = 0 /\ Count(cq[r], Received) = 0
  BY <1>2, <1>4, <1>5
<1>7. rq[r] = <<>>
  BY <1>5, <1>6, EmptySeq
<1>8. \A i \in 1 .. Len(cq[r]) : cq[r][i].dir # "recv"
  <2>1. \A i \in 1 .. Len(cq[r]) : cq[r][i] \notin Received
    BY <1>5, <1>6, CountZero
  <2> QED BY <1>5, <2>1 DEF Received
<1>9. Awaited(P, r) = To(P, r) - P[r].off - P[r].sd
  BY DEF Awaited
<1>10. Awaited(P, r) \in Nat
  <2>1. /\ Count(wire[Peer(r)], SignalsBulk) \in Nat /\ Count(unacked[r], CarriesBulk) \in Nat
        /\ Count(cq[r], SentBulk) \in Nat
    <3>1. Peer(r) \in Rank
      BY TwoRanks
    <3> QED BY <1>1, <3>1, RankFacts, CountType
  <2> QED BY <1>1, <2>1 DEF SendOf
<1>11. Awaited(P, r) = 0
  BY <1>2, <1>5, <1>9, <1>10
<1> QED BY <1>3, <1>6, <1>7, <1>8, <1>11

(* The next round begins.                                                  *)
LEMMA NextRoundInv ==
  ASSUME NEW P, NEW Q, NEW r \in Rank, NEW p, p = Peer(r), Inv(P), Typed', mode' = mode,
         FinishRound(r), Round(r).to # Current(r).size, Q = [P EXCEPT ![r] = op'[r]]
  PROVE  Inv(Q)'
<1>1. /\ op[r].pc = "bulkwait" /\ StartLoop(r, "post", Round(r).to)
      /\ op[r].rd >= RoundLen(r) /\ op[r].sd >= RoundLen(r)
      /\ UNCHANGED <<plan, done, gates, tp, hdr, rq, wire, unacked, cq, inbuf>>
  BY DEF FinishRound, nicVars
<1>2. /\ Typed /\ P \in Progress /\ PcOf(P, r) /\ GateOf(P, r) /\ WindowOf(P, r) /\ QueueOf(P, r)
      /\ RecvOf(P, r) /\ DataOf(P, r) /\ SendOf(P, r) /\ AckOf(P, r) /\ WireOf(P, r) /\ WireOf(P, p)
  BY Sides, InvOf
<1>3. op'[r].pc = "post" /\ op'[r].off = Round(r).to /\ op'[r].rd = 0 /\ op'[r].sd = 0 /\ op'[p] = op[p]
  BY <1>1, <1>2, LoopBegins
<1>4. P[r] = op[r]
  <2>1. Turned(P, Q, r, p)
    BY <1>1, Turn
  <2> QED BY <2>1 DEF Turned
<1>5. op[r].pc \in BulkPc /\ op'[r].pc \in BulkPc /\ op'[r].pc # "announce" /\ op'[r].pc \notin HeadPc
      /\ op'[r].pc # "drainwait" /\ op[r].pc \in Body /\ op'[r].pc \in Body /\ op'[r].pc # "idle"
      /\ op[r].pc # "idle" /\ op[r].pc # "drainwait"
  BY <1>1, <1>3 DEF BulkPc, HeadPc, Body
<1>6. /\ Round(r).to = To(P, r) /\ P[r].off \in Nat /\ To(P, r) \in Nat /\ To(P, r) <= Current(r).size
      /\ Current(r).size \in Nat
  BY <1>4, <1>5, RoundIs
<1>7. op'[r].pc \in Body => op'[r].off < Current(r).size
  BY <1>1, <1>3, <1>6
<1>8. Untouched(p)
  BY <1>1, <1>3 DEF Untouched
<1>9. tp'[r].recvDone < LastGate /\ tp'[r].auxRecv < LastGate /\ tp'[r].auxSend < LastGate
  BY <1>1, <1>2 DEF GateOf
<1>10. /\ Q \in Progress /\ Q[r] = op'[r] /\ Q[p] = P[p]
      /\ p \in Rank /\ p # r /\ Peer(p) = r
      /\ Own(Q, p)' /\ ProgramOf(r)' /\ ProgramOf(p)' /\ SendOf(Q, p)' /\ AckOf(Q, p)' /\ RowOf(Q, p)'
      /\ PcOf(Q, r)' /\ GateOf(Q, r)' /\ DoneOf(Q, r)' /\ MarkOf(Q, r)' /\ RowOf(Q, r)'
      /\ HeaderOf(Q, r)' /\ HeaderOf(Q, p)'
      /\ IsKind(r, Bulk) /\ ~IsKind(r, Row) /\ ~IsKind(r, {"aux"}) /\ ~IsKind(r, {"rgate"})
      /\ n(r)' = n(r) /\ Current(r)' = Current(r)
      /\ (\A ks : IsKind(r, ks)' <=> IsKind(r, ks)) /\ n(p)' = n(p)
      /\ SentDecode(Q, r)' = SentDecode(P, r)
  <2>1. BulkStepped(P, Q, r, p)
    BY <1>1, <1>3, <1>5, <1>7, <1>8, <1>9, BulkStep
  <2> QED BY <2>1 DEF BulkStepped
<1>11. /\ rq[r] = <<>> /\ Len(rq[r]) = 0 /\ Count(cq[r], Received) = 0 /\ Awaited(P, r) = 0
       /\ \A i \in 1 .. Len(cq[r]) : cq[r][i].dir # "recv"
       /\ Posted(P, r) = To(P, r) /\ Sent(P, r) = To(P, r)
  BY <1>1, <1>4, RoundOver
<1>12. Posted(Q, r)' = To(P, r) /\ Sent(Q, r)' = To(P, r) /\ Awaited(Q, r)' = 0 /\ ~SentAll(P, r)
  <2>1. Posted(Q, r)' = To(P, r) /\ Sent(Q, r)' = To(P, r)
    BY <1>3, <1>5, <1>6, <1>10 DEF Posted, Sent
  <2>2. Awaited(Q, r)' = 0 /\ ~SentAll(P, r)
    BY <1>1, <1>3, <1>4, <1>6, <1>10 DEF Awaited, SentAll
  <2> QED BY <2>1, <2>2
<1>13. WindowOf(Q, r)'
  <2>1. WindowOf(P, r) /\ P[r].pc \in Body /\ Q[r].pc \in Body /\ tp'[r].win = tp[r].win
    BY <1>1, <1>2, <1>4, <1>5, <1>10
  <2>2. ~tp'[r].win => tp'[r].recvDone <= tp'[r].last /\ tp'[r].auxRecv <= tp'[r].last
    BY <1>1, <1>2 DEF WindowOf
  <2> QED BY <2>1, <2>2, WindowBody
<1>14. QueueOf(Q, r)'
  BY <1>1, <1>2, <1>4, <1>5, <1>10, <1>11, <1>12 DEF QueueOf
<1>15. RecvOf(Q, r)'
  BY <1>1, <1>3, <1>5, <1>6, <1>10, <1>11, <1>12 DEF RecvOf
<1>16. DataOf(Q, r)'
  <2>1. Q[r].pc \notin DecodePc
    BY <1>3, <1>10 DEF DecodePc, RowPc
  <2>2. \A j \in 1 .. Posted(P, r) - Len(rq[r]) : inbuf[r][<<"bulk", j>>] = n(r)
    BY <1>2, <1>4, <1>5, <1>10 DEF DataOf
  <2> QED BY <1>1, <1>10, <1>11, <1>12, <2>1, <2>2 DEF DataOf
<1>17. SyncOf(Q, p)'
  BY <1>1, <1>5, <1>10, <1>12, SyncPeer
<1>18. SyncOf(Q, r)'
  BY <1>1, <1>4, <1>5, <1>10, SyncOwn
<1>19. SendOf(Q, r)'
  BY <1>1, <1>2, <1>11, <1>12 DEF SendOf
<1>20. AckOf(Q, r)'
  BY <1>1, <1>2, <1>10 DEF AckOf
<1>21. Delivered(Q, r)' = Delivered(P, r)
  BY <1>1, <1>4, <1>5, <1>10 DEF Delivered
<1>22. WireOf(Q, r)' /\ WireOf(Q, p)'
  BY <1>1, <1>4, <1>5, <1>10, <1>11, <1>12, <1>21, SameWires
<1> QED BY <1>10, <1>13, <1>14, <1>15, <1>16, <1>17, <1>18, <1>19, <1>20, <1>22, Whole DEF Own, Shared

(* A rank that returns from its operation.                                 *)
LEMMA ReturnIs ==
  ASSUME NEW r \in Rank, Typed, Return(r)
  PROVE  /\ op'[r].pc = "idle" /\ op'[r].off = op[r].off /\ op'[r].rd = op[r].rd /\ op'[r].sd = op[r].sd
         /\ op'[Peer(r)] = op[Peer(r)] /\ done'[r] = done[r] + 1 /\ done'[Peer(r)] = done[Peer(r)]
<1>1. Goto(r, "idle") /\ done' = [done EXCEPT ![r] = @ + 1]
  BY DEF Return
<1>2. done \in [Rank -> Nat] /\ Peer(r) \in Rank /\ Peer(r) # r
  BY TwoRanks DEF Typed
<1>3. done'[r] = done[r] + 1 /\ done'[Peer(r)] = done[Peer(r)]
  BY <1>1, <1>2
<1> QED BY <1>1, <1>3, GotoIs

(* The peer of a rank that ends its last round has sent all of it.         *)
LEMMA RowsReceived ==
  ASSUME NEW P, NEW r \in Rank, NEW p, p = Peer(r), Inv(P), P[r].pc = "bulkwait",
         To(P, r) = Current(r).size, rq[r] = <<>>
  PROVE  /\ ~Ahead(r) /\ ~tp[r].win
         /\ Level(r) => SentAll(P, p) /\ P[p].pc \in {"idle", "bulkwait"} /\ IsKind(p, Bulk) /\ ~tp[p].win
                        /\ Current(p) = Current(r) /\ wire[r] = <<>>
<1>1. /\ Typed /\ P \in Progress /\ WindowOf(P, r) /\ WireOf(P, r) /\ p \in Rank /\ Peer(p) = r
      /\ PcOf(P, p) /\ WindowOf(P, p) /\ P[r].pc \in Body
  BY Sides, InvOf DEF Body
<1>2. ~tp[r].win /\ ~Filling(P, r)
  BY <1>1 DEF WindowOf, Filling
<1>3. n(r) \in Nat /\ n(p) \in Nat /\ (Level(r) <=> n(r) = n(p)) /\ (Ahead(r) <=> n(r) = n(p) + 1)
  <2>1. n(r) \in Nat /\ n(p) \in Nat
    BY <1>1, RankFacts
  <2> QED BY <2>1, Sides
<1>4. IsKind(r, Bulk) /\ Current(r).size \in Nat /\ Current(r).size >= 1 /\ Posted(P, r) = Current(r).size
  <2>1. IsKind(r, Bulk)
    BY <1>1, BulkFacts
  <2> QED BY <1>1, <2>1, BulkFacts
<1>5. wire[r] \in Seq(Message) /\ Len(wire[r]) \in Nat /\ Len(rq[r]) = 0
  BY <1>1, RankFacts
<1>6. ASSUME Ahead(r) \/ Level(r) PROVE Len(wire[r]) = Out(P, r) - Current(r).size
  <2>1. n(r) >= n(p) /\ ~(n(r) < n(p))
    BY <1>3, <1>6
  <2>2. Bulking(P, r)
    BY <1>1, <1>2, <2>1 DEF Bulking
  <2>3. Got(P, r) = Current(r).size
    BY <1>4, <1>5, <2>1 DEF Got
  <2> QED BY <1>1, <2>2, <2>3 DEF WireOf, Segment
<1>7. ~Ahead(r)
  <2>1. SUFFICES ASSUME Ahead(r) PROVE FALSE
    OBVIOUS
  <2>2. Out(P, r) = 0
    BY <1>1, <1>3, <2>1 DEF Out
  <2> QED BY <1>4, <1>5, <1>6, <2>1, <2>2
<1>8. ASSUME Level(r)
      PROVE  /\ SentAll(P, p) /\ P[p].pc \in {"idle", "bulkwait"} /\ IsKind(p, Bulk) /\ ~tp[p].win
             /\ Current(p) = Current(r) /\ wire[r] = <<>>
  <2>1. Current(p) = Current(r) /\ IsKind(p, Bulk)
    <3>1. n(r) > 0
      BY <1>4 DEF IsKind
    <3>2. Current(p) = Current(r)
      BY <1>8, <3>1, Sides
    <3> QED BY <1>3, <1>4, <1>8, <3>2 DEF IsKind
  <2>2. Out(P, r) = Sent(P, p)
    BY <1>1, <1>3, <1>8 DEF Out
  <2>3. Sent(P, p) >= Current(r).size /\ Sent(P, p) \in Nat
    BY <1>1, <1>4, <1>5, <1>6, <1>8, <2>2, BulkFacts
  <2>4. P[p].pc \in Body \cup {"idle"}
    <3>1. P[p].pc \notin Body \cup {"idle"} => Sent(P, p) = 0
      BY <1>1, BulkFacts
    <3> QED BY <1>4, <2>3, <3>1
  <2>5. /\ P[p].pc = "idle" \/ (P[p].pc = "bulkwait" /\ To(P, p) = Current(p).size)
        /\ Sent(P, p) = Current(r).size
    <3>1. CASE P[p].pc = "idle"
      BY <1>1, <2>1, <3>1, BulkFacts
    <3>2. CASE P[p].pc \in Body
      <4>1. /\ Sent(P, p) = IF P[p].pc = "bulkwait" THEN To(P, p) ELSE P[p].off
            /\ To(P, p) \in Nat /\ To(P, p) <= Current(p).size
        BY <1>1, <2>1, <3>2, BulkFacts
      <4>2. P[p].off < Current(p).size /\ P[p].off \in Nat
        <5>1. P[p].off < Current(p).size
          BY <1>1, <3>2 DEF PcOf
        <5> QED BY <1>1, <5>1, RankFacts
      <4> QED BY <1>4, <2>1, <2>3, <4>1, <4>2
    <3> QED BY <2>4, <3>1, <3>2
  <2>6. SentAll(P, p) /\ P[p].pc \in {"idle", "bulkwait"}
    BY <2>5 DEF SentAll
  <2>7. ~tp[p].win
    <3>1. ~IsKind(p, Row \cup {"aux"})
      BY <1>1, <2>1, KindPc
    <3> QED BY <1>1, <2>6, <3>1 DEF WindowOf, Body
  <2>8. wire[r] = <<>>
    <3>1. Len(wire[r]) = 0
      BY <1>4, <1>6, <1>8, <2>2, <2>5
    <3> QED BY <1>5, <3>1, EmptySeq
  <2> QED BY <2>1, <2>6, <2>7, <2>8
<1> QED BY <1>2, <1>7, <1>8

(* The last round ends: the operation returns.                             *)
LEMMA LastRoundInv ==
  ASSUME NEW P, NEW Q, NEW r \in Rank, NEW p, p = Peer(r), Inv(P), Typed', mode' = mode,
         FinishRound(r), Round(r).to = Current(r).size, Q = [P EXCEPT ![r] = op'[r]]
  PROVE  Inv(Q)'
<1>1. /\ op[r].pc = "bulkwait" /\ Return(r)
      /\ op[r].rd >= RoundLen(r) /\ op[r].sd >= RoundLen(r)
      /\ UNCHANGED <<plan, gates, tp, hdr, rq, wire, unacked, cq, inbuf>>
  BY DEF FinishRound, nicVars
<1>2. /\ Typed /\ P \in Progress /\ PcOf(P, r) /\ GateOf(P, r) /\ WindowOf(P, r) /\ QueueOf(P, r)
      /\ RecvOf(P, r) /\ DataOf(P, r) /\ SendOf(P, r) /\ AckOf(P, r) /\ WireOf(P, r) /\ WireOf(P, p)
      /\ DoneOf(P, r) /\ HeaderOf(P, r) /\ HeaderOf(P, p) /\ GateOf(P, p)
  BY Sides, InvOf
<1>3. op'[r].pc = "idle" /\ op'[p] = op[p] /\ done'[r] = done[r] + 1 /\ done'[p] = done[p]
  BY <1>1, <1>2, ReturnIs
<1>4. op[r].pc # "idle" /\ op[r].pc \in Body /\ P[r] = op[r]
  <2>1. op[r].pc # "idle" /\ op[r].pc \in Body
    BY <1>1 DEF Body
  <2>2. Turned(P, Q, r, p)
    BY <2>1, Turn
  <2> QED BY <2>1, <2>2 DEF Turned
<1>5. /\ Q \in Progress /\ Q[r] = op'[r] /\ Q[p] = P[p] /\ ~tp[r].failed
      /\ p \in Rank /\ p # r /\ Peer(p) = r
  <2>1. Turned(P, Q, r, p)
    BY <1>4, Turn
  <2> QED BY <2>1 DEF Turned
<1>6. Untouched(p)
  BY <1>1, <1>3 DEF Untouched
<1>7. /\ Own(Q, p)' /\ ProgramOf(r)' /\ ProgramOf(p)' /\ SendOf(Q, p)' /\ AckOf(Q, p)' /\ RowOf(Q, p)'
      /\ n(r)' = n(r) /\ Current(r)' = Current(r) /\ (WindowBefore(r)' <=> WindowBefore(r))
      /\ Seqno(r)' = Seqno(r) /\ Seqno(p)' = Seqno(p)
      /\ (\A ks : IsKind(r, ks)' <=> IsKind(r, ks)) /\ n(p)' = n(p)
      /\ (Level(r)' <=> Level(r)) /\ (Ahead(r)' <=> Ahead(r))
      /\ (Level(p)' <=> Level(p)) /\ (Ahead(p)' <=> Ahead(p))
      /\ Posted(Q, p)' = Posted(P, p) /\ Sent(Q, p)' = Sent(P, p)
      /\ SentDecode(Q, p)' = SentDecode(P, p) /\ Delivered(Q, p)' = Delivered(P, p)
  <2>1. Rested(P, Q, r, p)
    BY <1>1, <1>5, <1>6, Rest
  <2> QED BY <2>1 DEF Rested
<1>8. /\ rq[r] = <<>> /\ Len(rq[r]) = 0 /\ Count(cq[r], Received) = 0 /\ Awaited(P, r) = 0
      /\ \A i \in 1 .. Len(cq[r]) : cq[r][i].dir # "recv"
      /\ Posted(P, r) = To(P, r) /\ Sent(P, r) = To(P, r)
  BY <1>1, <1>4, RoundOver
<1>9. To(P, r) = Current(r).size
  BY <1>4, RoundIs
<1>10. /\ ~Ahead(r) /\ ~tp[r].win
       /\ Level(r) => SentAll(P, p) /\ P[p].pc \in {"idle", "bulkwait"} /\ IsKind(p, Bulk) /\ ~tp[p].win
                      /\ Current(p) = Current(r) /\ wire[r] = <<>>
  BY <1>1, <1>4, <1>8, <1>9, RowsReceived
<1>11. IsKind(r, Bulk) /\ ~IsKind(r, Row) /\ ~IsKind(r, {"aux"}) /\ ~IsKind(r, {"rgate"})
       /\ ~IsKind(r, Row \cup {"aux"})
  <2>1. IsKind(r, Bulk)
    BY <1>4, BulkFacts
  <2> QED BY <2>1, KindPc
<1>12. Q[r].pc \notin RowPc /\ Q[r].pc \notin HeadPc /\ Q[r].pc \notin Body /\ Q[r].pc \in DecodePc
       /\ Q[r].pc = "idle" /\ P[r].pc = "bulkwait" /\ P[r].pc \notin RowPc
  BY <1>1, <1>3, <1>4, <1>5 DEF RowPc, HeadPc, Body, DecodePc
<1>13. PcOf(Q, r)'
  BY <1>1, <1>5, <1>12 DEF PcOf, RowPc, HeadPc, Body
<1>14. WindowOf(Q, r)'
  BY <1>1, <1>2, <1>7, <1>10, <1>11, <1>12 DEF WindowOf
<1>15. GateOf(Q, r)' /\ gates[r] = tp[r].last
  BY <1>1, <1>2, <1>7, <1>11, <1>12 DEF GateOf
<1>16. DoneOf(Q, r)'
  <2>1. done[r] = n(r) - 1 /\ n(r) \in Nat
    BY <1>2, <1>12, RankFacts DEF DoneOf
  <2>2. done'[r] = n(r)
    BY <1>3, <2>1
  <2> QED BY <1>2, <1>7, <1>12, <2>1, <2>2 DEF DoneOf
<1>17. /\ End(r)' = First(mode)[tp[r].last + 1] /\ First(mode)[tp[r].last + 1] \in Nat
       /\ Delivered(Q, r)' = First(mode)[tp[r].last + 1] /\ Polled(Q, r)' = First(mode)[tp[r].last + 1]
       /\ Delivered(P, r) = First(mode)[tp[r].last + 1] /\ End(r)' \in Nat
  <2>1. End(r) = First(mode)[tp[r].last + 1] /\ First(mode)[tp[r].last + 1] \in Nat
    BY <1>2, <1>10, WindowFacts
  <2>2. End(r)' = First(mode)[tp[r].last + 1]
    BY <1>1, <2>1 DEF End
  <2>3. Delivered(Q, r)' = End(r)' - Len(rq'[r])
    BY <1>1, <1>12 DEF Delivered
  <2>4. Polled(Q, r)' = First(mode)[tp[r].last + 1]
    BY <1>1, <1>7, <1>11, <1>12 DEF Polled
  <2>5. Delivered(P, r) = First(mode)[tp[r].last + 1]
    BY <1>4, DeliveredIs
  <2> QED BY <1>1, <1>8, <2>1, <2>2, <2>3, <2>4, <2>5
<1>18. /\ Posted(Q, r)' = Current(r).size /\ Sent(Q, r)' = Current(r).size /\ Awaited(Q, r)' = 0
       /\ SentAll(Q, r)'
  BY <1>7, <1>11, <1>12 DEF Posted, Sent, Awaited, SentAll
<1>19. QueueOf(Q, r)'
  <2>1. End(r)' - 0 = End(r)' /\ End(r)' - End(r)' = 0
    BY <1>17
  <2>2. Len(rq'[r]) = 0 /\ rq'[r] = <<>>
    BY <1>1, <1>8
  <2>3. Stream(mode, rq'[r], End(r)' - Len(rq'[r]), End(r)')
    BY <2>1, <2>2 DEF Stream
  <2> QED BY <1>12, <2>2, <2>3, mode' = mode DEF QueueOf
<1>20. RecvOf(Q, r)'
  BY <1>1, <1>8, <1>12 DEF RecvOf
<1>21. /\ \A k \in 1 .. LastGate : k <= tp[r].last + 1 =>
            First(mode)[k] \in Nat /\ First(mode)[k] <= First(mode)[tp[r].last + 1]
       /\ \A k \in 1 .. LastGate : k < tp[r].last + 1 =>
            First(mode)[k] + mode.chunks <= First(mode)[tp[r].last + 1]
       /\ \A k \in 1 .. LastGate : k >= tp[r].last + 1 =>
            First(mode)[k] \in Nat /\ First(mode)[tp[r].last + 1] <= First(mode)[k]
  <2>1. tp[r].last + 1 \in 1 .. LastGate /\ Vector(mode)
    BY <1>2, WindowFacts, RankFacts
  <2>2. \A k \in 1 .. LastGate : k <= tp[r].last + 1 =>
            First(mode)[k] \in Nat /\ First(mode)[k] <= First(mode)[tp[r].last + 1]
            /\ (k < tp[r].last + 1 => First(mode)[k] + mode.chunks <= First(mode)[tp[r].last + 1])
    BY <2>1, FirstLe
  <2>3. \A k \in 1 .. LastGate : tp[r].last + 1 <= k =>
            First(mode)[k] \in Nat /\ First(mode)[tp[r].last + 1] <= First(mode)[k]
    BY <2>1, FirstLe
  <2>4. tp[r].last \in Nat /\ \A k \in 1 .. LastGate : k \in Int
    BY <1>2, RankFacts
  <2> QED BY <2>2, <2>3, <2>4
<1>22. MarkOf(Q, r)'
  <2>1. tp[r].recvDone \in Nat /\ tp[r].auxRecv \in Nat /\ tp[r].last \in Nat /\ LastGate \in Nat
    BY <1>2, RankFacts, LastGateNat
  <2>2. tp[r].recvDone <= tp[r].last /\ tp[r].auxRecv <= tp[r].last
    BY <1>2, <1>10 DEF WindowOf
  <2>3. tp[r].last + 1 \in 1 .. LastGate
    BY <1>2, WindowFacts
  <2>4. tp[r].recvDone >= 1 => First(mode)[tp[r].recvDone] + mode.chunks <= First(mode)[tp[r].last + 1]
    BY <1>21, <2>1, <2>2, <2>3
  <2>5. tp[r].auxRecv >= 1 => First(mode)[tp[r].auxRecv + 1] <= First(mode)[tp[r].last + 1]
    BY <1>21, <2>1, <2>2, <2>3
  <2>6. First(mode)[tp[r].last + 1] <= First(mode)[tp[r].last + 1]
    BY <1>17
  <2> QED BY <1>1, <1>8, <1>17, <2>4, <2>5, <2>6 DEF MarkOf
<1>23. DataOf(Q, r)'
  <2>1. ASSUME NEW k \in 1 .. LastGate - 1, k >= gates[r] + 1, NEW x \in Nat,
               First(mode)[k] + x < First(mode)[tp[r].last + 1]
        PROVE  FALSE
    <3>1. k \in 1 .. LastGate /\ k >= tp[r].last + 1
      BY <1>15, <2>1, LastGateNat
    <3>2. First(mode)[k] \in Nat /\ First(mode)[tp[r].last + 1] <= First(mode)[k]
      BY <1>21, <3>1
    <3> QED BY <1>17, <2>1, <3>2
  <2>2. mode.chunks \in Nat /\ \A j \in 1 .. mode.chunks : j - 1 \in Nat
    BY <1>2, RankFacts
  <2>3. ASSUME NEW k \in 1 .. LastGate - 1, k >= gates[r] + 1, NEW j \in 1 .. mode.chunks,
               First(mode)[k] + j - 1 < First(mode)[tp[r].last + 1]
        PROVE  FALSE
    <3>1. First(mode)[k] + (j - 1) < First(mode)[tp[r].last + 1]
      <4>1. k \in 1 .. LastGate
        BY LastGateNat
      <4>2. First(mode)[k] \in Nat
        BY <1>2, <4>1, RankFacts, FirstStep
      <4> QED BY <2>2, <2>3, <4>2
    <3> QED BY <2>1, <2>2, <2>3, <3>1
  <2>4. \A j \in 1 .. Posted(P, r) - Len(rq[r]) : inbuf[r][<<"bulk", j>>] = n(r)
    BY <1>2, <1>4, <1>11 DEF DataOf
  <2>5. \A j \in 1 .. Current(r).size - Len(rq[r]) : inbuf'[r][<<"bulk", j>>] = n(r)
    BY <1>1, <1>8, <1>9, <2>4
  <2>6. \A k \in 1 .. LastGate - 1 :
         k >= gates'[r] + (IF IsKind(r, Bulk)' THEN 1 ELSE 0) =>
           /\ \A j \in 1 .. mode'.chunks :
                First(mode')[k] + j - 1 < Delivered(Q, r)' => inbuf'[r][<<"gate", SlotOf(k), j>>] = k
           /\ Eligible(mode', k) /\ First(mode')[k] + mode'.chunks < Delivered(Q, r)' =>
                inbuf'[r][<<"aux", SlotOf(k), 1>>] = k
    BY <1>1, <1>7, <1>11, <1>17, <2>1, <2>2, <2>3
  <2>7. IsKind(r, Bulk)' /\ Q[r].pc \in Body \cup {"idle"} =>
       \A j \in 1 .. Posted(Q, r)' - Len(rq'[r]) : inbuf'[r][<<"bulk", j>>] = n(r)'
    BY <1>1, <1>7, <1>18, <2>5
  <2> QED BY <2>6, <2>7 DEF DataOf
<1>24. SyncOf(Q, p)'
  BY <1>1, <1>5, <1>12, <1>18, SyncPeer
<1>25. SyncOf(Q, r)'
  <2>1. Q[r].pc \notin {"drain", "drainwait"} \cup Body /\ P[r].pc # "idle"
    BY <1>12 DEF Body
  <2> QED BY <1>1, <1>5, <1>10, <1>12, <2>1, SyncOwn
<1>26. SendOf(Q, r)'
  BY <1>1, <1>2, <1>8, <1>18 DEF SendOf
<1>27. SentDecode(Q, r)' = SentDecode(P, r) /\ SentDecode(P, r) = First(mode)[gates[r] + 1]
  BY <1>1, <1>7, <1>11, <1>12 DEF SentDecode
<1>28. AckOf(Q, r)' /\ RowOf(Q, r)'
  <2>1. AckOf(Q, r)'
    BY <1>1, <1>2, <1>7, <1>11, <1>27 DEF AckOf
  <2> QED BY <1>7, <1>11, <2>1 DEF RowOf
<1>29. HeaderOf(Q, r)' /\ HeaderOf(Q, p)'
  <2>1. HeaderOf(Q, r)'
    BY <1>1, <1>2, <1>5, <1>7, HeaderSame
  <2>2. HeaderOf(Q, p)'
    BY <1>1, <1>2, <1>5, <1>7, <1>12, HeaderSame
  <2> QED BY <2>1, <2>2
<1>30. /\ n(r) \in Nat /\ n(p) \in Nat /\ (Level(r) <=> n(r) = n(p)) /\ (Level(p) <=> n(r) = n(p))
       /\ (Level(r) \/ Ahead(p)) /\ n(p) >= n(r) /\ ~(n(p) < n(r)) /\ (~Level(r) <=> n(r) < n(p))
       /\ (Level(r) <=> n(r) >= n(p))
  <2>1. n(r) \in Nat /\ n(p) \in Nat
    BY <1>2, <1>5, RankFacts
  <2>2. /\ (Level(r) <=> n(r) = n(p)) /\ (Level(p) <=> n(r) = n(p)) /\ (Level(r) \/ Ahead(p))
        /\ (Ahead(p) <=> n(p) = n(r) + 1)
    BY <1>10, Sides
  <2> QED BY <2>1, <2>2
<1>31. ~Filling(P, r) /\ ~Filling(P, p) /\ ~Filling(Q, r)' /\ ~Filling(Q, p)'
  BY <1>1, <1>5, <1>7, <1>10, <1>30 DEF Filling
<1>32. /\ Bulking(Q, r)' <=> P[p].pc \in Body
       /\ Bulking(Q, p)' <=> P[p].pc \in Body
       /\ Bulking(P, r) <=> Level(r) \/ P[p].pc \in Body
       /\ Bulking(P, p) <=> Level(r) \/ P[p].pc \in Body
  BY <1>4, <1>5, <1>7, <1>12, <1>30, <1>31 DEF Bulking
<1>33. CASE Level(r) /\ P[p].pc \notin Body
  <2>1. P[p].pc = "idle" /\ IsKind(p, Bulk) /\ ~IsKind(p, Row) /\ wire[r] = <<>> /\ gates[p] = gates[r]
        /\ gates[p] = tp[p].last
    <3>1. P[p].pc = "idle" /\ IsKind(p, Bulk) /\ wire[r] = <<>> /\ gates[p] = gates[r]
      BY <1>10, <1>33, Sides DEF Body
    <3>2. P[p].pc \notin RowPc
      BY <3>1 DEF RowPc
    <3>3. gates[p] = tp[p].last
      BY <1>2, <3>2 DEF GateOf
    <3> QED BY <1>5, <3>1, <3>3, KindPc
  <2>2. wire[p] = <<>> /\ rq[p] = <<>> /\ ~tp[p].win
    <3>1. wire[r] = <<>> /\ wire[p] = <<>> /\ rq[p] = <<>> /\ ~tp[p].win
      BY <1>4, <1>5, <1>30, <1>33, <2>1, CaughtUp
    <3> QED BY <3>1
  <2>3. SentDecode(P, p) = First(mode)[gates[p] + 1]
    BY <2>1 DEF SentDecode
  <2>4. Delivered(P, p) = First(mode)[tp[p].last + 1]
    BY <1>5, <1>33, <2>2, DeliveredIs
  <2>5. First(mode)[tp[r].last + 1] - First(mode)[tp[r].last + 1] = 0
    BY <1>17
  <2>6. Len(wire'[r]) = 0 /\ Len(wire'[p]) = 0
    BY <1>1, <2>1, <2>2
  <2>7. Stream(mode, wire'[r], Delivered(Q, r)', SentDecode(Q, p)')
    BY <1>7, <1>15, <1>17, <2>1, <2>3, <2>5, <2>6 DEF Stream
  <2>8. Stream(mode, wire'[p], Delivered(Q, p)', SentDecode(Q, r)')
    BY <1>7, <1>15, <1>27, <2>1, <2>4, <2>5, <2>6 DEF Stream
  <2>9. WireOf(Q, r)' /\ WireOf(Q, p)'
    BY <1>5, <1>31, <1>32, <1>33, <2>7, <2>8, mode' = mode DEF WireOf
  <2> QED BY <1>5, <1>7, <1>13, <1>14, <1>15, <1>16, <1>19, <1>20, <1>22, <1>23, <1>24, <1>25, <1>26, <1>28,
             <1>29, <2>9, Whole DEF Own, Shared
<1>34. CASE ~(Level(r) /\ P[p].pc \notin Body)
  <2>1. (Bulking(Q, r)' <=> Bulking(P, r)) /\ (Bulking(Q, p)' <=> Bulking(P, p))
    BY <1>32, <1>34
  <2>2. Got(Q, r)' = Got(P, r) /\ Out(Q, r)' = Out(P, r) /\ Got(Q, p)' = Got(P, p) /\ Out(Q, p)' = Out(P, p)
    BY <1>1, <1>5, <1>7, <1>8, <1>9, <1>18 DEF Got, Out
  <2>3. Delivered(Q, r)' = Delivered(P, r)
    BY <1>17
  <2>4. WireOf(Q, r)'
    BY <1>1, <1>2, <1>5, <1>7, <1>31, <2>1, <2>2, <2>3, WireFrame
  <2>5. WireOf(Q, p)'
    BY <1>1, <1>2, <1>5, <1>7, <1>27, <1>31, <2>1, <2>2, WireFrame
  <2> QED BY <1>5, <1>7, <1>13, <1>14, <1>15, <1>16, <1>19, <1>20, <1>22, <1>23, <1>24, <1>25, <1>26, <1>28,
             <1>29, <2>4, <2>5, Whole DEF Own, Shared
<1> QED BY <1>33, <1>34

(* What a message says.                                                    *)
LEMMA MsgTag ==
  /\ \A k, i, x, t, g : Msg(k, i, x, t, g).tag = t /\ Msg(k, i, x, t, g).sig = g
  /\ \A k, j : BulkMsg(k, j).tag = "bulk"
BY DEF Msg, BulkMsg

(* While the peer of a rank fills its window, or bulk messages go, nothing *)
(* else is on the wire.                                                    *)
LEMMA BulkTags ==
  ASSUME NEW P, NEW s \in Rank, Inv(P), Filling(P, s) \/ Bulking(P, s)
  PROVE  \A i \in 1 .. Len(wire[s]) : wire[s][i].tag = "bulk"
<1>1. WireOf(P, s) /\ Typed /\ P \in Progress
  BY InvOf
<1>2. Len(rq[s]) \in Nat /\ Len(wire[s]) \in Nat
  BY <1>1, RankFacts
<1>3. CASE Filling(P, s)
  <2>1. Filled(wire[s], rq[s], n(s))
    BY <1>1, <1>3 DEF WireOf
  <2>2. ASSUME NEW i \in 1 .. Len(wire[s]) PROVE wire[s][i].tag = "bulk"
    <3>1. i \in 1 .. Len(rq[s]) \/ i \in Len(rq[s]) + 1 .. Len(wire[s])
      BY <1>2
    <3>2. ASSUME i \in 1 .. Len(rq[s]) PROVE wire[s][i].tag = "bulk"
      <4>1. wire[s][i] = Msg(rq[s][i].kind, 0, rq[s][i].part, "bulk", i = Len(rq[s]))
        BY <2>1, <3>2 DEF Filled
      <4> QED BY <4>1, MsgTag
    <3>3. ASSUME i \in Len(rq[s]) + 1 .. Len(wire[s]) PROVE wire[s][i].tag = "bulk"
      <4>1. wire[s][i] = BulkMsg(n(s), i - Len(rq[s]))
        BY <2>1, <3>3 DEF Filled
      <4> QED BY <4>1, MsgTag
    <3> QED BY <3>1, <3>2, <3>3
  <2> QED BY <2>2
<1>4. CASE Bulking(P, s)
  <2>1. Segment(wire[s], n(Peer(s)), Got(P, s), Out(P, s))
    BY <1>1, <1>4 DEF WireOf
  <2>2. ASSUME NEW i \in 1 .. Len(wire[s]) PROVE wire[s][i].tag = "bulk"
    <3>1. wire[s][i] = BulkMsg(n(Peer(s)), Got(P, s) + i)
      BY <2>1 DEF Segment
    <3> QED BY <3>1, MsgTag
  <2> QED BY <2>2
<1> QED BY <1>3, <1>4

(* The drain ends.                                                         *)
LEMMA FinishDrainInv ==
  ASSUME NEW P, NEW Q, NEW r \in Rank, NEW p, p = Peer(r), Inv(P), Typed', mode' = mode,
         FinishDrain(r), Q = [P EXCEPT ![r] = op'[r]]
  PROVE  Inv(Q)'
<1>1. /\ op[r].pc = "drainwait" /\ op[r].rd >= DrainCount(r) /\ op[r].sd = 1
      /\ tp' = [tp EXCEPT ![r] = AfterDrain(@)] /\ StartLoop(r, "post", 0)
      /\ UNCHANGED <<plan, done, gates, hdr, rq, wire, unacked, cq, inbuf>>
  BY DEF FinishDrain, nicVars
<1>2. /\ Typed /\ P \in Progress /\ PcOf(P, r) /\ GateOf(P, r) /\ WindowOf(P, r) /\ QueueOf(P, r)
      /\ RecvOf(P, r) /\ DataOf(P, r) /\ SendOf(P, r) /\ AckOf(P, r) /\ WireOf(P, r) /\ WireOf(P, p)
      /\ SyncOf(P, r) /\ SyncOf(P, p) /\ PcOf(P, p) /\ WindowOf(P, p)
  BY Sides, InvOf
<1>3. op'[r].pc = "post" /\ op'[r].off = 0 /\ op'[r].rd = 0 /\ op'[r].sd = 0 /\ op'[p] = op[p]
  BY <1>1, <1>2, LoopBegins
<1>4. P[r] = op[r]
  <2>1. Turned(P, Q, r, p)
    BY <1>1, Turn
  <2> QED BY <2>1 DEF Turned
<1>5. /\ tp'[p] = tp[p] /\ tp'[r].win = FALSE /\ tp'[r].last = tp[r].last /\ tp'[r].failed = tp[r].failed
      /\ tp'[r].recvDone = tp[r].last /\ tp'[r].auxRecv = tp[r].last /\ tp'[r].auxSend = tp[r].last
  <2>1. tp \in [Rank -> [win : BOOLEAN, last : Nat, recvDone : Nat, auxRecv : Nat, auxSend : Nat,
                          failed : BOOLEAN, closed : BOOLEAN]] /\ p \in Rank /\ p # r
    BY <1>2, TwoRanks DEF Typed, TpType
  <2>2. tp'[r] = AfterDrain(tp[r]) /\ tp'[p] = tp[p]
    BY <1>1, <2>1
  <2>3. tp[r] \in [win : BOOLEAN, last : Nat, recvDone : Nat, auxRecv : Nat, auxSend : Nat,
                   failed : BOOLEAN, closed : BOOLEAN]
    BY <2>1
  <2> QED BY <2>2, <2>3 DEF AfterDrain
<1>6. op[r].pc \in BulkPc /\ op'[r].pc \in BulkPc /\ op'[r].pc # "announce" /\ op'[r].pc \notin HeadPc
      /\ op'[r].pc # "drainwait" /\ op[r].pc \notin Body /\ op'[r].pc \in Body /\ op[r].pc # "idle"
      /\ op[r].pc \notin HeadPc /\ op[r].pc \notin Body \cup {"idle"}
  BY <1>1, <1>3 DEF BulkPc, HeadPc, Body
<1>7. op'[r].pc \in Body => op'[r].off < Current(r).size
  <2>1. IsKind(r, Bulk)
    BY <1>1, <1>2, <1>4 DEF PcOf
  <2>2. Current(r).size \in Nat /\ Current(r).size >= 1
    BY <2>1, BulkFacts
  <2> QED BY <1>3, <2>2
<1>8. Untouched(p)
  BY <1>1, <1>3, <1>5 DEF Untouched
<1>9. tp'[r].recvDone < LastGate /\ tp'[r].auxRecv < LastGate /\ tp'[r].auxSend < LastGate
  <2>1. tp[r].last \in Nat /\ tp[r].last + 1 \in 1 .. LastGate
    BY <1>2, RankFacts, WindowFacts
  <2>2. tp[r].last < LastGate
    BY <2>1, LastGateNat
  <2> QED BY <1>5, <2>2
<1>10. /\ Q \in Progress /\ Q[r] = op'[r] /\ Q[p] = P[p]
      /\ p \in Rank /\ p # r /\ Peer(p) = r
      /\ Own(Q, p)' /\ ProgramOf(r)' /\ ProgramOf(p)' /\ SendOf(Q, p)' /\ AckOf(Q, p)' /\ RowOf(Q, p)'
      /\ PcOf(Q, r)' /\ GateOf(Q, r)' /\ DoneOf(Q, r)' /\ MarkOf(Q, r)' /\ RowOf(Q, r)'
      /\ HeaderOf(Q, r)' /\ HeaderOf(Q, p)'
      /\ IsKind(r, Bulk) /\ ~IsKind(r, Row) /\ ~IsKind(r, {"aux"}) /\ ~IsKind(r, {"rgate"})
      /\ n(r)' = n(r) /\ Current(r)' = Current(r)
      /\ (\A ks : IsKind(r, ks)' <=> IsKind(r, ks)) /\ n(p)' = n(p)
      /\ (Level(r)' <=> Level(r)) /\ (Level(p)' <=> Level(p))
      /\ Posted(Q, p)' = Posted(P, p) /\ Sent(Q, p)' = Sent(P, p)
      /\ SentDecode(Q, r)' = SentDecode(P, r) /\ SentDecode(P, r) = First(mode)[gates[r] + 1]
      /\ gates[r] = tp[r].last
  <2>1. BulkStepped(P, Q, r, p)
    BY <1>1, <1>3, <1>5, <1>6, <1>7, <1>8, <1>9, BulkStep
  <2> QED BY <2>1 DEF BulkStepped
<1>11. WindowBefore(r) /\ tp[r].win
  BY <1>1, <1>2, <1>4 DEF WindowOf
<1>12. /\ rq[r] = <<>> /\ Len(rq[r]) = 0 /\ Count(cq[r], Received) = 0
       /\ \A i \in 1 .. Len(cq[r]) : cq[r][i].dir # "recv"
  <2>1. Count(cq[r], Received) + Len(rq[r]) + P[r].rd = WindowLen(r)
    BY <1>1, <1>2, <1>4 DEF RecvOf
  <2>2. Len(rq[r]) \in Nat /\ Count(cq[r], Received) \in Nat /\ P[r].rd \in Nat /\ rq[r] \in Seq(Message)
        /\ cq[r] \in Seq(Completion) /\ Len(cq[r]) \in Nat /\ WindowLen(r) \in Nat /\ DrainCount(r) = WindowLen(r)
    BY <1>2, RankFacts, CountType, WindowFacts
  <2>3. Len(rq[r]) = 0 /\ Count(cq[r], Received) = 0
    BY <1>1, <1>4, <2>1, <2>2
  <2>4. rq[r] = <<>>
    BY <2>2, <2>3, EmptySeq
  <2>5. \A i \in 1 .. Len(cq[r]) : cq[r][i].dir # "recv"
    <3>1. \A i \in 1 .. Len(cq[r]) : cq[r][i] \notin Received
      BY <2>2, <2>3, CountZero
    <3> QED BY <2>2, <3>1 DEF Received
  <2> QED BY <2>3, <2>4, <2>5
<1>13. Posted(Q, r)' = 0 /\ Sent(Q, r)' = 0 /\ Posted(P, r) = 0 /\ Sent(P, r) = 0 /\ Awaited(Q, r)' = 0
       /\ Awaited(P, r) = 0 /\ ~SentAll(P, r)
  <2>1. Posted(Q, r)' = 0 /\ Sent(Q, r)' = 0
    BY <1>3, <1>6, <1>10 DEF Posted, Sent
  <2>2. Posted(P, r) = 0 /\ Sent(P, r) = 0
    BY <1>4, <1>6, BulkFacts
  <2>3. Awaited(Q, r)' = 0 /\ Awaited(P, r) = 0 /\ ~SentAll(P, r)
    BY <1>1, <1>3, <1>4, <1>10 DEF Awaited, SentAll
  <2> QED BY <2>1, <2>2, <2>3
<1>14. /\ n(r) \in Nat /\ n(p) \in Nat /\ Level(r) /\ Level(p) /\ n(r) = n(p)
  <2>1. ~Ahead(r)
    BY <1>1, <1>2, <1>4, <1>11 DEF SyncOf
  <2>2. ~Ahead(p)
    BY <1>2, <1>10, <1>13 DEF SyncOf
  <2>3. n(r) \in Nat /\ n(p) \in Nat
    BY <1>2, <1>10, RankFacts
  <2> QED BY <2>1, <2>2, <2>3, Sides
<1>15. IsKind(p, Bulk) /\ gates[p] = gates[r]
  <2>1. n(r) > 0
    BY <1>10 DEF IsKind
  <2> QED BY <1>10, <1>14, <2>1, Sides DEF IsKind
<1>16. P[p].pc \notin HeadPc
  <2>1. SUFFICES ASSUME P[p].pc \in HeadPc PROVE FALSE
    OBVIOUS
  <2>2. P[p].pc \notin {"drainwait"} \cup Body /\ P[p].pc \notin {"arm", "send"}
    BY <2>1 DEF HeadPc, Body
  <2>3. ~Filling(P, r) /\ ~Bulking(P, r)
    BY <1>4, <1>6, <2>2 DEF Filling, Bulking
  <2>4. Delivered(P, r) <= SentDecode(P, p) /\ SentDecode(P, p) \in Nat
    BY <2>3, DecodeWire
  <2>5. SentDecode(P, p) = First(mode)[tp[r].last + 1]
    BY <1>10, <1>15, <2>2, KindPc DEF SentDecode
  <2>6. Delivered(P, r) = End(r)
    <3>1. Delivered(P, r) = End(r) - 0
      BY <1>4, <1>6, <1>12, DeliveredIs
    <3> QED BY <1>2, <3>1, WindowFacts
  <2> QED BY <1>2, <1>11, <2>4, <2>5, <2>6, WindowFacts
<1>17. P[p].pc \in {"drainwait"} \cup Body
  <2>1. P[p].pc # "idle"
    BY <1>2, <1>10, <1>13, <1>14 DEF SyncOf
  <2> QED BY <1>10, <1>15, <1>16, <2>1, KindPc
<1>18. WindowOf(Q, r)'
  <2>1. tp[r].last <= tp[r].last
    BY <1>2, RankFacts
  <2> QED BY <1>3, <1>5, <1>6, <1>10, <2>1 DEF WindowOf
<1>19. QueueOf(Q, r)'
  BY <1>1, <1>6, <1>10, <1>12, <1>13 DEF QueueOf, Segment
<1>20. RecvOf(Q, r)'
  BY <1>1, <1>3, <1>6, <1>10, <1>12, <1>13 DEF RecvOf
<1>21. DataOf(Q, r)'
  <2>1. Q[r].pc \notin DecodePc
    BY <1>3, <1>10 DEF DecodePc, RowPc
  <2>2. Posted(Q, r)' - Len(rq'[r]) = 0
    BY <1>1, <1>12, <1>13
  <2>3. ~\E k \in 1 .. Posted(Q, r)' - Len(rq'[r]) : TRUE
    BY <2>2
  <2> QED BY <2>1, <2>3 DEF DataOf
<1>22. SyncOf(Q, p)'
  BY <1>1, <1>3, <1>6, <1>10, <1>13, SyncPeer
<1>23. SyncOf(Q, r)'
  <2>1. P[r].pc # "idle" /\ P[r].pc \in {"drain", "drainwait"} \cup Body /\ Q[r].pc # "idle"
    BY <1>1, <1>3, <1>4, <1>10
  <2> QED BY <1>1, <1>10, <1>16, <2>1, SyncOwn
<1>24. SendOf(Q, r)'
  BY <1>1, <1>2, <1>13 DEF SendOf
<1>25. Filling(P, r) /\ (Filling(P, p) \/ Bulking(P, p))
       /\ ~Filling(Q, r)' /\ Bulking(Q, r)' /\ (Filling(Q, p)' <=> Filling(P, p))
       /\ (Bulking(Q, p)' <=> Bulking(P, p))
  <2>1. Filling(P, r) /\ ~Filling(Q, r)'
    BY <1>5, <1>11, <1>14, <1>17 DEF Filling
  <2>2. (Filling(P, p) <=> tp[p].win) /\ (Filling(Q, p)' <=> tp[p].win)
    BY <1>1, <1>4, <1>5, <1>6, <1>10, <1>14 DEF Filling
  <2>3. ~tp[p].win => P[p].pc \in Body
    BY <1>2, <1>17 DEF WindowOf
  <2>4. n(p) >= n(r) /\ n(r) >= n(p)
    BY <1>14
  <2>5. Bulking(P, p) <=> ~tp[p].win
    BY <1>4, <1>6, <1>10, <2>2, <2>3, <2>4 DEF Bulking
  <2>6. Bulking(Q, p)' <=> ~tp[p].win
    BY <1>6, <1>10, <2>2, <2>3, <2>4 DEF Bulking
  <2>7. Bulking(Q, r)'
    BY <1>6, <1>10, <2>1, <2>4 DEF Bulking
  <2> QED BY <2>1, <2>2, <2>5, <2>6, <2>7
<1>26. AckOf(Q, r)'
  <2>1. \A i \in 1 .. Len(wire[p]) : wire[p][i].tag = "bulk"
    BY <1>10, <1>25, BulkTags
  <2>2. First(mode)[tp[r].last + 1] <= First(mode)[gates[r] + 1]
    BY <1>2, <1>10, WindowFacts
  <2>3. \A y : Before(mode, y, wire[p])'
    BY <1>1, <2>1 DEF Before
  <2>4. AckOf(P, r)
    BY <1>2
  <2>5. \A i \in 1 .. Len(unacked'[r]) : unacked'[r][i].tag # "bulk" =>
          Unit(mode, unacked'[r][i]) /\ Number(mode, unacked'[r][i]) < SentDecode(Q, r)'
    BY <1>1, <1>10, <2>4 DEF AckOf, Behind, AckSent, AckDone, AckAux, AckRow
  <2>6. \A i \in 1 .. Len(cq'[r]) : cq'[r][i].dir = "send" /\ cq'[r][i].tag # "bulk" =>
          Unit(mode, cq'[r][i]) /\ Number(mode, cq'[r][i]) < SentDecode(Q, r)'
    BY <1>1, <1>10, <2>4 DEF AckOf, Behind, AckSent, AckDone, AckAux, AckRow
  <2> QED BY <1>5, <1>10, <2>2, <2>3, <2>5, <2>6, mode' = mode DEF AckOf, Behind, AckSent, AckDone, AckAux, AckRow
<1>27. WireOf(Q, r)'
  <2>1. Filled(wire[r], rq[r], n(r)) /\ Len(wire[r]) = Len(rq[r]) + Sent(P, p)
    BY <1>2, <1>25 DEF WireOf
  <2>2. Len(wire[r]) \in Nat /\ Sent(P, p) \in Nat
    BY <1>2, <1>10, RankFacts, BulkFacts
  <2>3. Got(Q, r)' = 0 /\ Out(Q, r)' = Sent(P, p)
    BY <1>1, <1>10, <1>12, <1>13, <1>14 DEF Got, Out
  <2>4. Len(wire[r]) = Sent(P, p) - 0 /\ \A i \in 1 .. Len(wire[r]) : wire[r][i] = BulkMsg(n(p), 0 + i)
    <3>1. \A i \in 1 .. Len(wire[r]) : i \in 0 + 1 .. Len(wire[r]) /\ i - 0 = 0 + i
      BY <2>2
    <3>2. \A i \in 0 + 1 .. Len(wire[r]) : wire[r][i] = BulkMsg(n(r), i - 0)
      BY <1>12, <2>1 DEF Filled
    <3> QED BY <1>12, <1>14, <2>1, <2>2, <3>1, <3>2
  <2>5. Segment(wire'[r], n(p)', Got(Q, r)', Out(Q, r)')
    BY <1>1, <1>10, <2>3, <2>4 DEF Segment
  <2> QED BY <1>10, <1>25, <2>5 DEF WireOf
<1>28. WireOf(Q, p)'
  <2>1. Got(Q, p)' = Got(P, p) /\ Out(Q, p)' = Out(P, p)
    BY <1>1, <1>10, <1>13 DEF Got, Out
  <2> QED BY <1>1, <1>2, <1>10, <1>13, <1>25, <2>1, WireFrame
<1> QED BY <1>10, <1>18, <1>19, <1>20, <1>21, <1>22, <1>23, <1>24, <1>26, <1>27, <1>28, Whole DEF Own, Shared

(* A rank that starts to drain finds its peer before its rows, with its    *)
(* window open and everything sent before delivered.                       *)
LEMMA DrainMeets ==
  ASSUME NEW P, NEW r \in Rank, NEW p, p = Peer(r), Inv(P), P[r].pc = "drain", tp[r].win
  PROVE  /\ Level(r) /\ Level(p) /\ n(r) = n(p) /\ WindowBefore(r) /\ tp[p].win
         /\ P[p].pc \in HeadPc \cup {"drainwait"} /\ tp[p].last = tp[r].last /\ gates[r] = tp[r].last
         /\ ~Filling(P, p) /\ ~Bulking(P, p) /\ ~Bulking(P, r)
         /\ wire[p] = <<>> /\ Len(rq[p]) = WindowLen(r)
         /\ Stream(mode, rq[p], First(mode)[tp[r].last + 1], End(p))
<1>1. /\ Typed /\ P \in Progress /\ PcOf(P, r) /\ WindowOf(P, r) /\ GateOf(P, r) /\ SyncOf(P, r)
      /\ p \in Rank /\ Peer(p) = r /\ PcOf(P, p) /\ WindowOf(P, p) /\ GateOf(P, p) /\ SyncOf(P, p)
      /\ QueueOf(P, p) /\ RecvOf(P, p) /\ P[r].pc \in HeadPc /\ P[r].pc \notin Body /\ P[r].pc \notin RowPc
      /\ ~SentAll(P, r) /\ P[r].pc \notin {"drainwait"} \cup Body
  BY Sides, InvOf DEF HeadPc, Body, RowPc, SentAll
<1>2. WindowBefore(r) /\ gates[r] = tp[r].last
  BY <1>1 DEF WindowOf, GateOf
<1>3. Level(r) /\ Level(p) /\ n(r) = n(p)
  <2>1. ~Ahead(r)
    BY <1>1, <1>2 DEF SyncOf
  <2>2. ~Ahead(p)
    BY <1>1 DEF SyncOf
  <2> QED BY <2>1, <2>2, Sides
<1>4. IsKind(p, Bulk) /\ gates[p] = gates[r] /\ WindowBefore(p) /\ IsKind(r, Bulk)
  <2>1. IsKind(r, Bulk) /\ n(r) > 0
    BY <1>1 DEF PcOf, IsKind
  <2> QED BY <1>2, <1>3, <2>1, Sides DEF IsKind
<1>5. P[p].pc \in HeadPc \cup {"drainwait"}
  <2>1. P[p].pc # "idle"
    BY <1>1, <1>3 DEF SyncOf
  <2>2. P[p].pc \notin Body
    BY <1>1, <1>3, <1>4 DEF SyncOf
  <2> QED BY <1>1, <1>4, <2>1, <2>2, KindPc
<1>6. P[p].pc \notin Body /\ P[p].pc \notin RowPc /\ P[r].pc \notin {"arm", "send"}
  BY <1>1, <1>5 DEF HeadPc, Body, RowPc
<1>7. tp[p].win /\ tp[p].last = tp[r].last
  <2>1. tp[p].win
    BY <1>1, <1>4, <1>5 DEF WindowOf
  <2>2. gates[p] = tp[p].last
    BY <1>1, <1>6 DEF GateOf
  <2> QED BY <1>2, <1>4, <2>1, <2>2
<1>8. ~Filling(P, p) /\ ~Bulking(P, p) /\ ~Bulking(P, r)
  BY <1>1, <1>6 DEF Filling, Bulking
<1>9. WindowLen(p) = WindowLen(r)
  BY <1>7 DEF WindowLen
<1>10. /\ WindowLen(r) \in Nat /\ First(mode)[tp[r].last + 1] \in Nat
       /\ End(p) = First(mode)[tp[r].last + 1] + WindowLen(r)
  <2>1. End(p) = First(mode)[tp[p].last + 1] + WindowLen(p) /\ First(mode)[tp[p].last + 1] \in Nat
        /\ WindowLen(p) \in Nat
    BY <1>1, <1>7, WindowFacts
  <2> QED BY <1>7, <1>9, <2>1
<1>11. Len(rq[p]) \in Nat /\ Len(rq[p]) <= WindowLen(r) /\ wire[p] \in Seq(Message)
  <2>1. Len(rq[p]) \in Nat /\ Count(cq[p], Received) \in Nat /\ P[p].rd \in Nat /\ wire[p] \in Seq(Message)
    BY <1>1, RankFacts, CountType
  <2>2. CASE P[p].pc \in HeadPc
    <3>1. Count(cq[p], Received) + Len(rq[p]) = WindowLen(p)
      BY <1>1, <1>7, <2>2 DEF RecvOf
    <3> QED BY <1>9, <1>10, <2>1, <3>1
  <2>3. CASE P[p].pc = "drainwait"
    <3>1. Count(cq[p], Received) + Len(rq[p]) + P[p].rd = WindowLen(p)
      BY <1>1, <2>3 DEF RecvOf
    <3> QED BY <1>9, <1>10, <2>1, <3>1
  <2> QED BY <1>5, <2>2, <2>3
<1>12. Delivered(P, p) = First(mode)[tp[r].last + 1] + WindowLen(r) - Len(rq[p])
  <2>1. Delivered(P, p) = End(p) - Len(rq[p])
    BY <1>1, <1>6, DeliveredIs
  <2> QED BY <1>10, <2>1
<1>13. SentDecode(P, r) = First(mode)[tp[r].last + 1]
  BY <1>1, <1>2, <1>4, <1>6, KindPc DEF SentDecode
<1>14. Len(wire[p]) = SentDecode(P, r) - Delivered(P, p) /\ Len(wire[p]) \in Nat
  BY <1>1, <1>8, DecodeWire
<1>15. Len(rq[p]) = WindowLen(r) /\ Len(wire[p]) = 0
  BY <1>10, <1>11, <1>12, <1>13, <1>14
<1>16. wire[p] = <<>>
  BY <1>11, <1>15, EmptySeq
<1>17. Stream(mode, rq[p], First(mode)[tp[r].last + 1], End(p))
  <2>1. Stream(mode, rq[p], End(p) - Len(rq[p]), End(p))
    BY <1>1, <1>6 DEF QueueOf
  <2>2. End(p) - Len(rq[p]) = First(mode)[tp[r].last + 1]
    BY <1>10, <1>15
  <2> QED BY <2>1, <2>2
<1> QED BY <1>2, <1>3, <1>5, <1>7, <1>8, <1>15, <1>16, <1>17

(* The filler is sent.                                                     *)
LEMMA SendFillerInv ==
  ASSUME NEW P, NEW Q, NEW r \in Rank, NEW p, p = Peer(r), Inv(P), Typed', mode' = mode,
         SendFiller(r), Q = [P EXCEPT ![r] = op'[r]]
  PROVE  Inv(Q)'
<1> DEFINE s == ReceivesOf(<<DrainFrom(r), DrainTo(r)>>)
           f == Filler(DrainFrom(r), DrainTo(r))
<1>1. /\ op[r].pc = "drain" /\ tp[r].win /\ Send(r, f) /\ StartLoop(r, "drainwait", 0)
      /\ UNCHANGED <<plan, done, gates, tp, hdr, rq, unacked, cq, inbuf>>
  BY DEF SendFiller
<1>2. /\ Typed /\ P \in Progress /\ PcOf(P, r) /\ GateOf(P, r) /\ WindowOf(P, r) /\ QueueOf(P, r)
      /\ RecvOf(P, r) /\ DataOf(P, r) /\ SendOf(P, r) /\ AckOf(P, r) /\ WireOf(P, r) /\ WireOf(P, p)
  BY Sides, InvOf
<1>3. op'[r].pc = "drainwait" /\ op'[r].off = 0 /\ op'[r].rd = 0 /\ op'[r].sd = 0 /\ op'[p] = op[p]
  BY <1>1, <1>2, LoopBegins
<1>4. wire'[p] = wire[p] \o f /\ wire'[r] = wire[r]
  BY <1>1, <1>2, SendIs
<1>5. /\ s \in Seq(Message) /\ f \in Seq(Message) /\ Len(f) = Len(s) /\ Len(s) \in Nat
      /\ Stream(mode, s, First(mode)[tp[r].last + 1], First(mode)[tp[r].last + Window + 1])
      /\ \A i \in 1 .. Len(s) : f[i] = Msg(s[i].kind, 0, s[i].part, "bulk", i = Len(s))
  BY <1>2, FillerTyped
<1>6. Len(s) = WindowLen(r)
  <2>1. DrainCount(r) = WindowLen(r)
    BY <1>2, WindowFacts
  <2> QED BY <2>1 DEF DrainCount
<1> HIDE DEF s, f
<1>7. P[r] = op[r]
  <2>1. Turned(P, Q, r, p)
    BY <1>1, Turn
  <2> QED BY <2>1 DEF Turned
<1>8. op[r].pc \in BulkPc /\ op'[r].pc \in BulkPc /\ op'[r].pc # "announce" /\ op'[r].pc \notin HeadPc
      /\ op[r].pc \in HeadPc /\ op[r].pc \notin Body /\ op'[r].pc \notin Body /\ op[r].pc # "idle"
      /\ op'[r].pc # "idle" /\ op[r].pc \notin Body \cup {"idle"} /\ op[r].pc # "drainwait"
      /\ op'[r].pc # "bulkwait"
  BY <1>1, <1>3 DEF BulkPc, HeadPc, Body
<1>9. Untouched(p)
  BY <1>1, <1>3, <1>4 DEF Untouched
<1>10. tp'[r].recvDone < LastGate /\ tp'[r].auxRecv < LastGate /\ tp'[r].auxSend < LastGate
  BY <1>1, <1>2 DEF GateOf
<1>11. /\ Q \in Progress /\ Q[r] = op'[r] /\ Q[p] = P[p]
      /\ p \in Rank /\ p # r /\ Peer(p) = r
      /\ Own(Q, p)' /\ ProgramOf(r)' /\ ProgramOf(p)' /\ SendOf(Q, p)' /\ AckOf(Q, p)' /\ RowOf(Q, p)'
      /\ PcOf(Q, r)' /\ GateOf(Q, r)' /\ DoneOf(Q, r)' /\ MarkOf(Q, r)' /\ RowOf(Q, r)'
      /\ HeaderOf(Q, r)' /\ HeaderOf(Q, p)'
      /\ IsKind(r, Bulk) /\ ~IsKind(r, Row) /\ ~IsKind(r, {"aux"}) /\ ~IsKind(r, {"rgate"})
      /\ n(r)' = n(r) /\ Current(r)' = Current(r) /\ (WindowBefore(r)' <=> WindowBefore(r))
      /\ (\A ks : IsKind(r, ks)' <=> IsKind(r, ks)) /\ n(p)' = n(p)
      /\ (Level(r)' <=> Level(r)) /\ (Level(p)' <=> Level(p))
      /\ Posted(Q, p)' = Posted(P, p) /\ Sent(Q, p)' = Sent(P, p)
      /\ SentDecode(Q, p)' = SentDecode(P, p) /\ Delivered(Q, p)' = Delivered(P, p)
      /\ SentDecode(Q, r)' = SentDecode(P, r)
  <2>1. BulkStepped(P, Q, r, p)
    BY <1>1, <1>3, <1>4, <1>8, <1>9, <1>10, BulkStep
  <2> QED BY <2>1 DEF BulkStepped
<1>12. /\ Level(r) /\ Level(p) /\ n(r) = n(p) /\ WindowBefore(r) /\ tp[p].win
       /\ P[p].pc \in HeadPc \cup {"drainwait"}
       /\ ~Filling(P, p) /\ ~Bulking(P, p) /\ ~Bulking(P, r)
       /\ wire[p] = <<>> /\ Len(rq[p]) = WindowLen(r)
       /\ Stream(mode, rq[p], First(mode)[tp[r].last + 1], End(p))
  BY <1>1, <1>7, DrainMeets
<1>13. P[p].pc \notin Body
  BY <1>12 DEF HeadPc, Body
<1>14. /\ Posted(P, r) = 0 /\ Sent(P, r) = 0 /\ Awaited(P, r) = 0
       /\ Posted(Q, r)' = 0 /\ Sent(Q, r)' = 0 /\ Awaited(Q, r)' = 1
       /\ ~SentAll(P, r)
  <2>1. Posted(P, r) = 0 /\ Sent(P, r) = 0
    BY <1>7, <1>8, BulkFacts
  <2>2. Posted(Q, r)' = 0 /\ Sent(Q, r)' = 0
    BY <1>3, <1>8, <1>11 DEF Posted, Sent
  <2>3. Awaited(P, r) = 0 /\ ~SentAll(P, r)
    BY <1>1, <1>7 DEF Awaited, SentAll
  <2>4. Awaited(Q, r)' = 1
    BY <1>3, <1>11 DEF Awaited
  <2> QED BY <2>1, <2>2, <2>3, <2>4
<1>15. End(r)' = End(r) /\ WindowLen(r)' = WindowLen(r)
  BY <1>1 DEF End, WindowLen
<1>16. WindowOf(Q, r)'
  BY <1>1, <1>3, <1>8, <1>11, <1>12 DEF WindowOf
<1>17. QueueOf(Q, r)'
  BY <1>1, <1>2, <1>7, <1>8, <1>11, <1>15 DEF QueueOf
<1>18. RecvOf(Q, r)'
  <2>1. Count(cq[r], Received) + Len(rq[r]) = WindowLen(r)
    BY <1>1, <1>2, <1>7, <1>8 DEF RecvOf
  <2>2. Count(cq[r], Received) + Len(rq[r]) + 0 = WindowLen(r)
    BY <2>1, <1>2, WindowFacts
  <2> QED BY <1>1, <1>3, <1>8, <1>11, <1>15, <2>2 DEF RecvOf
<1>19. DataOf(Q, r)'
  <2>1. Q[r].pc \notin DecodePc
    BY <1>3, <1>11 DEF DecodePc, RowPc
  <2> QED BY <1>8, <1>11, <2>1 DEF DataOf
<1>20. SyncOf(Q, p)'
  BY <1>1, <1>8, <1>11, <1>14, SyncPeer
<1>21. SyncOf(Q, r)'
  <2>1. P[r].pc # "idle" /\ P[r].pc \in {"drain", "drainwait"} \cup Body /\ Q[r].pc # "idle"
        /\ Q[r].pc \notin Body
    BY <1>1, <1>3, <1>7, <1>8, <1>11
  <2>2. plan' = plan /\ Q[p] = P[p] /\ rq'[p] = rq[p]
    BY <1>1, <1>11
  <2> QED BY <2>1, <2>2, SyncOwn
<1>22. \A i \in 1 .. Len(f) : f[i].tag = "bulk" /\ (f[i] \in SignalsBulk <=> i = Len(f))
  <2>1. ASSUME NEW i \in 1 .. Len(f) PROVE f[i].tag = "bulk" /\ (f[i] \in SignalsBulk <=> i = Len(f))
    <3>1. f[i] = Msg(s[i].kind, 0, s[i].part, "bulk", i = Len(f)) /\ f[i] \in Message
      BY <1>5
    <3>2. f[i].tag = "bulk" /\ f[i].sig = (i = Len(f))
      BY <3>1, MsgTag
    <3> QED BY <3>1, <3>2, Zenon DEF SignalsBulk
  <2> QED BY <2>1
<1>23. SendOf(Q, r)'
  <2>1. Count(wire[p], SignalsBulk) = 0 /\ Count(unacked[r], CarriesBulk) = 0 /\ Count(cq[r], SentBulk) = 0
    BY <1>14, NoBulk
  <2>2. Len(f) \in 1 .. Len(f) /\ Len(f) \in Nat
    BY <1>2, <1>5, <1>6, WindowFacts
  <2>3. Count(f, SignalsBulk) = 1
    BY <1>22, <2>2, CountOne
  <2>4. wire[p] \in Seq(Message)
    BY <1>2, <1>11, RankFacts
  <2>5. Count(wire'[p], SignalsBulk) = 0 + 1
    BY <1>4, <1>5, <2>1, <2>3, <2>4, CountConcat
  <2> QED BY <1>1, <1>14, <2>1, <2>5 DEF SendOf
<1>24. AckOf(Q, r)'
  <2>1. SentDecode(P, r) \in Nat
    BY SentBounds
  <2>2. ~IsKind(r, {"rgate"})' /\ ~IsKind(r, {"aux"})'
    BY <1>11
  <2>3. SentDecode(Q, r)' = SentDecode(P, r) /\ SentDecode(P, r) <= SentDecode(Q, r)' /\ SentDecode(Q, r)' \in Nat
    BY <1>11, <2>1
  <2>4. tp'[r] = tp[r] /\ unacked'[r] = unacked[r] /\ cq'[r] = cq[r]
    BY <1>1
  <2>5. \A i \in 1 .. Len(f) : f[i].tag = "bulk"
    BY <1>22
  <2>6. f \in Seq(Message) /\ wire'[p] = wire[p] \o f
    BY <1>4, <1>5
  <2> QED BY <2>2, <2>3, <2>4, <2>5, <2>6, AckMore
<1>25. Delivered(Q, r)' = Delivered(P, r)
  BY <1>1, <1>7, <1>8, <1>11, <1>15 DEF Delivered
<1>26. /\ Filling(Q, p)' /\ (Filling(Q, r)' <=> Filling(P, r)) /\ ~Bulking(Q, r)' /\ ~Bulking(Q, p)'
  <2>1. Filling(Q, p)' /\ (Filling(Q, r)' <=> Filling(P, r))
    BY <1>1, <1>3, <1>11, <1>12 DEF Filling
  <2> QED BY <1>8, <1>11, <1>13, <2>1 DEF Bulking
<1>27. WireOf(Q, r)'
  BY <1>1, <1>2, <1>4, <1>11, <1>12, <1>25, <1>26, WireFrame
<1>28. WireOf(Q, p)'
  <2>1. wire'[p] = f
    BY <1>4, <1>5, <1>12
  <2>2. Len(rq[p]) = Len(f) /\ Len(f) \in Nat /\ Len(f) = Len(s)
    BY <1>5, <1>6, <1>12
  <2>3. First(mode)[tp[r].last + 1] \in Int /\ Vector(mode)
    BY <1>2, WindowFacts, RankFacts
  <2>4. ASSUME NEW i \in 1 .. Len(rq[p])
        PROVE  f[i] = Msg(rq[p][i].kind, 0, rq[p][i].part, "bulk", i = Len(rq[p]))
    <3>1. i \in Nat /\ i \in 1 .. Len(s)
      BY <2>2
    <3>2. rq[p][i].kind = s[i].kind /\ rq[p][i].part = s[i].part
      BY <1>5, <1>12, <2>3, <3>1, StreamSame
    <3> QED BY <1>5, <2>2, <3>1, <3>2
  <2>5. \A i \in Len(rq[p]) + 1 .. Len(f) : f[i] = BulkMsg(n(p), i - Len(rq[p]))
    BY <2>2
  <2>6. Filled(f, rq[p], n(p)) /\ Len(f) = Len(rq[p]) + 0
    BY <2>2, <2>4, <2>5 DEF Filled
  <2> QED BY <1>1, <1>11, <1>14, <1>26, <2>1, <2>6 DEF WireOf
<1> QED BY <1>11, <1>16, <1>17, <1>18, <1>19, <1>20, <1>21, <1>23, <1>24, <1>27, <1>28, Whole DEF Own, Shared
=============================================================================
