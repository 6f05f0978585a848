------------------------ MODULE CacheCapacityProofs ------------------------
(***************************************************************************)
(* Proofs about CacheCapacity: the LRU list is the tail of the keys in the *)
(* order of their last use; a store evicts exactly what it must; and an    *)
(* instance without a limit loses no entry.                                *)
(***************************************************************************)
EXTENDS CacheCapacity, SequenceTheorems, FiniteSetTheorems, WellFoundedInduction, TLAPS

Distinct(s) == \A i, j \in 1 .. Len(s) : s[i] = s[j] => i = j

\* s is the last part of t.
EndOf(s, t) ==
  /\ Len(s) <= Len(t)
  /\ \A j \in 1 .. Len(s) : s[j] = t[Len(t) - Len(s) + j]

\* A set of numbers has a least one.
LEMMA Least ==
  ASSUME NEW T \in SUBSET Nat, T # {}
  PROVE  \E m \in T : \A k \in T : m <= k
<1>1. IsWellFoundedOn(OpToRel(<, Nat), Nat)
  BY NatLessThanWellFounded
<1>2. PICK m \in T : \A k \in T : ~(<<k, m>> \in OpToRel(<, Nat))
  BY <1>1, WFMin
<1>3. \A k \in T : ~(k < m)
  BY <1>2 DEF OpToRel
<1> QED BY <1>3

\* The library's suffix, by positions.
LEMMA EndOfIsSuffix ==
  ASSUME NEW s \in Seq(Keys), NEW t \in Seq(Keys), EndOf(s, t)
  PROVE  IsSuffix(s, t)
<1> DEFINE rs == Reverse(s)
           rt == Reverse(t)
<1>1. /\ rs \in Seq(Keys) /\ Len(rs) = Len(s)
      /\ \A i \in 1 .. Len(s) : rs[i] = s[(Len(s) - i) + 1]
  BY IsASeq DEF Reverse
<1>2. /\ rt \in Seq(Keys) /\ Len(rt) = Len(t)
      /\ \A i \in 1 .. Len(t) : rt[i] = t[(Len(t) - i) + 1]
  BY IsASeq DEF Reverse
<1> HIDE DEF rs, rt
<1>3. \A i \in 1 .. Len(s) : rs[i] = rt[i]
  <2> TAKE i \in 1 .. Len(s)
  <2>1. (Len(s) - i) + 1 \in 1 .. Len(s)
    OBVIOUS
  <2>2. s[(Len(s) - i) + 1] = t[(Len(t) - i) + 1]
    BY <2>1 DEF EndOf
  <2> QED BY <1>1, <1>2, <2>2 DEF EndOf
<1> DEFINE a == SubSeq(rs, 1, Len(rs))
           b == SubSeq(rt, 1, Len(rs))
<1>4. a \in Seq(Keys) /\ Len(a) = Len(s) /\ \A i \in 1 .. Len(s) : a[i] = rs[i]
  BY <1>1, SubSeqProperties
<1>5. b \in Seq(Keys) /\ Len(b) = Len(s) /\ \A i \in 1 .. Len(s) : b[i] = rt[i]
  BY <1>1, <1>2, SubSeqProperties DEF EndOf
<1> HIDE DEF a, b
<1>6. a = b
  BY <1>3, <1>4, <1>5, SeqEqual
<1> QED BY <1>1, <1>2, <1>6 DEF IsSuffix, IsPrefix, EndOf, rs, rt, a, b

----------------------------------------------------------------------------
\* What promote leaves of a list: the key goes, what is behind it moves up.
LEMMA WithoutIt ==
  ASSUME NEW s \in Seq(Keys), NEW k \in Keys, Contains(s, k)
  PROVE  /\ Place(s, k) \in 1 .. Len(s) /\ s[Place(s, k)] = k
         /\ Without(s, k) \in Seq(Keys) /\ Len(Without(s, k)) = Len(s) - 1
         /\ \A j \in 1 .. Len(s) - 1 :
              Without(s, k)[j] = IF j < Place(s, k) THEN s[j] ELSE s[j + 1]
<1> DEFINE p == Place(s, k)
<1>1. p \in 1 .. Len(s) /\ s[p] = k
  BY DEF Contains, Place
<1> HIDE DEF p
<1> DEFINE a == SubSeq(s, 1, p - 1)
           b == SubSeq(s, p + 1, Len(s))
<1>2. a \in Seq(Keys) /\ Len(a) = p - 1 /\ \A j \in 1 .. p - 1 : a[j] = s[j]
  BY <1>1, SubSeqProperties
<1>3. b \in Seq(Keys) /\ Len(b) = Len(s) - p /\ \A j \in 1 .. Len(s) - p : b[j] = s[p + j]
  BY <1>1, SubSeqProperties
<1> HIDE DEF a, b
<1>4. /\ a \o b \in Seq(Keys) /\ Len(a \o b) = Len(a) + Len(b)
      /\ \A j \in 1 .. Len(a) + Len(b) :
           (a \o b)[j] = IF j <= Len(a) THEN a[j] ELSE b[j - Len(a)]
  BY <1>2, <1>3, ConcatProperties
<1> DEFINE c == a \o b
<1> HIDE DEF c
<1>6. /\ c \in Seq(Keys) /\ Len(c) = Len(s) - 1
      /\ \A j \in 1 .. Len(s) - 1 : c[j] = IF j < p THEN s[j] ELSE s[j + 1]
  <2>1. /\ c \in Seq(Keys) /\ Len(c) = Len(s) - 1
        /\ \A j \in 1 .. Len(s) - 1 : c[j] = IF j <= p - 1 THEN a[j] ELSE b[j - (p - 1)]
    BY <1>1, <1>2, <1>3, <1>4 DEF c
  <2>2. ASSUME NEW j \in 1 .. Len(s) - 1, j < p PROVE c[j] = s[j]
    BY <1>1, <1>2, <2>1, <2>2
  <2>3. ASSUME NEW j \in 1 .. Len(s) - 1, ~(j < p) PROVE c[j] = s[j + 1]
    <3>1. j - (p - 1) \in 1 .. Len(s) - p /\ p + (j - (p - 1)) = j + 1 /\ ~(j <= p - 1)
      BY <1>1, <2>3
    <3>2. b[j - (p - 1)] = s[j + 1]
      BY <1>3, <3>1
    <3> QED BY <2>1, <3>1, <3>2
  <2> QED BY <2>1, <2>2, <2>3
<1>7. Without(s, k) = c
  BY DEF Without, a, b, c, p
<1> QED BY <1>1, <1>6, <1>7 DEF p

\* Moved to the back, a list stays one of distinct keys.
LEMMA MovedBackKinds ==
  ASSUME NEW s \in Seq(Keys), NEW k \in Keys, Distinct(s)
  PROVE  /\ Without(s, k) \in Seq(Keys) /\ ~Contains(Without(s, k), k)
         /\ Distinct(Without(s, k))
         /\ MovedBack(s, k) \in Seq(Keys) /\ Distinct(MovedBack(s, k))
         /\ Len(MovedBack(s, k)) = Len(Without(s, k)) + 1
         /\ \A j \in 1 .. Len(Without(s, k)) : MovedBack(s, k)[j] = Without(s, k)[j]
         /\ MovedBack(s, k)[Len(Without(s, k)) + 1] = k
         /\ \A j \in 1 .. Len(MovedBack(s, k)) :
              MovedBack(s, k)[j] = k \/ \E i \in 1 .. Len(s) : MovedBack(s, k)[j] = s[i]
<1> DEFINE w == Without(s, k)
<1>1. /\ w \in Seq(Keys) /\ ~Contains(w, k) /\ Distinct(w)
      /\ \A j \in 1 .. Len(w) : \E i \in 1 .. Len(s) : w[j] = s[i]
  <2>1. CASE Contains(s, k)
    <3> DEFINE p == Place(s, k)
    <3>1. /\ p \in 1 .. Len(s) /\ s[p] = k
          /\ w \in Seq(Keys) /\ Len(w) = Len(s) - 1
          /\ \A j \in 1 .. Len(s) - 1 : w[j] = IF j < p THEN s[j] ELSE s[j + 1]
      BY <2>1, WithoutIt
    <3> HIDE DEF p, w
    <3>2. \A j \in 1 .. Len(w) :
            \E i \in 1 .. Len(s) : w[j] = s[i] /\ i # p /\ i = IF j < p THEN j ELSE j + 1
      BY <3>1
    <3>3. \A j \in 1 .. Len(w) : w[j] # k
      BY <3>1, <3>2 DEF Distinct
    <3>4. Distinct(w)
      <4> SUFFICES ASSUME NEW i \in 1 .. Len(w), NEW j \in 1 .. Len(w), w[i] = w[j]
                   PROVE  i = j
        BY DEF Distinct
      <4>1. PICK f \in 1 .. Len(s) : w[i] = s[f] /\ f = IF i < p THEN i ELSE i + 1
        BY <3>2
      <4>2. PICK g \in 1 .. Len(s) : w[j] = s[g] /\ g = IF j < p THEN j ELSE j + 1
        BY <3>2
      <4>3. f = g
        BY <4>1, <4>2 DEF Distinct
      <4> QED BY <3>1, <4>1, <4>2, <4>3
    <3> QED BY <3>1, <3>2, <3>3, <3>4 DEF Contains
  <2>2. CASE ~Contains(s, k)
    BY <2>2 DEF Without
  <2> QED BY <2>1, <2>2
<1> HIDE DEF w
<1> DEFINE m == Append(w, k)
<1>2. /\ m \in Seq(Keys) /\ Len(m) = Len(w) + 1
      /\ \A j \in 1 .. Len(w) : m[j] = w[j]
      /\ m[Len(w) + 1] = k
  BY <1>1, AppendProperties
<1> HIDE DEF m
<1>3. Distinct(m)
  BY <1>1, <1>2 DEF Distinct, Contains
<1>4. m = MovedBack(s, k)
  BY DEF m, w, MovedBack
<1> QED BY <1>1, <1>2, <1>3, <1>4 DEF w

\* The end of an end; the end of two lists that grow by the same key.
LEMMA EndOfEnd ==
  ASSUME NEW r \in Seq(Keys), NEW s \in Seq(Keys), NEW t \in Seq(Keys), EndOf(r, s), EndOf(s, t)
  PROVE  EndOf(r, t)
<1> SUFFICES ASSUME NEW j \in 1 .. Len(r) PROVE r[j] = t[Len(t) - Len(r) + j]
  BY DEF EndOf
<1> DEFINE i == Len(s) - Len(r) + j
<1>1. i \in 1 .. Len(s) /\ Len(t) - Len(s) + i = Len(t) - Len(r) + j
  BY DEF EndOf
<1>2. r[j] = s[i]
  BY DEF EndOf
<1> HIDE DEF i
<1>3. s[i] = t[Len(t) - Len(s) + i]
  BY <1>1 DEF EndOf
<1> QED BY <1>1, <1>2, <1>3

LEMMA AppendKeepsEnd ==
  ASSUME NEW s \in Seq(Keys), NEW t \in Seq(Keys), EndOf(s, t), NEW k \in Keys
  PROVE  EndOf(Append(s, k), Append(t, k))
<1> DEFINE x == Append(s, k)
           y == Append(t, k)
<1>1. /\ x \in Seq(Keys) /\ Len(x) = Len(s) + 1 /\ x[Len(s) + 1] = k
      /\ \A j \in 1 .. Len(s) : x[j] = s[j]
  BY AppendProperties
<1>2. /\ y \in Seq(Keys) /\ Len(y) = Len(t) + 1 /\ y[Len(t) + 1] = k
      /\ \A j \in 1 .. Len(t) : y[j] = t[j]
  BY AppendProperties
<1> HIDE DEF x, y
<1>3. ASSUME NEW j \in 1 .. Len(x) PROVE x[j] = y[Len(y) - Len(x) + j]
  <2>1. Len(y) - Len(x) = Len(t) - Len(s) /\ Len(s) <= Len(t)
    BY <1>1, <1>2 DEF EndOf
  <2>2. CASE j = Len(s) + 1
    <3>1. Len(t) - Len(s) + (Len(s) + 1) = Len(t) + 1
      OBVIOUS
    <3> QED BY <1>1, <1>2, <2>1, <2>2, <3>1
  <2>3. CASE j \in 1 .. Len(s)
    <3>1. Len(t) - Len(s) + j \in 1 .. Len(t)
      BY <2>1, <2>3
    <3>2. s[j] = t[Len(t) - Len(s) + j]
      BY <2>3 DEF EndOf
    <3> QED BY <1>1, <1>2, <2>1, <2>3, <3>1, <3>2
  <2> QED BY <1>1, <2>2, <2>3
<1>4. EndOf(x, y)
  <2>1. Len(x) <= Len(y)
    BY <1>1, <1>2 DEF EndOf
  <2> QED BY <1>3, <2>1 DEF EndOf
<1> QED BY <1>4 DEF x, y

\* The end stays the end when a key is taken out: from both, or from what is before it.
LEMMA WithoutKeepsEnd ==
  ASSUME NEW s \in Seq(Keys), NEW t \in Seq(Keys), Distinct(t), EndOf(s, t), NEW k \in Keys
  PROVE  EndOf(Without(s, k), Without(t, k))
<1> DEFINE d == Len(t) - Len(s)
           a == Without(s, k)
           b == Without(t, k)
           p == Place(s, k)
           q == Place(t, k)
<1>1. d \in Nat /\ Len(t) = d + Len(s) /\ \A j \in 1 .. Len(s) : s[j] = t[d + j]
  BY DEF EndOf
<1> HIDE DEF d
<1>2. CASE Contains(s, k)
  <2>1. Contains(t, k)
    <3>1. PICK j \in 1 .. Len(s) : s[j] = k
      BY <1>2 DEF Contains
    <3>2. d + j \in 1 .. Len(t)
      BY <1>1
    <3> QED BY <1>1, <3>1, <3>2 DEF Contains
  <2>2. /\ p \in 1 .. Len(s) /\ s[p] = k /\ a \in Seq(Keys) /\ Len(a) = Len(s) - 1
        /\ \A j \in 1 .. Len(s) - 1 : a[j] = IF j < p THEN s[j] ELSE s[j + 1]
    BY <1>2, WithoutIt
  <2>3. /\ q \in 1 .. Len(t) /\ t[q] = k /\ b \in Seq(Keys) /\ Len(b) = Len(t) - 1
        /\ \A j \in 1 .. Len(t) - 1 : b[j] = IF j < q THEN t[j] ELSE t[j + 1]
    BY <2>1, WithoutIt
  <2> HIDE DEF a, b, p, q
  <2>4. q = d + p
    <3>1. d + p \in 1 .. Len(t) /\ t[d + p] = k
      BY <1>1, <2>2
    <3> QED BY <2>3, <3>1 DEF Distinct
  <2>5. ASSUME NEW j \in 1 .. Len(a) PROVE a[j] = b[d + j]
    <3>1. /\ d + j \in 1 .. Len(t) - 1 /\ (d + j) + 1 = d + (j + 1)
          /\ j \in 1 .. Len(s) - 1 /\ j \in 1 .. Len(s) /\ j + 1 \in 1 .. Len(s)
      BY <1>1, <2>2
    <3>2. s[j] = t[d + j] /\ s[j + 1] = t[(d + j) + 1]
      BY <1>1, <3>1
    <3>3. a[j] = IF j < p THEN s[j] ELSE s[j + 1]
      BY <2>2, <3>1
    <3>4. b[d + j] = IF d + j < q THEN t[d + j] ELSE t[(d + j) + 1]
      BY <2>3, <3>1
    <3>5. j < p <=> d + j < q
      BY <1>1, <2>2, <2>3, <2>4
    <3> QED BY <3>2, <3>3, <3>4, <3>5
  <2>6. Len(b) - Len(a) = d /\ Len(a) <= Len(b)
    BY <1>1, <2>2, <2>3
  <2>7. EndOf(a, b)
    BY <2>5, <2>6 DEF EndOf
  <2> QED BY <2>7 DEF a, b
<1>3. CASE ~Contains(s, k) /\ Contains(t, k)
  <2>1. /\ q \in 1 .. Len(t) /\ t[q] = k /\ b \in Seq(Keys) /\ Len(b) = Len(t) - 1
        /\ \A j \in 1 .. Len(t) - 1 : b[j] = IF j < q THEN t[j] ELSE t[j + 1]
    BY <1>3, WithoutIt
  <2> HIDE DEF b, q
  <2>2. q <= d
    <3>1. ASSUME q > d PROVE FALSE
      <4>1. q - d \in 1 .. Len(s) /\ d + (q - d) = q
        BY <1>1, <2>1, <3>1
      <4>2. s[q - d] = k
        BY <1>1, <2>1, <4>1
      <4> QED BY <1>3, <4>1, <4>2 DEF Contains
    <3> QED BY <1>1, <2>1, <3>1
  <2>3. ASSUME NEW j \in 1 .. Len(s) PROVE s[j] = b[(Len(b) - Len(s)) + j]
    <3>1. /\ (Len(b) - Len(s)) + j \in 1 .. Len(t) - 1 /\ ~((Len(b) - Len(s)) + j < q)
          /\ ((Len(b) - Len(s)) + j) + 1 = d + j
      BY <1>1, <2>1, <2>2
    <3> QED BY <1>1, <2>1, <3>1
  <2>4. Len(s) <= Len(b)
    BY <1>1, <2>1, <2>2
  <2> QED BY <1>3, <2>3, <2>4 DEF EndOf, Without, b
<1>4. CASE ~Contains(s, k) /\ ~Contains(t, k)
  BY <1>4 DEF Without
<1>5. Contains(s, k) \in BOOLEAN /\ Contains(t, k) \in BOOLEAN
  BY DEF Contains
<1> QED BY <1>2, <1>3, <1>4, <1>5

\* An end of distinct keys has distinct keys.
LEMMA EndOfDistinct ==
  ASSUME NEW s \in Seq(Keys), NEW t \in Seq(Keys), Distinct(t), EndOf(s, t)
  PROVE  Distinct(s)
<1> SUFFICES ASSUME NEW i \in 1 .. Len(s), NEW j \in 1 .. Len(s), s[i] = s[j] PROVE i = j
  BY DEF Distinct
<1>1. Len(t) - Len(s) + i \in 1 .. Len(t) /\ Len(t) - Len(s) + j \in 1 .. Len(t)
  BY DEF EndOf
<1>2. t[Len(t) - Len(s) + i] = t[Len(t) - Len(s) + j]
  BY DEF EndOf
<1>3. Len(t) - Len(s) + i = Len(t) - Len(s) + j
  BY <1>1, <1>2 DEF Distinct
<1> QED BY <1>3

\* What is at the end of a list still is when both use a key: the core of LruMap.
LEMMA UseKeepsEnd ==
  ASSUME NEW s \in Seq(Keys), NEW t \in Seq(Keys), Distinct(t), EndOf(s, t),
         NEW k \in Keys, NEW max \in Nat \ {0}
  PROVE  /\ Touched(s, k, max) \in Seq(Keys)
         /\ EndOf(Touched(s, k, max), MovedBack(t, k))
         /\ \A j \in 1 .. Len(Touched(s, k, max)) :
              \/ Touched(s, k, max)[j] = k
              \/ \E i \in 1 .. Len(s) : Touched(s, k, max)[j] = s[i]
<1> DEFINE b == Without(t, k)
<1>1. Distinct(s)
  BY EndOfDistinct
<1>2. b \in Seq(Keys) /\ MovedBack(t, k) = Append(b, k)
  BY MovedBackKinds DEF MovedBack
<1>3. EndOf(Without(s, k), b)
  BY WithoutKeepsEnd
<1> HIDE DEF b
<1>4. CASE Contains(s, k)
  <2>1. Without(s, k) \in Seq(Keys)
    BY <1>1, MovedBackKinds
  <2>2. EndOf(MovedBack(s, k), MovedBack(t, k))
    BY <1>2, <1>3, <2>1, AppendKeepsEnd DEF MovedBack
  <2> QED BY <1>1, <1>4, <2>2, MovedBackKinds DEF Touched
<1>5. CASE ~Contains(s, k)
  <2> DEFINE a == IF Len(s) >= max THEN Tail(s) ELSE s
  <2>1. a \in Seq(Keys) /\ EndOf(a, s) /\ \A j \in 1 .. Len(a) : \E i \in 1 .. Len(s) : a[j] = s[i]
    <3>1. CASE Len(s) >= max
      <4>1. s # <<>>
        BY <3>1
      <4>2. /\ Tail(s) \in Seq(Keys) /\ Len(Tail(s)) = Len(s) - 1
            /\ \A i \in 1 .. Len(Tail(s)) : Tail(s)[i] = s[i + 1]
        BY <4>1, HeadTailProperties
      <4>3. EndOf(Tail(s), s)
        BY <4>2 DEF EndOf
      <4> QED BY <3>1, <4>2, <4>3
    <3>2. CASE ~(Len(s) >= max)
      BY <3>2 DEF EndOf
    <3> QED BY <3>1, <3>2
  <2>2. Touched(s, k, max) = Append(a, k)
    BY <1>5 DEF Touched
  <2> HIDE DEF a
  <2>3. EndOf(s, b)
    BY <1>3, <1>5 DEF Without
  <2>4. EndOf(a, b)
    BY <1>2, <2>1, <2>3, EndOfEnd
  <2>5. EndOf(Append(a, k), Append(b, k))
    BY <1>2, <2>1, <2>4, AppendKeepsEnd
  <2>6. /\ Append(a, k) \in Seq(Keys)
        /\ \A j \in 1 .. Len(Append(a, k)) : Append(a, k)[j] = k \/ (j \in 1 .. Len(a) /\ Append(a, k)[j] = a[j])
    BY <2>1, AppendProperties
  <2> QED BY <1>2, <2>1, <2>2, <2>5, <2>6
<1>6. Contains(s, k) \in BOOLEAN
  BY DEF Contains
<1> QED BY <1>4, <1>5, <1>6
----------------------------------------------------------------------------
\* The loop of enforce_capacity ends, at the first place where it may.
LEMMA EvictionsEnd ==
  ASSUME NEW m, NEW s \in Seq(Keys)
  PROVE  /\ Evictions(m, s) \in 0 .. Len(s) /\ LoopEnds(m, s, Evictions(m, s))
         /\ \A l \in 0 .. Evictions(m, s) - 1 : ~LoopEnds(m, s, l)
<1> DEFINE T == {n \in 0 .. Len(s) : LoopEnds(m, s, n)}
<1>1. Len(s) \in T
  BY DEF LoopEnds
<1>2. PICK n \in T : \A l \in T : n <= l
  <2>1. T \in SUBSET Nat /\ T # {}
    BY <1>1
  <2> HIDE DEF T
  <2> QED BY <2>1, Least
<1>3. n \in 0 .. Len(s) /\ LoopEnds(m, s, n) /\ \A l \in 0 .. n - 1 : ~LoopEnds(m, s, l)
  BY <1>2
<1> QED BY <1>3 DEF Evictions

LEMMA CapacityKind == ASSUME limit \in Limits PROVE Capacity(limit) \in Nat /\ LruMax(limit) \in Nat \ {0}
  BY CapacityAssumption, FS_CardinalityType DEF Capacity, LruMax

\* What enforce_capacity leaves: the end of the list, in memory; and exactly as much
\* as the limit lets it.
LEMMA KeepEffect ==
  ASSUME limit \in Limits, NEW m \in SUBSET Keys, NEW s \in Seq(Keys),
         Distinct(s), \A j \in 1 .. Len(s) : s[j] \in m, Keep(m, s)
  PROVE  /\ mem' \subseteq m /\ order' \in Seq(Keys) /\ EndOf(order', s)
         /\ \A j \in 1 .. Len(order') : order'[j] \in mem'
         /\ Cardinality(mem') <= Capacity(limit) \/ order' = <<>>
         /\ mem' # m => Cardinality(mem') >= Capacity(limit)
         /\ limit = Unlimited => mem' = m
<1> DEFINE n == Evictions(m, s)
<1>1. n \in 0 .. Len(s) /\ LoopEnds(m, s, n) /\ \A l \in 0 .. n - 1 : ~LoopEnds(m, s, l)
  BY EvictionsEnd
<1>2. mem' = m \ Oldest(s, n) /\ order' = SubSeq(s, n + 1, Len(s))
  BY DEF Keep
<1> HIDE DEF n
<1>3. /\ order' \in Seq(Keys) /\ Len(order') = Len(s) - n
      /\ \A j \in 1 .. Len(s) - n : order'[j] = s[n + j]
  BY <1>1, <1>2, SubSeqProperties
<1>4. EndOf(order', s)
  BY <1>1, <1>3 DEF EndOf
<1>5. ASSUME NEW j \in 1 .. Len(order') PROVE order'[j] \in mem'
  <2>1. n + j \in 1 .. Len(s) /\ n + j \notin 1 .. n /\ order'[j] = s[n + j]
    BY <1>1, <1>3
  <2>2. s[n + j] \notin Oldest(s, n)
    BY <1>1, <2>1 DEF Oldest, Distinct
  <2> QED BY <1>2, <2>1, <2>2
<1>6. CASE n = 0
  <2>1. Oldest(s, 0) = {}
    BY DEF Oldest
  <2>2. mem' = m
    BY <1>2, <1>6, <2>1
  <2>3. Cardinality(m) <= Capacity(limit) \/ order' = <<>>
    <3>1. LoopEnds(m, s, 0)
      BY <1>1, <1>6
    <3>2. Cardinality(m \ Oldest(s, 0)) <= Capacity(limit) \/ 0 = Len(s)
      BY <3>1 DEF LoopEnds
    <3>3. m \ Oldest(s, 0) = m
      BY <2>1
    <3>4. 0 = Len(s) => order' = <<>>
      BY <1>3, <1>6
    <3> QED BY <3>2, <3>3, <3>4
  <2> QED BY <1>3, <1>4, <1>5, <2>2, <2>3
<1>7. CASE n # 0
  <2>1. n - 1 \in 0 .. n - 1 /\ n \in 1 .. Len(s)
    BY <1>1, <1>7
  <2> DEFINE before == m \ Oldest(s, n - 1)
  <2>2. Oldest(s, n) = Oldest(s, n - 1) \union {s[n]}
    <3>1. 1 .. n = (1 .. (n - 1)) \union {n}
      BY <2>1
    <3> QED BY <3>1 DEF Oldest
  <2>3. mem' = before \ {s[n]}
    BY <1>2, <2>2
  <2>4. s[n] \in before
    BY <2>1 DEF Oldest, Distinct
  <2>5. IsFiniteSet(before) /\ Cardinality(before) \in Nat /\ Cardinality(before) <= Cardinality(Keys)
    BY CapacityAssumption, FS_Subset, FS_CardinalityType
  <2>6. ~(Cardinality(before) <= Capacity(limit))
    BY <1>1, <2>1 DEF LoopEnds
  <2> HIDE DEF before
  <2>7. Cardinality(mem') = Cardinality(before) - 1
    BY <2>3, <2>4, <2>5, FS_RemoveElement
  <2>8. Cardinality(mem') >= Capacity(limit)
    BY <2>5, <2>6, <2>7, CapacityKind
  <2>9. limit # Unlimited
    BY <2>5, <2>6 DEF Capacity
  <2>10. Cardinality(mem') <= Capacity(limit) \/ n = Len(s)
    BY <1>1, <1>2, <2>4 DEF LoopEnds, before
  <2>11. n = Len(s) => order' = <<>>
    BY <1>3
  <2> QED BY <1>2, <1>3, <1>4, <1>5, <2>8, <2>9, <2>10, <2>11
<1> QED BY <1>6, <1>7
----------------------------------------------------------------------------
Kinds ==
  /\ limit \in Limits \union {0}
  /\ mem \subseteq Keys /\ metas \subseteq Keys
  /\ order \in Seq(Keys) /\ used \in Seq(Keys) /\ log \in Seq(Keys)
  /\ old \in 0 .. Len(log) /\ at \in 0 .. old
  /\ limit = 0 => mem = {}

\* The list is the end of the history, which has each key once, and in memory.
ListKnown ==
  /\ Distinct(used) /\ EndOf(order, used)
  /\ \A j \in 1 .. Len(order) : order[j] \in mem

\* What an instance without a limit has logged, or has read from a log, it holds;
\* and so, after a load, what was on the disk at its start.
LoggedHeld ==
  limit = Unlimited =>
    \A n \in 1 .. Len(log) : n <= at \/ n > old => log[n] \in mem

IInv == Kinds /\ ListKnown /\ LoggedHeld

LEMMA IInvInit == Init => IInv
  BY CapacityAssumption DEF Init, IInv, Kinds, ListKnown, LoggedHeld, Distinct, EndOf

\* One use of a key, by the list and by the history.
LEMMA UseOne ==
  ASSUME NEW s \in Seq(Keys), NEW t \in Seq(Keys), Distinct(t), EndOf(s, t),
         limit \in Limits, NEW k \in Keys, NEW m, k \in m, \A j \in 1 .. Len(s) : s[j] \in m
  PROVE  /\ Touched(s, k, LruMax(limit)) \in Seq(Keys) /\ MovedBack(t, k) \in Seq(Keys)
         /\ Distinct(Touched(s, k, LruMax(limit))) /\ Distinct(MovedBack(t, k))
         /\ EndOf(Touched(s, k, LruMax(limit)), MovedBack(t, k))
         /\ \A j \in 1 .. Len(Touched(s, k, LruMax(limit))) : Touched(s, k, LruMax(limit))[j] \in m
<1> DEFINE u == Touched(s, k, LruMax(limit))
           v == MovedBack(t, k)
<1>1. /\ u \in Seq(Keys) /\ EndOf(u, v)
      /\ \A j \in 1 .. Len(u) : u[j] = k \/ \E i \in 1 .. Len(s) : u[j] = s[i]
  BY UseKeepsEnd, CapacityKind
<1>2. v \in Seq(Keys) /\ Distinct(v)
  BY MovedBackKinds
<1> HIDE DEF u, v
<1>3. Distinct(u)
  BY <1>1, <1>2, EndOfDistinct
<1>4. \A j \in 1 .. Len(u) : u[j] \in m
  BY <1>1
<1> QED BY <1>1, <1>2, <1>3, <1>4 DEF u, v

\* Every store, of one entry or two, gives the memory and the list to enforce_capacity.
LEMMA StoreEffect ==
  ASSUME IInv, NEW k \in Keys, Store(k) \/ StoreAnalysis(k)
  PROVE  \E m \in SUBSET Keys, s \in Seq(Keys) :
           /\ mem \subseteq m /\ k \in m /\ Distinct(s) /\ EndOf(s, used')
           /\ used' \in Seq(Keys) /\ Distinct(used')
           /\ \A j \in 1 .. Len(s) : s[j] \in m
           /\ Keep(m, s)
           /\ limit \in Limits /\ at = old /\ log' = Append(log, k)
           /\ UNCHANGED <<limit, metas, old, at>>
<1> DEFINE max == LruMax(limit)
<1>1. /\ limit \in Limits /\ order \in Seq(Keys) /\ used \in Seq(Keys) /\ Distinct(used)
      /\ EndOf(order, used) /\ \A j \in 1 .. Len(order) : order[j] \in mem
      /\ mem \subseteq Keys /\ Latest \in Keys
  BY CapacityAssumption DEF IInv, Kinds, ListKnown, Store, StoreAnalysis, Alive
<1>2. CASE Store(k)
  <2> DEFINE m == mem \union {k}
             s == Touched(order, k, max)
  <2>1. /\ s \in Seq(Keys) /\ MovedBack(used, k) \in Seq(Keys) /\ Distinct(s)
        /\ Distinct(MovedBack(used, k)) /\ EndOf(s, MovedBack(used, k))
        /\ \A j \in 1 .. Len(s) : s[j] \in m
    BY <1>1, UseOne
  <2>2. /\ Keep(m, s) /\ used' = MovedBack(used, k) /\ at = old /\ log' = Append(log, k)
        /\ UNCHANGED <<limit, metas, old, at>>
    BY <1>2 DEF Store, Recorded, Alive
  <2>3. m \in SUBSET Keys /\ mem \subseteq m /\ k \in m
    BY <1>1
  <2> HIDE DEF m, s
  <2> QED BY <1>1, <2>1, <2>2, <2>3
<1>3. CASE StoreAnalysis(k)
  <2> DEFINE m == mem \union {k, Latest}
             r == Touched(order, k, max)
             s == Touched(r, Latest, max)
             u == MovedBack(used, k)
             v == MovedBack(u, Latest)
  <2>1. r \in Seq(Keys) /\ u \in Seq(Keys) /\ Distinct(u) /\ EndOf(r, u) /\ \A j \in 1 .. Len(r) : r[j] \in m
    BY <1>1, UseOne
  <2>2. m \in SUBSET Keys /\ mem \subseteq m /\ k \in m /\ Latest \in m
    BY <1>1
  <2>3. /\ Keep(m, s) /\ used' = v /\ at = old /\ log' = Append(log, k)
        /\ UNCHANGED <<limit, metas, old, at>>
    BY <1>3 DEF StoreAnalysis, Recorded, Alive
  <2> HIDE DEF m, r, u
  <2>4. /\ s \in Seq(Keys) /\ v \in Seq(Keys) /\ Distinct(s) /\ Distinct(v) /\ EndOf(s, v)
        /\ \A j \in 1 .. Len(s) : s[j] \in m
    BY <1>1, <2>1, <2>2, UseOne
  <2> HIDE DEF s, v
  <2> QED BY <1>1, <2>2, <2>3, <2>4
<1> QED BY <1>2, <1>3

LEMMA IInvNext == IInv /\ [Next]_vars => IInv'
<1> SUFFICES ASSUME IInv, [Next]_vars PROVE IInv'
  OBVIOUS
<1>1. ASSUME NEW l \in Limits, Load(l) PROVE IInv'
  BY <1>1, CapacityAssumption DEF Load, IInv, Kinds, ListKnown, LoggedHeld, Distinct, EndOf
<1>2. CASE ApplyRecord
  <2> DEFINE k == log[at + 1]
             s == Touched(order, k, LruMax(limit))
             t == MovedBack(used, k)
  <2>1. at + 1 \in 1 .. old /\ at + 1 \in 1 .. Len(log) /\ limit \in Limits /\ k \in Keys
    BY <1>2 DEF ApplyRecord, IInv, Kinds
  <2>2. /\ mem' = mem \union {k} /\ order' = s /\ used' = t /\ at' = at + 1
        /\ UNCHANGED <<limit, metas, log, old>>
    BY <1>2 DEF ApplyRecord
  <2>3. \A j \in 1 .. Len(order) : order[j] \in mem \union {k}
    BY DEF IInv, ListKnown
  <2>4. k \in mem \union {k} /\ \A n \in 1 .. Len(log) : n <= at + 1 => n <= at \/ log[n] = k
    BY DEF IInv, Kinds
  <2> HIDE DEF k
  <2>5. /\ s \in Seq(Keys) /\ t \in Seq(Keys) /\ Distinct(t) /\ EndOf(s, t)
        /\ \A j \in 1 .. Len(s) : s[j] \in mem \union {k}
    BY <2>1, <2>3, <2>4, UseOne DEF IInv, Kinds, ListKnown
  <2> HIDE DEF s, t
  <2>6. Kinds'
    BY <2>1, <2>2, <2>5, CapacityAssumption DEF IInv, Kinds
  <2>7. ListKnown'
    BY <2>2, <2>5 DEF ListKnown
  <2>8. LoggedHeld'
    BY <2>1, <2>2, <2>4 DEF IInv, LoggedHeld
  <2> QED BY <2>6, <2>7, <2>8 DEF IInv
<1>3. ASSUME NEW k \in Keys, Lookup(k) PROVE IInv'
  <2> DEFINE s == Touched(order, k, LruMax(limit))
             t == MovedBack(used, k)
  <2>1. limit \in Limits /\ \A j \in 1 .. Len(order) : order[j] \in mem \union {k}
    BY <1>3 DEF Lookup, Alive, IInv, Kinds, ListKnown
  <2>2. /\ s \in Seq(Keys) /\ t \in Seq(Keys) /\ Distinct(t) /\ EndOf(s, t)
        /\ \A j \in 1 .. Len(s) : s[j] \in mem \union {k}
    BY <2>1, UseOne DEF IInv, Kinds, ListKnown
  <2>3. /\ mem' = mem \union {k} /\ order' = s /\ used' = t
        /\ UNCHANGED <<limit, metas, log, old, at>>
    BY <1>3 DEF Lookup
  <2> HIDE DEF s, t
  <2> QED BY <2>1, <2>2, <2>3, CapacityAssumption DEF IInv, Kinds, ListKnown, LoggedHeld
<1>4. ASSUME NEW k \in Keys, Store(k) \/ StoreAnalysis(k) PROVE IInv'
  <2>1. PICK m \in SUBSET Keys, s \in Seq(Keys) :
           /\ mem \subseteq m /\ k \in m /\ Distinct(s) /\ EndOf(s, used')
           /\ used' \in Seq(Keys) /\ Distinct(used')
           /\ \A j \in 1 .. Len(s) : s[j] \in m
           /\ Keep(m, s)
           /\ limit \in Limits /\ at = old /\ log' = Append(log, k)
           /\ UNCHANGED <<limit, metas, old, at>>
    BY <1>4, StoreEffect
  <2>2. /\ mem' \subseteq m /\ order' \in Seq(Keys) /\ EndOf(order', s)
        /\ \A j \in 1 .. Len(order') : order'[j] \in mem'
        /\ limit = Unlimited => mem' = m
    BY <2>1, KeepEffect
  <2>3. EndOf(order', used')
    BY <2>1, <2>2, EndOfEnd
  <2>4. /\ log' \in Seq(Keys) /\ Len(log') = Len(log) + 1 /\ log'[Len(log) + 1] = k
        /\ \A n \in 1 .. Len(log) : log'[n] = log[n]
    BY <2>1, AppendProperties DEF IInv, Kinds
  <2>5. Kinds'
    BY <2>1, <2>2, <2>4, CapacityAssumption DEF IInv, Kinds
  <2>6. ListKnown'
    BY <2>1, <2>2, <2>3 DEF ListKnown
  <2>7. LoggedHeld'
    <3> SUFFICES ASSUME limit = Unlimited, NEW n \in 1 .. Len(log'), n <= at \/ n > old
                 PROVE  log'[n] \in mem'
      BY <2>1 DEF LoggedHeld
    <3>1. CASE n = Len(log) + 1
      BY <2>1, <2>2, <2>4, <3>1
    <3>2. CASE n \in 1 .. Len(log)
      <4>1. log[n] \in mem
        BY <3>2 DEF IInv, LoggedHeld
      <4> QED BY <2>1, <2>2, <2>4, <3>2, <4>1
    <3> QED BY <2>4, <3>1, <3>2 DEF IInv, Kinds
  <2> QED BY <2>5, <2>6, <2>7 DEF IInv
<1>5. CASE Save
  <2>1. /\ log' = SubSeq(log, 1, old) /\ metas' = metas \union mem
        /\ UNCHANGED <<limit, mem, order, old, at, used>>
    BY <1>5 DEF Save
  <2>2. log' \in Seq(Keys) /\ Len(log') = old /\ \A n \in 1 .. old : log'[n] = log[n]
    BY <2>1, SubSeqProperties DEF IInv, Kinds
  <2>3. Kinds'
    BY <2>1, <2>2 DEF IInv, Kinds
  <2>4. ListKnown'
    BY <2>1 DEF IInv, ListKnown
  <2>5. LoggedHeld'
    <3> SUFFICES ASSUME limit = Unlimited, NEW n \in 1 .. old, n <= at \/ n > old
                 PROVE  log'[n] \in mem
      BY <2>1, <2>2 DEF LoggedHeld
    <3>1. n <= at /\ n \in 1 .. Len(log)
      BY DEF IInv, Kinds
    <3> QED BY <2>2, <3>1 DEF IInv, LoggedHeld
  <2> QED BY <2>3, <2>4, <2>5 DEF IInv
<1>6. ASSUME NEW written \in SUBSET mem, SaveFails(written) PROVE IInv'
  BY <1>6 DEF SaveFails, IInv, Kinds, ListKnown, LoggedHeld
<1>7. CASE Stop
  BY <1>7, CapacityAssumption DEF Stop, IInv, Kinds, ListKnown, LoggedHeld, Distinct, EndOf
<1>8. CASE UNCHANGED vars
  BY <1>8 DEF vars, IInv, Kinds, ListKnown, LoggedHeld
<1> QED BY <1>1, <1>2, <1>3, <1>4, <1>5, <1>6, <1>7, <1>8 DEF Next

LEMMA Invariance == Spec => []IInv
  BY IInvInit, IInvNext, PTL DEF Spec

----------------------------------------------------------------------------
\* The list of an instance is, at any time, the keys it used last, in the order of
\* their last use: lru.rs, whatever load, hits, stores and evictions came before.
THEOREM ListStaysRecency == Spec => []ListIsRecency
<1>1. IInv => ListIsRecency
  BY EndOfIsSuffix DEF IInv, Kinds, ListKnown, ListIsRecency
<1> QED BY <1>1, Invariance, PTL

\* A step that logs more is a store; one that loses an entry, and is not the end of
\* the instance, too.
LEMMA OnlyStoresEvict ==
  ASSUME IInv, [Next]_vars, Len(log') > Len(log) \/ (mem \ mem' # {} /\ Alive')
  PROVE  \E k \in Keys : Store(k) \/ StoreAnalysis(k)
<1>1. ASSUME NEW l \in Limits, Load(l) PROVE FALSE
  BY <1>1 DEF Load, IInv, Kinds
<1>2. CASE ApplyRecord
  BY <1>2 DEF ApplyRecord, IInv, Kinds
<1>3. ASSUME NEW k \in Keys, Lookup(k) PROVE FALSE
  BY <1>3 DEF Lookup, IInv, Kinds
<1>4. CASE Save
  <2>1. Len(SubSeq(log, 1, old)) = old
    BY SubSeqProperties DEF IInv, Kinds
  <2> QED BY <1>4, <2>1 DEF Save, IInv, Kinds
<1>5. ASSUME NEW written \in SUBSET mem, SaveFails(written) PROVE FALSE
  BY <1>5 DEF SaveFails, IInv, Kinds
<1>6. CASE Stop
  BY <1>6 DEF Stop, Alive, IInv, Kinds
<1>7. CASE UNCHANGED vars
  BY <1>7 DEF vars, IInv, Kinds
<1> QED BY <1>1, <1>2, <1>3, <1>4, <1>5, <1>6, <1>7 DEF Next

\* enforce_capacity, at every store: it leaves no more than the limit, unless it has
\* evicted all that the list knew; and never fewer than the limit if it evicts at all.
THEOREM StoresEvictExactly == Spec => StoreEvictsExactly
<1>1. ASSUME IInv, [Next]_vars
      PROVE  /\ Len(log') > Len(log) => Cardinality(mem') <= Capacity(limit) \/ order' = <<>>
             /\ mem \ mem' # {} /\ Alive' => Cardinality(mem') >= Capacity(limit)
  <2> SUFFICES ASSUME Len(log') > Len(log) \/ (mem \ mem' # {} /\ Alive')
               PROVE  /\ Cardinality(mem') <= Capacity(limit) \/ order' = <<>>
                      /\ mem \ mem' # {} => Cardinality(mem') >= Capacity(limit)
    OBVIOUS
  <2>1. PICK k \in Keys : Store(k) \/ StoreAnalysis(k)
    BY <1>1, OnlyStoresEvict
  <2>2. PICK m \in SUBSET Keys, s \in Seq(Keys) :
           /\ mem \subseteq m /\ Distinct(s) /\ \A j \in 1 .. Len(s) : s[j] \in m
           /\ Keep(m, s) /\ limit \in Limits
    BY <1>1, <2>1, StoreEffect
  <2>3. /\ Cardinality(mem') <= Capacity(limit) \/ order' = <<>>
        /\ mem' # m => Cardinality(mem') >= Capacity(limit)
    BY <2>2, KeepEffect
  <2>4. mem \ mem' # {} => mem' # m
    BY <2>2
  <2> QED BY <2>3, <2>4
<1> QED BY <1>1, Invariance, PTL DEF Spec, StoreEvictsExactly

\* save() of an instance without a limit drops its log files only for entries that
\* its metas have: no step of it takes an entry off the disk.
THEOREM UnlimitedLosesNothing == Spec => UnlimitedKeepsEntries
<1>1. ASSUME IInv, [Next]_vars, limit = Unlimited, NEW k \in Keys,
             k \in metas \/ Contains(log, k)
      PROVE  k \in metas' \/ Contains(log', k)
  <2>1. CASE Save
    <3>1. CASE k \in metas
      BY <2>1, <3>1 DEF Save
    <3>2. CASE Contains(log, k)
      <4>1. PICK n \in 1 .. Len(log) : log[n] = k
        BY <3>2 DEF Contains
      <4>2. CASE n <= old
        <5>1. /\ Len(SubSeq(log, 1, old)) = old
              /\ \A i \in 1 .. old : SubSeq(log, 1, old)[i] = log[i]
          BY <1>1, SubSeqProperties DEF IInv, Kinds
        <5>2. log' = SubSeq(log, 1, old)
          BY <2>1 DEF Save
        <5>3. n \in 1 .. old
          BY <1>1, <4>2 DEF IInv, Kinds
        <5>4. Len(log') = old /\ log'[n] = k
          BY <4>1, <5>1, <5>2, <5>3
        <5> QED BY <5>3, <5>4 DEF Contains
      <4>3. CASE n > old
        BY <1>1, <2>1, <4>1, <4>3 DEF Save, IInv, LoggedHeld
      <4> QED BY <1>1, <4>2, <4>3 DEF IInv, Kinds
    <3> QED BY <1>1, <3>1, <3>2
  <2>2. ASSUME NEW l \in Keys, Store(l) \/ StoreAnalysis(l) PROVE k \in metas' \/ Contains(log', k)
    <3>1. log' = Append(log, l) /\ metas' = metas
      BY <2>2 DEF Store, StoreAnalysis, Recorded
    <3>2. Len(log') = Len(log) + 1 /\ \A n \in 1 .. Len(log) : log'[n] = log[n]
      BY <1>1, <3>1, AppendProperties DEF IInv, Kinds
    <3> QED BY <1>1, <3>1, <3>2 DEF Contains, IInv, Kinds
  <2>3. CASE metas \subseteq metas' /\ log' = log
    BY <1>1, <2>3
  <2> QED BY <1>1, <2>1, <2>2, <2>3 DEF Next, Load, ApplyRecord, Lookup, SaveFails, Stop, vars
<1>2. ASSUME IInv, [Next]_vars
      PROVE  limit = Unlimited => \A k \in Keys : OnDisk(k) => OnDisk(k)'
  BY <1>1, <1>2 DEF OnDisk
<1> QED BY <1>2, Invariance, PTL DEF Spec, UnlimitedKeepsEntries
=============================================================================
