------------------------- MODULE MireMapExactProofs -------------------------
(***************************************************************************)
(* Proofs that MireMap's maps are exact: every entry is met once, in the   *)
(* chain of its own hash, and no two entries have one key.  So a lookup    *)
(* finds the entry of its key, and what the lookups of a map find is a     *)
(* finite function that each call changes as FiniteMaps says.              *)
(*                                                                         *)
(* The chains are argued about as links between places, apart from the     *)
(* entries that hold them: a rank that grows along every chain is what a   *)
(* push, a bypass, a renaming and a rehash each preserve or give anew.     *)
(***************************************************************************)
EXTENDS MireMapProofs

----------------------------------------------------------------------------
(* Chains.  Of a set of places, each with its bucket and its next, and of   *)
(* the buckets' heads: every place is the head of its bucket or the next of *)
(* one other, and ranks grow along the chains.                              *)

\* rank grows along the chains.
Ranked(B, S, head, next, home, rank) ==
  /\ \A i \in S : rank[i] \in Nat /\ home[i] \in B
  /\ \A b \in B : head[b] = End \/ (head[b] \in S /\ home[head[b]] = b)
  /\ \A i \in S : next[i] = End \/ (next[i] \in S /\ home[next[i]] = home[i] /\ rank[i] < rank[next[i]])
  /\ \A i \in S : head[home[i]] = i \/ \E j \in S : next[j] = i
  /\ \A i, j \in S : next[i] = next[j] => i = j \/ next[i] = End
  /\ \A i \in S, b \in B : next[i] = End \/ head[b] # next[i]

Chained(B, S, head, next, home) ==
  S \subseteq Nat /\ \E rank : Ranked(B, S, head, next, home, rank)

\* A new place becomes the head of a bucket.
LEMMA PushedChained ==
  ASSUME NEW B, NEW S, NEW head, NEW next, NEW home, Chained(B, S, head, next, home),
         NEW x \in Nat \ S, NEW b \in B,
         NEW head1, head1 = [head EXCEPT ![b] = x], DOMAIN head = B,
         NEW next1, next1[x] = head[b], \A i \in S : next1[i] = next[i],
         NEW home1, home1[x] = b, \A i \in S : home1[i] = home[i]
  PROVE  Chained(B, S \cup {x}, head1, next1, home1)
<1>1. S \subseteq Nat /\ x # End /\ x \notin S /\ End \notin S
  BY DEF Chained, End
<1>2. PICK rank : Ranked(B, S, head, next, home, rank)
  BY DEF Chained
<1> DEFINE U == S \cup {x}
           rank1 == [i \in U |-> IF i = x THEN 0 ELSE rank[i] + 1]
<1>3. /\ head1[b] = x /\ \A c \in B : c # b => head1[c] = head[c]
      /\ \A i \in U : i # x => i \in S
      /\ rank1[x] = 0 /\ \A i \in S : rank1[i] = rank[i] + 1
  BY <1>1
<1> HIDE DEF rank1, U
<1>4. \A i \in U : rank1[i] \in Nat /\ home1[i] \in B
  BY <1>2, <1>3 DEF Ranked
<1>5. \A c \in B : head1[c] = End \/ (head1[c] \in U /\ home1[head1[c]] = c)
  BY <1>2, <1>3 DEF Ranked, U
<1>6. ASSUME NEW i \in U
      PROVE  next1[i] = End \/ (next1[i] \in U /\ home1[next1[i]] = home1[i] /\ rank1[i] < rank1[next1[i]])
  <2>1. CASE i = x
    <3>1. head[b] = End \/ (head[b] \in S /\ home[head[b]] = b)
      BY <1>2 DEF Ranked
    <3>2. head[b] \in S => rank1[head[b]] > 0
      BY <1>2, <1>3 DEF Ranked
    <3> QED BY <2>1, <3>1, <3>2, <1>3 DEF U
  <2>2. CASE i # x
    <3>1. i \in S /\ next1[i] = next[i]
      BY <2>2, <1>3
    <3>2. next[i] = End \/ (next[i] \in S /\ home[next[i]] = home[i] /\ rank[i] < rank[next[i]])
      BY <1>2, <3>1 DEF Ranked
    <3>3. next[i] \in S => rank1[i] = rank[i] + 1 /\ rank1[next[i]] = rank[next[i]] + 1
                           /\ rank[i] \in Nat /\ rank[next[i]] \in Nat
      BY <1>2, <1>3, <3>1 DEF Ranked
    <3> QED BY <3>1, <3>2, <3>3 DEF U
  <2> QED BY <2>1, <2>2
<1>7. ASSUME NEW i \in U PROVE head1[home1[i]] = i \/ \E j \in U : next1[j] = i
  <2>1. CASE i = x
    BY <2>1, <1>3
  <2>2. CASE i # x /\ head[home[i]] = i
    <3>1. i \in S /\ home1[i] = home[i] /\ home[i] \in B
      BY <2>2, <1>2, <1>3 DEF Ranked
    <3>2. CASE home[i] = b
      BY <2>2, <3>1, <3>2 DEF U
    <3>3. CASE home[i] # b
      BY <2>2, <3>1, <3>3, <1>3
    <3> QED BY <3>2, <3>3
  <2>3. CASE i # x /\ head[home[i]] # i
    BY <2>3, <1>2, <1>3 DEF Ranked, U
  <2> QED BY <2>1, <2>2, <2>3
<1>8. ASSUME NEW i \in U, NEW j \in U, next1[i] = next1[j] PROVE i = j \/ next1[i] = End
  BY <1>8, <1>2, <1>3 DEF Ranked
<1>9. ASSUME NEW i \in U, NEW c \in B PROVE next1[i] = End \/ head1[c] # next1[i]
  <2>1. next1[i] \in S \/ next1[i] = End
    BY <1>2, <1>3 DEF Ranked
  <2>2. CASE c = b
    BY <2>1, <2>2, <1>1, <1>3
  <2>3. CASE c # b /\ i = x
    BY <2>3, <1>2, <1>3 DEF Ranked
  <2>4. CASE c # b /\ i # x
    BY <2>4, <1>2, <1>3 DEF Ranked
  <2> QED BY <2>2, <2>3, <2>4
<1>10. Ranked(B, U, head1, next1, home1, rank1)
  BY <1>4, <1>5, <1>6, <1>7, <1>8, <1>9 DEF Ranked
<1> QED BY <1>1, <1>10 DEF Chained, U

\* What led to a place leads to the next one.
Bypassed(B, S, head, next, home, i, head1, next1) ==
  \/ /\ head[home[i]] = i
     /\ head1[home[i]] = next[i] /\ \A c \in B : c # home[i] => head1[c] = head[c]
     /\ \A k \in S : next1[k] = next[k]
  \/ /\ head[home[i]] # i
     /\ \A c \in B : head1[c] = head[c]
     /\ \A k \in S : next1[k] = IF next[k] = i THEN next[i] ELSE next[k]

LEMMA UnlinkedChained ==
  ASSUME NEW B, NEW S, NEW head, NEW next, NEW home, Chained(B, S, head, next, home),
         NEW i \in S, NEW head1, NEW next1, Bypassed(B, S, head, next, home, i, head1, next1)
  PROVE  Chained(B, S \ {i}, head1, next1, home)
<1>1. S \subseteq Nat /\ End \notin S /\ i # End
  BY DEF Chained, End
<1>2. PICK rank : Ranked(B, S, head, next, home, rank)
  BY DEF Chained
<1> DEFINE U == S \ {i}
           b == home[i]
           n == next[i]
<1>3. /\ b \in B /\ rank[i] \in Nat
      /\ n = End \/ (n \in U /\ home[n] = b /\ rank[i] < rank[n])
  <2>1. n = End \/ (n \in S /\ home[n] = b /\ rank[i] < rank[n])
    BY <1>2 DEF Ranked
  <2> QED BY <2>1, <1>2 DEF Ranked
<1>4. \A k \in U : k \in S /\ k # i
  OBVIOUS
<1>5. \A k \in S : next[k] # i \/ (home[k] = b /\ rank[k] < rank[i])
  BY <1>1, <1>2 DEF Ranked
<1> HIDE DEF U
<1>6. CASE head[b] = i
  <2>1. /\ head1[b] = n /\ \A c \in B : c # b => head1[c] = head[c]
        /\ \A k \in S : next1[k] = next[k]
    BY <1>6 DEF Bypassed
  <2>2. \A k \in S : next[k] # i
    BY <1>1, <1>2, <1>3, <1>6 DEF Ranked
  <2>3. \A c \in B : c # b => head[c] # i
    BY <1>1, <1>2 DEF Ranked
  <2>4. \A c \in B : head1[c] = End \/ (head1[c] \in U /\ home[head1[c]] = c)
    BY <1>2, <1>3, <2>1, <2>3 DEF Ranked, U
  <2>5. \A k \in U : next1[k] = End \/ (next1[k] \in U /\ home[next1[k]] = home[k] /\ rank[k] < rank[next1[k]])
    BY <1>2, <1>4, <2>1, <2>2 DEF Ranked, U
  <2>6. ASSUME NEW k \in U PROVE head1[home[k]] = k \/ \E j \in U : next1[j] = k
    <3>1. k \in S /\ k # i /\ home[k] \in B
      BY <1>2, <1>4 DEF Ranked
    <3>2. CASE k = n
      BY <3>1, <3>2, <1>1, <1>3, <2>1
    <3>3. CASE k # n /\ head[home[k]] = k
      BY <3>1, <3>3, <1>6, <2>1
    <3>4. CASE k # n /\ head[home[k]] # k
      <4>1. PICK j \in S : next[j] = k
        BY <1>2, <3>1, <3>4 DEF Ranked
      <4> QED BY <4>1, <3>1, <3>4, <2>1 DEF U
    <3> QED BY <3>2, <3>3, <3>4
  <2>7. \A k, j \in U : next1[k] = next1[j] => k = j \/ next1[k] = End
    BY <1>2, <1>4, <2>1 DEF Ranked
  <2>8. ASSUME NEW k \in U, NEW c \in B PROVE next1[k] = End \/ head1[c] # next1[k]
    <3>1. CASE c = b
      BY <3>1, <1>2, <1>4, <2>1 DEF Ranked
    <3>2. CASE c # b
      BY <3>2, <1>2, <1>4, <2>1 DEF Ranked
    <3> QED BY <3>1, <3>2
  <2>9. Ranked(B, U, head1, next1, home, rank)
    BY <1>2, <1>4, <2>4, <2>5, <2>6, <2>7, <2>8 DEF Ranked
  <2> QED BY <1>1, <2>9 DEF Chained, U
<1>7. CASE head[b] # i
  <2>1. /\ \A c \in B : head1[c] = head[c]
        /\ \A k \in S : next1[k] = IF next[k] = i THEN n ELSE next[k]
    BY <1>7 DEF Bypassed
  <2>2. \A c \in B : head[c] # i
    BY <1>1, <1>2, <1>7 DEF Ranked
  <2>3. PICK p \in S : next[p] = i
    BY <1>2, <1>7 DEF Ranked
  <2>4. \A k \in S : next[k] = i => k = p
    BY <1>1, <1>2, <2>3 DEF Ranked
  <2>5. p \in U /\ home[p] = b /\ rank[p] \in Nat /\ rank[p] < rank[i] /\ next1[p] = n
    BY <1>2, <1>3, <1>5, <2>1, <2>3 DEF Ranked, U
  <2>6. \A c \in B : head1[c] = End \/ (head1[c] \in U /\ home[head1[c]] = c)
    BY <1>2, <2>1, <2>2 DEF Ranked, U
  <2>7. ASSUME NEW k \in U
        PROVE  next1[k] = End \/ (next1[k] \in U /\ home[next1[k]] = home[k] /\ rank[k] < rank[next1[k]])
    <3>1. CASE k = p
      <4>1. CASE n = End
        BY <3>1, <4>1, <2>5
      <4>2. CASE n # End
        <5>1. n \in U /\ rank[n] \in Nat /\ rank[i] < rank[n]
          BY <4>2, <1>2, <1>3, <1>4 DEF Ranked
        <5>2. rank[p] < rank[n]
          BY <5>1, <1>3, <2>5
        <5> QED BY <3>1, <5>1, <5>2, <1>3, <2>5
      <4> QED BY <4>1, <4>2
    <3>2. CASE k # p
      <4>1. next1[k] = next[k] /\ next[k] # i
        BY <3>2, <1>4, <2>1, <2>4
      <4> QED BY <4>1, <1>2, <1>4 DEF Ranked, U
    <3> QED BY <3>1, <3>2
  <2>8. ASSUME NEW k \in U PROVE head1[home[k]] = k \/ \E j \in U : next1[j] = k
    <3>1. k \in S /\ k # i /\ home[k] \in B
      BY <1>2, <1>4 DEF Ranked
    <3>2. CASE head[home[k]] = k
      BY <3>1, <3>2, <2>1
    <3>3. CASE head[home[k]] # k
      <4>1. PICK j \in S : next[j] = k
        BY <1>2, <3>1, <3>3 DEF Ranked
      <4>2. CASE j = i
        BY <4>1, <4>2, <2>5
      <4>3. CASE j # i
        BY <4>1, <4>3, <3>1, <2>1 DEF U
      <4> QED BY <4>2, <4>3
    <3> QED BY <3>2, <3>3
  <2>9. ASSUME NEW k \in U, NEW j \in U, next1[k] = next1[j] PROVE k = j \/ next1[k] = End
    <3>1. next1[k] = (IF next[k] = i THEN n ELSE next[k]) /\ next1[j] = (IF next[j] = i THEN n ELSE next[j])
      BY <1>4, <2>1
    <3>2. next[k] = i /\ next[j] = i => k = j
      BY <1>4, <2>4
    <3>3. next[k] = n \/ next[j] = n => n = End
      BY <1>2, <1>4 DEF Ranked
    <3>4. next[k] = next[j] => k = j \/ next[k] = End
      BY <1>2, <1>4 DEF Ranked
    <3> QED BY <2>9, <3>1, <3>2, <3>3, <3>4
  <2>10. ASSUME NEW k \in U, NEW c \in B PROVE next1[k] = End \/ head1[c] # next1[k]
    <3>1. next1[k] = n \/ next1[k] = next[k]
      BY <1>4, <2>1
    <3>2. (next[k] = End \/ head[c] # next[k]) /\ (n = End \/ head[c] # n)
      BY <1>2, <1>4 DEF Ranked
    <3> QED BY <3>1, <3>2, <2>1
  <2>11. Ranked(B, U, head1, next1, home, rank)
    BY <1>2, <1>4, <2>6, <2>7, <2>8, <2>9, <2>10 DEF Ranked
  <2> QED BY <1>1, <2>11 DEF Chained, U
<1> QED BY <1>6, <1>7

\* A place is given another name: what led to it leads to the new one.
Renamed(B, S, head, next, home, i, j, head1, next1) ==
  \/ /\ head[home[i]] = i
     /\ head1[home[i]] = j /\ \A c \in B : c # home[i] => head1[c] = head[c]
     /\ \A k \in S : next1[IF k = i THEN j ELSE k] = next[k]
  \/ /\ head[home[i]] # i
     /\ \A c \in B : head1[c] = head[c]
     /\ \A k \in S : next1[IF k = i THEN j ELSE k] = IF next[k] = i THEN j ELSE next[k]

LEMMA RenamedChained ==
  ASSUME NEW B, NEW S, NEW head, NEW next, NEW home, Chained(B, S, head, next, home),
         NEW i \in S, NEW j \in Nat \ S, NEW head1, NEW next1, NEW home1,
         Renamed(B, S, head, next, home, i, j, head1, next1),
         \A k \in S : home1[IF k = i THEN j ELSE k] = home[k]
  PROVE  Chained(B, (S \ {i}) \cup {j}, head1, next1, home1)
<1>1. S \subseteq Nat /\ End \notin S /\ i # End /\ j # End /\ j \notin S
  BY DEF Chained, End
<1>2. PICK rank : Ranked(B, S, head, next, home, rank)
  BY DEF Chained
<1> DEFINE U == (S \ {i}) \cup {j}
           new(k) == IF k = i THEN j ELSE k
           old(k) == IF k = j THEN i ELSE k
           rank1 == [k \in U |-> rank[old(k)]]
<1>3. /\ \A k \in S : new(k) \in U /\ old(new(k)) = k
      /\ \A k \in U : old(k) \in S /\ new(old(k)) = k
      /\ \A k \in U : rank1[k] = rank[old(k)]
      /\ \A k, l \in S : new(k) = new(l) => k = l
      /\ new(End) = End /\ \A k \in U : k # End
  BY <1>1
<1>4. \A k \in S : next[k] # i \/ home[k] = home[i]
  BY <1>1, <1>2 DEF Ranked
<1>5. /\ \A c \in B : head1[c] = new(head[c])
      /\ \A k \in S : next1[new(k)] = new(next[k])
  <2>1. \A c \in B : c # home[i] => head[c] # i
    BY <1>1, <1>2 DEF Ranked
  <2>2. home[i] \in B
    BY <1>2 DEF Ranked
  <2>3. CASE head[home[i]] = i
    <3>1. \A k \in S : next[k] # i
      BY <1>1, <1>2, <2>2, <2>3 DEF Ranked
    <3> QED BY <2>1, <2>3, <3>1 DEF Renamed
  <2>4. CASE head[home[i]] # i
    BY <2>1, <2>2, <2>4 DEF Renamed
  <2> QED BY <2>3, <2>4
<1>6. \A k \in S : home1[new(k)] = home[k]
  OBVIOUS
<1> HIDE DEF U, new, old, rank1
<1>7. \A k \in U : rank1[k] \in Nat /\ home1[k] \in B
  BY <1>2, <1>3, <1>6 DEF Ranked
<1>8. ASSUME NEW c \in B PROVE head1[c] = End \/ (head1[c] \in U /\ home1[head1[c]] = c)
  <2>1. head[c] = End \/ (head[c] \in S /\ home[head[c]] = c)
    BY <1>2 DEF Ranked
  <2> QED BY <2>1, <1>3, <1>5, <1>6
<1>9. ASSUME NEW k \in U
      PROVE  next1[k] = End \/ (next1[k] \in U /\ home1[next1[k]] = home1[k] /\ rank1[k] < rank1[next1[k]])
  <2> DEFINE o == old(k)
  <2>1. o \in S /\ next1[k] = new(next[o]) /\ home1[k] = home[o] /\ rank1[k] = rank[o]
    BY <1>3, <1>5, <1>6
  <2>2. next[o] = End \/ (next[o] \in S /\ home[next[o]] = home[o] /\ rank[o] < rank[next[o]])
    BY <1>2, <2>1 DEF Ranked
  <2>3. next[o] \in S => rank1[new(next[o])] = rank[next[o]] /\ home1[new(next[o])] = home[next[o]]
    BY <1>3, <1>6
  <2> QED BY <2>1, <2>2, <2>3, <1>3
<1>10. ASSUME NEW k \in U PROVE head1[home1[k]] = k \/ \E l \in U : next1[l] = k
  <2> DEFINE o == old(k)
  <2>1. o \in S /\ home1[k] = home[o] /\ home[o] \in B /\ new(o) = k
    BY <1>2, <1>3, <1>6 DEF Ranked
  <2>2. head[home[o]] = o \/ \E l \in S : next[l] = o
    BY <1>2, <2>1 DEF Ranked
  <2> QED BY <2>1, <2>2, <1>3, <1>5
<1>11. ASSUME NEW k \in U, NEW l \in U, next1[k] = next1[l] PROVE k = l \/ next1[k] = End
  <2> DEFINE o == old(k)
             p == old(l)
  <2>1. /\ o \in S /\ p \in S /\ new(o) = k /\ new(p) = l
        /\ next1[k] = new(next[o]) /\ next1[l] = new(next[p])
    BY <1>3, <1>5
  <2>2. (next[o] \in S \/ next[o] = End) /\ (next[p] \in S \/ next[p] = End)
    BY <1>2, <2>1 DEF Ranked
  <2>3. next[o] = next[p]
    <3>1. new(next[o]) = new(next[p])
      BY <1>11, <2>1
    <3>2. \A x \in S : new(x) # End
      BY <1>3
    <3> QED BY <3>1, <3>2, <2>2, <1>3
  <2> QED BY <1>2, <1>3, <2>1, <2>3 DEF Ranked
<1>12. ASSUME NEW k \in U, NEW c \in B PROVE next1[k] = End \/ head1[c] # next1[k]
  <2> DEFINE o == old(k)
  <2>1. o \in S /\ next1[k] = new(next[o]) /\ head1[c] = new(head[c])
    BY <1>3, <1>5
  <2>2. (next[o] \in S \/ next[o] = End) /\ (head[c] \in S \/ head[c] = End)
    BY <1>2, <2>1 DEF Ranked
  <2>3. next[o] = End \/ head[c] # next[o]
    BY <1>2, <2>1 DEF Ranked
  <2> QED BY <1>3, <2>1, <2>2, <2>3
<1>13. Ranked(B, U, head1, next1, home1, rank1)
  BY <1>7, <1>8, <1>9, <1>10, <1>11, <1>12 DEF Ranked
<1> QED BY <1>1, <1>13 DEF Chained, U

\* Every place led to by the nearest one behind it in its bucket, as after a
\* rehash.
LEMMA RehashedChained ==
  ASSUME NEW B, NEW N \in Nat, NEW home, \A i \in 0..(N - 1) : home[i] \in B,
         NEW next, \A i \in 0..(N - 1) :
           LET S == {j \in 0..(N - 1) : j < i /\ home[j] = home[i]}
           IN  next[i] = IF S = {} THEN End ELSE Max(S),
         NEW head, \A b \in B :
           LET S == {j \in 0..(N - 1) : home[j] = b} IN head[b] = IF S = {} THEN End ELSE Max(S)
  PROVE  Chained(B, 0..(N - 1), head, next, home)
<1> DEFINE I == 0..(N - 1)
           same(i) == {j \in I : j < i /\ home[j] = home[i]}
           in(b) == {j \in I : home[j] = b}
           rank == [i \in I |-> N - i]
<1>1. ASSUME NEW S, S \subseteq I, S # {} PROVE Max(S) \in S /\ \A k \in S : k <= Max(S)
  <2>1. S \in SUBSET Nat /\ \A k \in S : k <= N
    BY <1>1
  <2> QED BY <2>1, <1>1, MaxOf
<1>2. ASSUME NEW i \in I
      PROVE  \/ next[i] = End /\ \A j \in I : home[j] = home[i] => j >= i
             \/ /\ next[i] \in I /\ next[i] < i /\ home[next[i]] = home[i]
                /\ \A j \in I : j < i /\ home[j] = home[i] => j <= next[i]
  <2>1. CASE same(i) = {}
    <3>1. next[i] = End
      BY <2>1
    <3>2. \A j \in I : home[j] = home[i] => ~(j < i)
      BY <2>1
    <3> QED BY <3>1, <3>2
  <2>2. CASE same(i) # {}
    <3>1. Max(same(i)) \in same(i) /\ \A k \in same(i) : k <= Max(same(i))
      <4>1. same(i) \subseteq I
        OBVIOUS
      <4> HIDE DEF same, I
      <4> QED BY <4>1, <2>2, <1>1
    <3>2. next[i] = Max(same(i))
      BY <2>2
    <3> QED BY <3>1, <3>2
  <2> QED BY <2>1, <2>2
<1>3. ASSUME NEW b \in B
      PROVE  \/ head[b] = End /\ \A j \in I : home[j] # b
             \/ /\ head[b] \in I /\ home[head[b]] = b
                /\ \A j \in I : home[j] = b => j <= head[b]
  <2>1. CASE in(b) = {}
    BY <2>1
  <2>2. CASE in(b) # {}
    <3>1. Max(in(b)) \in in(b) /\ \A k \in in(b) : k <= Max(in(b))
      <4>1. in(b) \subseteq I
        OBVIOUS
      <4> HIDE DEF in, I
      <4> QED BY <4>1, <2>2, <1>1
    <3>2. head[b] = Max(in(b))
      BY <2>2
    <3> QED BY <3>1, <3>2
  <2> QED BY <2>1, <2>2
<1>4. /\ I \subseteq Nat /\ End \notin I
      /\ \A i \in I : home[i] \in B /\ rank[i] = N - i /\ rank[i] \in Nat
  BY DEF End
<1>5. \A i, j \in I : j < i => rank[i] < rank[j]
  BY <1>4
<1> HIDE DEF rank, same, in, I
<1>6. \A b \in B : head[b] = End \/ (head[b] \in I /\ home[head[b]] = b)
  BY <1>3
<1>7. \A i \in I : next[i] = End \/ (next[i] \in I /\ home[next[i]] = home[i] /\ rank[i] < rank[next[i]])
  BY <1>2, <1>5
<1>8. ASSUME NEW i \in I, head[home[i]] # i PROVE \E j \in I : next[j] = i
  <2> DEFINE ahead == {j \in I : i < j /\ home[j] = home[i]}
  <2>1. head[home[i]] \in ahead
    <3>1. home[i] \in B
      BY <1>4
    <3>2. head[home[i]] \in I /\ home[head[home[i]]] = home[i] /\ i <= head[home[i]]
      BY <1>3, <3>1
    <3>3. i \in Nat /\ head[home[i]] \in Nat
      BY <1>4, <3>2
    <3>4. i < head[home[i]]
      BY <1>8, <3>2, <3>3
    <3> QED BY <3>2, <3>4
  <2>2. ahead \in SUBSET Nat /\ ahead # {}
    BY <2>1, <1>4
  <2> HIDE DEF ahead
  <2>3. PICK j \in ahead : \A k \in ahead : j <= k
    BY <2>2, Least
  <2>4. j \in I /\ i < j /\ home[j] = home[i]
    BY DEF ahead
  <2>5. next[j] \in I /\ next[j] < j /\ home[next[j]] = home[i] /\ i <= next[j]
    BY <1>2, <1>4, <2>4
  <2>6. next[j] \notin ahead
    <3>1. j \in Nat /\ next[j] \in Nat
      BY <1>4, <2>4, <2>5
    <3>2. ~(j <= next[j])
      BY <3>1, <2>5
    <3> QED BY <2>3, <3>2
  <2>7. next[j] = i
    <3>1. ~(i < next[j])
      BY <2>5, <2>6 DEF ahead
    <3>2. i \in Nat /\ next[j] \in Nat
      BY <1>4, <2>5
    <3> QED BY <2>5, <3>1, <3>2
  <2> QED BY <2>4, <2>7
<1>9. ASSUME NEW i \in I, NEW j \in I, next[i] = next[j], i # j PROVE next[i] = End
  <2>1. ASSUME NEW k \in I, NEW l \in I, k < l, next[k] = next[l], next[k] # End PROVE FALSE
    <3>1. next[k] < k /\ home[next[k]] = home[k] /\ next[k] \in I
      BY <1>2, <2>1
    <3>2. home[next[l]] = home[l] /\ (k < l /\ home[k] = home[l] => k <= next[l])
      BY <1>2, <2>1
    <3>3. home[k] = home[l] /\ k <= next[k]
      BY <3>1, <3>2, <2>1
    <3>4. k \in Nat /\ next[k] \in Nat
      BY <1>4, <3>1
    <3> QED BY <3>1, <3>3, <3>4
  <2>2. i < j \/ j < i
    <3>1. i \in Nat /\ j \in Nat
      BY <1>4
    <3> QED BY <3>1, <1>9
  <2> QED BY <2>1, <2>2, <1>9
<1>10. ASSUME NEW i \in I, NEW b \in B, next[i] # End PROVE head[b] # next[i]
  <2>1. next[i] \in I /\ next[i] < i /\ home[next[i]] = home[i]
    BY <1>2, <1>10
  <2>2. CASE head[b] = next[i]
    <3>1. home[i] = b /\ i <= head[b]
      BY <2>1, <2>2, <1>3, <1>4
    <3>2. i \in Nat /\ next[i] \in Nat
      BY <1>4, <2>1
    <3> QED BY <2>1, <2>2, <3>1, <3>2
  <2> QED BY <2>2
<1>11. Ranked(B, I, head, next, home, rank)
  BY <1>4, <1>6, <1>7, <1>8, <1>9, <1>10 DEF Ranked
<1> QED BY <1>4, <1>11 DEF Chained, I

----------------------------------------------------------------------------
(* The chains of a map. *)

Nexts(d) == [i \in Indices(d) |-> Entry(d, i).next]
Homes(d) == [i \in Indices(d) |-> BucketOf(d, Entry(d, i).hash)]

Linked(d) == d = NoMap \/ Chained(DOMAIN d.buckets, Indices(d), d.buckets, Nexts(d), Homes(d))

\* Going along a chain: one place after the other, until its end.
Follows(N, I, first, next, at) ==
  /\ at[0] = first
  /\ \A n \in 1..N : at[n] = IF at[n - 1] \in I THEN next[at[n - 1]] ELSE End

\* The walk of a bucket is one of those.
LEMMA WalkGoes ==
  ASSUME NEW d \in Dicts, NEW b \in DOMAIN d.buckets
  PROVE  Follows(Len(d.entries), Indices(d), d.buckets[b], Nexts(d), Walk(d, b))
<1> DEFINE L == Len(d.entries)
           Step(i) == IF i \in Indices(d) THEN Entry(d, i).next ELSE End
           Is(f) == f = [n \in 0..L |-> IF n = 0 THEN d.buckets[b] ELSE Step(f[n - 1])]
           T == [n \in 0..L |-> Int]
           step == [p \in (1..L) \X Int |-> Step(p[2])]
<1>1. L \in Nat /\ d.buckets[b] \in Int
  <2>1. d # NoMap
    BY DEF NoMap
  <2> QED BY <2>1, Bucketed, DictFacts
<1>2. \A i : Step(i) \in Int
  BY DictFacts DEF EntryType, End
<1>3. Walk(d, b) = CHOOSE f : Is(f)
  BY DEF Walk
<1>4. \E f : Is(f)
  <2>1. \A n \in 1..L : \A i \in Int : step[<<n, i>>] = Step(i)
    OBVIOUS
  <2>2. /\ \A n \in 1..L : n \in 0..L /\ n - 1 \in 0..L
        /\ \A n \in 0..L : n = 0 \/ n \in 1..L
        /\ \A n \in 0..L : T[n] = Int
        /\ 0 \in 0..L
    BY <1>1
  <2> HIDE DEF T, step, L, Step
  <2>3. Leads(L, T, Int, step)
    BY <1>2, <2>1, <2>2 DEF Leads
  <2>4. PICK f \in [0..L -> Int] : f[0] = d.buckets[b] /\ Path(L, T, step, f)
    <3>1. d.buckets[b] \in T[0]
      BY <1>1, <2>2
    <3> QED BY <1>1, <2>3, <3>1, Iteration, Zenon
  <2>5. \A n \in 1..L : f[n] = Step(f[n - 1])
    <3>1. \A n \in 1..L : f[n] = step[<<n, f[n - 1]>>] /\ f[n - 1] \in Int
      BY <2>2, <2>4 DEF Path
    <3> QED BY <2>1, <3>1
  <2>6. Is(f)
    BY <2>2, <2>4, <2>5
  <2> QED BY <2>6
<1> DEFINE at == Walk(d, b)
<1>5. Is(at)
  <2> HIDE DEF Is
  <2> QED BY <1>3, <1>4
<1>6. at[0] = d.buckets[b] /\ \A n \in 1..L : at[n] = Step(at[n - 1])
  <2> HIDE DEF Step, at, L
  <2>1. 0 \in 0..L /\ \A n \in 1..L : n \in 0..L /\ n # 0
    BY <1>1
  <2> QED BY <1>5, <2>1
<1> HIDE DEF at
<1> QED BY <1>6 DEF Follows, Nexts, at

\* The steps on which a walk stands on an entry.
Met(d, b) == {n \in 0..Len(d.entries) : Walk(d, b)[n] # End}

\* Such a walk meets each place of the bucket once, and ends.
LEMMA WalkExact ==
  ASSUME NEW d \in Dicts, Linked(d), NEW b \in DOMAIN d.buckets
  PROVE  /\ \A n \in Met(d, b) : Walk(d, b)[n] \in Indices(d) /\ Homes(d)[Walk(d, b)[n]] = b
         /\ \A i \in Indices(d) : Homes(d)[i] = b => \E n \in Met(d, b) : Walk(d, b)[n] = i
         /\ \A n, k \in Met(d, b) : Walk(d, b)[n] = Walk(d, b)[k] => n = k
<1> DEFINE N == Len(d.entries)
           I == Indices(d)
           B == DOMAIN d.buckets
           head == d.buckets
           next == Nexts(d)
           home == Homes(d)
           at == Walk(d, b)
<1>0. /\ N \in Nat /\ I = 0..(N - 1) /\ b \in B
      /\ Chained(B, I, head, next, home)
      /\ Follows(N, I, head[b], next, at)
  <2>1. d # NoMap
    BY DEF NoMap
  <2>2. Chained(B, I, head, next, home)
    BY <2>1 DEF Linked
  <2> QED BY <2>2, WalkGoes, DictFacts DEF Indices
<1> DEFINE met == {n \in 0..N : at[n] # End}
<1> HIDE DEF N, I, B, head, next, home, at
<1>1. I \subseteq Nat /\ End \notin I
  BY <1>0 DEF End
<1>2. PICK rank : Ranked(B, I, head, next, home, rank)
  BY <1>0 DEF Chained
<1>3. /\ \A n \in 1..N : n \in 0..N /\ n - 1 \in 0..N /\ at[n] = IF at[n - 1] \in I THEN next[at[n - 1]] ELSE End
      /\ \A n \in 0..N : n < N => n + 1 \in 1..N /\ (n + 1) - 1 = n
      /\ 0 \in 0..N
      /\ at[0] = head[b]
  BY <1>0 DEF Follows
\* Every place met is one of the bucket, and of a greater rank than all before.
<1> DEFINE Ahead(n, x) == x = End \/ (x \in I /\ home[x] = b /\ \A k \in 0..N : k < n => at[k] \in I /\ rank[at[k]] < rank[x])
           T == [n \in 0..N |-> {x \in I \cup {End} : Ahead(n, x)}]
<1>4. \A n \in 0..N : at[n] \in T[n]
  <2>1. at[0] \in T[0]
    <3>1. head[b] = End \/ (head[b] \in I /\ home[head[b]] = b)
      BY <1>0, <1>2 DEF Ranked
    <3>2. \A k \in 0..N : ~(k < 0)
      OBVIOUS
    <3> QED BY <1>3, <3>1, <3>2
  <2>2. ASSUME NEW n \in 1..N, at[n - 1] \in T[n - 1] PROVE at[n] \in T[n]
    <3> DEFINE x == at[n - 1]
    <3>1. x \in I \cup {End} /\ Ahead(n - 1, x)
      BY <1>3, <2>2
    <3>2. CASE x = End
      BY <3>2, <1>1, <1>3
    <3>3. CASE x # End /\ next[x] = End
      BY <3>1, <3>3, <1>3
    <3>4. CASE x # End /\ next[x] # End
      <4>1. x \in I /\ home[x] = b /\ at[n] = next[x]
        BY <3>1, <3>4, <1>3
      <4>2. next[x] \in I /\ home[next[x]] = b /\ rank[x] < rank[next[x]]
        BY <1>2, <3>4, <4>1 DEF Ranked
      <4>3. ASSUME NEW k \in 0..N, k < n PROVE at[k] \in I /\ rank[at[k]] < rank[next[x]]
        <5>1. CASE k = n - 1
          BY <4>1, <4>2, <5>1
        <5>2. CASE k # n - 1
          <6>1. k < n - 1
            BY <4>3, <5>2
          <6>2. at[k] \in I /\ rank[at[k]] < rank[x]
            BY <3>1, <3>4, <6>1
          <6>3. rank[at[k]] \in Nat /\ rank[x] \in Nat /\ rank[next[x]] \in Nat
            BY <1>2, <4>1, <4>2, <6>2 DEF Ranked
          <6> QED BY <4>2, <6>2, <6>3
        <5> QED BY <5>1, <5>2
      <4> QED BY <4>1, <4>2, <4>3, <1>3
    <3> QED BY <3>2, <3>3, <3>4
  <2> HIDE DEF T
  <2> QED BY <1>0, <2>1, <2>2, Staying
<1>5. \A n \in met : /\ at[n] \in I /\ home[at[n]] = b
                     /\ \A k \in 0..N : k < n => rank[at[k]] < rank[at[n]]
  BY <1>4
<1> HIDE DEF T
<1>6. \A n, k \in met : at[n] = at[k] => n = k
  <2>1. ASSUME NEW n \in met, NEW k \in met, at[n] = at[k], n < k PROVE FALSE
    <3>1. rank[at[n]] < rank[at[k]] /\ rank[at[k]] \in Nat
      BY <1>2, <1>5, <2>1 DEF Ranked
    <3> QED BY <2>1, <3>1
  <2>2. \A n, k \in met : n = k \/ n < k \/ k < n
    OBVIOUS
  <2> QED BY <2>1, <2>2
\* A walk that has not ended after N links would have met N + 1 places.
<1>7. N \notin met
  <2> SUFFICES ASSUME N \in met PROVE FALSE
    OBVIOUS
  <2>1. \A n \in 0..N : n \in met
    <3>1. \A n \in 0..N : n = N \/ n < N
      OBVIOUS
    <3>2. \A n \in 0..N : n < N => at[n] \in I
      BY <1>4 DEF T
    <3> QED BY <3>1, <3>2, <1>1
  <2> DEFINE f == [n \in 0..N |-> at[n]]
  <2>2. f \in [0..N -> I]
    BY <1>5, <2>1
  <2>3. /\ IsFiniteSet(0..N) /\ Cardinality(0..N) = N - 0 + 1
        /\ IsFiniteSet(I) /\ Cardinality(I) = IF 0 > N - 1 THEN 0 ELSE (N - 1) - 0 + 1
    BY <1>0, FS_Interval
  <2>4. Cardinality(I) < Cardinality(0..N)
    BY <2>3
  <2>5. PICK n \in 0..N, k \in 0..N : n # k /\ f[n] = f[k]
    <3> HIDE DEF f
    <3> QED BY <2>2, <2>3, <2>4, FS_PigeonHole
  <2> QED BY <1>6, <2>1, <2>5
<1>8. ASSUME NEW i \in I, home[i] = b PROVE \E n \in met : at[n] = i
  <2> DEFINE missed == {j \in I : home[j] = b /\ ~ \E n \in met : at[n] = j}
             ranks == {rank[j] : j \in missed}
  <2>1. CASE missed = {}
    BY <1>8, <2>1
  <2>2. CASE missed # {}
    <3>1. ranks \in SUBSET Nat /\ ranks # {}
      BY <1>2, <2>2 DEF Ranked
    <3>2. PICK r \in ranks : \A q \in ranks : r <= q
      <4> HIDE DEF ranks
      <4> QED BY <3>1, Least
    <3>3. PICK j \in missed : rank[j] = r
      OBVIOUS
    <3>4. j \in I /\ home[j] = b /\ \A n \in met : at[n] # j
      OBVIOUS
    <3>5. j # End
      BY <1>1, <3>4
    <3>6. head[b] # j
      BY <1>3, <3>4, <3>5
    <3>7. PICK p \in I : next[p] = j
      BY <1>2, <3>4, <3>6 DEF Ranked
    <3>8. home[p] = b /\ rank[p] < rank[j] /\ rank[p] \in Nat /\ rank[j] \in Nat
      BY <1>2, <3>4, <3>5, <3>7 DEF Ranked
    <3>9. p \notin missed
      <4>1. p \in missed => r <= rank[p]
        BY <3>2
      <4> QED BY <4>1, <3>3, <3>8
    <3>10. PICK n \in met : at[n] = p
      BY <3>7, <3>8, <3>9
    <3>11. n \in 0..N /\ n < N
      BY <1>0, <1>7
    <3>12. at[n + 1] = j /\ n + 1 \in 0..N
      BY <1>3, <3>7, <3>10, <3>11
    <3> QED BY <3>4, <3>5, <3>12
  <2> QED BY <2>1, <2>2
<1> QED BY <1>5, <1>6, <1>8 DEF Met, N, I, home, at

----------------------------------------------------------------------------
(* What each operation does to the chains. *)

LEMMA ChainedSame ==
  ASSUME NEW B, NEW S, NEW head, NEW next, NEW home, Chained(B, S, head, next, home),
         NEW head1, NEW next1, NEW home1, \A b \in B : head1[b] = head[b],
         \A i \in S : next1[i] = next[i] /\ home1[i] = home[i]
  PROVE  Chained(B, S, head1, next1, home1)
<1>1. PICK rank : Ranked(B, S, head, next, home, rank)
  BY DEF Chained
<1>2. /\ \A b \in B : head1[b] = End \/ (head1[b] \in S /\ home1[head1[b]] = b)
      /\ \A i \in S : next1[i] = End \/ (next1[i] \in S /\ home1[next1[i]] = home1[i] /\ rank[i] < rank[next1[i]])
      /\ \A i \in S : rank[i] \in Nat /\ home1[i] \in B
  BY <1>1 DEF Ranked
<1>3. \A i \in S : head1[home1[i]] = i \/ \E j \in S : next1[j] = i
  BY <1>1 DEF Ranked
<1>4. \A i, j \in S : next1[i] = next1[j] => i = j \/ next1[i] = End
  BY <1>1 DEF Ranked
<1>5. \A i \in S, b \in B : next1[i] = End \/ head1[b] # next1[i]
  BY <1>1 DEF Ranked
<1> QED BY <1>2, <1>3, <1>4, <1>5 DEF Chained, Ranked

\* Where an entry belongs depends on its hash and the number of buckets alone.
\* A value replaced: the links are what they were.
LEMMA ReplacedLinked ==
  ASSUME NEW h, h.d \in Dicts, Linked(h.d), NEW i \in Indices(h.d), NEW value,
         Replaced(h, i, value).d \in Dicts
  PROVE  Linked(Replaced(h, i, value).d)
<1> DEFINE d == h.d
           v == NextBlock(Released(h.arena, Entry(d, i).value), value)
           e == [d EXCEPT !.entries[i + 1].value = v]
<1>1. /\ d = [entries |-> d.entries, buckets |-> d.buckets, cap |-> d.cap]
      /\ DOMAIN d.entries = 1..Len(d.entries) /\ Len(d.entries) \in Nat /\ i + 1 \in 1..Len(d.entries)
      /\ \A n \in 1..Len(d.entries) : d.entries[n] \in EntryType
      /\ \A k \in Indices(d) : k + 1 \in 1..Len(d.entries)
  BY DictFacts
<1>2. Replaced(h, i, value).d = e
  BY DEF Replaced
<1> HIDE DEF v
<1>3. /\ e.buckets = d.buckets /\ e.entries = [d.entries EXCEPT ![i + 1] = [@ EXCEPT !.value = v]]
  BY <1>1
<1>4. /\ Len(e.entries) = Len(d.entries)
      /\ \A n \in 1..Len(d.entries) : /\ e.entries[n].hash = d.entries[n].hash
                                      /\ e.entries[n].next = d.entries[n].next
  BY <1>1, <1>3 DEF EntryType
<1> HIDE DEF e, d
<1>5. d # NoMap
  BY <1>1 DEF NoMap
<1>6. /\ Indices(e) = Indices(d)
      /\ \A k \in Indices(d) : Entry(e, k).hash = Entry(d, k).hash /\ Entry(e, k).next = Entry(d, k).next
  BY <1>1, <1>4 DEF Indices, Entry
<1>7. \A k \in Indices(d) : Homes(e)[k] = Homes(d)[k] /\ Nexts(e)[k] = Nexts(d)[k]
  BY <1>3, <1>6 DEF Homes, Nexts, BucketOf
<1>8. Chained(DOMAIN d.buckets, Indices(d), d.buckets, Nexts(d), Homes(d))
  BY <1>5 DEF Linked, d
<1>9. Chained(DOMAIN d.buckets, Indices(d), e.buckets, Nexts(e), Homes(e))
  BY <1>3, <1>7, <1>8, ChainedSame
<1> QED BY <1>2, <1>3, <1>6, <1>9 DEF Linked

\* An entry added: its place is the new head of its bucket.
LEMMA AddedLinked ==
  ASSUME NEW h, h.d \in Dicts, Linked(h.d), NEW key \in Keys, NEW value, Added(h, key, value).d \in Dicts
  PROVE  Linked(Added(h, key, value).d)
<1> DEFINE d == Ensured(h.d)
           L == Len(d.entries)
           b == BucketOf(d, Hash[key])
           k == NextBlock(h.arena, key)
           v == NextBlock(Allocated(h.arena, key), value)
           e == [hash |-> Hash[key], next |-> d.buckets[b], key |-> k, value |-> v]
           g == Added(h, key, value).d
<1>1. d \in Dicts /\ d # NoMap
  BY EnsuredIs
<1>2. Chained(DOMAIN d.buckets, Indices(d), d.buckets, Nexts(d), Homes(d))
  <2>1. CASE h.d = NoMap
    <3>1. d = NewMap
      BY <2>1 DEF Ensured
    <3>2. Indices(NewMap) = {}
      BY DEF Indices, NewMap
    <3>3. \A c \in DOMAIN NewMap.buckets : NewMap.buckets[c] = End
      BY DEF NewMap
    <3>4. Ranked(DOMAIN d.buckets, {}, d.buckets, Nexts(d), Homes(d), << >>)
      BY <3>1, <3>3 DEF Ranked
    <3> QED BY <3>1, <3>2, <3>4 DEF Chained
  <2>2. CASE h.d # NoMap
    BY <2>2 DEF Ensured, Linked
  <2> QED BY <2>1, <2>2
<1>3. PICK count \in Nat \ {0} : d.buckets \in [0..(count - 1) -> Int] /\ Cardinality(DOMAIN d.buckets) = count
  BY <1>1, Bucketed
<1>4. Hash[key] \in Nat
  BY MapAssumption
<1>5. b \in DOMAIN d.buckets
  BY <1>3, <1>4 DEF BucketOf
<1>6. d.entries \in Seq(EntryType) /\ L \in Nat
  BY <1>1, DictFacts
<1>7. g.entries = Append(d.entries, e) /\ g.buckets = [d.buckets EXCEPT ![b] = L]
  BY DEF Added
<1>8. e.hash = Hash[key] /\ e.next = d.buckets[b]
  OBVIOUS
<1> HIDE DEF e, d, b, g, L
<1>9. /\ Len(g.entries) = L + 1 /\ g.entries[L + 1] = e
      /\ \A n \in 1..L : g.entries[n] = d.entries[n]
  BY <1>6, <1>7 DEF L
<1>10. /\ Indices(d) = 0..(L - 1) /\ Indices(g) = Indices(d) \cup {L} /\ L \notin Indices(d)
       /\ Entry(g, L) = e /\ \A i \in Indices(d) : Entry(g, i) = Entry(d, i)
  <2>1. Indices(d) = 0..(L - 1) /\ Indices(g) = 0..L
    BY <1>6, <1>9 DEF Indices, L
  <2>2. 0..L = 0..(L - 1) \cup {L} /\ L \notin 0..(L - 1) /\ \A i \in 0..(L - 1) : i + 1 \in 1..L
    BY <1>6
  <2> QED BY <2>1, <2>2, <1>9 DEF Entry
<1>11. DOMAIN g.buckets = DOMAIN d.buckets
  BY <1>7
<1>12. /\ \A i \in Indices(d) : Homes(g)[i] = Homes(d)[i] /\ Nexts(g)[i] = Nexts(d)[i]
       /\ Homes(g)[L] = b /\ Nexts(g)[L] = d.buckets[b]
  BY <1>8, <1>10, <1>11 DEF Homes, Nexts, BucketOf, b
<1>13. L \in Nat \ Indices(d)
  BY <1>6, <1>10
<1>14. Chained(DOMAIN d.buckets, Indices(d) \cup {L}, g.buckets, Nexts(g), Homes(g))
  BY <1>2, <1>5, <1>7, <1>12, <1>13, PushedChained
<1> QED BY <1>10, <1>11, <1>14 DEF Linked, g

\* The buckets grown: every place is ranked anew, the latest first.
LEMMA RehashedLinked ==
  ASSUME NEW d \in Dicts, NEW count \in Nat \ {0}
  PROVE  Linked(Rehashed(d, count))
<1> DEFINE L == Len(d.entries)
           B == 0..(count - 1)
           r == Rehashed(d, count)
           same(i) == {j \in Indices(d) : j < i /\ Entry(d, j).hash % count = Entry(d, i).hash % count}
           in(b)   == {j \in Indices(d) : Entry(d, j).hash % count = b}
           latest(S) == IF S = {} THEN End ELSE Max(S)
<1>1. /\ L \in Nat /\ DOMAIN d.entries = 1..L
      /\ \A n \in 1..L : d.entries[n] \in EntryType
      /\ \A i \in Indices(d) : i \in Nat /\ i + 1 \in 1..L /\ (i + 1) - 1 = i /\ Entry(d, i) \in EntryType
  BY DictFacts
<1>2. /\ r.entries = [n \in 1..L |-> [d.entries[n] EXCEPT !.next = latest(same(n - 1))]]
      /\ r.buckets = [b \in B |-> latest(in(b))]
  BY <1>1 DEF Rehashed
<1> HIDE DEF r, same, in, latest
<1>3. Len(r.entries) = L /\ Indices(r) = 0..(L - 1) /\ Indices(d) = 0..(L - 1)
  BY <1>1, <1>2 DEF Indices
<1>4. \A i \in Indices(d) : Entry(r, i).hash = Entry(d, i).hash /\ Entry(r, i).next = latest(same(i))
  BY <1>1, <1>2 DEF Entry, EntryType
<1>5. DOMAIN r.buckets = B /\ Cardinality(B) = count
  <2>1. Cardinality(B) = (count - 1) - 0 + 1
    BY FS_Interval
  <2> QED BY <1>2, <2>1
<1>6. \A i \in Indices(d) : /\ Homes(r)[i] = Entry(d, i).hash % count /\ Homes(r)[i] \in B
                            /\ Nexts(r)[i] = latest(same(i))
  <2>1. \A i \in Indices(d) : /\ Homes(r)[i] = Entry(d, i).hash % count
                              /\ Nexts(r)[i] = latest(same(i))
    BY <1>3, <1>4, <1>5 DEF Homes, Nexts, BucketOf
  <2>2. \A i \in Indices(d) : Entry(d, i).hash \in Nat
    BY <1>1 DEF EntryType
  <2> QED BY <2>1, <2>2
<1>7. \A i \in Indices(d) : same(i) = {j \in Indices(d) : j < i /\ Homes(r)[j] = Homes(r)[i]}
  BY <1>6 DEF same
<1>8. \A b \in B : in(b) = {j \in Indices(d) : Homes(r)[j] = b}
  BY <1>6 DEF in
<1> HIDE DEF B
<1>9. \A i \in 0..(L - 1) : LET S == {j \in 0..(L - 1) : j < i /\ Homes(r)[j] = Homes(r)[i]}
                            IN  Nexts(r)[i] = IF S = {} THEN End ELSE Max(S)
  BY <1>3, <1>6, <1>7 DEF latest
<1>10. \A b \in B : LET S == {j \in 0..(L - 1) : Homes(r)[j] = b}
                    IN  r.buckets[b] = IF S = {} THEN End ELSE Max(S)
  BY <1>2, <1>3, <1>8 DEF latest
<1>11. \A i \in 0..(L - 1) : Homes(r)[i] \in B
  BY <1>3, <1>6
<1>12. Chained(B, 0..(L - 1), r.buckets, Nexts(r), Homes(r))
  <2> HIDE DEF L
  <2> QED BY <1>1, <1>9, <1>10, <1>11, RehashedChained
<1> QED BY <1>3, <1>5, <1>12 DEF Linked, r

LEMMA GrownLinked ==
  ASSUME NEW d \in Dicts, d # NoMap, Linked(d)
  PROVE  Linked(Grown(d))
<1>1. PICK n \in Nat \ {0} : Cardinality(DOMAIN d.buckets) = n
  BY Bucketed
<1>2. 2 * n \in Nat \ {0}
  OBVIOUS
<1> QED BY <1>1, <1>2, RehashedLinked DEF Grown

\* What a relinking writes: the head of the bucket, or the links to i.
LEMMA RelinkedFields ==
  ASSUME NEW d \in Dicts, d # NoMap, NEW b \in DOMAIN d.buckets, NEW i, NEW j \in Int
  PROVE  LET r == Relinked(d, b, i, j)
         IN  /\ Len(r.entries) = Len(d.entries) /\ DOMAIN r.buckets = DOMAIN d.buckets
             /\ \A k \in Indices(d) : Entry(r, k).hash = Entry(d, k).hash
             /\ \/ /\ d.buckets[b] = i /\ r.buckets[b] = j
                   /\ \A c \in DOMAIN d.buckets : c # b => r.buckets[c] = d.buckets[c]
                   /\ \A k \in Indices(d) : Entry(r, k).next = Entry(d, k).next
                \/ /\ d.buckets[b] # i /\ r.buckets = d.buckets
                   /\ \A k \in Indices(d) :
                        Entry(r, k).next = IF Entry(d, k).next = i THEN j ELSE Entry(d, k).next
<1> DEFINE r == Relinked(d, b, i, j)
           L == Len(d.entries)
<1>1. /\ d = [entries |-> d.entries, buckets |-> d.buckets, cap |-> d.cap]
      /\ L \in Nat /\ DOMAIN d.entries = 1..L
      /\ \A n \in 1..L : d.entries[n] \in EntryType
      /\ \A k \in Indices(d) : k + 1 \in 1..L
  BY DictFacts
<1>2. CASE d.buckets[b] = i
  <2>1. r = [entries |-> d.entries, buckets |-> [d.buckets EXCEPT ![b] = j], cap |-> d.cap]
    BY <1>1, <1>2 DEF Relinked
  <2> HIDE DEF r
  <2> QED BY <1>2, <2>1 DEF r, Entry
<1>3. CASE d.buckets[b] # i
  <2> DEFINE linked(n) == IF d.entries[n].next = i THEN [d.entries[n] EXCEPT !.next = j] ELSE d.entries[n]
  <2>1. r = [entries |-> [n \in 1..L |-> linked(n)], buckets |-> d.buckets, cap |-> d.cap]
    BY <1>1, <1>3 DEF Relinked
  <2>2. \A n \in 1..L : /\ linked(n).hash = d.entries[n].hash
                        /\ linked(n).next = IF d.entries[n].next = i THEN j ELSE d.entries[n].next
    BY <1>1 DEF EntryType
  <2> HIDE DEF linked, r
  <2>3. Len(r.entries) = L /\ \A n \in 1..L : r.entries[n] = linked(n)
    BY <1>1, <2>1
  <2>4. \A k \in Indices(d) :
          /\ Entry(r, k).hash = Entry(d, k).hash
          /\ Entry(r, k).next = IF Entry(d, k).next = i THEN j ELSE Entry(d, k).next
    BY <1>1, <2>2, <2>3 DEF Entry
  <2> QED BY <1>3, <2>1, <2>3, <2>4 DEF r
<1> QED BY <1>2, <1>3

\* A map whose chains pass entry i by.
Passing(d, i) ==
  Chained(DOMAIN d.buckets, Indices(d) \ {i}, d.buckets, Nexts(d), Homes(d))

\* A removal first takes the entry out of its chain, ...
LEMMA UnlinkedPasses ==
  ASSUME NEW d \in Dicts, Linked(d), NEW i \in Indices(d)
  PROVE  LET u == Relinked(d, BucketOf(d, Entry(d, i).hash), i, Entry(d, i).next)
         IN  /\ u \in Dicts /\ u # NoMap /\ Len(u.entries) = Len(d.entries)
             /\ Passing(u, i)
<1> DEFINE b == BucketOf(d, Entry(d, i).hash)
           j == Entry(d, i).next
           u == Relinked(d, b, i, j)
<1>1. d # NoMap /\ Entry(d, i) \in EntryType /\ Len(d.entries) \in Nat
  BY DictFacts DEF Indices, NoMap
<1>2. j \in Int /\ Entry(d, i).hash \in Nat
  BY <1>1 DEF EntryType
<1>3. Chained(DOMAIN d.buckets, Indices(d), d.buckets, Nexts(d), Homes(d))
  BY <1>1 DEF Linked
<1>4. b \in DOMAIN d.buckets /\ Homes(d)[i] = b /\ Nexts(d)[i] = j
  BY <1>3 DEF Chained, Ranked, Homes, Nexts
<1> HIDE DEF b, j
<1>5. u \in Dicts /\ u # NoMap
  BY <1>1, <1>2, RelinkedIs
<1>6. /\ Len(u.entries) = Len(d.entries) /\ DOMAIN u.buckets = DOMAIN d.buckets
      /\ \A k \in Indices(d) : Entry(u, k).hash = Entry(d, k).hash
      /\ \/ /\ d.buckets[b] = i /\ u.buckets[b] = j
            /\ \A c \in DOMAIN d.buckets : c # b => u.buckets[c] = d.buckets[c]
            /\ \A k \in Indices(d) : Entry(u, k).next = Entry(d, k).next
         \/ /\ d.buckets[b] # i /\ u.buckets = d.buckets
            /\ \A k \in Indices(d) :
                 Entry(u, k).next = IF Entry(d, k).next = i THEN j ELSE Entry(d, k).next
  BY <1>1, <1>2, <1>4, RelinkedFields
<1> HIDE DEF u
<1>7. Indices(u) = Indices(d)
  BY <1>6 DEF Indices
<1>8. \A k \in Indices(d) : /\ Homes(u)[k] = Homes(d)[k]
                            /\ Nexts(u)[k] = Entry(u, k).next /\ Nexts(d)[k] = Entry(d, k).next
  BY <1>6, <1>7 DEF Homes, Nexts, BucketOf
<1>9. Bypassed(DOMAIN d.buckets, Indices(d), d.buckets, Nexts(d), Homes(d), i, u.buckets, Nexts(u))
  BY <1>4, <1>6, <1>8 DEF Bypassed
<1>10. Chained(DOMAIN d.buckets, Indices(d) \ {i}, u.buckets, Nexts(u), Homes(d))
  BY <1>3, <1>9, UnlinkedChained
<1>11. Chained(DOMAIN d.buckets, Indices(d) \ {i}, u.buckets, Nexts(u), Homes(u))
  BY <1>8, <1>10, ChainedSame
<1> QED BY <1>5, <1>6, <1>7, <1>11 DEF Passing, b, j, u

\* The entries but the last, with their places.
LEMMA FrontIs ==
  ASSUME NEW d \in Dicts, d # NoMap, Len(d.entries) # 0
  PROVE  /\ Len(Front(d.entries)) = Len(d.entries) - 1
         /\ Len(d.entries) - 1 \in Indices(d)
         /\ \A k \in 1..(Len(d.entries) - 1) : Front(d.entries)[k] = d.entries[k]
         /\ DOMAIN Front(d.entries) = 1..(Len(d.entries) - 1)
<1> DEFINE n == Len(d.entries)
           front == SubSeq(d.entries, 1, n - 1)
<1>1. d.entries \in Seq(EntryType) /\ n \in Nat /\ n >= 1
  BY DictFacts
<1>2. \A k \in 1..(n - 1) : d.entries[k] \in EntryType
  BY <1>1
<1>3. /\ front \in Seq(EntryType)
      /\ Len(front) = IF 1 <= n - 1 THEN (n - 1) - 1 + 1 ELSE 0
      /\ \A k \in 1..((n - 1) - 1 + 1) : front[k] = d.entries[1 + k - 1]
  BY <1>1, <1>2, SubSeqProperties
<1>4. Front(d.entries) = front
  BY DEF Front
<1> HIDE DEF front, n
<1>5. Len(front) = n - 1
  <2>1. CASE n = 1
    BY <2>1, <1>3
  <2>2. CASE n # 1
    BY <2>2, <1>1, <1>3
  <2> QED BY <2>1, <2>2
<1>6. \A k \in 1..(n - 1) : front[k] = d.entries[k]
  <2>1. \A k \in 1..(n - 1) : k \in 1..((n - 1) - 1 + 1) /\ 1 + k - 1 = k
    BY <1>1
  <2> QED BY <1>3, <2>1
<1>7. DOMAIN front = 1..(n - 1)
  BY <1>3, <1>5
<1>8. n - 1 \in Indices(d)
  BY <1>1 DEF Indices, n
<1> QED BY <1>4, <1>5, <1>6, <1>7, <1>8 DEF n

\* ... and then, if it is the last, off the entries; ...
LEMMA ShortLinked ==
  ASSUME NEW d \in Dicts, d # NoMap, Len(d.entries) # 0, Passing(d, Len(d.entries) - 1)
  PROVE  Linked([d EXCEPT !.entries = Front(d.entries)])
<1> DEFINE L == Len(d.entries)
           e == [d EXCEPT !.entries = Front(d.entries)]
<1>1. e.entries = Front(d.entries) /\ e.buckets = d.buckets
  BY DictFacts
<1>2. /\ L \in Nat /\ Len(e.entries) = L - 1
      /\ \A k \in 1..(L - 1) : e.entries[k] = d.entries[k]
  BY <1>1, FrontIs, DictFacts
<1> HIDE DEF e, L
<1>3. Indices(e) = Indices(d) \ {L - 1} /\ \A k \in Indices(e) : Entry(e, k) = Entry(d, k)
  <2>1. Indices(e) = 0..(L - 2) /\ Indices(d) = 0..(L - 1)
    BY <1>2 DEF Indices, L
  <2>2. 0..(L - 2) = 0..(L - 1) \ {L - 1} /\ \A k \in 0..(L - 2) : k + 1 \in 1..(L - 1)
    BY <1>2
  <2> QED BY <1>2, <2>1, <2>2 DEF Entry
<1>4. \A k \in Indices(e) : Homes(e)[k] = Homes(d)[k] /\ Nexts(e)[k] = Nexts(d)[k]
  BY <1>1, <1>3 DEF Homes, Nexts, BucketOf
<1>5. Chained(DOMAIN d.buckets, Indices(e), d.buckets, Nexts(d), Homes(d))
  BY <1>3 DEF Passing, L
<1>6. Chained(DOMAIN e.buckets, Indices(e), e.buckets, Nexts(e), Homes(e))
  BY <1>1, <1>4, <1>5, ChainedSame
<1> QED BY <1>6 DEF Linked, e

\* ... otherwise the last entry is renamed to its place, chain and all.
LEMMA LastMovedLinked ==
  ASSUME NEW d \in Dicts, d # NoMap, NEW i \in Indices(d), i # Len(d.entries) - 1, Passing(d, i)
  PROVE  Linked(LastMovedTo(d, i))
<1> DEFINE L == Len(d.entries)
           last == L - 1
           b == BucketOf(d, Entry(d, last).hash)
           entries == [Front(d.entries) EXCEPT ![i + 1] = Entry(d, last)]
           s == [d EXCEPT !.entries = entries]
           e == LastMovedTo(d, i)
           B == DOMAIN d.buckets
           S == Indices(d) \ {i}
           new(k) == IF k = last THEN i ELSE k
<1>1. /\ d = [entries |-> d.entries, buckets |-> d.buckets, cap |-> d.cap] /\ d.cap \in Nat
      /\ L \in Nat /\ L # 0 /\ i \in Nat /\ i < last /\ i + 1 \in 1..(L - 1)
      /\ last \in S /\ Indices(d) = 0..(L - 1)
      /\ \A n \in 1..L : d.entries[n] \in EntryType
      /\ Entry(d, last) = d.entries[L] /\ d.entries[L] \in EntryType
  BY DictFacts DEF Indices, Entry
<1>2. /\ Len(Front(d.entries)) = L - 1
      /\ \A k \in 1..(L - 1) : Front(d.entries)[k] = d.entries[k]
      /\ DOMAIN Front(d.entries) = 1..(L - 1)
  BY <1>1, FrontIs
<1>3. /\ Len(entries) = L - 1 /\ DOMAIN entries = 1..(L - 1) /\ entries[i + 1] = Entry(d, last)
      /\ \A k \in 1..(L - 1) : k # i + 1 => entries[k] = d.entries[k]
  BY <1>1, <1>2
<1>4. e = Relinked(s, b, last, i)
  BY DEF LastMovedTo
<1>5. s = [entries |-> entries, buckets |-> d.buckets, cap |-> d.cap]
  BY <1>1
<1> HIDE DEF entries, s, e
<1>6. s \in Dicts /\ s # NoMap
  <2>1. \A k \in 1..(L - 1) : entries[k] \in EntryType
    BY <1>1, <1>3
  <2>2. entries \in Seq(EntryType)
    <3>1. L - 1 \in Nat /\ entries = [k \in 1..(L - 1) |-> entries[k]]
      BY <1>1, <1>2 DEF entries
    <3>2. entries \in [1..(L - 1) -> EntryType]
      BY <2>1, <3>1
    <3> HIDE DEF L
    <3> QED BY <3>1, <3>2
  <2> QED BY <1>5, <2>2 DEF Dicts, NoMap
<1>7. \A k \in S : new(k) \in 0..(L - 2) /\ Entry(s, new(k)) = Entry(d, k)
  <2>1. ASSUME NEW k \in S, k = last PROVE new(k) \in 0..(L - 2) /\ Entry(s, new(k)) = Entry(d, k)
    BY <2>1, <1>1, <1>3, <1>5 DEF Entry
  <2>2. ASSUME NEW k \in S, k # last PROVE new(k) \in 0..(L - 2) /\ Entry(s, new(k)) = Entry(d, k)
    <3>1. k \in 0..(L - 2) /\ k # i /\ k + 1 \in 1..(L - 1) /\ k + 1 # i + 1 /\ new(k) = k
      <4>1. k \in 0..(L - 1) /\ k # i /\ k # L - 1
        BY <2>2, <1>1
      <4>2. new(k) = k
        BY <2>2
      <4> HIDE DEF L, new
      <4> QED BY <4>1, <4>2, <1>1
    <3> QED BY <3>1, <1>3, <1>5 DEF Entry
  <2> QED BY <2>1, <2>2
<1>8. Chained(B, S, d.buckets, Nexts(d), Homes(d))
  BY DEF Passing
<1>9. b \in B /\ Homes(d)[last] = b
  <2>1. Homes(d)[last] = b
    BY <1>1 DEF Homes
  <2> QED BY <1>1, <1>8, <2>1 DEF Chained, Ranked
<1>10. i \in Int
  BY <1>1
<1> HIDE DEF b, B
<1>11. Indices(s) = 0..(L - 2) /\ {new(k) : k \in S} = 0..(L - 2) /\ (S \ {last}) \cup {i} = 0..(L - 2)
  <2>1. Indices(s) = 0..(L - 2)
    BY <1>3, <1>5, <1>1 DEF Indices
  <2>2. ASSUME NEW k \in 0..(L - 2) PROVE k \in {new(j) : j \in S}
    <3>1. CASE k = i
      BY <3>1, <1>1
    <3>2. CASE k # i
      <4>1. k \in S /\ k # last
        BY <3>2, <1>1
      <4> QED BY <4>1
    <3> QED BY <3>1, <3>2
  <2>3. (S \ {last}) \cup {i} = 0..(L - 2)
    BY <1>1
  <2> QED BY <1>7, <2>1, <2>2, <2>3
<1>12. /\ Len(e.entries) = Len(s.entries) /\ DOMAIN e.buckets = B
       /\ \A k \in Indices(s) : Entry(e, k).hash = Entry(s, k).hash
       /\ \/ /\ d.buckets[b] = last /\ e.buckets[b] = i
             /\ \A c \in B : c # b => e.buckets[c] = d.buckets[c]
             /\ \A k \in Indices(s) : Entry(e, k).next = Entry(s, k).next
          \/ /\ d.buckets[b] # last /\ e.buckets = d.buckets
             /\ \A k \in Indices(s) :
                  Entry(e, k).next = IF Entry(s, k).next = last THEN i ELSE Entry(s, k).next
  <2>1. s.buckets = d.buckets /\ b \in DOMAIN s.buckets
    BY <1>5, <1>9 DEF B
  <2> QED BY <1>4, <1>6, <1>10, <2>1, RelinkedFields DEF B
<1>13. Indices(e) = Indices(s)
  BY <1>12 DEF Indices
<1>14. \A k \in S : /\ Homes(e)[new(k)] = Homes(d)[k]
                    /\ Nexts(e)[new(k)] = Entry(e, new(k)).next /\ Nexts(d)[k] = Entry(s, new(k)).next
  <2>1. ASSUME NEW k \in S
        PROVE  /\ Homes(e)[new(k)] = Homes(d)[k]
               /\ Nexts(e)[new(k)] = Entry(e, new(k)).next /\ Nexts(d)[k] = Entry(s, new(k)).next
    <3>1. new(k) \in Indices(s) /\ Entry(s, new(k)) = Entry(d, k) /\ k \in Indices(d)
      BY <1>7, <1>11
    <3> HIDE DEF new, S
    <3> QED BY <3>1, <1>12, <1>13 DEF Homes, Nexts, BucketOf, B
  <2> QED BY <2>1
<1>15. \A k \in S : new(k) \in Indices(s)
  BY <1>7, <1>11
<1>16. Renamed(B, S, d.buckets, Nexts(d), Homes(d), last, i, e.buckets, Nexts(e))
  <2> HIDE DEF S
  <2>1. CASE /\ d.buckets[b] = last /\ e.buckets[b] = i
             /\ \A c \in B : c # b => e.buckets[c] = d.buckets[c]
             /\ \A k \in Indices(s) : Entry(e, k).next = Entry(s, k).next
    BY <2>1, <1>9, <1>14, <1>15 DEF Renamed
  <2>2. CASE /\ d.buckets[b] # last /\ e.buckets = d.buckets
             /\ \A k \in Indices(s) :
                  Entry(e, k).next = IF Entry(s, k).next = last THEN i ELSE Entry(s, k).next
    BY <2>2, <1>9, <1>14, <1>15 DEF Renamed
  <2> QED BY <1>12, <2>1, <2>2
<1>17. Chained(B, (S \ {last}) \cup {i}, e.buckets, Nexts(e), Homes(e))
  <2>1. last \in S /\ i \in Nat \ S
    BY <1>1
  <2> HIDE DEF S, last
  <2> QED BY <1>8, <1>14, <1>16, <2>1, RenamedChained
<1> QED BY <1>11, <1>12, <1>13, <1>17 DEF Linked, e

\* So a removal leaves the others linked.
LEMMA RemovedLinked ==
  ASSUME NEW h, h.d \in Dicts, Linked(h.d), NEW key
  PROVE  Linked(Removed(h, key).d)
<1> DEFINE i == Find(h.arena, h.d, key)
           d == Relinked(h.d, BucketOf(h.d, Hash[key]), i, Entry(h.d, i).next)
           g == Removed(h, key)
<1>1. CASE i = End
  BY <1>1 DEF Removed
<1>2. CASE i # End
  <2>1. i \in Indices(h.d) /\ Entry(h.d, i).hash = Hash[key]
    BY <1>2, FindIs DEF Matches
  <2>2. d \in Dicts /\ d # NoMap /\ Len(d.entries) = Len(h.d.entries) /\ Passing(d, i)
    BY <2>1, UnlinkedPasses
  <2>3. g.d = IF i = Len(d.entries) - 1 THEN [d EXCEPT !.entries = Front(d.entries)] ELSE LastMovedTo(d, i)
    BY <1>2 DEF Removed
  <2>4. i \in Indices(d) /\ Len(d.entries) # 0
    BY <2>1, <2>2, DictFacts DEF Indices
  <2> HIDE DEF d, i, g
  <2>5. CASE i = Len(d.entries) - 1
    BY <2>2, <2>3, <2>4, <2>5, ShortLinked DEF g
  <2>6. CASE i # Len(d.entries) - 1
    BY <2>2, <2>3, <2>4, <2>6, LastMovedLinked DEF g
  <2> QED BY <2>5, <2>6
<1> QED BY <1>1, <1>2

----------------------------------------------------------------------------
(* What a map says: the pairs its entries show, no two of one key.          *)

Said(a, d) == {Says(a, d.entries[n]) : n \in 1..Len(d.entries)}

Distinct(a, d) ==
  \A n, k \in 1..Len(d.entries) :
    TextAt(a, d.entries[n].key) = TextAt(a, d.entries[k].key) => n = k

Exact(a, d) == Linked(d) /\ Distinct(a, d)

\* Pairs without those of a key, and with one pair for it.
Without(S, key) == {p \in S : p[1] # key}
With(S, key, value) == Without(S, key) \cup {<<key, value>>}

\* A lookup finds the one entry of the key.
LEMMA FindExact ==
  ASSUME NEW a, NEW d, Owns(a, d), Exact(a, d), NEW i \in Indices(d)
  PROVE  Find(a, d, TextAt(a, Entry(d, i).key)) = i
<1> DEFINE L == Len(d.entries)
           key == TextAt(a, Entry(d, i).key)
           b == BucketOf(d, Hash[key])
           at == Walk(d, b)
           hits == {n \in 0..L : at[n] \in Matches(a, d, key)}
           j == Find(a, d, key)
<1>1. /\ d \in Dicts /\ d # NoMap /\ L \in Nat /\ Indices(d) = 0..(L - 1) /\ End \notin Indices(d)
      /\ \A k \in Indices(d) : k + 1 \in 1..L /\ Entry(d, k) = d.entries[k + 1]
      /\ i + 1 \in 1..L
  <2>1. d \in Dicts
    BY DEF Owns
  <2>2. L \in Nat /\ \A k \in Indices(d) : k + 1 \in 1..L
    BY <2>1, DictFacts
  <2> QED BY <2>1, <2>2 DEF Indices, Entry, End, NoMap
<1>2. Entry(d, i).hash = Hash[key]
  BY <1>1 DEF Owns, Owned
<1>3. Chained(DOMAIN d.buckets, Indices(d), d.buckets, Nexts(d), Homes(d))
  BY <1>1 DEF Exact, Linked
<1>4. Homes(d)[i] = b /\ b \in DOMAIN d.buckets
  <2>1. Homes(d)[i] = b
    BY <1>2 DEF Homes
  <2> QED BY <2>1, <1>3 DEF Chained, Ranked
<1>5. Linked(d)
  BY DEF Exact
<1>6. PICK n \in 0..L : at[n] = i
  <2>1. \E n \in Met(d, b) : Walk(d, b)[n] = i
    <3> HIDE DEF b
    <3> QED BY <1>1, <1>4, <1>5, WalkExact
  <2> QED BY <2>1 DEF Met
<1>7. i \in Matches(a, d, key)
  BY <1>2 DEF Matches
<1>8. j \in Matches(a, d, key)
  <2>1. n \in hits
    BY <1>6, <1>7
  <2>2. j = at[Min(hits)]
    BY <1>1, <2>1 DEF Find
  <2>3. hits \in SUBSET Nat
    OBVIOUS
  <2>4. Min(hits) \in hits
    <3> HIDE DEF hits
    <3> QED BY <2>1, <2>3, MinOf
  <2> QED BY <2>2, <2>4
<1>9. j \in Indices(d) /\ TextAt(a, Entry(d, j).key) = key
  BY <1>8 DEF Matches
<1>10. j + 1 = i + 1
  BY <1>1, <1>9 DEF Exact, Distinct
<1> QED BY <1>1, <1>9, <1>10

\* What is not said is not found.
LEMMA FindSaid ==
  ASSUME NEW a, NEW d, Owns(a, d), Exact(a, d), NEW key, Find(a, d, key) # End
  PROVE  /\ Find(a, d, key) \in Indices(d) /\ Find(a, d, key) + 1 \in 1..Len(d.entries)
         /\ TextAt(a, d.entries[Find(a, d, key) + 1].key) = key
<1>1. d \in Dicts
  BY DEF Owns
<1>2. Find(a, d, key) \in Matches(a, d, key)
  BY <1>1, FindIs
<1> QED BY <1>1, <1>2, DictFacts DEF Matches, Entry

\* A key that is not found is no entry's.
LEMMA NotFound ==
  ASSUME NEW a, NEW d, Owns(a, d), Exact(a, d), NEW key, Find(a, d, key) = End,
         NEW k \in 1..Len(d.entries)
  PROVE  TextAt(a, d.entries[k].key) # key
<1>1. k - 1 \in Indices(d) /\ Entry(d, k - 1) = d.entries[k] /\ k - 1 # End
  BY DictFacts DEF Owns, End
<1>2. Find(a, d, TextAt(a, d.entries[k].key)) = k - 1
  BY <1>1, FindExact
<1> QED BY <1>1, <1>2

\* Rewriting an entry, or adding one of a new key, stores the pair.
LEMMA RewritesSaid ==
  ASSUME NEW h, NEW g, NEW i, NEW value, Rewrites(h, g, i, value), i + 1 \in 1..Len(h.d.entries),
         Distinct(h.arena, h.d), NEW key, TextAt(h.arena, h.d.entries[i + 1].key) = key
  PROVE  Distinct(g.arena, g.d) /\ Said(g.arena, g.d) = With(Said(h.arena, h.d), key, value)
<1> DEFINE L == Len(h.d.entries)
           was(k) == Says(h.arena, h.d.entries[k])
           now(k) == Says(g.arena, g.d.entries[k])
<1>1. /\ Len(g.d.entries) = L
      /\ now(i + 1) = <<key, value>>
      /\ \A k \in 1..L : k # i + 1 => now(k) = was(k)
  BY DEF Rewrites
<1>2. /\ \A k : now(k)[1] = TextAt(g.arena, g.d.entries[k].key)
      /\ \A k : was(k)[1] = TextAt(h.arena, h.d.entries[k].key)
  BY DEF Says
<1> HIDE DEF was, now
<1>3. \A k \in 1..L : now(k)[1] = was(k)[1]
  BY <1>1, <1>2
<1>4. Distinct(g.arena, g.d)
  BY <1>1, <1>2, <1>3 DEF Distinct
<1>5. \A k \in 1..L : was(k)[1] = key <=> k = i + 1
  BY <1>2 DEF Distinct
<1>6. Said(g.arena, g.d) = {now(k) : k \in 1..L} /\ Said(h.arena, h.d) = {was(k) : k \in 1..L}
  BY <1>1 DEF Said, now, was
<1>7. {now(k) : k \in 1..L} = {p \in {was(k) : k \in 1..L} : p[1] # key} \cup {<<key, value>>}
  <2> HIDE DEF L
  <2>1. ASSUME NEW k \in 1..L PROVE now(k) \in {p \in {was(n) : n \in 1..L} : p[1] # key} \cup {<<key, value>>}
    <3>1. CASE k = i + 1
      BY <3>1, <1>1
    <3>2. CASE k # i + 1
      BY <3>2, <1>1, <1>5
    <3> QED BY <3>1, <3>2
  <2>2. ASSUME NEW k \in 1..L, was(k)[1] # key PROVE was(k) \in {now(n) : n \in 1..L}
    BY <2>2, <1>1, <1>5
  <2>3. <<key, value>> \in {now(n) : n \in 1..L}
    BY <1>1 DEF L
  <2> QED BY <2>1, <2>2, <2>3
<1> QED BY <1>4, <1>6, <1>7 DEF With, Without

LEMMA AppendsSaid ==
  ASSUME NEW h, NEW g, NEW key, NEW value, Appends(h, g, key, value), Len(h.d.entries) \in Nat,
         Distinct(h.arena, h.d),
         \A k \in 1..Len(h.d.entries) : TextAt(h.arena, h.d.entries[k].key) # key
  PROVE  Distinct(g.arena, g.d) /\ Said(g.arena, g.d) = With(Said(h.arena, h.d), key, value)
<1> DEFINE L == Len(h.d.entries)
           was(k) == Says(h.arena, h.d.entries[k])
           now(k) == Says(g.arena, g.d.entries[k])
<1>1. /\ Len(g.d.entries) = L + 1 /\ now(L + 1) = <<key, value>>
      /\ \A k \in 1..L : now(k) = was(k)
  BY DEF Appends
<1>2. /\ \A k : now(k)[1] = TextAt(g.arena, g.d.entries[k].key)
      /\ \A k : was(k)[1] = TextAt(h.arena, h.d.entries[k].key)
  BY DEF Says
<1>3. \A k \in 1..L : was(k)[1] # key
  BY <1>2
<1>4. \A n, k \in 1..L : was(n)[1] = was(k)[1] => n = k
  BY <1>2 DEF Distinct
<1>5. Said(g.arena, g.d) = {now(k) : k \in 1..(L + 1)} /\ Said(h.arena, h.d) = {was(k) : k \in 1..L}
  BY <1>1 DEF Said
<1>6. 1..(L + 1) = 1..L \cup {L + 1} /\ L + 1 \notin 1..L
  OBVIOUS
<1> HIDE DEF was, now, L
<1>7. \A n, k \in 1..(L + 1) : now(n)[1] = now(k)[1] => n = k
  BY <1>1, <1>3, <1>4, <1>6
<1>8. Distinct(g.arena, g.d)
  BY <1>1, <1>2, <1>7 DEF Distinct
<1>9. {now(k) : k \in 1..(L + 1)} = {p \in {was(k) : k \in 1..L} : p[1] # key} \cup {<<key, value>>}
  <2>1. {now(k) : k \in 1..(L + 1)} = {now(k) : k \in 1..L} \cup {now(L + 1)}
    BY <1>6
  <2>2. {now(k) : k \in 1..L} = {was(k) : k \in 1..L}
    BY <1>1
  <2>3. {p \in {was(k) : k \in 1..L} : p[1] # key} = {was(k) : k \in 1..L}
    BY <1>3
  <2> QED BY <2>1, <2>2, <2>3, <1>1
<1> QED BY <1>5, <1>8, <1>9 DEF With, Without

LEMMA SameSaid ==
  ASSUME NEW a, NEW d, NEW e, SameEntries(d, e)
  PROVE  Said(a, e) = Said(a, d) /\ (Distinct(a, d) => Distinct(a, e))
<1>1. /\ Len(e.entries) = Len(d.entries)
      /\ \A n \in 1..Len(d.entries) : /\ Says(a, e.entries[n]) = Says(a, d.entries[n])
                                      /\ e.entries[n].key = d.entries[n].key
  BY DEF SameEntries, Says
<1> QED BY <1>1 DEF Said, Distinct

\* Storing puts the pair in place of what was said of the key.
\* Storing leaves an exact map, with the pair.
LEMMA StoredExact ==
  ASSUME NEW h, Tidy(h), Exact(h.arena, h.d), NEW key \in Keys, NEW value \in Values, NEW grows \in BOOLEAN
  PROVE  LET g == Stored(h, key, value, grows)
         IN  Exact(g.arena, g.d) /\ Said(g.arena, g.d) = With(Said(h.arena, h.d), key, value)
<1> DEFINE i == Find(h.arena, h.d, key)
           added == Added(h, key, value)
           g == Stored(h, key, value, grows)
<1>1. /\ h.d \in Dicts /\ Owns(h.arena, h.d) /\ Linked(h.d) /\ Distinct(h.arena, h.d)
      /\ Len(h.d.entries) \in Nat
  BY DictFacts DEF Tidy, Owns, Exact
<1>2. CASE i # End
  <2>1. /\ i \in Indices(h.d) /\ i + 1 \in 1..Len(h.d.entries)
        /\ TextAt(h.arena, h.d.entries[i + 1].key) = key
    BY <1>1, <1>2, FindSaid
  <2>2. g = Replaced(h, i, value)
    BY <1>2 DEF Stored
  <2> HIDE DEF i
  <2>3. Tidy(Replaced(h, i, value)) /\ Rewrites(h, Replaced(h, i, value), i, value)
    BY <2>1, ReplacedOwns
  <2>4. Linked(Replaced(h, i, value).d)
    BY <1>1, <2>1, <2>3, ReplacedLinked DEF Tidy, Owns
  <2> QED BY <1>1, <2>1, <2>2, <2>3, <2>4, RewritesSaid DEF Exact
<1>3. CASE i = End
  <2>1. Tidy(added) /\ added.d # NoMap /\ Appends(h, added, key, value)
    BY AddedOwns
  <2>2. g = [arena |-> added.arena, d |-> IF grows THEN Grown(added.d) ELSE added.d]
    BY <1>3 DEF Stored
  <2>3. \A k \in 1..Len(h.d.entries) : TextAt(h.arena, h.d.entries[k].key) # key
    BY <1>1, <1>3, NotFound
  <2>4. added.d \in Dicts /\ Linked(added.d)
    <3>1. added.d \in Dicts
      BY <2>1 DEF Tidy, Owns
    <3> QED BY <1>1, <3>1, AddedLinked
  <2> HIDE DEF added, g, i
  <2>5. Distinct(added.arena, added.d) /\ Said(added.arena, added.d) = With(Said(h.arena, h.d), key, value)
    BY <1>1, <2>1, <2>3, AppendsSaid
  <2>6. g.arena = added.arena /\ SameEntries(added.d, g.d) /\ Linked(g.d)
    <3>1. CASE grows
      BY <3>1, <2>1, <2>2, <2>4, GrownIs, GrownLinked
    <3>2. CASE ~grows
      BY <3>2, <2>2, <2>4 DEF SameEntries
    <3> QED BY <3>1, <3>2
  <2>7. Exact(g.arena, g.d) /\ Said(g.arena, g.d) = With(Said(h.arena, h.d), key, value)
    BY <2>5, <2>6, SameSaid DEF Exact
  <2> QED BY <2>7 DEF g
<1> QED BY <1>2, <1>3

\* An entry is gone, and the last one is in its place.
Drops(h, g, i) ==
  /\ Len(g.d.entries) = Len(h.d.entries) - 1
  /\ \A k \in 1..(Len(h.d.entries) - 1) :
       Says(g.arena, g.d.entries[k]) =
         Says(h.arena, h.d.entries[IF k = i + 1 THEN Len(h.d.entries) ELSE k])

LEMMA DropsSaid ==
  ASSUME NEW h, NEW g, NEW i, Drops(h, g, i), Len(h.d.entries) \in Nat, i + 1 \in 1..Len(h.d.entries),
         Distinct(h.arena, h.d), NEW key, TextAt(h.arena, h.d.entries[i + 1].key) = key
  PROVE  Distinct(g.arena, g.d) /\ Said(g.arena, g.d) = Without(Said(h.arena, h.d), key)
<1> DEFINE L == Len(h.d.entries)
           p == i + 1
           was(k) == Says(h.arena, h.d.entries[k])
           now(k) == Says(g.arena, g.d.entries[k])
           from(k) == IF k = p THEN L ELSE k
<1>1. /\ Len(g.d.entries) = L - 1
      /\ \A k \in 1..(L - 1) : now(k) = was(from(k))
  BY DEF Drops
<1>2. /\ \A k : now(k)[1] = TextAt(g.arena, g.d.entries[k].key)
      /\ \A k : was(k)[1] = TextAt(h.arena, h.d.entries[k].key)
  BY DEF Says
<1>3. /\ \A n, k \in 1..L : was(n)[1] = was(k)[1] => n = k
      /\ was(p)[1] = key /\ p \in 1..L /\ L \in Nat
  BY <1>2 DEF Distinct
<1>4. Said(g.arena, g.d) = {now(k) : k \in 1..(L - 1)} /\ Said(h.arena, h.d) = {was(k) : k \in 1..L}
  BY <1>1 DEF Said
<1> HIDE DEF was, now, L, p
<1>5. /\ \A k \in 1..(L - 1) : from(k) \in 1..L /\ from(k) # p
      /\ \A n, k \in 1..(L - 1) : from(n) = from(k) => n = k
      /\ \A j \in 1..L : j # p => \E k \in 1..(L - 1) : j = from(k)
  <2>1. \A k \in 1..(L - 1) : from(k) \in 1..L /\ from(k) # p
    BY <1>3
  <2>2. \A n, k \in 1..(L - 1) : from(n) = from(k) => n = k
    BY <1>3
  <2>3. ASSUME NEW j \in 1..L, j # p PROVE \E k \in 1..(L - 1) : j = from(k)
    <3>1. CASE j = L
      <4>1. p \in 1..(L - 1) /\ j = from(p)
        BY <2>3, <3>1, <1>3
      <4> QED BY <4>1
    <3>2. CASE j # L
      <4>1. j \in 1..(L - 1) /\ j = from(j)
        BY <2>3, <3>2, <1>3
      <4> QED BY <4>1
    <3> QED BY <3>1, <3>2
  <2> QED BY <2>1, <2>2, <2>3
<1> HIDE DEF from
<1>6. \A n, k \in 1..(L - 1) : now(n)[1] = now(k)[1] => n = k
  BY <1>1, <1>3, <1>5
<1>7. Distinct(g.arena, g.d)
  BY <1>1, <1>2, <1>6 DEF Distinct
<1>8. {now(k) : k \in 1..(L - 1)} = {q \in {was(k) : k \in 1..L} : q[1] # key}
  <2>1. ASSUME NEW k \in 1..(L - 1) PROVE now(k) \in {q \in {was(n) : n \in 1..L} : q[1] # key}
    BY <1>1, <1>3, <1>5
  <2>2. ASSUME NEW j \in 1..L, was(j)[1] # key PROVE was(j) \in {now(n) : n \in 1..(L - 1)}
    <3>1. PICK k \in 1..(L - 1) : j = from(k)
      BY <2>2, <1>3, <1>5
    <3> QED BY <3>1, <1>1
  <2> QED BY <2>1, <2>2
<1> QED BY <1>4, <1>7, <1>8 DEF Without

\* A removal drops the entry it finds.
LEMMA RemovedDrops ==
  ASSUME NEW h, Tidy(h), NEW key, Find(h.arena, h.d, key) # End
  PROVE  Drops(h, Removed(h, key), Find(h.arena, h.d, key))
<1> DEFINE i == Find(h.arena, h.d, key)
           d == Relinked(h.d, BucketOf(h.d, Hash[key]), i, Entry(h.d, i).next)
           g == Removed(h, key)
           L == Len(h.d.entries)
           from(k) == IF k = i + 1 THEN L ELSE k
<1>1. /\ h.d \in Dicts /\ Sound(h.arena) /\ Owns(h.arena, h.d) /\ L \in Nat
  BY DictFacts DEF Tidy, Owns
<1>2. i \in Indices(h.d)
  BY <1>1, FindIs DEF Matches
<1>3. h.d # NoMap /\ Entry(h.d, i).next \in Int /\ i \in 0..(L - 1)
  <2>1. i \in 0..(L - 1)
    BY <1>2 DEF Indices
  <2>2. Entry(h.d, i) \in EntryType
    BY <1>1, <1>2, DictFacts
  <2>3. h.d # NoMap
    BY <2>1, <1>1 DEF NoMap
  <2> QED BY <2>1, <2>2, <2>3 DEF EntryType
<1>4. d \in Dicts /\ d # NoMap /\ SameEntries(h.d, d)
  BY <1>1, <1>3, RelinkedIs
<1>5. g = IF i = Len(d.entries) - 1
          THEN [arena |-> h.arena, d |-> [d EXCEPT !.entries = Front(d.entries)]]
          ELSE [arena |-> Released(Released(h.arena, Entry(d, i).key), Entry(d, i).value),
                d     |-> LastMovedTo(d, i)]
  BY DEF Removed
<1> HIDE DEF d, g, i
<1>6. Owns(h.arena, d) /\ Len(d.entries) = L
  BY <1>1, <1>4, OwnsSame DEF SameEntries
<1>7. ASSUME NEW k \in 1..L PROVE Says(h.arena, d.entries[k]) = Says(h.arena, h.d.entries[k])
  BY <1>4 DEF SameEntries, Says
<1>8. CASE i = L - 1
  <2> DEFINE e == Short(d)
  <2>1. g.arena = h.arena /\ g.d = e
    BY <1>5, <1>6, <1>8 DEF Short
  <2>2. Len(e.entries) = L - 1 /\ \A k \in 1..(L - 1) : e.entries[k] = d.entries[k]
    <3>1. Len(d.entries) # 0
      BY <1>1, <1>3, <1>6
    <3> QED BY <1>4, <1>6, <3>1, Shortened
  <2> HIDE DEF e
  <2>3. \A k \in 1..(L - 1) : from(k) = k /\ k \in 1..L
    BY <1>1, <1>8
  <2>4. \A k \in 1..(L - 1) : Says(g.arena, g.d.entries[k]) = Says(h.arena, h.d.entries[from(k)])
    BY <1>7, <2>1, <2>2, <2>3
  <2> QED BY <2>1, <2>2, <2>4 DEF Drops, g, i
<1>9. CASE i # L - 1
  <2> DEFINE e == LastMovedTo(d, i)
             gone == Entry(d, i)
             b == Released(Released(h.arena, gone.key), gone.value)
  <2>1. g.arena = b /\ g.d = e
    BY <1>5, <1>6, <1>9
  <2>2. i \in Indices(d) /\ i + 1 \in 1..L /\ gone = d.entries[i + 1]
    BY <1>1, <1>3, <1>6 DEF Indices, Entry
  <2>3. /\ Len(e.entries) = L - 1
        /\ \A k \in 1..(L - 1) : e.entries[k].key = d.entries[from(k)].key /\ e.entries[k].value = d.entries[from(k)].value
    <3>1. Len(e.entries) = Len(d.entries) - 1 /\ Moved(d, e, i)
      BY <1>4, <1>6, <1>9, <2>2, LastMovedIs
    <3> HIDE DEF L, e
    <3> QED BY <1>6, <3>1 DEF Moved
  <2>4. Owned(h.arena, gone)
    <3> HIDE DEF gone
    <3> QED BY <1>6, <2>2 DEF Owns
  <2>5. /\ Live(b) = Live(h.arena) \ {gone.key, gone.value}
        /\ \A k \in Live(b) : b.blocks[k] = h.arena.blocks[k]
    BY <1>1, <2>4, BothReleased
  <2> HIDE DEF b, e, gone
  <2>6. ASSUME NEW k \in 1..(L - 1)
        PROVE  Says(g.arena, g.d.entries[k]) = Says(h.arena, h.d.entries[from(k)])
    <3> DEFINE f == d.entries[from(k)]
    <3>1. from(k) \in 1..L /\ from(k) # i + 1
      BY <1>1, <1>3, <1>9
    <3> HIDE DEF from
    <3>2. Owned(h.arena, f) /\ Apart(f, gone)
      BY <1>6, <2>2, <3>1 DEF Owns
    <3>3. f.key \in Live(b) /\ f.value \in Live(b)
      BY <2>5, <3>2 DEF Owned, Apart
    <3>4. Says(b, e.entries[k]) = Says(h.arena, f)
      BY <2>3, <2>5, <3>3 DEF Says, TextAt
    <3> QED BY <1>7, <2>1, <3>1, <3>4
  <2> QED BY <2>1, <2>3, <2>6 DEF Drops, g, i
<1> QED BY <1>8, <1>9

\* Removing leaves an exact map, without the key.
LEMMA RemovedExact ==
  ASSUME NEW h, Tidy(h), Exact(h.arena, h.d), NEW key
  PROVE  LET g == Removed(h, key)
         IN  Exact(g.arena, g.d) /\ Said(g.arena, g.d) = Without(Said(h.arena, h.d), key)
<1> DEFINE i == Find(h.arena, h.d, key)
           g == Removed(h, key)
<1>1. /\ h.d \in Dicts /\ Owns(h.arena, h.d) /\ Linked(h.d) /\ Distinct(h.arena, h.d)
      /\ Len(h.d.entries) \in Nat
  BY DictFacts DEF Tidy, Owns, Exact
<1>2. CASE i # End
  <2>1. /\ i + 1 \in 1..Len(h.d.entries)
        /\ TextAt(h.arena, h.d.entries[i + 1].key) = key
    BY <1>1, <1>2, FindSaid
  <2>2. Drops(h, g, i) /\ Linked(g.d)
    BY <1>1, <1>2, RemovedDrops, RemovedLinked
  <2> HIDE DEF i, g
  <2>3. Distinct(g.arena, g.d) /\ Said(g.arena, g.d) = Without(Said(h.arena, h.d), key)
    BY <1>1, <2>1, <2>2, DropsSaid
  <2> QED BY <2>2, <2>3 DEF Exact, g
<1>3. CASE i = End
  <2>1. g = h
    BY <1>3 DEF Removed
  <2>2. \A k \in 1..Len(h.d.entries) : TextAt(h.arena, h.d.entries[k].key) # key
    BY <1>1, <1>3, NotFound
  <2>3. Said(h.arena, h.d) = Without(Said(h.arena, h.d), key)
    BY <2>2 DEF Said, Says, Without
  <2> QED BY <2>1, <2>3
<1> QED BY <1>2, <1>3

\* The pairs of T win over those of S.
Overlaid(S, T) == {p \in S : \A q \in T : q[1] # p[1]} \cup T

Pairs(a, entries, n) == {Says(a, entries[k]) : k \in 1..n}

LEMMA OverlaidOne ==
  ASSUME NEW S, NEW T, NEW key, NEW value, \A q \in T : q[1] # key
  PROVE  With(Overlaid(S, T), key, value) = Overlaid(S, T \cup {<<key, value>>})
<1>1. <<key, value>>[1] = key
  OBVIOUS
<1> QED BY <1>1 DEF With, Without, Overlaid

\* A merge lays the list over the map.
LEMMA MergedExact ==
  ASSUME NEW h, Tidy(h), Exact(h.arena, h.d), NEW entries \in Seq(EntryType), Storable(h.arena, entries),
         \A n, k \in 1..Len(entries) : TextAt(h.arena, entries[n].key) = TextAt(h.arena, entries[k].key) => n = k
  PROVE  LET g == Merged(h, entries)
         IN  /\ Exact(g.arena, g.d)
             /\ Said(g.arena, g.d) = Overlaid(Said(h.arena, h.d), Pairs(h.arena, entries, Len(entries)))
<1> DEFINE N == Len(entries)
           K(n) == TextAt(h.arena, entries[n].key)
           V(n) == TextAt(h.arena, entries[n].value)
           P(n) == Pairs(h.arena, entries, n)
           S == Said(h.arena, h.d)
           T == [n \in 0..N |-> {g \in Heaps : Exact(g.arena, g.d) /\ Said(g.arena, g.d) = Overlaid(S, P(n))}]
<1>1. PICK after : Merging(h, entries, after)
  BY MergedIs
<1>2. /\ N \in Nat /\ after[0] = h /\ Merged(h, entries) = after[N]
      /\ \A n \in 1..N : after[n] = Stored(after[n - 1], K(n), V(n), TRUE) /\ K(n) \in Keys /\ V(n) \in Values
      /\ \A n \in 0..N : Tidy(after[n])
      /\ \A n, k \in 1..N : K(n) = K(k) => n = k
  <2>1. \A n \in 1..N : K(n) \in Keys /\ V(n) \in Values
    BY DEF Storable
  <2>2. N \in Nat /\ \A n, k \in 1..N : K(n) = K(k) => n = k
    OBVIOUS
  <2>3. /\ after[0] = h /\ Merged(h, entries) = after[N]
        /\ \A n \in 1..N : after[n] = Stored(after[n - 1], K(n), V(n), TRUE)
        /\ \A n \in 0..N : Tidy(after[n])
    BY <1>1 DEF Merging
  <2> HIDE DEF K, V, N
  <2> QED BY <2>1, <2>2, <2>3
<1>3. \A n : Says(h.arena, entries[n]) = <<K(n), V(n)>>
  BY DEF Says
<1> HIDE DEF K, V, N, S, P
<1>4. /\ \A n \in 1..N : n \in 0..N /\ n - 1 \in 0..N
      /\ 0 \in 0..N /\ N \in 0..N
  BY <1>2
<1>5. P(0) = {}
  BY DEF P, Pairs
<1>6. ASSUME NEW n \in 1..N PROVE /\ P(n) = P(n - 1) \cup {<<K(n), V(n)>>}
                                  /\ \A q \in P(n - 1) : q[1] # K(n)
  <2>1. 1..n = 1..(n - 1) \cup {n} /\ \A k \in 1..(n - 1) : k \in 1..N /\ k # n
    BY <1>2
  <2>2. P(n) = P(n - 1) \cup {<<K(n), V(n)>>}
    BY <1>3, <2>1 DEF P, Pairs
  <2>3. ASSUME NEW q \in P(n - 1) PROVE q[1] # K(n)
    <3>1. PICK k \in 1..(n - 1) : q = <<K(k), V(k)>>
      BY <1>3 DEF P, Pairs
    <3> QED BY <3>1, <2>1, <1>2
  <2> QED BY <2>2, <2>3
<1>7. after[0] \in T[0]
  <2>1. S = Overlaid(S, {})
    BY DEF Overlaid
  <2> QED BY <1>2, <1>4, <1>5, <2>1 DEF Tidy, S
<1>8. ASSUME NEW n \in 1..N, after[n - 1] \in T[n - 1] PROVE after[n] \in T[n]
  <2> DEFINE f == after[n - 1]
             g == after[n]
  <2>1. Tidy(f) /\ Exact(f.arena, f.d) /\ Said(f.arena, f.d) = Overlaid(S, P(n - 1))
    BY <1>2, <1>4, <1>8
  <2>2. g = Stored(f, K(n), V(n), TRUE) /\ Tidy(g)
    BY <1>2, <1>4
  <2> HIDE DEF f, g
  <2>3. Exact(g.arena, g.d) /\ Said(g.arena, g.d) = With(Said(f.arena, f.d), K(n), V(n))
    BY <1>2, <2>1, <2>2, StoredExact
  <2>4. Said(g.arena, g.d) = Overlaid(S, P(n))
    BY <1>6, <2>1, <2>3, OverlaidOne
  <2> QED BY <1>4, <2>2, <2>3, <2>4 DEF Tidy, g
<1>9. \A n \in 0..N : after[n] \in T[n]
  <2> HIDE DEF T
  <2> QED BY <1>2, <1>7, <1>8, Staying
<1>10. Exact(after[N].arena, after[N].d) /\ Said(after[N].arena, after[N].d) = Overlaid(S, P(N))
  BY <1>4, <1>9
<1> QED BY <1>2, <1>10 DEF S, P, N

----------------------------------------------------------------------------
(* Exactness is part of the invariant. *)

MapsExact == \A m \in Maps : Exact(arena, map[m])

\* What a call makes of one map, the others left as they were.
Turns(m, S) ==
  \E d : /\ map' = [map EXCEPT ![m] = d] /\ Frame(m, arena', d)
         /\ Exact(arena', d) /\ Said(arena', d) = S

LEMMA TurnsExact ==
  ASSUME MapsOwn, MapsExact, NEW m \in Maps, NEW S, Turns(m, S)
  PROVE  /\ MapsExact' /\ Said(arena', map'[m]) = S
         /\ \A n \in Maps : n # m => Said(arena', map'[n]) = Said(arena, map[n])
<1>1. PICK d : /\ map' = [map EXCEPT ![m] = d] /\ Frame(m, arena', d)
               /\ Exact(arena', d) /\ Said(arena', d) = S
  BY DEF Turns
<1>2. map'[m] = d /\ \A n \in Maps : n # m => map'[n] = map[n]
  BY <1>1 DEF MapsOwn
<1>3. ASSUME NEW n \in Maps, n # m
      PROVE  Exact(arena', map[n]) /\ Said(arena', map[n]) = Said(arena, map[n])
  <2>1. \A x \in Strings(map[n]) : arena'.blocks[x] = arena.blocks[x]
    BY <1>1, <1>3, OthersStay
  <2>2. ASSUME NEW k \in 1..Len(map[n].entries)
        PROVE  /\ TextAt(arena', map[n].entries[k].key) = TextAt(arena, map[n].entries[k].key)
               /\ TextAt(arena', map[n].entries[k].value) = TextAt(arena, map[n].entries[k].value)
    <3>1. map[n].entries[k].key \in Strings(map[n]) /\ map[n].entries[k].value \in Strings(map[n])
      BY DEF Strings
    <3> QED BY <2>1, <3>1 DEF TextAt
  <2>3. Exact(arena, map[n])
    BY DEF MapsExact
  <2> QED BY <2>2, <2>3 DEF Exact, Distinct, Said, Says
<1>4. MapsExact'
  <2>1. ASSUME NEW n \in Maps PROVE Exact(arena', map'[n])
    BY <1>1, <1>2, <1>3
  <2> QED BY <2>1 DEF MapsExact
<1> QED BY <1>1, <1>2, <1>3, <1>4

\* The calls, one by one.
LEMMA SetExact ==
  ASSUME MapsOwn, MapsExact, NEW m \in Maps, NEW key \in Keys, NEW value \in Values, Set(m, key, value)
  PROVE  Turns(m, With(Said(arena, map[m]), key, value))
<1>1. PICK grows \in BOOLEAN : Becomes(m, Stored(Heap(m), key, value, grows))
  BY DEF Set
<1> DEFINE h == Heap(m)
           g == Stored(h, key, value, grows)
<1>2. Tidy(h) /\ h.arena = arena /\ h.d = map[m]
  BY HeapTidy
<1>3. arena' = g.arena /\ map' = [map EXCEPT ![m] = g.d]
  BY <1>1 DEF Becomes
<1> HIDE DEF h
<1>4. Tidy(g) /\ Kept(h, g)
  BY <1>2, StoredOwns
<1>5. Exact(h.arena, h.d)
  BY <1>2 DEF MapsExact
<1>6. Exact(g.arena, g.d) /\ Said(g.arena, g.d) = With(Said(h.arena, h.d), key, value)
  BY <1>2, <1>5, StoredExact
<1> HIDE DEF g
<1>7. Frame(m, arena', g.d)
  BY <1>2, <1>3, <1>4 DEF Frame, Kept, Tidy
<1> QED BY <1>2, <1>3, <1>6, <1>7 DEF Turns

LEMMA DeleteExact ==
  ASSUME MapsOwn, MapsExact, NEW m \in Maps, NEW key \in Keys, Delete(m, key)
  PROVE  Turns(m, Without(Said(arena, map[m]), key))
<1> DEFINE h == Heap(m)
           g == Removed(h, key)
<1>1. Tidy(h) /\ h.arena = arena /\ h.d = map[m]
  BY HeapTidy
<1>2. arena' = g.arena /\ map' = [map EXCEPT ![m] = g.d]
  BY DEF Delete, Becomes
<1>3. PICK d : map' = [map EXCEPT ![m] = d] /\ Frame(m, arena', d)
  BY DeleteRemoves
<1> HIDE DEF h
<1>4. Exact(h.arena, h.d)
  BY <1>1 DEF MapsExact
<1>5. Exact(g.arena, g.d) /\ Said(g.arena, g.d) = Without(Said(h.arena, h.d), key)
  BY <1>1, <1>4, RemovedExact
<1> HIDE DEF g
<1>6. d = g.d
  BY <1>2, <1>3 DEF MapsOwn
<1> QED BY <1>1, <1>2, <1>3, <1>5, <1>6 DEF Turns

LEMMA MergeExact ==
  ASSUME MapsOwn, MapsExact, NEW m \in Maps, NEW from \in Maps, Merge(m, from)
  PROVE  Turns(m, Overlaid(Said(arena, map[m]), Said(arena, map[from])))
<1> DEFINE h == Heap(m)
           entries == map[from].entries
           g == Merged(h, entries)
<1>1. Tidy(h) /\ h.arena = arena /\ h.d = map[m]
  BY HeapTidy
<1>2. arena' = g.arena /\ map' = [map EXCEPT ![m] = g.d]
  BY DEF Merge, Becomes
<1>3. PICK d : map' = [map EXCEPT ![m] = d] /\ Frame(m, arena', d)
  BY MergeStores DEF StoresIn
<1>4. entries \in Seq(EntryType)
  BY DictFacts DEF MapsOwn
<1>5. Said(arena, map[from]) = Pairs(arena, entries, Len(entries))
  BY DEF Said, Pairs
<1>6. \A n, k \in 1..Len(entries) : TextAt(arena, entries[n].key) = TextAt(arena, entries[k].key) => n = k
  BY DEF MapsExact, Exact, Distinct
<1>7. Storable(arena, entries)
  BY DEF MapsOwn, Owns, Owned, Storable
<1>8. Exact(h.arena, h.d)
  BY <1>1 DEF MapsExact
<1> HIDE DEF h, entries
<1>9. /\ Exact(g.arena, g.d)
      /\ Said(g.arena, g.d) = Overlaid(Said(h.arena, h.d), Pairs(h.arena, entries, Len(entries)))
  BY <1>1, <1>4, <1>6, <1>7, <1>8, MergedExact
<1> HIDE DEF g
<1>10. d = g.d
  BY <1>2, <1>3 DEF MapsOwn
<1> QED BY <1>1, <1>2, <1>3, <1>5, <1>9, <1>10 DEF Turns

LEMMA NothingExact == \A a : Exact(a, NoMap) /\ Said(a, NoMap) = {}
BY DEF Exact, Linked, Distinct, Said, NoMap

LEMMA FreeExact ==
  ASSUME MapsOwn, NEW m \in Maps, Free(m)
  PROVE  Turns(m, {})
BY FreeReleases, NothingExact DEF Turns

LEMMA InitExact == Init => MapsExact
BY NothingExact DEF Init, MapsExact

LEMMA NextExact == IInv /\ MapsExact /\ [Next]_vars => MapsExact'
<1> SUFFICES ASSUME IInv, MapsExact, [Next]_vars PROVE MapsExact'
  OBVIOUS
<1>1. MapsOwn
  BY DEF IInv
<1>2. ASSUME NEW m \in Maps, NEW key \in Keys, NEW value \in Values, Set(m, key, value) PROVE MapsExact'
  BY <1>1, <1>2, SetExact, TurnsExact
<1>3. ASSUME NEW m \in Maps, NEW key \in Keys, Delete(m, key) PROVE MapsExact'
  BY <1>1, <1>3, DeleteExact, TurnsExact
<1>4. ASSUME NEW m \in Maps, NEW from \in Maps, Merge(m, from) PROVE MapsExact'
  BY <1>1, <1>4, MergeExact, TurnsExact
<1>5. ASSUME NEW m \in Maps, Free(m) PROVE MapsExact'
  BY <1>1, <1>5, FreeExact, TurnsExact
<1>6. ASSUME UNCHANGED <<arena, map>> PROVE MapsExact'
  BY <1>6 DEF MapsExact
<1> QED BY <1>2, <1>3, <1>4, <1>5, <1>6 DEF Next, Call, vars, List, Drop

\* With the chains and the keys (MapsExact) the invariant is still inductive.
THEOREM ExactAlways == Spec => [](IInv /\ MapsExact)
<1>1. Init => IInv /\ MapsExact
  BY InitOwns, InitExact
<1>2. IInv /\ MapsExact /\ [Next]_vars => (IInv /\ MapsExact)'
  BY NextKeeps, NextExact
<1> QED BY <1>1, <1>2, PTL DEF Spec

\* Every entry is met exactly once, in the chain of its own hash (ChainsExact).
THEOREM ChainsExactAlways == Spec => []ChainsExact
<1>1. IInv /\ MapsExact => ChainsExact
  <2> SUFFICES ASSUME IInv, MapsExact, NEW m \in Maps, NEW b \in DOMAIN map[m].buckets
               PROVE  LET d   == map[m]
                          at  == Walk(d, b)
                          met == {n \in 0..Len(d.entries) : at[n] # End}
                      IN  /\ {at[n] : n \in met} = {i \in Indices(d) : BucketOf(d, Entry(d, i).hash) = b}
                          /\ \A n, k \in met : at[n] = at[k] => n = k
    BY DEF ChainsExact
  <2> DEFINE d == map[m]
             at == Walk(d, b)
             met == {n \in 0..Len(d.entries) : at[n] # End}
             home == Homes(d)
  <2>1. d \in Dicts /\ Linked(d)
    BY DEF IInv, MapsOwn, MapsExact, Exact
  <2>2. met = Met(d, b) /\ \A i \in Indices(d) : home[i] = BucketOf(d, Entry(d, i).hash)
    BY DEF Met, Homes
  <2> HIDE DEF d, home
  <2>3. b \in DOMAIN d.buckets
    BY DEF d
  <2>4. /\ \A n \in Met(d, b) : Walk(d, b)[n] \in Indices(d) /\ Homes(d)[Walk(d, b)[n]] = b
        /\ \A i \in Indices(d) : Homes(d)[i] = b => \E n \in Met(d, b) : Walk(d, b)[n] = i
        /\ \A n, k \in Met(d, b) : Walk(d, b)[n] = Walk(d, b)[k] => n = k
    BY <2>1, <2>3, WalkExact
  <2> HIDE DEF met, at
  <2>5. /\ \A n \in met : at[n] \in Indices(d) /\ home[at[n]] = b
        /\ \A i \in Indices(d) : home[i] = b => \E n \in met : at[n] = i
        /\ \A n, k \in met : at[n] = at[k] => n = k
    BY <2>2, <2>4 DEF at, home
  <2>6. {at[n] : n \in met} = {i \in Indices(d) : BucketOf(d, Entry(d, i).hash) = b}
    BY <2>2, <2>5
  <2> QED BY <2>5, <2>6 DEF d, at, met
<1> QED BY ExactAlways, <1>1, PTL

----------------------------------------------------------------------------
(* What the lookups find is the function of the pairs a map says. *)

Shows(f, S) ==
  /\ f = [k \in {p[1] : p \in S} |-> f[k]]
  /\ \A p \in S : f[p[1]] = p[2]

LEMMA ShowsOne ==
  ASSUME NEW f, NEW g, NEW S, Shows(f, S), Shows(g, S)
  PROVE  f = g
<1> DEFINE D == {p[1] : p \in S}
<1>1. f = [k \in D |-> f[k]] /\ g = [k \in D |-> g[k]]
  BY DEF Shows
<1>2. ASSUME NEW k \in D PROVE f[k] = g[k]
  <2>1. PICK p \in S : k = p[1]
    OBVIOUS
  <2> QED BY <2>1 DEF Shows
<1> HIDE DEF D
<1> QED BY <1>1, <1>2

LEMMA ContentsShow ==
  ASSUME NEW a, NEW d, Owns(a, d), Exact(a, d)
  PROVE  Shows(Contents(a, d), Said(a, d))
<1> DEFINE L == Len(d.entries)
           found == {key \in Keys : Find(a, d, key) # End}
           c == Contents(a, d)
           K(n) == TextAt(a, d.entries[n].key)
           V(n) == TextAt(a, d.entries[n].value)
<1>1. c = [key \in found |-> TextAt(a, Entry(d, Find(a, d, key)).value)]
  BY DEF Contents
<1>2. Said(a, d) = {<<K(n), V(n)>> : n \in 1..L}
  BY DEF Said, Says
<1>3. ASSUME NEW n \in 1..L PROVE K(n) \in found /\ c[K(n)] = V(n)
  <2>1. n - 1 \in Indices(d) /\ Entry(d, n - 1) = d.entries[n] /\ n - 1 # End
    BY DictFacts DEF Owns, End
  <2>2. Find(a, d, K(n)) = n - 1
    BY <2>1, FindExact
  <2>3. K(n) \in Keys
    BY DEF Owns, Owned
  <2>4. K(n) \in found
    BY <2>1, <2>2, <2>3
  <2> HIDE DEF found, c, K
  <2> QED BY <1>1, <2>1, <2>2, <2>4
<1>4. ASSUME NEW key \in found PROVE \E n \in 1..L : key = K(n)
  BY FindSaid
<1>5. found = {p[1] : p \in Said(a, d)}
  <2> HIDE DEF found, K, V, L
  <2>1. ASSUME NEW p \in Said(a, d) PROVE p[1] \in found
    BY <1>2, <1>3
  <2>2. ASSUME NEW key \in found PROVE \E p \in Said(a, d) : p[1] = key
    <3>1. PICK n \in 1..L : key = K(n)
      BY <1>4
    <3>2. <<K(n), V(n)>> \in Said(a, d) /\ <<K(n), V(n)>>[1] = key
      BY <1>2, <3>1
    <3> QED BY <3>2
  <2> QED BY <2>1, <2>2
<1> HIDE DEF c, found, K, V, L
<1>6. \A p \in Said(a, d) : c[p[1]] = p[2]
  BY <1>2, <1>3
<1>7. c = [k \in found |-> c[k]]
  BY <1>1
<1> QED BY <1>5, <1>6, <1>7 DEF Shows, c

\* The operations on functions and those on pairs.
LEMMA OverShows ==
  ASSUME NEW f, NEW S, Shows(f, S), NEW g, NEW T, Shows(g, T)
  PROVE  Shows(Abstract!Over(f, g), Overlaid(S, T))
<1> DEFINE D == {p[1] : p \in S}
           E == {p[1] : p \in T}
           o == Abstract!Over(f, g)
           U == Overlaid(S, T)
<1>1. f = [k \in D |-> f[k]] /\ g = [k \in E |-> g[k]]
  BY DEF Shows
<1>2. DOMAIN f = D /\ DOMAIN g = E
  <2> HIDE DEF D, E
  <2> QED BY <1>1
<1>3. o = [k \in D \cup E |-> IF k \in E THEN g[k] ELSE f[k]]
  <2> HIDE DEF D, E
  <2> QED BY <1>2 DEF Abstract!Over
<1>4. U = {p \in S : p[1] \notin E} \cup T
  BY DEF Overlaid
<1>5. {p[1] : p \in U} = D \cup E
  <2> HIDE DEF U
  <2> QED BY <1>4
<1>6. (\A p \in S : f[p[1]] = p[2] /\ p[1] \in D) /\ (\A p \in T : g[p[1]] = p[2] /\ p[1] \in E)
  BY DEF Shows
<1> HIDE DEF D, E, o, U
<1>7. \A p \in U : o[p[1]] = p[2]
  BY <1>3, <1>4, <1>6
<1>8. o = [k \in D \cup E |-> o[k]]
  BY <1>3
<1> QED BY <1>5, <1>7, <1>8 DEF Shows, o, U

LEMMA PutShows ==
  ASSUME NEW f, NEW S, Shows(f, S), NEW key, NEW value
  PROVE  Shows(Abstract!Put(f, key, value), With(S, key, value))
<1> DEFINE g == [x \in {key} |-> value]
           T == {<<key, value>>}
<1>1. {p[1] : p \in T} = {key} /\ \A p \in T : p[1] = key /\ p[2] = value
  OBVIOUS
<1>2. Shows(g, T)
  <2> HIDE DEF T
  <2> QED BY <1>1 DEF Shows
<1>3. Overlaid(S, T) = With(S, key, value)
  <2> HIDE DEF T
  <2>1. Overlaid(S, T) = {p \in S : p[1] # key} \cup T
    <3>1. \A p : (\A q \in T : q[1] # p[1]) <=> p[1] # key
      BY <1>1 DEF T
    <3> QED BY <3>1 DEF Overlaid
  <2> QED BY <2>1 DEF With, Without, T
<1>4. Abstract!Put(f, key, value) = Abstract!Over(f, g)
  BY DEF Abstract!Put
<1> HIDE DEF g, T
<1> QED BY <1>2, <1>3, <1>4, OverShows

LEMMA RestrictShows ==
  ASSUME NEW f, NEW S, Shows(f, S), NEW key
  PROVE  Shows(Restrict(f, DOMAIN f \ {key}), Without(S, key))
<1> DEFINE D == {p[1] : p \in S}
           r == Restrict(f, DOMAIN f \ {key})
           W == Without(S, key)
<1>1. f = [k \in D |-> f[k]]
  BY DEF Shows
<1>2. r = [k \in D \ {key} |-> f[k]]
  <2> HIDE DEF D
  <2> QED BY <1>1 DEF Restrict
<1>3. {p[1] : p \in W} = D \ {key} /\ \A p \in W : p \in S /\ p[1] \in D \ {key}
  BY DEF Without
<1>4. \A p \in S : f[p[1]] = p[2]
  BY DEF Shows
<1> HIDE DEF D, r, W
<1> QED BY <1>2, <1>3, <1>4 DEF Shows, r, W

LEMMA NothingShows == Shows(<< >>, {})
<1>1. {p[1] : p \in {}} = {}
  OBVIOUS
<1>2. << >> = [k \in {} |-> << >>[k]]
  OBVIOUS
<1> QED BY <1>1, <1>2 DEF Shows

----------------------------------------------------------------------------
(* Each call makes of one function what the finite maps allow. *)

Shown == [m \in Maps |-> Contents(arena, map[m])]

LEMMA TurnsShown ==
  ASSUME MapsOwn, MapsExact, NEW m \in Maps, NEW S, Turns(m, S), NEW f, Shows(f, S)
  PROVE  Shown' = [Shown EXCEPT ![m] = f]
<1>1. MapsOwn' /\ MapsExact'
  <2>1. PICK d : map' = [map EXCEPT ![m] = d] /\ Frame(m, arena', d)
    BY DEF Turns
  <2> QED BY <2>1, MapsOwnNext, TurnsExact
<1>2. Said(arena', map'[m]) = S /\ \A n \in Maps : n # m => Said(arena', map'[n]) = Said(arena, map[n])
  BY TurnsExact
<1>3. \A n \in Maps : /\ Shows(Contents(arena, map[n]), Said(arena, map[n]))
                      /\ Shows(Contents(arena', map'[n]), Said(arena', map'[n]))
  BY <1>1, ContentsShow DEF MapsOwn, MapsExact
<1>4. Contents(arena', map'[m]) = f
  BY <1>2, <1>3, ShowsOne
<1>5. \A n \in Maps : n # m => Contents(arena', map'[n]) = Contents(arena, map[n])
  BY <1>2, <1>3, ShowsOne
<1> QED BY <1>4, <1>5 DEF Shown

LEMMA TurnsAbstractly ==
  ASSUME MapsOwn, MapsExact, NEW m \in Maps, NEW S, Turns(m, S), NEW f, Shows(f, S),
         f \in Abstract!Outcomes(Shown, m)
  PROVE  Abstract!Next
<1>1. Shown' = [Shown EXCEPT ![m] = f]
  BY TurnsShown
<1> DEFINE next == {[Shown EXCEPT ![m] = g] : g \in Abstract!Outcomes(Shown, m)}
<1>2. Shown' \in next
  BY <1>1
<1>3. Abstract!Next <=>
        \E maps \in {Shown} :
          Shown' \in UNION {{[maps EXCEPT ![n] = g] : g \in Abstract!Outcomes(maps, n)} : n \in Maps}
  BY DEF Abstract!Next, Shown
<1> QED BY <1>2, <1>3

LEMMA StepsAbstractly ==
  ASSUME IInv, MapsExact, [Next]_vars
  PROVE  Abstract!Next \/ UNCHANGED Shown
<1>1. MapsOwn
  BY DEF IInv
<1>2. \A m \in Maps : Shown[m] = Contents(arena, map[m]) /\ Shows(Shown[m], Said(arena, map[m]))
  BY <1>1, ContentsShow DEF Shown, MapsOwn, MapsExact
<1>3. ASSUME NEW m \in Maps, NEW key \in Keys, NEW value \in Values, Set(m, key, value) PROVE Abstract!Next
  <2> DEFINE f == Abstract!Put(Shown[m], key, value)
  <2>1. Turns(m, With(Said(arena, map[m]), key, value))
    BY <1>1, <1>3, SetExact
  <2>2. Shows(f, With(Said(arena, map[m]), key, value))
    BY <1>2, PutShows
  <2>3. f \in Abstract!Outcomes(Shown, m)
    BY DEF Abstract!Outcomes
  <2> HIDE DEF f
  <2> QED BY <1>1, <2>1, <2>2, <2>3, TurnsAbstractly
<1>4. ASSUME NEW m \in Maps, NEW key \in Keys, Delete(m, key) PROVE Abstract!Next
  <2> DEFINE f == Restrict(Shown[m], DOMAIN Shown[m] \ {key})
  <2>1. Turns(m, Without(Said(arena, map[m]), key))
    BY <1>1, <1>4, DeleteExact
  <2>2. Shows(f, Without(Said(arena, map[m]), key))
    BY <1>2, RestrictShows
  <2>3. f \in Abstract!Outcomes(Shown, m)
    BY DEF Abstract!Outcomes, Abstract!Restrict, Restrict
  <2> HIDE DEF f
  <2> QED BY <1>1, <2>1, <2>2, <2>3, TurnsAbstractly
<1>5. ASSUME NEW m \in Maps, NEW from \in Maps, Merge(m, from) PROVE Abstract!Next
  <2> DEFINE f == Abstract!Over(Shown[m], Shown[from])
  <2>1. Turns(m, Overlaid(Said(arena, map[m]), Said(arena, map[from])))
    BY <1>1, <1>5, MergeExact
  <2>2. Shows(f, Overlaid(Said(arena, map[m]), Said(arena, map[from])))
    BY <1>2, OverShows
  <2>3. f \in Abstract!Outcomes(Shown, m)
    BY DEF Abstract!Outcomes
  <2> HIDE DEF f
  <2> QED BY <1>1, <2>1, <2>2, <2>3, TurnsAbstractly
<1>6. ASSUME NEW m \in Maps, Free(m) PROVE Abstract!Next
  <2>1. Turns(m, {})
    BY <1>1, <1>6, FreeExact
  <2>2. << >> \in Abstract!Outcomes(Shown, m)
    BY DEF Abstract!Outcomes
  <2> QED BY <1>1, <2>1, <2>2, NothingShows, TurnsAbstractly
<1>7. ASSUME UNCHANGED <<arena, map>> PROVE UNCHANGED Shown
  BY <1>7 DEF Shown
<1> QED BY <1>3, <1>4, <1>5, <1>6, <1>7 DEF Next, Call, vars, List, Drop

LEMMA StartsAbstractly == Init => Abstract!Init
<1> SUFFICES ASSUME Init PROVE Abstract!Init
  OBVIOUS
<1>1. MapsOwn /\ MapsExact
  BY InitOwns, InitExact DEF IInv
<1>2. ASSUME NEW m \in Maps PROVE Contents(arena, map[m]) = << >>
  <2>1. Owns(arena, map[m]) /\ Exact(arena, map[m]) /\ Said(arena, map[m]) = {}
    BY <1>1, NothingExact DEF Init, MapsOwn, MapsExact
  <2>2. Shows(Contents(arena, map[m]), {})
    BY <2>1, ContentsShow
  <2> QED BY <2>2, NothingShows, ShowsOne
<1> QED BY <1>2 DEF Abstract!Init

\* Through all of it the lookups answer as those of finite functions do
\* (RefinesFiniteMaps).
THEOREM RefinesFiniteMapsAlways == Spec => RefinesFiniteMaps
<1>1. Init => Abstract!Init
  BY StartsAbstractly
<1>2. IInv /\ MapsExact /\ [Next]_vars => [Abstract!Next]_Shown
  BY StepsAbstractly
<1>3. IInv /\ MapsExact /\ [Next]_vars =>
        [Abstract!Next]_([m \in Maps |-> Contents(arena, map[m])])
  BY <1>2 DEF Shown
<1> QED BY <1>1, <1>3, ExactAlways, PTL DEF Spec, RefinesFiniteMaps, Abstract!Spec
=============================================================================
