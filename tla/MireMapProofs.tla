--------------------------- MODULE MireMapProofs ---------------------------
(***************************************************************************)
(* Proofs about who owns the strings of MireMap, for any maps, texts and   *)
(* bounds: each string of a map is its own, with one reference (MapsOwn),  *)
(* and a listing repeats keys of its map (ListingHeld).                    *)
(*                                                                         *)
(* First lemmas about numbers, sequences and the arena; then what each     *)
(* operation on entries does to a map that owns its strings (Tidy), and    *)
(* what it leaves alone (Kept); then the calls, each of which changes one  *)
(* map within its frame.                                                   *)
(***************************************************************************)
EXTENDS MireMap, FiniteSetTheorems, SequenceTheorems, WellFoundedInduction, TLAPS

----------------------------------------------------------------------------
(* Numbers. *)

\* A set of natural numbers has a least element.
LEMMA Least ==
  ASSUME NEW T \in SUBSET Nat, T # {}
  PROVE  \E m \in T : \A k \in T : m <= k
<1>1. IsWellFoundedOn(OpToRel(<, Nat), Nat)
  BY NatLessThanWellFounded
<1>2. PICK m \in T : \A k \in T : ~(<<k, m>> \in OpToRel(<, Nat))
  BY <1>1, WFMin
<1>3. \A k \in T : ~(k < m)
  BY <1>2 DEF OpToRel
<1> QED BY <1>3

LEMMA MinOf ==
  ASSUME NEW T \in SUBSET Nat, T # {}
  PROVE  Min(T) \in T /\ \A k \in T : Min(T) <= k
BY Least DEF Min

\* A bounded one has a greatest.
LEMMA MaxOf ==
  ASSUME NEW T \in SUBSET Nat, T # {}, NEW n \in Nat, \A k \in T : k <= n
  PROVE  Max(T) \in T /\ \A k \in T : k <= Max(T)
<1>1. PICK least \in {n - k : k \in T} : \A j \in {n - k : k \in T} : least <= j
  <2>1. {n - k : k \in T} \in SUBSET Nat
    OBVIOUS
  <2>2. {n - k : k \in T} # {}
    OBVIOUS
  <2> QED BY <2>1, <2>2, Least
<1>2. PICK m \in T : least = n - m
  BY <1>1
<1>3. \A k \in T : n - m <= n - k
  BY <1>1, <1>2
<1>4. \A k \in T : k <= m
  BY <1>3
<1> QED BY <1>4 DEF Max

\* Going through a list step by step: some function says where each step
\* leads, when the steps lead from each set to the next, ...
Leads(N, T, U, step) ==
  /\ \A n \in 0..N : T[n] \subseteq U
  /\ \A n \in 1..N : \A x \in T[n - 1] : step[<<n, x>>] \in T[n]

Path(N, T, step, f) ==
  /\ \A n \in 1..N : f[n] = step[<<n, f[n - 1]>>]
  /\ \A n \in 0..N : f[n] \in T[n]

LEMMA Iteration ==
  ASSUME NEW N \in Nat, NEW U, NEW T, NEW step, NEW start \in T[0], Leads(N, T, U, step)
  PROVE  \E f \in [0..N -> U] : f[0] = start /\ Path(N, T, step, f)
<1>0. /\ \A n \in 0..N : T[n] \subseteq U
      /\ \A n \in 1..N : \A x \in T[n - 1] : step[<<n, x>>] \in T[n]
  BY DEF Leads
<1> DEFINE Upto(n, f) == /\ f[0] = start
                         /\ \A k \in 1..n : f[k] = step[<<k, f[k - 1]>>]
                         /\ \A k \in 0..n : f[k] \in T[k]
           Bad == {n \in 0..N : ~ \E f \in [0..n -> U] : Upto(n, f)}
<1>1. CASE Bad # {}
  <2>1. PICK n \in Bad : \A k \in Bad : n <= k
    <3>1. Bad \in SUBSET Nat
      OBVIOUS
    <3> HIDE DEF Bad
    <3> QED BY <1>1, <3>1, Least
  <2>2. n # 0
    <3>1. Upto(0, [k \in 0..0 |-> start]) /\ start \in U
      BY <1>0
    <3> QED BY <3>1
  <2>3. n \in 1..N /\ n - 1 \in 0..N /\ n - 1 \notin Bad
    <3>1. n \in 0..N /\ (n - 1 \in Bad => n <= n - 1)
      BY <2>1
    <3> HIDE DEF Bad
    <3> QED BY <3>1, <2>2
  <2>4. PICK f \in [0..(n - 1) -> U] : Upto(n - 1, f)
    BY <2>3
  <2> DEFINE x == step[<<n, f[n - 1]>>]
             g == [k \in 0..n |-> IF k = n THEN x ELSE f[k]]
  <2>5. x \in T[n] /\ x \in U
    <3>1. n - 1 \in 0..(n - 1) /\ f[n - 1] \in T[n - 1]
      BY <2>3, <2>4
    <3> QED BY <1>0, <2>3, <3>1
  <2> HIDE DEF x
  <2>6. g \in [0..n -> U] /\ g[0] = start /\ \A k \in 0..n : g[k] \in T[k]
    BY <2>3, <2>4, <2>5
  <2>7. ASSUME NEW k \in 1..n PROVE g[k] = step[<<k, g[k - 1]>>]
    <3>1. CASE k = n
      <4>1. g[k - 1] = f[n - 1]
        BY <3>1, <2>3
      <4>2. g[k] = x
        BY <3>1, <2>3
      <4> QED BY <3>1, <4>1, <4>2 DEF x
    <3>2. CASE k # n
      <4>1. k \in 1..(n - 1) /\ g[k] = f[k] /\ g[k - 1] = f[k - 1]
        BY <3>2, <2>3
      <4> QED BY <4>1, <2>4
    <3> QED BY <3>1, <3>2
  <2>8. Upto(n, g)
    BY <2>6, <2>7
  <2> QED BY <2>8, <2>6, <2>1
<1>2. CASE Bad = {}
  <2>1. N \in 0..N /\ N \notin Bad
    <3> HIDE DEF Bad
    <3> QED BY <1>2
  <2>2. PICK f \in [0..N -> U] : Upto(N, f)
    BY <2>1
  <2> QED BY <2>2 DEF Path
<1> QED BY <1>1, <1>2

\* ... and no function that goes that way leaves the sets.
LEMMA Staying ==
  ASSUME NEW N \in Nat, NEW T, NEW f, f[0] \in T[0],
         \A n \in 1..N : f[n - 1] \in T[n - 1] => f[n] \in T[n]
  PROVE  \A n \in 0..N : f[n] \in T[n]
<1> DEFINE Bad == {n \in 0..N : f[n] \notin T[n]}
<1>1. SUFFICES ASSUME Bad # {} PROVE FALSE
  OBVIOUS
<1>2. Bad \in SUBSET Nat
  OBVIOUS
<1>3. PICK n \in Bad : \A k \in Bad : n <= k
  <2> HIDE DEF Bad
  <2> QED BY <1>1, <1>2, Least
<1>4. n \in 1..N /\ n - 1 \in 0..N
  BY <1>3
<1>5. n - 1 \notin Bad
  <2>1. n - 1 \in Bad => n <= n - 1
    BY <1>3
  <2> HIDE DEF Bad
  <2> QED BY <2>1, <1>4
<1> QED BY <1>3, <1>4, <1>5

\* What a sequence is without its i-th element.
LEMMA Removing ==
  ASSUME NEW S, NEW s \in Seq(S), NEW i \in 1..Len(s)
  PROVE  /\ RemoveAt(s, i) \in Seq(S)
         /\ Len(RemoveAt(s, i)) = Len(s) - 1
         /\ \A n \in 1..(Len(s) - 1) :
              RemoveAt(s, i)[n] = IF n < i THEN s[n] ELSE s[n + 1]
<1> DEFINE before == SubSeq(s, 1, i - 1)
           after  == SubSeq(s, i + 1, Len(s))
<1>1. /\ before \in Seq(S) /\ Len(before) = i - 1
      /\ \A n \in 1..(i - 1) : before[n] = s[n]
  BY SubSeqProperties
<1>2. /\ after \in Seq(S) /\ Len(after) = Len(s) - i
      /\ \A n \in 1..(Len(s) - i) : after[n] = s[n + i]
  BY SubSeqProperties
<1>3. RemoveAt(s, i) = before \o after
  BY DEF RemoveAt
<1> HIDE DEF before, after
<1>4. /\ before \o after \in Seq(S)
      /\ Len(before \o after) = Len(before) + Len(after)
      /\ \A n \in 1..(Len(before) + Len(after)) :
           (before \o after)[n] = IF n <= Len(before) THEN before[n] ELSE after[n - Len(before)]
  BY <1>1, <1>2, ConcatProperties
<1> QED BY <1>1, <1>2, <1>3, <1>4

LEMMA RemovingInjective ==
  ASSUME NEW S, NEW s \in Seq(S), NEW i \in 1..Len(s), IsInjective(s)
  PROVE  /\ IsInjective(RemoveAt(s, i))
         /\ Range(RemoveAt(s, i)) = Range(s) \ {s[i]}
<1> DEFINE r == RemoveAt(s, i)
<1>1. /\ r \in Seq(S) /\ Len(r) = Len(s) - 1
      /\ \A n \in 1..(Len(s) - 1) : r[n] = IF n < i THEN s[n] ELSE s[n + 1]
  BY Removing
<1>2. DOMAIN r = 1..(Len(s) - 1) /\ DOMAIN s = 1..Len(s) /\ Len(s) \in Nat
  BY <1>1
<1>3. \A a, b \in 1..Len(s) : s[a] = s[b] => a = b
  BY <1>2 DEF IsInjective
<1>4. ASSUME NEW a \in DOMAIN r, NEW b \in DOMAIN r, r[a] = r[b] PROVE a = b
  BY <1>1, <1>2, <1>3, <1>4
<1>5. ASSUME NEW x \in Range(r) PROVE x \in Range(s) \ {s[i]}
  <2>1. PICK n \in 1..(Len(s) - 1) : x = r[n]
    BY <1>2 DEF Range
  <2>2. CASE n < i
    BY <2>1, <2>2, <1>1, <1>2, <1>3 DEF Range
  <2>3. CASE ~(n < i)
    BY <2>1, <2>3, <1>1, <1>2, <1>3 DEF Range
  <2> QED BY <2>2, <2>3
<1>6. ASSUME NEW x \in Range(s), x # s[i] PROVE x \in Range(r)
  <2>1. PICK n \in 1..Len(s) : x = s[n]
    BY <1>2 DEF Range
  <2>2. CASE n < i
    BY <2>1, <2>2, <1>1, <1>2 DEF Range
  <2>3. CASE i < n
    <3>1. n - 1 \in DOMAIN r /\ r[n - 1] = s[n]
      BY <2>3, <1>1, <1>2
    <3> QED BY <3>1, <2>1 DEF Range
  <2> QED BY <2>1, <2>2, <2>3, <1>6
<1> QED BY <1>4, <1>5, <1>6 DEF IsInjective

----------------------------------------------------------------------------
(* The arena. *)

Block  == [extent : Nat, cap : Nat, refs : Nat, text : Texts \cup {Garbage}]
Arenas == [blocks : Seq(Block), free : Seq(Nat)]

Sound(a) == a \in Arenas /\ ArenaSound(a)

LEMMA SoundFacts ==
  ASSUME NEW a, Sound(a)
  PROVE  /\ a = [blocks |-> a.blocks, free |-> a.free]
         /\ a.blocks \in Seq(Block) /\ a.free \in Seq(Nat)
         /\ Len(a.blocks) \in Nat /\ Len(a.free) \in Nat
         /\ Blocks(a) = 1..Len(a.blocks) /\ DOMAIN a.free = 1..Len(a.free)
         /\ \A b \in Blocks(a) : a.blocks[b] \in Block
         /\ Live(a) \subseteq Blocks(a)
         /\ Null \notin Live(a)
         /\ \A i \in 1..Len(a.free) : a.free[i] \in Blocks(a) \ Live(a)
<1>1. a \in Arenas /\ ArenaSound(a)
  BY DEF Sound
<1>2. a = [blocks |-> a.blocks, free |-> a.free] /\ a.blocks \in Seq(Block) /\ a.free \in Seq(Nat)
  BY <1>1 DEF Arenas
<1>3. /\ Len(a.blocks) \in Nat /\ Len(a.free) \in Nat
      /\ Blocks(a) = 1..Len(a.blocks) /\ DOMAIN a.free = 1..Len(a.free)
      /\ \A b \in 1..Len(a.blocks) : a.blocks[b] \in Block
  BY <1>2 DEF Blocks
<1>4. Live(a) \subseteq Blocks(a) /\ Null \notin Live(a)
  BY <1>3 DEF Live, Null
<1>5. \A i \in 1..Len(a.free) : a.free[i] \in Blocks(a) \ Live(a)
  BY <1>1, <1>3 DEF ArenaSound, Range
<1> QED BY <1>2, <1>3, <1>4, <1>5

LEMMA FirstFitIs ==
  ASSUME NEW a, Sound(a), NEW need \in Nat
  PROVE  \/ FirstFit(a, need) = 0
         \/ /\ FirstFit(a, need) \in 1..Len(a.free)
            /\ a.blocks[a.free[FirstFit(a, need)]].cap >= need
<1> DEFINE fits == {i \in DOMAIN a.free : a.blocks[a.free[i]].cap >= need}
<1>1. fits \in SUBSET Nat /\ fits \subseteq 1..Len(a.free)
  BY SoundFacts
<1>2. CASE fits = {}
  BY <1>2 DEF FirstFit
<1>3. CASE fits # {}
  <2>1. Min(fits) \in fits
    <3> HIDE DEF fits
    <3> QED BY <1>1, <1>3, MinOf
  <2>2. FirstFit(a, need) = Min(fits)
    BY <1>3 DEF FirstFit
  <2> QED BY <1>1, <2>1, <2>2
<1> QED BY <1>2, <1>3

\* A string takes a block of its own and disturbs no other.
LEMMA Allocating ==
  ASSUME NEW a, Sound(a), NEW text \in Texts
  PROVE  /\ Sound(Allocated(a, text))
         /\ NextBlock(a, text) \notin Live(a)
         /\ Live(Allocated(a, text)) = Live(a) \cup {NextBlock(a, text)}
         /\ Allocated(a, text).blocks[NextBlock(a, text)].refs = 1
         /\ TextAt(Allocated(a, text), NextBlock(a, text)) = text
         /\ \A k \in Live(a) : Allocated(a, text).blocks[k] = a.blocks[k]
<1> DEFINE i == FirstFit(a, Size[text])
           b == Allocated(a, text)
           n == NextBlock(a, text)
           fresh == Holding(Size[text], text)
<1>1. Size[text] \in Nat
  BY ArenaAssumption
<1>2. /\ fresh \in Block /\ fresh.cap = Size[text] /\ fresh.refs = 1
      /\ fresh.text = text /\ fresh.cap <= fresh.extent
  BY <1>1 DEF Block, Holding
<1> HIDE DEF fresh
<1>3. /\ a = [blocks |-> a.blocks, free |-> a.free]
      /\ a.blocks \in Seq(Block) /\ a.free \in Seq(Nat)
      /\ Len(a.blocks) \in Nat /\ Len(a.free) \in Nat
      /\ Blocks(a) = 1..Len(a.blocks) /\ DOMAIN a.free = 1..Len(a.free)
      /\ \A k \in Blocks(a) : a.blocks[k] \in Block
      /\ Live(a) \subseteq Blocks(a)
      /\ \A j \in 1..Len(a.free) : a.free[j] \in Blocks(a) \ Live(a)
  BY SoundFacts
<1>4. /\ IsInjective(a.free)
      /\ Range(a.free) = Blocks(a) \ Live(a)
      /\ \A k \in Blocks(a) : a.blocks[k].cap <= a.blocks[k].extent
      /\ \A k \in Live(a) : /\ TextAt(a, k) \in Texts
                            /\ Size[TextAt(a, k)] <= a.blocks[k].cap
  BY DEF Sound, ArenaSound
<1>5. CASE i = 0
  <2>1. b = [blocks |-> Append(a.blocks, fresh), free |-> a.free] /\ n = Len(a.blocks) + 1
    BY <1>3, <1>5 DEF Allocated, NextBlock, fresh
  <2>2. /\ b.blocks \in Seq(Block) /\ Blocks(b) = 1..n /\ b.free = a.free
        /\ b.blocks[n] = fresh
        /\ \A k \in Blocks(a) : b.blocks[k] = a.blocks[k]
    BY <1>2, <1>3, <2>1, AppendProperties DEF Blocks
  <2>3. n \notin Blocks(a) /\ Blocks(b) = Blocks(a) \cup {n}
    BY <1>3, <2>1, <2>2
  <2> HIDE DEF b, n, i
  <2>4. Live(b) = Live(a) \cup {n}
    BY <1>2, <2>2, <2>3 DEF Live
  <2>5. b \in Arenas
    BY <1>3, <2>1, <2>2 DEF Arenas
  <2>6. ArenaSound(b)
    <3>1. IsInjective(b.free) /\ Range(b.free) = Blocks(b) \ Live(b)
      BY <1>4, <2>2, <2>3, <2>4
    <3>2. \A k \in Blocks(b) : b.blocks[k].cap <= b.blocks[k].extent
      BY <1>1, <1>2, <1>4, <2>2, <2>3
    <3>3. \A k \in Live(b) : TextAt(b, k) \in Texts /\ Size[TextAt(b, k)] <= b.blocks[k].cap
      BY <1>1, <1>2, <1>3, <1>4, <2>2, <2>4 DEF TextAt
    <3> QED BY <3>1, <3>2, <3>3 DEF ArenaSound
  <2> QED BY <1>2, <1>3, <2>2, <2>3, <2>4, <2>5, <2>6 DEF Sound, TextAt, b, n
<1>6. CASE i # 0
  <2>1. i \in 1..Len(a.free) /\ a.blocks[a.free[i]].cap >= Size[text]
    BY <1>1, <1>6, FirstFitIs
  <2>2. n = a.free[i] /\ n \in Blocks(a) \ Live(a)
    BY <1>3, <1>6, <2>1 DEF NextBlock
  <2> DEFINE taken == Holding(a.blocks[n].extent, text)
  <2>3. /\ taken \in Block /\ taken.cap <= taken.extent
        /\ taken.cap = Size[text] /\ taken.refs = 1 /\ taken.text = text
    <3>1. a.blocks[n] \in Block /\ a.blocks[n].cap <= a.blocks[n].extent /\ a.blocks[n].cap >= Size[text]
      BY <1>3, <1>4, <2>1, <2>2
    <3> QED BY <3>1, <1>1 DEF Block, Holding
  <2> HIDE DEF taken
  <2>4. b.free = RemoveAt(a.free, i) /\ b = [blocks |-> b.blocks, free |-> b.free]
    BY <1>6 DEF Allocated
  <2>5. /\ b.blocks \in Seq(Block) /\ Blocks(b) = Blocks(a)
        /\ b.blocks[n] = taken
        /\ \A k \in Blocks(a) : k # n => b.blocks[k] = a.blocks[k]
    <3>1. b.blocks = [a.blocks EXCEPT ![n] = taken]
      BY <1>6, <2>2, <1>3 DEF Allocated, taken
    <3> HIDE DEF b, n
    <3> QED BY <3>1, <2>3, <2>2, <1>3, ExceptSeq DEF Blocks
  <2> HIDE DEF b, n
  <2>6. Live(b) = Live(a) \cup {n}
    BY <2>2, <2>3, <2>5 DEF Live
  <2>7. b.free \in Seq(Nat) /\ IsInjective(b.free) /\ Range(b.free) = Range(a.free) \ {n}
    BY <1>3, <1>4, <2>1, <2>2, <2>4, Removing, RemovingInjective
  <2>8. b \in Arenas
    BY <2>4, <2>5, <2>7 DEF Arenas
  <2>9. ArenaSound(b)
    <3>1. Range(b.free) = Blocks(b) \ Live(b)
      BY <1>4, <2>2, <2>5, <2>6, <2>7
    <3>2. \A k \in Blocks(b) : b.blocks[k].cap <= b.blocks[k].extent
      BY <1>4, <2>3, <2>5
    <3>3. \A k \in Live(b) : TextAt(b, k) \in Texts /\ Size[TextAt(b, k)] <= b.blocks[k].cap
      <4>1. b.blocks[n].text \in Texts /\ Size[b.blocks[n].text] <= b.blocks[n].cap
        BY <1>1, <2>2, <2>3, <2>5
      <4>2. \A k \in Live(a) : b.blocks[k] = a.blocks[k]
        BY <1>3, <2>2, <2>5
      <4> QED BY <1>4, <2>6, <4>1, <4>2 DEF TextAt
    <3> QED BY <2>7, <3>1, <3>2, <3>3 DEF ArenaSound
  <2> QED BY <1>3, <2>2, <2>3, <2>5, <2>6, <2>8, <2>9 DEF Sound, TextAt, b, n
<1> QED BY <1>5, <1>6

\* The last reference given up frees the block and disturbs no other.
LEMMA Releasing ==
  ASSUME NEW a, Sound(a), NEW k \in Live(a), a.blocks[k].refs = 1
  PROVE  /\ Sound(Released(a, k))
         /\ Live(Released(a, k)) = Live(a) \ {k}
         /\ \A j \in Live(a) \ {k} : Released(a, k).blocks[j] = a.blocks[j]
<1> DEFINE b == Released(a, k)
           freed == Freed(a.blocks[k])
<1>1. /\ a = [blocks |-> a.blocks, free |-> a.free]
      /\ a.blocks \in Seq(Block) /\ a.free \in Seq(Nat)
      /\ Len(a.blocks) \in Nat /\ Len(a.free) \in Nat
      /\ Blocks(a) = 1..Len(a.blocks) /\ DOMAIN a.free = 1..Len(a.free)
      /\ \A j \in Blocks(a) : a.blocks[j] \in Block
      /\ Live(a) \subseteq Blocks(a) /\ Null \notin Live(a)
      /\ \A j \in 1..Len(a.free) : a.free[j] \in Blocks(a) \ Live(a)
  BY SoundFacts
<1>2. /\ IsInjective(a.free)
      /\ Range(a.free) = Blocks(a) \ Live(a)
      /\ \A j \in Blocks(a) : a.blocks[j].cap <= a.blocks[j].extent
      /\ \A j \in Live(a) : /\ TextAt(a, j) \in Texts
                            /\ Size[TextAt(a, j)] <= a.blocks[j].cap
  BY DEF Sound, ArenaSound
<1>3. k \in Blocks(a) /\ k # Null /\ k \in Nat /\ a.blocks[k] \in Block
  BY <1>1
<1>4. freed \in Block /\ freed.cap <= freed.extent /\ freed.refs = 0
  BY <1>2, <1>3 DEF Block, Freed
<1>5. b = [blocks |-> [a.blocks EXCEPT ![k] = freed], free |-> <<k>> \o a.free]
  BY <1>1, <1>3 DEF Released
<1> HIDE DEF b, freed
<1>6. /\ b.blocks \in Seq(Block) /\ Blocks(b) = Blocks(a)
      /\ b.blocks[k].refs = 0 /\ b.blocks[k].cap <= b.blocks[k].extent
      /\ \A j \in Blocks(a) : j # k => b.blocks[j] = a.blocks[j]
  <2>1. b.blocks[k] = freed
    BY <1>1, <1>3, <1>5
  <2> QED BY <1>1, <1>3, <1>4, <1>5, <2>1, ExceptSeq DEF Blocks
<1>7. Live(b) = Live(a) \ {k}
  BY <1>1, <1>3, <1>6 DEF Live
<1>8. /\ b.free \in Seq(Nat) /\ Len(b.free) = Len(a.free) + 1
      /\ b.free[1] = k /\ \A n \in 2..(Len(a.free) + 1) : b.free[n] = a.free[n - 1]
  <2>1. <<k>> \in Seq(Nat) /\ Len(<<k>>) = 1 /\ <<k>>[1] = k
    BY <1>3
  <2>2. b.free = <<k>> \o a.free
    BY <1>5
  <2> QED BY <1>1, <2>1, <2>2, ConcatProperties
<1>9. DOMAIN b.free = 1..(Len(a.free) + 1)
  BY <1>1, <1>8
<1> DEFINE f == a.free  g == b.free  L == Len(a.free)
<1>14. L \in Nat /\ DOMAIN g = 1..(L + 1) /\ g[1] = k /\ \A n \in 2..(L + 1) : g[n] = f[n - 1]
  BY <1>1, <1>8, <1>9
<1>15. (\A n \in 1..L : f[n] # k) /\ (\A n, m \in 1..L : f[n] = f[m] => n = m)
  BY <1>1, <1>2 DEF IsInjective
<1> HIDE DEF f, g, L
<1>10. IsInjective(b.free)
  <2>1. ASSUME NEW n \in 1..(L + 1), NEW m \in 1..(L + 1), g[n] = g[m] PROVE n = m
    BY <1>14, <1>15, <2>1
  <2> QED BY <1>14, <2>1 DEF IsInjective, g
<1>11. Range(b.free) = Range(a.free) \cup {k}
  <2>1. ASSUME NEW n \in 1..(L + 1) PROVE g[n] = k \/ \E p \in 1..L : g[n] = f[p]
    BY <1>14
  <2>2. ASSUME NEW p \in 1..L PROVE p + 1 \in 1..(L + 1) /\ g[p + 1] = f[p]
    BY <1>14
  <2>3. \E n \in 1..(L + 1) : g[n] = k
    BY <1>14
  <2>4. DOMAIN f = 1..L
    BY <1>1 DEF f, L
  <2>5. Range(g) = Range(f) \cup {k}
    <3>1. \A x \in Range(g) : x \in Range(f) \cup {k}
      BY <1>14, <2>1, <2>4 DEF Range
    <3>2. \A x \in Range(f) : x \in Range(g)
      BY <1>14, <2>2, <2>4 DEF Range
    <3>3. k \in Range(g)
      BY <1>14, <2>3 DEF Range
    <3> QED BY <3>1, <3>2, <3>3
  <2> QED BY <2>5 DEF f, g
<1>12. b \in Arenas
  BY <1>5, <1>6, <1>8 DEF Arenas
<1>13. ArenaSound(b)
  <2>1. Range(b.free) = Blocks(b) \ Live(b)
    BY <1>1, <1>2, <1>3, <1>6, <1>7, <1>11
  <2>2. \A j \in Blocks(b) : b.blocks[j].cap <= b.blocks[j].extent
    BY <1>2, <1>6
  <2>3. \A j \in Live(b) : TextAt(b, j) \in Texts /\ Size[TextAt(b, j)] <= b.blocks[j].cap
    BY <1>1, <1>2, <1>6, <1>7 DEF TextAt
  <2> QED BY <1>10, <2>1, <2>2, <2>3 DEF ArenaSound
<1> QED BY <1>1, <1>6, <1>7, <1>12, <1>13 DEF Sound, b

----------------------------------------------------------------------------
(* Maps. *)

EntryType == [hash : Nat, next : Int, key : Nat, value : Nat]
Dicts     == {NoMap} \cup
             [entries : Seq(EntryType),
              buckets : UNION {[0..(n - 1) -> Int] : n \in Nat \ {0}},
              cap     : Nat \ {0}]

LEMMA DictFacts ==
  ASSUME NEW d \in Dicts
  PROVE  /\ d = [entries |-> d.entries, buckets |-> d.buckets, cap |-> d.cap]
         /\ d.entries \in Seq(EntryType) /\ Len(d.entries) \in Nat
         /\ DOMAIN d.entries = 1..Len(d.entries)
         /\ \A n \in 1..Len(d.entries) : d.entries[n] \in EntryType
         /\ \A i \in Indices(d) : /\ i \in Nat /\ i + 1 \in 1..Len(d.entries)
                                  /\ Entry(d, i) \in EntryType
         /\ \A n \in 1..Len(d.entries) : n - 1 \in Indices(d) /\ Entry(d, n - 1) = d.entries[n]
         /\ d.cap \in Nat
<1>1. /\ d = [entries |-> d.entries, buckets |-> d.buckets, cap |-> d.cap]
      /\ d.entries \in Seq(EntryType) /\ d.cap \in Nat
  <2>1. CASE d = NoMap
    BY <2>1, EmptySeq DEF NoMap
  <2>2. CASE d # NoMap
    BY <2>2 DEF Dicts
  <2> QED BY <2>1, <2>2
<1>2. /\ Len(d.entries) \in Nat /\ DOMAIN d.entries = 1..Len(d.entries)
      /\ \A n \in 1..Len(d.entries) : d.entries[n] \in EntryType
  BY <1>1
<1> DEFINE L == Len(d.entries)
<1>3. \A i \in Indices(d) : i \in Nat /\ i + 1 \in 1..L
  BY <1>2 DEF Indices
<1>4. \A i \in Indices(d) : Entry(d, i) \in EntryType
  BY <1>2, <1>3 DEF Entry
<1>5. \A n \in 1..L : n - 1 \in Indices(d) /\ (n - 1) + 1 = n
  BY <1>2 DEF Indices
<1>6. \A n \in 1..L : Entry(d, n - 1) = d.entries[n]
  BY <1>5 DEF Entry
<1> QED BY <1>1, <1>2, <1>3, <1>4, <1>5, <1>6

\* A map that is not NoMap has a bucket.
LEMMA Bucketed ==
  ASSUME NEW d \in Dicts, d # NoMap
  PROVE  \E n \in Nat \ {0} : d.buckets \in [0..(n - 1) -> Int] /\ Cardinality(DOMAIN d.buckets) = n
<1>1. PICK n \in Nat \ {0} : d.buckets \in [0..(n - 1) -> Int]
  BY DEF Dicts
<1>2. Cardinality(0..(n - 1)) = (n - 1) - 0 + 1
  BY <1>1, FS_Interval
<1> QED BY <1>1, <1>2

LEMMA EnsuredIs ==
  ASSUME NEW d \in Dicts
  PROVE  /\ Ensured(d) \in Dicts /\ Ensured(d) # NoMap
         /\ Ensured(d).entries = d.entries
<1>1. CASE d = NoMap
  <2>1. NewMap \in Dicts
    <3>1. [b \in 0..(FirstBuckets - 1) |-> End] \in [0..(FirstBuckets - 1) -> Int]
      BY DEF End
    <3> QED BY <3>1, MapAssumption, EmptySeq DEF NewMap, Dicts
  <2>2. NewMap # NoMap
    BY MapAssumption DEF NewMap, NoMap
  <2> QED BY <1>1, <2>1, <2>2 DEF Ensured, NewMap, NoMap
<1>2. CASE d # NoMap
  BY <1>2 DEF Ensured
<1> QED BY <1>1, <1>2

LEMMA FindIs ==
  ASSUME NEW d \in Dicts, NEW a, NEW key
  PROVE  Find(a, d, key) = End \/ Find(a, d, key) \in Matches(a, d, key)
<1> DEFINE at   == Walk(d, BucketOf(d, Hash[key]))
           hits == {n \in 0..Len(d.entries) : at[n] \in Matches(a, d, key)}
<1>1. hits \in SUBSET Nat
  BY DictFacts
<1>2. CASE d = NoMap \/ hits = {}
  BY <1>2 DEF Find
<1>3. CASE d # NoMap /\ hits # {}
  <2>1. Min(hits) \in hits
    <3> HIDE DEF hits
    <3> QED BY <1>1, <1>3, MinOf
  <2>2. Find(a, d, key) = at[Min(hits)]
    BY <1>3 DEF Find
  <2> QED BY <2>1, <2>2
<1> QED BY <1>2, <1>3

\* Two maps that say the same and differ at most in how they are chained.
SameEntries(d, e) ==
  /\ Len(d.entries) = Len(e.entries) /\ e.cap = d.cap
  /\ \A n \in 1..Len(d.entries) :
       /\ d.entries[n].hash = e.entries[n].hash
       /\ d.entries[n].key = e.entries[n].key
       /\ d.entries[n].value = e.entries[n].value

LEMMA RehashedIs ==
  ASSUME NEW d \in Dicts, d # NoMap, NEW count \in Nat \ {0}
  PROVE  /\ Rehashed(d, count) \in Dicts /\ Rehashed(d, count) # NoMap
         /\ SameEntries(d, Rehashed(d, count))
<1> DEFINE same(i) == {j \in Indices(d) : /\ j < i
                                          /\ Entry(d, j).hash % count = Entry(d, i).hash % count}
           in(b)   == {j \in Indices(d) : Entry(d, j).hash % count = b}
           latest(S) == IF S = {} THEN End ELSE Max(S)
           r == Rehashed(d, count)
           L == Len(d.entries)
<1>1. ASSUME NEW S \in SUBSET Indices(d) PROVE latest(S) \in Int
  <2>1. S \in SUBSET Nat /\ \A k \in S : k <= L
    BY DictFacts DEF Indices
  <2>2. CASE S # {}
    <3>1. Max(S) \in S
      BY <2>1, <2>2, MaxOf, DictFacts
    <3>2. Max(S) \in Nat
      BY <2>1, <3>1, Zenon
    <3>3. latest(S) = Max(S)
      BY <2>2
    <3>4. latest(S) \in Nat
      BY <3>2, <3>3, Zenon
    <3> HIDE DEF latest
    <3> QED BY <3>4
  <2>3. CASE S = {}
    BY <2>3 DEF End
  <2> QED BY <2>2, <2>3
<1>2. \A i : same(i) \in SUBSET Indices(d)
  OBVIOUS
<1>3. \A b : in(b) \in SUBSET Indices(d)
  OBVIOUS
<1>4. r = [entries |-> [n \in 1..L |-> [d.entries[n] EXCEPT !.next = latest(same(n - 1))]],
           buckets |-> [b \in 0..(count - 1) |-> latest(in(b))],
           cap     |-> d.cap]
  BY DictFacts DEF Rehashed
<1> HIDE DEF same, in, latest, r
<1>5. r.buckets \in [0..(count - 1) -> Int]
  BY <1>1, <1>3, <1>4
<1>6. ASSUME NEW n \in 1..L
      PROVE  /\ r.entries[n] \in EntryType
             /\ d.entries[n].hash = r.entries[n].hash
             /\ d.entries[n].key = r.entries[n].key
             /\ d.entries[n].value = r.entries[n].value
  <2>1. latest(same(n - 1)) \in Int
    BY <1>1, <1>2
  <2>2. r.entries[n] = [d.entries[n] EXCEPT !.next = latest(same(n - 1))]
    BY <1>4
  <2>3. d.entries[n] \in EntryType
    BY DictFacts
  <2> QED BY <2>1, <2>2, <2>3 DEF EntryType
<1>7. r.entries \in Seq(EntryType) /\ Len(r.entries) = L
  <2>1. L \in Nat /\ r.entries \in [1..L -> EntryType]
    BY <1>4, <1>6, DictFacts
  <2> HIDE DEF L
  <2> QED BY <2>1
<1>8. r \in Dicts /\ r # NoMap
  <2>1. d.cap \in Nat \ {0}
    BY DEF Dicts
  <2>2. r.cap = d.cap /\ r = [entries |-> r.entries, buckets |-> r.buckets, cap |-> r.cap]
    BY <1>4
  <2>3. r.buckets \in UNION {[0..(n - 1) -> Int] : n \in Nat \ {0}}
    BY <1>5
  <2> QED BY <2>1, <2>2, <2>3, <1>7 DEF Dicts, NoMap
<1>9. SameEntries(d, r)
  BY <1>4, <1>6, <1>7 DEF SameEntries
<1> QED BY <1>8, <1>9 DEF r

----------------------------------------------------------------------------
(* Who owns the strings. *)

\* An entry's strings are its own two, with one reference each, and its hash
\* is its key's.
Owned(a, e) ==
  /\ e.key \in Live(a) /\ a.blocks[e.key].refs = 1
  /\ e.value \in Live(a) /\ a.blocks[e.value].refs = 1
  /\ e.key # e.value
  /\ TextAt(a, e.key) \in Keys /\ e.hash = Hash[TextAt(a, e.key)]
  /\ TextAt(a, e.value) \in Values

\* The key and the value that an entry shows.
Says(a, e) == <<TextAt(a, e.key), TextAt(a, e.value)>>

Apart(e, f) == e.key \notin {f.key, f.value} /\ e.value \notin {f.key, f.value}

Owns(a, d) ==
  /\ d \in Dicts /\ Len(d.entries) <= d.cap
  /\ \A n \in 1..Len(d.entries) : Owned(a, d.entries[n])
  /\ \A n, k \in 1..Len(d.entries) : n # k => Apart(d.entries[n], d.entries[k])

Strings(d) == UNION {{d.entries[n].key, d.entries[n].value} : n \in 1..Len(d.entries)}

Heaps == [arena : Arenas, d : Dicts]

Tidy(h) == h \in Heaps /\ Sound(h.arena) /\ Owns(h.arena, h.d)

\* What storing in a map leaves alone: every string the map does not own, and
\* its own keys, in their places.
Kept(h, g) ==
  /\ Live(g.arena) \ Strings(g.d) = Live(h.arena) \ Strings(h.d)
  /\ \A k \in Live(h.arena) \ Strings(h.d) : g.arena.blocks[k] = h.arena.blocks[k]
  /\ Len(h.d.entries) <= Len(g.d.entries)
  /\ \A n \in 1..Len(h.d.entries) :
       /\ g.d.entries[n].key = h.d.entries[n].key
       /\ g.arena.blocks[h.d.entries[n].key] = h.arena.blocks[h.d.entries[n].key]

LEMMA OwnedStill ==
  ASSUME NEW a, NEW b, NEW e, Owned(a, e),
         e.key \in Live(b), b.blocks[e.key] = a.blocks[e.key],
         e.value \in Live(b), b.blocks[e.value] = a.blocks[e.value]
  PROVE  Owned(b, e)
BY DEF Owned, TextAt

LEMMA OwnsSame ==
  ASSUME NEW a, NEW d, NEW e \in Dicts, Owns(a, d), SameEntries(d, e)
  PROVE  Owns(a, e) /\ Strings(e) = Strings(d)
<1>1. \A n \in 1..Len(d.entries) : Owned(a, e.entries[n])
  BY DEF Owns, Owned, SameEntries
<1>2. \A n, k \in 1..Len(d.entries) : n # k => Apart(e.entries[n], e.entries[k])
  BY DEF Owns, Apart, SameEntries
<1>3. Len(e.entries) = Len(d.entries) /\ e.cap = d.cap /\ Len(d.entries) <= d.cap
  BY DEF Owns, SameEntries
<1>4. Strings(e) = Strings(d)
  BY DEF Strings, SameEntries
<1> QED BY <1>1, <1>2, <1>3, <1>4 DEF Owns

\* One entry shows another value; a new entry shows what is stored.
Rewrites(h, g, i, value) ==
  /\ Len(g.d.entries) = Len(h.d.entries)
  /\ \A k \in 1..Len(h.d.entries) :
       Says(g.arena, g.d.entries[k]) =
         IF k = i + 1 THEN <<TextAt(h.arena, h.d.entries[k].key), value>>
         ELSE Says(h.arena, h.d.entries[k])

Appends(h, g, key, value) ==
  /\ Len(g.d.entries) = Len(h.d.entries) + 1
  /\ \A k \in 1..Len(h.d.entries) : Says(g.arena, g.d.entries[k]) = Says(h.arena, h.d.entries[k])
  /\ Says(g.arena, g.d.entries[Len(h.d.entries) + 1]) = <<key, value>>

LEMMA ReplacedOwns ==
  ASSUME NEW h, Tidy(h), NEW i \in Indices(h.d), NEW value \in Values
  PROVE  /\ Tidy(Replaced(h, i, value)) /\ Kept(h, Replaced(h, i, value))
         /\ Rewrites(h, Replaced(h, i, value), i, value)
<1> DEFINE d == h.d
           L == Len(d.entries)
           n == i + 1
           e == d.entries[n]
           freed == Released(h.arena, e.value)
           v == NextBlock(freed, value)
           a == Allocated(freed, value)
           f == [e EXCEPT !.value = v]
           g == Replaced(h, i, value)
<1>1. /\ d \in Dicts /\ Sound(h.arena) /\ L <= d.cap /\ h = [arena |-> h.arena, d |-> d]
      /\ \A k \in 1..L : Owned(h.arena, d.entries[k])
      /\ \A k, j \in 1..L : k # j => Apart(d.entries[k], d.entries[j])
  BY DEF Tidy, Owns, Heaps
<1>2. /\ d = [entries |-> d.entries, buckets |-> d.buckets, cap |-> d.cap]
      /\ d.entries \in Seq(EntryType) /\ L \in Nat /\ DOMAIN d.entries = 1..L
      /\ n \in 1..L /\ e \in EntryType /\ Entry(d, i) = e
      /\ d # NoMap
  <2>1. n \in 1..L
    BY <1>1, DictFacts
  <2>2. e \in EntryType /\ Entry(d, i) = e
    BY <1>1, <2>1, DictFacts DEF Entry
  <2>3. d # NoMap
    BY <2>1 DEF NoMap
  <2> QED BY <1>1, <2>1, <2>2, <2>3, DictFacts
<1>3. Owned(h.arena, e)
  BY <1>1, <1>2
<1>4. /\ Sound(freed) /\ Live(freed) = Live(h.arena) \ {e.value}
      /\ \A k \in Live(h.arena) \ {e.value} : freed.blocks[k] = h.arena.blocks[k]
  BY <1>1, <1>3, Releasing DEF Owned
<1>5. value \in Texts
  BY MapAssumption
<1> HIDE DEF freed
<1>6. /\ Sound(a) /\ v \notin Live(freed) /\ Live(a) = Live(freed) \cup {v}
      /\ a.blocks[v].refs = 1 /\ TextAt(a, v) = value
      /\ \A k \in Live(freed) : a.blocks[k] = freed.blocks[k]
  BY <1>4, <1>5, Allocating
<1>7. v \in Nat
  BY <1>6, SoundFacts DEF Live
<1>8. f \in EntryType /\ f.key = e.key /\ f.hash = e.hash /\ f.value = v
  BY <1>2, <1>7 DEF EntryType
<1>9. /\ g.arena = a
      /\ g.d = [entries |-> [d.entries EXCEPT ![n] = f], buckets |-> d.buckets, cap |-> d.cap]
      /\ g = [arena |-> g.arena, d |-> g.d]
  BY <1>2 DEF Replaced, freed
<1> HIDE DEF f, a, v, g, e, n, L, d
<1>10. /\ g.d.entries \in Seq(EntryType) /\ Len(g.d.entries) = L
       /\ g.d.entries[n] = f
       /\ \A k \in 1..L : k # n => g.d.entries[k] = d.entries[k]
  BY <1>2, <1>8, <1>9, ExceptSeq DEF L
<1>11. g.d \in Dicts /\ g.d.cap = d.cap
  BY <1>1, <1>2, <1>9, <1>10 DEF Dicts
<1>12. ASSUME NEW k \in 1..L, k # n PROVE Owned(a, d.entries[k])
  <2>1. Owned(h.arena, d.entries[k]) /\ Apart(d.entries[k], e)
    BY <1>1, <1>2, <1>12 DEF e
  <2>2. /\ d.entries[k].key \in Live(h.arena) \ {e.value}
        /\ d.entries[k].value \in Live(h.arena) \ {e.value}
    BY <2>1 DEF Owned, Apart
  <2> QED BY <2>1, <2>2, <1>4, <1>6, OwnedStill
<1>13. e.key \in Live(freed) /\ a.blocks[e.key] = h.arena.blocks[e.key]
  BY <1>3, <1>4, <1>6 DEF Owned
<1>14. Owned(a, f)
  BY <1>3, <1>6, <1>8, <1>13 DEF Owned, TextAt
<1>15. ASSUME NEW k \in 1..L, k # n
       PROVE  Apart(d.entries[k], f) /\ Apart(f, d.entries[k])
  <2>1. Owned(h.arena, d.entries[k]) /\ Apart(d.entries[k], e)
    BY <1>1, <1>2, <1>15 DEF e
  <2>2. d.entries[k].key \in Live(freed) /\ d.entries[k].value \in Live(freed)
    BY <2>1, <1>4 DEF Owned, Apart
  <2> QED BY <2>1, <2>2, <1>6, <1>8 DEF Apart
<1>16. Owns(g.arena, g.d)
  BY <1>1, <1>9, <1>10, <1>11, <1>12, <1>14, <1>15 DEF Owns
<1>17. Strings(g.d) = (Strings(d) \ {e.value}) \cup {v}
  <2>1. ASSUME NEW x \in Strings(g.d) PROVE x \in (Strings(d) \ {e.value}) \cup {v}
    <3>1. PICK k \in 1..L : x \in {g.d.entries[k].key, g.d.entries[k].value}
      BY <1>10 DEF Strings
    <3>2. CASE k = n
      BY <3>1, <3>2, <1>2, <1>3, <1>8, <1>10 DEF Strings, Owned, L, e
    <3>3. CASE k # n
      BY <3>1, <3>3, <1>1, <1>2, <1>10 DEF Strings, Apart, L, e
    <3> QED BY <3>2, <3>3
  <2>2. ASSUME NEW x \in Strings(d), x # e.value PROVE x \in Strings(g.d)
    <3>1. PICK k \in 1..L : x \in {d.entries[k].key, d.entries[k].value}
      BY DEF Strings, L
    <3>2. x \in {g.d.entries[k].key, g.d.entries[k].value}
      BY <3>1, <2>2, <1>8, <1>10 DEF e
    <3> QED BY <3>2, <1>10 DEF Strings
  <2>3. v \in Strings(g.d)
    BY <1>2, <1>8, <1>10 DEF Strings
  <2> QED BY <2>1, <2>2, <2>3
<1>18. e.value \in Strings(d) /\ Strings(d) \subseteq Live(h.arena)
  BY <1>1, <1>2 DEF Strings, Owned, L, e
<1>19. Live(g.arena) \ Strings(g.d) = Live(h.arena) \ Strings(d)
  BY <1>4, <1>6, <1>9, <1>17, <1>18
<1>20. \A k \in Live(h.arena) \ Strings(d) : g.arena.blocks[k] = h.arena.blocks[k]
  BY <1>4, <1>6, <1>9, <1>18
<1>21. ASSUME NEW k \in 1..L
       PROVE  /\ g.d.entries[k].key = d.entries[k].key
              /\ g.arena.blocks[d.entries[k].key] = h.arena.blocks[d.entries[k].key]
  <2>1. CASE k = n
    BY <2>1, <1>8, <1>9, <1>10, <1>13 DEF e
  <2>2. CASE k # n
    <3>1. Owned(h.arena, d.entries[k]) /\ Apart(d.entries[k], e)
      BY <1>1, <1>2, <2>2 DEF e
    <3>2. d.entries[k].key \in Live(freed)
      BY <3>1, <1>4 DEF Owned, Apart
    <3> QED BY <3>2, <2>2, <1>4, <1>6, <1>9, <1>10
  <2> QED BY <2>1, <2>2
<1>22. Kept(h, g)
  BY <1>2, <1>10, <1>19, <1>20, <1>21 DEF Kept, d, L
<1>23. g \in Heaps
  BY <1>6, <1>9, <1>11 DEF Heaps, Sound
<1>24. ASSUME NEW k \in 1..L
       PROVE  Says(g.arena, g.d.entries[k]) =
                IF k = n THEN <<TextAt(h.arena, d.entries[k].key), value>> ELSE Says(h.arena, d.entries[k])
  <2>1. TextAt(g.arena, g.d.entries[k].key) = TextAt(h.arena, d.entries[k].key)
    BY <1>21 DEF TextAt
  <2>2. CASE k = n
    BY <2>1, <2>2, <1>6, <1>8, <1>9, <1>10 DEF Says
  <2>3. CASE k # n
    <3>1. Owned(h.arena, d.entries[k]) /\ Apart(d.entries[k], e)
      BY <1>1, <1>2, <2>3 DEF e
    <3>2. d.entries[k].value \in Live(freed) /\ d.entries[k].value \in Live(h.arena) \ {e.value}
      BY <3>1, <1>4 DEF Owned, Apart
    <3>3. TextAt(g.arena, g.d.entries[k].value) = TextAt(h.arena, d.entries[k].value)
      BY <3>2, <2>3, <1>4, <1>6, <1>9, <1>10 DEF TextAt
    <3> QED BY <2>1, <2>3, <3>3 DEF Says
  <2> QED BY <2>2, <2>3
<1>25. Rewrites(h, g, i, value)
  BY <1>10, <1>24 DEF Rewrites, n, d, L
<1> QED BY <1>6, <1>9, <1>16, <1>22, <1>23, <1>25 DEF Tidy, g

LEMMA AddedOwns ==
  ASSUME NEW h, Tidy(h), NEW key \in Keys, NEW value \in Values
  PROVE  /\ Tidy(Added(h, key, value)) /\ Kept(h, Added(h, key, value))
         /\ Added(h, key, value).d # NoMap
         /\ Appends(h, Added(h, key, value), key, value)
<1> DEFINE d == Ensured(h.d)
           L == Len(d.entries)
           k == NextBlock(h.arena, key)
           keyed == Allocated(h.arena, key)
           v == NextBlock(keyed, value)
           a == Allocated(keyed, value)
           b == BucketOf(d, Hash[key])
           e == [hash |-> Hash[key], next |-> d.buckets[b], key |-> k, value |-> v]
           g == Added(h, key, value)
<1>1. /\ h.d \in Dicts /\ Sound(h.arena) /\ Len(h.d.entries) <= h.d.cap
      /\ \A n \in 1..Len(h.d.entries) : Owned(h.arena, h.d.entries[n])
      /\ \A n, j \in 1..Len(h.d.entries) : n # j => Apart(h.d.entries[n], h.d.entries[j])
  BY DEF Tidy, Owns, Heaps
<1>2. d \in Dicts /\ d # NoMap /\ d.entries = h.d.entries
  BY <1>1, EnsuredIs
<1>3. L <= d.cap
  <2>1. CASE h.d = NoMap
    BY <2>1, <1>2, DictFacts DEF NoMap
  <2>2. CASE h.d # NoMap
    BY <2>2, <1>1 DEF Ensured
  <2> QED BY <2>1, <2>2
<1>4. key \in Texts /\ value \in Texts /\ Hash[key] \in Nat
  BY MapAssumption
<1>5. /\ Sound(keyed) /\ k \notin Live(h.arena) /\ Live(keyed) = Live(h.arena) \cup {k}
      /\ keyed.blocks[k].refs = 1 /\ TextAt(keyed, k) = key
      /\ \A j \in Live(h.arena) : keyed.blocks[j] = h.arena.blocks[j]
  BY <1>1, <1>4, Allocating
<1> HIDE DEF keyed
<1>6. /\ Sound(a) /\ v \notin Live(keyed) /\ Live(a) = Live(keyed) \cup {v}
      /\ a.blocks[v].refs = 1 /\ TextAt(a, v) = value
      /\ \A j \in Live(keyed) : a.blocks[j] = keyed.blocks[j]
  BY <1>4, <1>5, Allocating
<1>7. k \in Nat /\ v \in Nat
  BY <1>5, <1>6, SoundFacts DEF Live
<1>8. PICK count \in Nat \ {0} : d.buckets \in [0..(count - 1) -> Int] /\ Cardinality(DOMAIN d.buckets) = count
  BY <1>2, Bucketed
<1>9. b \in 0..(count - 1)
  BY <1>4, <1>8 DEF BucketOf
<1>10. d.buckets[b] \in Int
  BY <1>8, <1>9
<1>11. e \in EntryType /\ e.key = k /\ e.value = v /\ e.hash = Hash[key]
  BY <1>4, <1>7, <1>10 DEF EntryType
<1>12. /\ d.entries \in Seq(EntryType) /\ L \in Nat /\ DOMAIN d.entries = 1..L /\ d.cap \in Nat \ {0}
  BY <1>2, DictFacts DEF Dicts
<1>13. /\ g.arena = a
       /\ g.d = [entries |-> Append(d.entries, e), buckets |-> [d.buckets EXCEPT ![b] = L],
                 cap |-> IF L >= d.cap THEN 2 * d.cap ELSE d.cap]
       /\ g = [arena |-> g.arena, d |-> g.d]
  BY DEF Added, keyed
<1> HIDE DEF e, a, v, k, g, b, L, d
<1>14. /\ g.d.entries \in Seq(EntryType) /\ Len(g.d.entries) = L + 1
       /\ g.d.entries[L + 1] = e
       /\ \A n \in 1..L : g.d.entries[n] = d.entries[n]
  BY <1>11, <1>12, <1>13, AppendProperties DEF L
<1>15. g.d.buckets \in [0..(count - 1) -> Int]
  BY <1>8, <1>12, <1>13
<1>16. g.d.cap \in Nat \ {0} /\ L + 1 <= g.d.cap
  BY <1>3, <1>12, <1>13
<1>17. g.d \in Dicts
  BY <1>13, <1>14, <1>15, <1>16 DEF Dicts
<1>18. /\ \A n \in 1..L : Owned(h.arena, d.entries[n])
       /\ \A n, j \in 1..L : n # j => Apart(d.entries[n], d.entries[j])
  BY <1>1, <1>2 DEF L
<1>19. \A j \in Live(h.arena) : j \in Live(a) /\ a.blocks[j] = h.arena.blocks[j]
  BY <1>5, <1>6
<1>20. ASSUME NEW n \in 1..L
       PROVE  Owned(a, d.entries[n]) /\ Apart(d.entries[n], e) /\ Apart(e, d.entries[n])
  <2>1. Owned(h.arena, d.entries[n])
    BY <1>18
  <2>2. d.entries[n].key \in Live(h.arena) /\ d.entries[n].value \in Live(h.arena)
    BY <2>1 DEF Owned
  <2>3. Owned(a, d.entries[n])
    BY <2>1, <2>2, <1>19, OwnedStill
  <2> QED BY <2>2, <2>3, <1>5, <1>6, <1>11 DEF Apart
<1>21. Owned(a, e)
  <2>1. k \in Live(a) /\ a.blocks[k] = keyed.blocks[k] /\ v \in Live(a) /\ k # v
    BY <1>5, <1>6
  <2> QED BY <2>1, <1>5, <1>6, <1>11 DEF Owned, TextAt
<1>22. Owns(g.arena, g.d)
  <2>1. 1..(L + 1) = 1..L \cup {L + 1}
    BY <1>12
  <2> QED BY <2>1, <1>12, <1>13, <1>14, <1>16, <1>17, <1>18, <1>20, <1>21 DEF Owns
<1>23. Strings(g.d) = Strings(d) \cup {k, v}
  <2>1. ASSUME NEW x \in Strings(g.d) PROVE x \in Strings(d) \cup {k, v}
    <3>1. PICK n \in 1..(L + 1) : x \in {g.d.entries[n].key, g.d.entries[n].value}
      BY <1>14 DEF Strings
    <3>2. CASE n = L + 1
      BY <3>1, <3>2, <1>11, <1>14
    <3>3. CASE n # L + 1
      <4>1. n \in 1..L
        BY <3>3, <1>12
      <4> QED BY <4>1, <3>1, <1>14 DEF Strings, L
    <3> QED BY <3>2, <3>3
  <2>2. ASSUME NEW x \in Strings(d) PROVE x \in Strings(g.d)
    <3>1. PICK n \in 1..L : x \in {d.entries[n].key, d.entries[n].value}
      BY DEF Strings, L
    <3>2. n \in 1..(L + 1) /\ x \in {g.d.entries[n].key, g.d.entries[n].value}
      BY <3>1, <1>12, <1>14
    <3> QED BY <3>2, <1>14 DEF Strings
  <2>3. k \in Strings(g.d) /\ v \in Strings(g.d)
    <3>1. L + 1 \in 1..(L + 1)
      BY <1>12
    <3> QED BY <3>1, <1>11, <1>14 DEF Strings
  <2> QED BY <2>1, <2>2, <2>3
<1>24. Strings(d) = Strings(h.d) /\ Strings(h.d) \subseteq Live(h.arena)
  BY <1>1, <1>2 DEF Strings, Owned
<1>25. Live(g.arena) \ Strings(g.d) = Live(h.arena) \ Strings(h.d)
  BY <1>5, <1>6, <1>13, <1>23, <1>24
<1>26. ASSUME NEW n \in 1..L
       PROVE  /\ g.d.entries[n].key = h.d.entries[n].key
              /\ g.arena.blocks[h.d.entries[n].key] = h.arena.blocks[h.d.entries[n].key]
  BY <1>2, <1>13, <1>14, <1>18, <1>19 DEF Owned
<1>27. Kept(h, g)
  <2>1. Len(h.d.entries) = L
    BY <1>2 DEF L
  <2>2. \A j \in Live(h.arena) \ Strings(h.d) : g.arena.blocks[j] = h.arena.blocks[j]
    BY <1>13, <1>19
  <2> QED BY <2>1, <2>2, <1>12, <1>14, <1>25, <1>26 DEF Kept
<1>28. g \in Heaps
  BY <1>6, <1>13, <1>17 DEF Heaps, Sound
<1>29. g.d # NoMap
  BY <1>13, <1>16 DEF NoMap
<1>30. ASSUME NEW n \in 1..L PROVE Says(g.arena, g.d.entries[n]) = Says(h.arena, h.d.entries[n])
  <2>1. Owned(h.arena, d.entries[n]) /\ d.entries[n] = h.d.entries[n]
    BY <1>2, <1>18
  <2>2. g.arena = a /\ g.d.entries[n] = h.d.entries[n]
    BY <2>1, <1>13, <1>14
  <2>3. /\ g.arena.blocks[h.d.entries[n].key] = h.arena.blocks[h.d.entries[n].key]
        /\ g.arena.blocks[h.d.entries[n].value] = h.arena.blocks[h.d.entries[n].value]
    BY <2>1, <2>2, <1>19 DEF Owned
  <2> QED BY <2>2, <2>3 DEF Says, TextAt
<1>31. Says(g.arena, g.d.entries[L + 1]) = <<key, value>>
  <2>1. TextAt(a, k) = key
    BY <1>5, <1>6 DEF TextAt
  <2> QED BY <2>1, <1>6, <1>11, <1>13, <1>14 DEF Says
<1>32. Appends(h, g, key, value)
  <2>1. Len(h.d.entries) = L
    BY <1>2 DEF L
  <2> QED BY <2>1, <1>14, <1>30, <1>31 DEF Appends
<1> QED BY <1>6, <1>13, <1>22, <1>27, <1>28, <1>29, <1>32 DEF Tidy, g

LEMMA GrownIs ==
  ASSUME NEW d \in Dicts, d # NoMap
  PROVE  Grown(d) \in Dicts /\ Grown(d) # NoMap /\ SameEntries(d, Grown(d))
<1>1. PICK n \in Nat \ {0} : Cardinality(DOMAIN d.buckets) = n
  BY Bucketed
<1>2. 2 * n \in Nat \ {0}
  OBVIOUS
<1>3. CASE Len(d.entries) > 2 * n
  BY <1>1, <1>2, <1>3, RehashedIs DEF Grown
<1>4. CASE ~(Len(d.entries) > 2 * n)
  BY <1>1, <1>4 DEF Grown, SameEntries
<1> QED BY <1>3, <1>4

\* Storing leaves the map the owner of its strings, and what it does not own
\* as it was.
LEMMA StoredOwns ==
  ASSUME NEW h, Tidy(h), NEW key \in Keys, NEW value \in Values, NEW grows \in BOOLEAN
  PROVE  Tidy(Stored(h, key, value, grows)) /\ Kept(h, Stored(h, key, value, grows))
<1> DEFINE i == Find(h.arena, h.d, key)
           added == Added(h, key, value)
           g == Stored(h, key, value, grows)
<1>1. h.d \in Dicts
  BY DEF Tidy, Owns
<1>2. CASE i # End
  <2>1. i \in Indices(h.d)
    BY <1>1, <1>2, FindIs DEF Matches
  <2>2. g = Replaced(h, i, value)
    BY <1>2 DEF Stored
  <2> QED BY <2>1, <2>2, ReplacedOwns
<1>3. CASE i = End
  <2>1. Tidy(added) /\ Kept(h, added) /\ added.d # NoMap
    BY AddedOwns
  <2>2. g = [arena |-> added.arena, d |-> IF grows THEN Grown(added.d) ELSE added.d]
    BY <1>3 DEF Stored
  <2> HIDE DEF g, added
  <2>3. added.d \in Dicts /\ Sound(added.arena) /\ Owns(added.arena, added.d)
    BY <2>1 DEF Tidy, Owns
  <2>4. g.d \in Dicts /\ SameEntries(added.d, g.d) /\ g.arena = added.arena
    <3>1. CASE grows
      BY <3>1, <2>1, <2>2, <2>3, GrownIs
    <3>2. CASE ~grows
      BY <3>2, <2>2, <2>3 DEF SameEntries
    <3> QED BY <3>1, <3>2
  <2>5. Owns(g.arena, g.d) /\ Strings(g.d) = Strings(added.d)
    BY <2>3, <2>4, OwnsSame
  <2>6. Tidy(g)
    BY <2>1, <2>2, <2>4, <2>5 DEF Tidy, Heaps
  <2>7. Kept(h, g)
    <3>1. \A n \in 1..Len(added.d.entries) : g.d.entries[n].key = added.d.entries[n].key
      BY <2>4 DEF SameEntries
    <3>2. Len(h.d.entries) \in Nat /\ Len(added.d.entries) \in Nat /\ Len(g.d.entries) = Len(added.d.entries)
      BY <1>1, <2>3, <2>4, DictFacts DEF SameEntries
    <3>3. Kept(h, added) /\ g.arena = added.arena /\ Strings(g.d) = Strings(added.d)
      BY <2>1, <2>4, <2>5
    <3>4. \A n \in 1..Len(h.d.entries) : n \in 1..Len(added.d.entries)
      BY <3>2, <3>3 DEF Kept
    <3>5. \A n \in 1..Len(h.d.entries) :
            /\ g.d.entries[n].key = h.d.entries[n].key
            /\ g.arena.blocks[h.d.entries[n].key] = h.arena.blocks[h.d.entries[n].key]
      BY <3>1, <3>3, <3>4 DEF Kept
    <3>6. Len(h.d.entries) <= Len(g.d.entries)
      BY <3>2, <3>3 DEF Kept
    <3> QED BY <3>3, <3>5, <3>6 DEF Kept
  <2> QED BY <2>6, <2>7 DEF g
<1> QED BY <1>2, <1>3

LEMMA KeptTrans ==
  ASSUME NEW f, NEW g, NEW h, Tidy(f), Tidy(g), Tidy(h), Kept(f, g), Kept(g, h)
  PROVE  Kept(f, h)
<1>1. /\ Len(f.d.entries) \in Nat /\ Len(g.d.entries) \in Nat /\ Len(h.d.entries) \in Nat
  BY DictFacts DEF Tidy, Owns
<1>2. /\ Live(h.arena) \ Strings(h.d) = Live(f.arena) \ Strings(f.d)
      /\ \A k \in Live(f.arena) \ Strings(f.d) : h.arena.blocks[k] = f.arena.blocks[k]
      /\ Len(f.d.entries) <= Len(h.d.entries)
  BY <1>1 DEF Kept
<1>3. ASSUME NEW n \in 1..Len(f.d.entries)
      PROVE  /\ h.d.entries[n].key = f.d.entries[n].key
             /\ h.arena.blocks[f.d.entries[n].key] = f.arena.blocks[f.d.entries[n].key]
  <2>1. n \in 1..Len(g.d.entries)
    BY <1>1 DEF Kept
  <2>2. /\ g.d.entries[n].key = f.d.entries[n].key
        /\ g.arena.blocks[f.d.entries[n].key] = f.arena.blocks[f.d.entries[n].key]
    BY DEF Kept
  <2>3. /\ h.d.entries[n].key = g.d.entries[n].key
        /\ h.arena.blocks[g.d.entries[n].key] = g.arena.blocks[g.d.entries[n].key]
    BY <2>1 DEF Kept
  <2> QED BY <2>2, <2>3
<1> QED BY <1>2, <1>3 DEF Kept

LEMMA KeptSelf ==
  ASSUME NEW h, Tidy(h)
  PROVE  Kept(h, h)
<1>1. Len(h.d.entries) \in Nat
  BY DictFacts DEF Tidy, Owns
<1> QED BY <1>1 DEF Kept

\* A merge goes through tidy heaps that keep what storing keeps.
Storable(a, entries) ==
  \A n \in 1..Len(entries) : /\ TextAt(a, entries[n].key) \in Keys
                             /\ TextAt(a, entries[n].value) \in Values

Merging(h, entries, after) ==
  /\ after[0] = h /\ Merged(h, entries) = after[Len(entries)]
  /\ \A n \in 1..Len(entries) :
       after[n] = Stored(after[n - 1], TextAt(h.arena, entries[n].key),
                         TextAt(h.arena, entries[n].value), TRUE)
  /\ \A n \in 0..Len(entries) : Tidy(after[n]) /\ Kept(h, after[n])

LEMMA MergedIs ==
  ASSUME NEW h, Tidy(h), NEW entries \in Seq(EntryType), Storable(h.arena, entries)
  PROVE  \E after : Merging(h, entries, after)
<1> DEFINE N == Len(entries)
           K(n) == TextAt(h.arena, entries[n].key)
           V(n) == TextAt(h.arena, entries[n].value)
           S == {g \in Heaps : Tidy(g) /\ Kept(h, g)}
           T == [n \in 0..N |-> S]
           step == [p \in (1..N) \X S |-> Stored(p[2], K(p[1]), V(p[1]), TRUE)]
           Goes(f) == f = [n \in 0..N |-> IF n = 0 THEN h ELSE Stored(f[n - 1], K(n), V(n), TRUE)]
           after == CHOOSE f : Goes(f)
<1>1. N \in Nat
  OBVIOUS
<1>2. h \in S
  BY KeptSelf DEF Tidy
<1>3. ASSUME NEW n \in 1..N, NEW g \in S PROVE Stored(g, K(n), V(n), TRUE) \in S
  <2>1. Tidy(Stored(g, K(n), V(n), TRUE)) /\ Kept(g, Stored(g, K(n), V(n), TRUE))
    BY StoredOwns DEF Storable
  <2>2. Kept(h, Stored(g, K(n), V(n), TRUE))
    BY <2>1, KeptTrans
  <2> QED BY <2>1, <2>2 DEF Tidy
<1>6. Merged(h, entries) = after[N]
  BY DEF Merged
<1> HIDE DEF K, V, S, N, after
<1>9. \A n \in 1..N : n \in 0..N /\ n - 1 \in 0..N /\ T[n] = S /\ T[n - 1] = S
  BY <1>1
<1>4. \E f : Goes(f)
  <2>1. \A n \in 1..N : \A x \in S : step[<<n, x>>] = Stored(x, K(n), V(n), TRUE)
    OBVIOUS
  <2> HIDE DEF T, step
  <2>2. \A n \in 1..N : \A x \in T[n - 1] : step[<<n, x>>] \in T[n]
    BY <1>3, <1>9, <2>1
  <2>3. h \in T[0]
    BY <1>1, <1>2 DEF T
  <2>4. PICK f \in [0..N -> S] : /\ f[0] = h
                                 /\ \A n \in 1..N : f[n] = step[<<n, f[n - 1]>>]
                                 /\ \A n \in 0..N : f[n] \in T[n]
    <3>1. Leads(N, T, S, step)
      BY <2>2 DEF T, Leads
    <3>2. PICK f \in [0..N -> S] : f[0] = h /\ Path(N, T, step, f)
      BY <1>1, <2>3, <3>1, Iteration
    <3> QED BY <3>2 DEF Path
  <2>5. \A n \in 1..N : n - 1 \in 0..N /\ step[<<n, f[n - 1]>>] = Stored(f[n - 1], K(n), V(n), TRUE)
    BY <1>9, <2>1, <2>4
  <2>6. \A n \in 0..N : f[n] = IF n = 0 THEN h ELSE Stored(f[n - 1], K(n), V(n), TRUE)
    <3>1. \A n \in 0..N : n = 0 \/ n \in 1..N
      BY <1>1
    <3> QED BY <2>4, <2>5, <3>1
  <2>7. Goes(f)
    BY <2>4, <2>6
  <2> QED BY <2>7
<1>5. Goes(after)
  <2> HIDE DEF Goes
  <2> QED BY <1>4 DEF after
<1>7. after[0] = h /\ \A n \in 1..N : after[n] = Stored(after[n - 1], K(n), V(n), TRUE)
  BY <1>1, <1>5
<1>8. \A n \in 0..N : after[n] \in S
  <2>1. \A n \in 0..N : after[n] \in T[n]
    <3>1. after[0] \in T[0]
      BY <1>1, <1>2, <1>7
    <3> HIDE DEF T
    <3>2. \A n \in 1..N : after[n - 1] \in T[n - 1] => after[n] \in T[n]
      BY <1>3, <1>7, <1>9
    <3> QED BY <1>1, <3>1, <3>2, Staying
  <2> QED BY <2>1
<1> QED BY <1>6, <1>7, <1>8 DEF Merging, K, V, S, N

LEMMA RelinkedIs ==
  ASSUME NEW d \in Dicts, d # NoMap, NEW b, NEW i, NEW j \in Int
  PROVE  /\ Relinked(d, b, i, j) \in Dicts /\ Relinked(d, b, i, j) # NoMap
         /\ SameEntries(d, Relinked(d, b, i, j))
<1> DEFINE r == Relinked(d, b, i, j)
           L == Len(d.entries)
<1>1. /\ d = [entries |-> d.entries, buckets |-> d.buckets, cap |-> d.cap]
      /\ d.entries \in Seq(EntryType) /\ L \in Nat /\ DOMAIN d.entries = 1..L
      /\ \A n \in 1..L : d.entries[n] \in EntryType
  BY DictFacts
<1>2. PICK c \in Nat \ {0} : d.buckets \in [0..(c - 1) -> Int]
  BY Bucketed
<1>3. d.cap \in Nat \ {0}
  BY DEF Dicts
<1>4. CASE d.buckets[b] = i
  <2>1. r = [entries |-> d.entries, buckets |-> [d.buckets EXCEPT ![b] = j], cap |-> d.cap]
    BY <1>1, <1>4 DEF Relinked
  <2>2. [d.buckets EXCEPT ![b] = j] \in [0..(c - 1) -> Int]
    BY <1>2
  <2> HIDE DEF r
  <2>3. r \in Dicts /\ r # NoMap
    BY <1>1, <1>2, <1>3, <2>1, <2>2 DEF Dicts, NoMap
  <2>4. SameEntries(d, r)
    BY <2>1 DEF SameEntries
  <2> QED BY <2>3, <2>4 DEF r
<1>5. CASE d.buckets[b] # i
  <2> DEFINE linked(n) == IF d.entries[n].next = i THEN [d.entries[n] EXCEPT !.next = j] ELSE d.entries[n]
  <2>1. r = [entries |-> [n \in 1..L |-> linked(n)], buckets |-> d.buckets, cap |-> d.cap]
    BY <1>1, <1>5 DEF Relinked
  <2>2. ASSUME NEW n \in 1..L
        PROVE  /\ linked(n) \in EntryType
               /\ linked(n).hash = d.entries[n].hash
               /\ linked(n).key = d.entries[n].key
               /\ linked(n).value = d.entries[n].value
    BY <1>1 DEF EntryType
  <2> HIDE DEF linked, r
  <2>3. r.entries \in Seq(EntryType) /\ Len(r.entries) = L /\ \A n \in 1..L : r.entries[n] = linked(n)
    <3>1. L \in Nat /\ r.entries \in [1..L -> EntryType]
      BY <1>1, <2>1, <2>2
    <3> HIDE DEF L
    <3> QED BY <3>1, <2>1
  <2>4. r \in Dicts /\ r # NoMap
    BY <1>2, <1>3, <2>1, <2>3 DEF Dicts, NoMap
  <2>5. SameEntries(d, r)
    BY <2>1, <2>2, <2>3 DEF SameEntries
  <2> QED BY <2>4, <2>5 DEF r
<1> QED BY <1>4, <1>5

\* A map that lost its last entry, whose strings stay in use.
Short(d) == [d EXCEPT !.entries = Front(d.entries)]

LEMMA Shortened ==
  ASSUME NEW a, NEW d \in Dicts, d # NoMap, Owns(a, d), Len(d.entries) # 0
  PROVE  /\ Short(d) \in Dicts /\ Short(d) # NoMap /\ Owns(a, Short(d))
         /\ Len(Short(d).entries) = Len(d.entries) - 1
         /\ \A k \in 1..(Len(d.entries) - 1) : Short(d).entries[k] = d.entries[k]
         /\ Strings(Short(d)) =
              Strings(d) \ {d.entries[Len(d.entries)].key, d.entries[Len(d.entries)].value}
<1> DEFINE e == Short(d)
           n == Len(d.entries)
<1>1. /\ d = [entries |-> d.entries, buckets |-> d.buckets, cap |-> d.cap]
      /\ d.entries \in Seq(EntryType) /\ n \in Nat /\ n >= 1
  BY DictFacts
<1>2. /\ Front(d.entries) \in Seq(EntryType) /\ Len(Front(d.entries)) = n - 1
      /\ \A k \in 1..(n - 1) : Front(d.entries)[k] = d.entries[k]
  <2>1. \A k \in 1..(n - 1) : d.entries[k] \in EntryType
    BY <1>1
  <2> DEFINE front == SubSeq(d.entries, 1, n - 1)
  <2>2. /\ front \in Seq(EntryType)
        /\ Len(front) = IF 1 <= n - 1 THEN (n - 1) - 1 + 1 ELSE 0
        /\ \A k \in 1..((n - 1) - 1 + 1) : front[k] = d.entries[1 + k - 1]
    BY <1>1, <2>1, SubSeqProperties
  <2>3. Front(d.entries) = front
    BY DEF Front
  <2> HIDE DEF front
  <2>4. Len(front) = n - 1
    <3>1. n \in Nat /\ n >= 1 /\ Len(front) = IF 1 <= n - 1 THEN (n - 1) - 1 + 1 ELSE 0
      BY <1>1, <2>2
    <3>2. CASE n = 1
      BY <3>1, <3>2
    <3>3. CASE n # 1
      BY <3>1, <3>3
    <3> QED BY <3>2, <3>3
  <2>5. \A k \in 1..(n - 1) : front[k] = d.entries[k]
    <3>1. \A k \in 1..(n - 1) : k \in 1..((n - 1) - 1 + 1) /\ 1 + k - 1 = k
      BY <1>1
    <3> QED BY <2>2, <3>1
  <2> QED BY <2>2, <2>3, <2>4, <2>5
<1>3. e = [entries |-> Front(d.entries), buckets |-> d.buckets, cap |-> d.cap]
  BY <1>1 DEF Short
<1> HIDE DEF e
<1>4. e \in Dicts /\ e # NoMap
  BY <1>2, <1>3 DEF Dicts, NoMap
<1>5. 1..n = 1..(n - 1) \cup {n} /\ 1..(n - 1) \subseteq 1..n
  BY <1>1
<1>6. Owns(a, e)
  <2>1. Len(e.entries) = n - 1 /\ \A k \in 1..(n - 1) : e.entries[k] = d.entries[k]
    BY <1>2, <1>3
  <2>2. n - 1 <= e.cap
    BY <1>1, <1>3, DictFacts DEF Owns
  <2>3. \A k \in 1..(n - 1) : Owned(a, e.entries[k])
    BY <2>1, <1>5 DEF Owns
  <2>4. \A k, j \in 1..(n - 1) : k # j => Apart(e.entries[k], e.entries[j])
    BY <2>1, <1>5 DEF Owns
  <2> HIDE DEF n
  <2> QED BY <2>1, <2>2, <2>3, <2>4, <1>4 DEF Owns
<1>7. Strings(e) = Strings(d) \ {d.entries[n].key, d.entries[n].value}
  <2>1. Len(e.entries) = n - 1 /\ \A k \in 1..(n - 1) : e.entries[k] = d.entries[k]
    BY <1>2, <1>3
  <2>2. \A k \in 1..(n - 1) : Apart(d.entries[k], d.entries[n])
    BY <1>1, <1>5 DEF Owns
  <2>3. \A x : x \in Strings(e) <=> \E k \in 1..(n - 1) : x \in {d.entries[k].key, d.entries[k].value}
    BY <2>1 DEF Strings
  <2>4. \A x : x \in Strings(d) <=> \E k \in 1..n : x \in {d.entries[k].key, d.entries[k].value}
    BY DEF Strings
  <2>5. ASSUME NEW x \in Strings(e) PROVE x \in Strings(d) /\ x \notin {d.entries[n].key, d.entries[n].value}
    BY <2>2, <2>3, <2>4, <1>5 DEF Apart
  <2>6. ASSUME NEW x \in Strings(d), x \notin {d.entries[n].key, d.entries[n].value} PROVE x \in Strings(e)
    BY <2>3, <2>4, <2>6, <1>5
  <2> QED BY <2>5, <2>6
<1> QED BY <1>2, <1>3, <1>4, <1>6, <1>7 DEF e

\* Giving up the two strings of an entry.
LEMMA BothReleased ==
  ASSUME NEW a, Sound(a), NEW e, Owned(a, e)
  PROVE  LET b == Released(Released(a, e.key), e.value)
         IN  /\ Sound(b) /\ Live(b) = Live(a) \ {e.key, e.value}
             /\ \A k \in Live(b) : b.blocks[k] = a.blocks[k]
<1> DEFINE c == Released(a, e.key)
           b == Released(c, e.value)
<1>1. /\ Sound(c) /\ Live(c) = Live(a) \ {e.key}
      /\ \A k \in Live(a) \ {e.key} : c.blocks[k] = a.blocks[k]
  BY Releasing DEF Owned
<1> HIDE DEF c
<1>2. e.value \in Live(c) /\ c.blocks[e.value].refs = 1
  BY <1>1 DEF Owned
<1>3. /\ Sound(b) /\ Live(b) = Live(c) \ {e.value}
      /\ \A k \in Live(c) \ {e.value} : b.blocks[k] = c.blocks[k]
  BY <1>1, <1>2, Releasing
<1> HIDE DEF b
<1>4. /\ Sound(b) /\ Live(b) = Live(a) \ {e.key, e.value}
      /\ \A k \in Live(b) : b.blocks[k] = a.blocks[k]
  BY <1>1, <1>3
<1> QED BY <1>4 DEF b, c

\* The last entry in the place of another.
Moved(d, e, i) ==
  \A k \in 1..(Len(d.entries) - 1) :
    LET f == d.entries[IF k = i + 1 THEN Len(d.entries) ELSE k]
    IN  e.entries[k].key = f.key /\ e.entries[k].value = f.value

LEMMA LastMovedIs ==
  ASSUME NEW a, NEW d \in Dicts, d # NoMap, Owns(a, d),
         NEW i \in Indices(d), i # Len(d.entries) - 1
  PROVE  LET e == LastMovedTo(d, i)
             gone == Entry(d, i)
         IN  /\ e \in Dicts /\ e # NoMap /\ Owns(a, e) /\ Len(e.entries) = Len(d.entries) - 1
             /\ Strings(e) = Strings(d) \ {gone.key, gone.value}
             /\ Moved(d, e, i)
<1> DEFINE n == Len(d.entries)
           last == n - 1
           moved == Entry(d, last)
           gone == Entry(d, i)
           entries == [Front(d.entries) EXCEPT ![i + 1] = moved]
           s == [d EXCEPT !.entries = entries]
           e == LastMovedTo(d, i)
<1>1. /\ d = [entries |-> d.entries, buckets |-> d.buckets, cap |-> d.cap]
      /\ d.entries \in Seq(EntryType) /\ n \in Nat
      /\ i \in Nat /\ i + 1 \in 1..(n - 1) /\ n >= 1 /\ n # 0
      /\ moved = d.entries[n] /\ gone = d.entries[i + 1]
      /\ d.entries[n] \in EntryType
  BY DictFacts DEF Indices, Entry
<1>2. /\ Front(d.entries) \in Seq(EntryType) /\ Len(Front(d.entries)) = n - 1
      /\ \A k \in 1..(n - 1) : Front(d.entries)[k] = d.entries[k]
  <2> DEFINE short == Short(d)
  <2>1. /\ short \in Dicts /\ Len(short.entries) = n - 1
        /\ \A k \in 1..(n - 1) : short.entries[k] = d.entries[k]
    BY <1>1, Shortened
  <2>2. short.entries = Front(d.entries)
    BY <1>1 DEF Short
  <2> HIDE DEF short
  <2> QED BY <2>1, <2>2, DictFacts
<1>3. /\ entries \in Seq(EntryType) /\ Len(entries) = n - 1
      /\ entries[i + 1] = d.entries[n]
      /\ \A k \in 1..(n - 1) : k # i + 1 => entries[k] = d.entries[k]
  BY <1>1, <1>2, ExceptSeq
<1> HIDE DEF entries
<1>4. s = [entries |-> entries, buckets |-> d.buckets, cap |-> d.cap]
  BY <1>1
<1> HIDE DEF s
<1>5. s \in Dicts /\ s # NoMap
  BY <1>3, <1>4 DEF Dicts, NoMap
<1> DEFINE from(k) == IF k = i + 1 THEN n ELSE k
<1>7. /\ \A k \in 1..(n - 1) : from(k) \in 1..n /\ from(k) # i + 1 /\ s.entries[k] = d.entries[from(k)]
      /\ \A k, j \in 1..(n - 1) : k # j => from(k) # from(j)
      /\ \A j \in 1..n : j # i + 1 => \E k \in 1..(n - 1) : j = from(k)
  <2>1. ASSUME NEW k \in 1..(n - 1)
        PROVE  from(k) \in 1..n /\ from(k) # i + 1 /\ s.entries[k] = d.entries[from(k)]
    BY <1>1, <1>3, <1>4
  <2>2. \A k, j \in 1..(n - 1) : k # j => from(k) # from(j)
    BY <1>1
  <2>3. ASSUME NEW j \in 1..n, j # i + 1 PROVE \E k \in 1..(n - 1) : j = from(k)
    <3>1. CASE j = n
      BY <3>1, <1>1
    <3>2. CASE j # n
      BY <3>2, <2>3, <1>1
    <3> QED BY <3>1, <3>2
  <2> QED BY <2>1, <2>2, <2>3
<1> HIDE DEF from
<1>8. /\ n <= d.cap
      /\ \A k \in 1..n : Owned(a, d.entries[k])
      /\ \A k, j \in 1..n : k # j => Apart(d.entries[k], d.entries[j])
  BY DEF Owns
<1>9. Owns(a, s)
  <2>1. n - 1 <= s.cap
    BY <1>1, <1>4, <1>8, DictFacts
  <2>2. \A k \in 1..(n - 1) : Owned(a, s.entries[k])
    BY <1>7, <1>8
  <2>3. \A k, j \in 1..(n - 1) : k # j => Apart(s.entries[k], s.entries[j])
    BY <1>7, <1>8
  <2>4. Len(s.entries) = n - 1
    BY <1>3, <1>4
  <2> QED BY <2>1, <2>2, <2>3, <2>4, <1>5 DEF Owns
<1>10. Strings(s) = Strings(d) \ {gone.key, gone.value}
  <2>1. \A k \in 1..n : k # i + 1 => Apart(d.entries[k], gone)
    BY <1>1, <1>8
  <2>2. \A x : x \in Strings(s) <=> \E k \in 1..(n - 1) : x \in {s.entries[k].key, s.entries[k].value}
    BY <1>3, <1>4 DEF Strings
  <2>3. \A x : x \in Strings(d) <=> \E k \in 1..n : x \in {d.entries[k].key, d.entries[k].value}
    BY DEF Strings
  <2> HIDE DEF gone
  <2>4. ASSUME NEW x \in Strings(s) PROVE x \in Strings(d) /\ x \notin {gone.key, gone.value}
    <3>1. PICK k \in 1..(n - 1) : x \in {s.entries[k].key, s.entries[k].value}
      BY <2>2
    <3>2. from(k) \in 1..n /\ from(k) # i + 1 /\ s.entries[k] = d.entries[from(k)]
      BY <1>7
    <3>3. Apart(d.entries[from(k)], gone)
      BY <2>1, <3>2
    <3> QED BY <2>3, <3>1, <3>2, <3>3 DEF Apart
  <2>5. ASSUME NEW x \in Strings(d), x \notin {gone.key, gone.value} PROVE x \in Strings(s)
    <3>1. PICK j \in 1..n : x \in {d.entries[j].key, d.entries[j].value}
      BY <2>3
    <3>2. j # i + 1
      BY <1>1, <2>5, <3>1
    <3>3. PICK k \in 1..(n - 1) : j = from(k)
      BY <1>7, <3>2
    <3>4. s.entries[k] = d.entries[j]
      BY <1>7, <3>3
    <3> QED BY <2>2, <3>1, <3>4
  <2> QED BY <2>4, <2>5
<1>11. e = Relinked(s, BucketOf(d, moved.hash), last, i)
  BY <1>1 DEF LastMovedTo, s, entries
<1>12. e \in Dicts /\ e # NoMap /\ SameEntries(s, e)
  <2>1. i \in Int
    BY <1>1
  <2> HIDE DEF e
  <2> QED BY <1>5, <1>11, <2>1, RelinkedIs
<1> HIDE DEF e
<1>13. Owns(a, e) /\ Strings(e) = Strings(s)
  BY <1>9, <1>12, OwnsSame
<1>14. Len(e.entries) = n - 1
  BY <1>3, <1>4, <1>12 DEF SameEntries
<1>15. ASSUME NEW k \in 1..(n - 1)
       PROVE  LET f == d.entries[IF k = i + 1 THEN n ELSE k]
              IN  e.entries[k].key = f.key /\ e.entries[k].value = f.value
  <2>1. s.entries[k] = d.entries[from(k)] /\ Len(s.entries) = n - 1
    BY <1>3, <1>4, <1>7
  <2>2. e.entries[k].key = s.entries[k].key /\ e.entries[k].value = s.entries[k].value
    BY <2>1, <1>12 DEF SameEntries
  <2> QED BY <2>1, <2>2 DEF from
<1>16. Moved(d, e, i)
  BY <1>15 DEF Moved
<1> QED BY <1>10, <1>12, <1>13, <1>14, <1>16 DEF e

\* What a removal makes of a heap.
Took(h, g) ==
  LET kept == Live(h.arena) \ Strings(h.d)
      now  == Live(g.arena) \ Strings(g.d)
  IN  /\ \A k \in kept : g.arena.blocks[k] = h.arena.blocks[k]
      /\ \/ now = kept
         \/ /\ Len(g.d.entries) = Len(h.d.entries) - 1
            /\ \E j, k \in Strings(h.d) : j # k /\ now = kept \cup {j, k}

LEMMA RemovedOwns ==
  ASSUME NEW h, Tidy(h), NEW key
  PROVE  Tidy(Removed(h, key)) /\ Took(h, Removed(h, key))
<1> DEFINE i == Find(h.arena, h.d, key)
           d == Relinked(h.d, BucketOf(h.d, Hash[key]), i, Entry(h.d, i).next)
           g == Removed(h, key)
           kept == Live(h.arena) \ Strings(h.d)
           now == Live(g.arena) \ Strings(g.d)
           L == Len(h.d.entries)
<1>1. /\ h.d \in Dicts /\ Sound(h.arena) /\ Owns(h.arena, h.d) /\ h = [arena |-> h.arena, d |-> h.d]
      /\ L \in Nat
  BY DictFacts DEF Tidy, Owns, Heaps
<1>2. \A x \in Strings(h.d) : x \in Live(h.arena)
  BY <1>1 DEF Owns, Owned, Strings
<1>3. CASE i = End
  <2>1. g = h
    BY <1>3 DEF Removed
  <2> QED BY <2>1 DEF Took
<1>4. CASE i # End
  <2>1. i \in Indices(h.d)
    BY <1>1, <1>4, FindIs DEF Matches
  <2>2. h.d # NoMap /\ Entry(h.d, i).next \in Int /\ i \in 0..(L - 1)
    <3>1. i \in 0..(L - 1)
      BY <2>1 DEF Indices
    <3>2. Entry(h.d, i) \in EntryType
      BY <1>1, <2>1, DictFacts
    <3>3. h.d # NoMap
      BY <3>1, <1>1 DEF NoMap
    <3> QED BY <3>1, <3>2, <3>3 DEF EntryType
  <2>3. d \in Dicts /\ d # NoMap /\ SameEntries(h.d, d)
    BY <1>1, <2>2, RelinkedIs
  <2>4. /\ g = IF i = Len(d.entries) - 1
               THEN [arena |-> h.arena, d |-> [d EXCEPT !.entries = Front(d.entries)]]
               ELSE [arena |-> Released(Released(h.arena, Entry(d, i).key), Entry(d, i).value),
                     d     |-> LastMovedTo(d, i)]
    BY <1>4 DEF Removed
  <2> HIDE DEF d, g, i
  <2>5. Owns(h.arena, d) /\ Strings(d) = Strings(h.d) /\ Len(d.entries) = L
    BY <1>1, <2>3, OwnsSame DEF SameEntries
  <2>6. CASE i = L - 1
    <3> DEFINE e == Short(d)
               gone == d.entries[L]
    <3>1. g = [arena |-> h.arena, d |-> e]
      BY <2>4, <2>5, <2>6 DEF Short
    <3>2. /\ e \in Dicts /\ Owns(h.arena, e) /\ Len(e.entries) = L - 1
          /\ Strings(e) = Strings(d) \ {gone.key, gone.value}
      <4>1. L = Len(d.entries) /\ L # 0
        BY <1>1, <2>2, <2>5
      <4>2. /\ e \in Dicts /\ Owns(h.arena, e) /\ Len(e.entries) = Len(d.entries) - 1
            /\ Strings(e) = Strings(d) \ {d.entries[Len(d.entries)].key, d.entries[Len(d.entries)].value}
        <5>1. Len(d.entries) # 0
          BY <4>1
        <5> QED BY <2>3, <2>5, <5>1, Shortened
      <4> QED BY <4>1, <4>2
    <3>3. gone.key \in Strings(h.d) /\ gone.value \in Strings(h.d) /\ gone.key # gone.value
      <4>1. L \in 1..Len(d.entries)
        BY <1>1, <2>2, <2>5
      <4>2. Owned(h.arena, gone)
        BY <4>1, <2>5 DEF Owns
      <4>3. gone.key \in Strings(d) /\ gone.value \in Strings(d)
        BY <4>1 DEF Strings
      <4> QED BY <4>2, <4>3, <2>5 DEF Owned
    <3> HIDE DEF e, gone
    <3>4. Tidy(g)
      BY <1>1, <3>1, <3>2 DEF Tidy, Heaps, Sound
    <3>5. now = kept \cup {gone.key, gone.value}
      BY <1>2, <2>5, <3>1, <3>2, <3>3
    <3> QED BY <3>1, <3>2, <3>3, <3>4, <3>5 DEF g, Took
  <2>7. CASE i # L - 1
    <3> DEFINE e == LastMovedTo(d, i)
               gone == Entry(d, i)
               b == Released(Released(h.arena, gone.key), gone.value)
    <3>1. g = [arena |-> b, d |-> e]
      BY <2>4, <2>5, <2>7
    <3>2. i \in Indices(d) /\ i + 1 \in 1..L /\ gone = d.entries[i + 1]
      BY <1>1, <2>2, <2>5 DEF Indices, Entry
    <3>3. /\ e \in Dicts /\ Owns(h.arena, e) /\ Len(e.entries) = L - 1
          /\ Strings(e) = Strings(d) \ {gone.key, gone.value}
      BY <2>3, <2>5, <2>7, <3>2, LastMovedIs
    <3>4. Owned(h.arena, gone) /\ gone.key \in Strings(d) /\ gone.value \in Strings(d)
      <4> HIDE DEF gone
      <4> QED BY <2>5, <3>2 DEF Owns, Strings
    <3>5. /\ Sound(b) /\ Live(b) = Live(h.arena) \ {gone.key, gone.value}
          /\ \A k \in Live(b) : b.blocks[k] = h.arena.blocks[k]
      BY <1>1, <3>4, BothReleased
    <3> HIDE DEF b, e, gone
    <3>6. Owns(b, e)
      <4>1. ASSUME NEW n \in 1..Len(e.entries) PROVE Owned(b, e.entries[n])
        <5>1. e.entries[n].key \in Strings(e) /\ e.entries[n].value \in Strings(e)
          BY DEF Strings
        <5>2. Owned(h.arena, e.entries[n])
          BY <3>3 DEF Owns
        <5>3. e.entries[n].key \in Live(b) /\ e.entries[n].value \in Live(b)
          BY <3>3, <3>5, <5>1, <5>2 DEF Owned
        <5> QED BY <3>5, <5>2, <5>3, OwnedStill
      <4> QED BY <3>3, <4>1 DEF Owns
    <3>7. Tidy(g)
      BY <3>1, <3>3, <3>5, <3>6 DEF Tidy, Heaps, Sound
    <3>8. now = kept
      BY <2>5, <3>1, <3>3, <3>4, <3>5
    <3>9. \A k \in kept : g.arena.blocks[k] = h.arena.blocks[k]
      BY <2>5, <3>1, <3>4, <3>5
    <3> QED BY <3>7, <3>8, <3>9 DEF g, Took
  <2> QED BY <2>6, <2>7
<1> QED BY <1>3, <1>4

\* Giving up a list of strings, each the last reference to its own block.
LastReferences(a, strings) ==
  /\ \A n, k \in 1..Len(strings) : strings[n] = strings[k] => n = k
  /\ \A n \in 1..Len(strings) : strings[n] \in Live(a) /\ a.blocks[strings[n]].refs = 1

LEMMA AllReleasedIs ==
  ASSUME NEW a, Sound(a), NEW strings \in Seq(Nat), LastReferences(a, strings)
  PROVE  /\ Sound(AllReleased(a, strings))
         /\ Live(AllReleased(a, strings)) = Live(a) \ {strings[n] : n \in 1..Len(strings)}
         /\ \A k \in Live(AllReleased(a, strings)) : AllReleased(a, strings).blocks[k] = a.blocks[k]
<1> DEFINE N == Len(strings)
           Good(n, b) == /\ Sound(b) /\ Live(b) = Live(a) \ {strings[k] : k \in 1..n}
                         /\ \A k \in Live(b) : b.blocks[k] = a.blocks[k]
           S(n) == {b \in Arenas : Good(n, b)}
           T == [n \in 0..N |-> S(n)]
           step == [p \in (1..N) \X Arenas |-> Released(p[2], strings[p[1]])]
           Goes(f) == f = [n \in 0..N |-> IF n = 0 THEN a ELSE Released(f[n - 1], strings[n])]
           after == CHOOSE f : Goes(f)
<1>1. N \in Nat
  OBVIOUS
<1>2. a \in S(0)
  BY DEF Sound
<1>3. ASSUME NEW n \in 1..N, NEW b \in S(n - 1) PROVE Released(b, strings[n]) \in S(n)
  <2>1. Sound(b) /\ Live(b) = Live(a) \ {strings[k] : k \in 1..(n - 1)}
    OBVIOUS
  <2>2. \A k \in 1..(n - 1) : strings[k] # strings[n]
    BY <1>1 DEF LastReferences
  <2>3. strings[n] \in Live(b) /\ b.blocks[strings[n]].refs = 1
    BY <2>1, <2>2 DEF LastReferences
  <2>4. /\ Sound(Released(b, strings[n])) /\ Live(Released(b, strings[n])) = Live(b) \ {strings[n]}
        /\ \A k \in Live(b) \ {strings[n]} : Released(b, strings[n]).blocks[k] = b.blocks[k]
    BY <2>1, <2>3, Releasing
  <2>5. {strings[k] : k \in 1..n} = {strings[k] : k \in 1..(n - 1)} \cup {strings[n]}
    <3>1. 1..n = 1..(n - 1) \cup {n}
      BY <1>1
    <3> QED BY <3>1
  <2> QED BY <2>1, <2>4, <2>5 DEF Sound
<1>4. AllReleased(a, strings) = after[N]
  BY DEF AllReleased
<1> HIDE DEF N, S, after
<1>5. \A n \in 1..N : n \in 0..N /\ n - 1 \in 0..N /\ T[n] = S(n) /\ T[n - 1] = S(n - 1)
  BY <1>1
<1>6. \A n \in 0..N : S(n) \subseteq Arenas
  BY DEF S
<1>7. \E f : Goes(f)
  <2>1. \A n \in 1..N : \A b \in Arenas : step[<<n, b>>] = Released(b, strings[n])
    OBVIOUS
  <2>2. a \in T[0]
    BY <1>1, <1>2 DEF T
  <2>3. \A n \in 0..N : T[n] \subseteq Arenas
    BY <1>6
  <2> HIDE DEF T, step
  <2>4. Leads(N, T, Arenas, step)
    <3>1. ASSUME NEW n \in 1..N, NEW b \in T[n - 1] PROVE step[<<n, b>>] \in T[n]
      <4>1. b \in S(n - 1) /\ b \in Arenas
        BY <1>5, <1>6
      <4> QED BY <4>1, <2>1, <1>3, <1>5
    <3> QED BY <2>3, <3>1 DEF Leads
  <2>5. PICK f \in [0..N -> Arenas] : f[0] = a /\ Path(N, T, step, f)
    BY <1>1, <2>2, <2>4, Iteration, Zenon
  <2>6. \A n \in 0..N : f[n] = IF n = 0 THEN a ELSE Released(f[n - 1], strings[n])
    <3>1. \A n \in 0..N : n = 0 \/ n \in 1..N
      BY <1>1
    <3>2. \A n \in 1..N : f[n] = Released(f[n - 1], strings[n])
      BY <1>5, <2>1, <2>5 DEF Path
    <3> QED BY <2>5, <3>1, <3>2
  <2>7. Goes(f)
    BY <2>5, <2>6
  <2> QED BY <2>7
<1>8. Goes(after)
  <2> HIDE DEF Goes
  <2> QED BY <1>7 DEF after
<1>9. after[0] = a /\ \A n \in 1..N : after[n] = Released(after[n - 1], strings[n])
  BY <1>1, <1>8
<1>10. \A n \in 0..N : after[n] \in T[n]
  <2>1. after[0] \in T[0]
    BY <1>1, <1>2, <1>9
  <2> HIDE DEF T
  <2>2. \A n \in 1..N : after[n - 1] \in T[n - 1] => after[n] \in T[n]
    BY <1>3, <1>5, <1>9
  <2> QED BY <1>1, <2>1, <2>2, Staying
<1>11. after[N] \in S(N)
  BY <1>1, <1>10
<1> QED BY <1>4, <1>11 DEF S, N

\* Freeing a map gives up its strings and no others.
Listed(d, keys, values) ==
  /\ Len(keys) = Len(d.entries) /\ Len(values) = Len(d.entries)
  /\ \A n \in 1..Len(d.entries) : keys[n] = d.entries[n].key /\ values[n] = d.entries[n].value

LEMMA FreedOwns ==
  ASSUME NEW a, Sound(a), NEW d, Owns(a, d),
         NEW keys \in Seq(Nat), NEW values \in Seq(Nat), Listed(d, keys, values)
  PROVE  LET b == AllReleased(AllReleased(a, keys), values)
         IN  /\ Sound(b) /\ Live(b) = Live(a) \ Strings(d)
             /\ \A k \in Live(b) : b.blocks[k] = a.blocks[k]
<1> DEFINE L == Len(d.entries)
           c == AllReleased(a, keys)
           b == AllReleased(c, values)
<1>1. /\ L \in Nat /\ DOMAIN d.entries = 1..L
      /\ \A n \in 1..L : d.entries[n] \in EntryType
      /\ \A n \in 1..L : Owned(a, d.entries[n])
      /\ \A n, k \in 1..L : n # k => Apart(d.entries[n], d.entries[k])
  BY DictFacts DEF Owns
<1>2. \A n \in 1..L : keys[n] = d.entries[n].key /\ values[n] = d.entries[n].value
  BY DEF Listed
<1>3. /\ keys \in Seq(Nat) /\ Len(keys) = L
      /\ values \in Seq(Nat) /\ Len(values) = L
  BY DEF Listed
<1> HIDE DEF L
<1>4. /\ Sound(c) /\ Live(c) = Live(a) \ {keys[n] : n \in 1..L}
      /\ \A k \in Live(c) : c.blocks[k] = a.blocks[k]
  <2>1. \A n, k \in 1..L : keys[n] = keys[k] => n = k
    BY <1>1, <1>2 DEF Apart
  <2>2. \A n \in 1..L : keys[n] \in Live(a) /\ a.blocks[keys[n]].refs = 1
    BY <1>1, <1>2 DEF Owned
  <2>3. LastReferences(a, keys)
    BY <1>3, <2>1, <2>2 DEF LastReferences
  <2> QED BY <1>3, <2>3, AllReleasedIs
<1> HIDE DEF c
<1>5. /\ Sound(b) /\ Live(b) = Live(c) \ {values[n] : n \in 1..L}
      /\ \A k \in Live(b) : b.blocks[k] = c.blocks[k]
  <2>1. \A n, k \in 1..L : values[n] = values[k] => n = k
    BY <1>1, <1>2 DEF Apart
  <2>2. ASSUME NEW n \in 1..L PROVE values[n] \in Live(c) /\ c.blocks[values[n]].refs = 1
    <3>1. ASSUME NEW k \in 1..L PROVE values[n] # keys[k]
      <4>1. CASE k = n
        BY <4>1, <1>1, <1>2 DEF Owned
      <4>2. CASE k # n
        <5>1. Apart(d.entries[k], d.entries[n])
          BY <4>2, <1>1
        <5> QED BY <5>1, <1>2 DEF Apart
      <4> QED BY <4>1, <4>2
    <3>2. values[n] \in Live(a) /\ a.blocks[values[n]].refs = 1
      BY <1>1, <1>2 DEF Owned
    <3> QED BY <1>4, <3>1, <3>2
  <2>3. LastReferences(c, values)
    BY <1>3, <2>1, <2>2 DEF LastReferences
  <2> QED BY <1>3, <1>4, <2>3, AllReleasedIs
<1> HIDE DEF b
<1>6. Strings(d) = {keys[n] : n \in 1..L} \cup {values[n] : n \in 1..L}
  <2>1. \A x : x \in Strings(d) <=> \E n \in 1..Len(d.entries) : x \in {d.entries[n].key, d.entries[n].value}
    BY DEF Strings
  <2>2. ASSUME NEW x \in Strings(d) PROVE x \in {keys[n] : n \in 1..L} \cup {values[n] : n \in 1..L}
    <3>1. PICK n \in 1..L : x \in {d.entries[n].key, d.entries[n].value}
      BY <2>1 DEF L
    <3> QED BY <3>1, <1>2
  <2>3. ASSUME NEW n \in 1..L PROVE keys[n] \in Strings(d) /\ values[n] \in Strings(d)
    BY <1>2, <2>1 DEF L
  <2> QED BY <2>2, <2>3
<1>7. Live(b) = Live(a) \ Strings(d) /\ \A k \in Live(b) : b.blocks[k] = a.blocks[k]
  BY <1>4, <1>5, <1>6
<1> QED BY <1>5, <1>7 DEF b, c

----------------------------------------------------------------------------
(* The invariant.  What StringsOwned says of slots is said of entries here, *)
(* with the types, and with what a merge relies on: the hash of an entry is *)
(* its key's, so that the other map's lookups meet it.                      *)

MapsOwn ==
  /\ Sound(arena)
  /\ map \in [Maps -> Dicts]
  /\ \A m \in Maps : Owns(arena, map[m])
  /\ \A m, n \in Maps : m # n => Strings(map[m]) \cap Strings(map[n]) = {}

\* The listing's strings are keys of its map, in their places.
ListingHeld ==
  \A i \in DOMAIN listing.items :
    /\ listing.of \in Maps /\ i \in 1..Len(map[listing.of].entries)
    /\ listing.items[i].key = map[listing.of].entries[i].key
    /\ listing.items[i].text = TextAt(arena, listing.items[i].key)

IInv == MapsOwn /\ ListingHeld

LEMMA HeapTidy ==
  ASSUME MapsOwn, NEW m \in Maps
  PROVE  Tidy(Heap(m)) /\ Heap(m).arena = arena /\ Heap(m).d = map[m]
BY DEF MapsOwn, Tidy, Heaps, Heap, Sound

LEMMA StringsLive ==
  ASSUME NEW a, NEW d, Owns(a, d)
  PROVE  Strings(d) \subseteq Live(a)
BY DEF Owns, Owned, Strings

\* Every action changes one map and, of the arena, only what that map owns.
Frame(m, a, d) ==
  /\ Sound(a) /\ Owns(a, d)
  /\ Live(arena) \ Strings(map[m]) \subseteq Live(a) \ Strings(d)
  /\ \A k \in Live(arena) \ Strings(map[m]) : a.blocks[k] = arena.blocks[k]

LEMMA OthersStay ==
  ASSUME MapsOwn, NEW m \in Maps, NEW a, NEW d, Frame(m, a, d), NEW n \in Maps, n # m
  PROVE  /\ Owns(a, map[n]) /\ Strings(map[n]) \cap Strings(d) = {}
         /\ \A x \in Strings(map[n]) : x \in Live(a) /\ a.blocks[x] = arena.blocks[x]
<1>1. Strings(map[n]) \subseteq Live(arena) /\ Strings(map[n]) \cap Strings(map[m]) = {}
  BY StringsLive DEF MapsOwn
<1>2. \A x \in Strings(map[n]) : x \in Live(a) /\ x \notin Strings(d) /\ a.blocks[x] = arena.blocks[x]
  BY <1>1 DEF Frame
<1>3. \A i \in 1..Len(map[n].entries) : Owned(a, map[n].entries[i])
  <2>1. ASSUME NEW i \in 1..Len(map[n].entries) PROVE Owned(a, map[n].entries[i])
    <3>1. map[n].entries[i].key \in Strings(map[n]) /\ map[n].entries[i].value \in Strings(map[n])
      BY DEF Strings
    <3>2. Owned(arena, map[n].entries[i])
      BY DEF MapsOwn, Owns
    <3> QED BY <3>1, <3>2, <1>2, OwnedStill
  <2> QED BY <2>1
<1>4. Owns(a, map[n])
  BY <1>3 DEF MapsOwn, Owns
<1> QED BY <1>2, <1>4

LEMMA MapsOwnNext ==
  ASSUME MapsOwn, NEW m \in Maps, NEW d, Frame(m, arena', d), map' = [map EXCEPT ![m] = d]
  PROVE  MapsOwn'
<1>1. d \in Dicts
  BY DEF Frame, Owns
<1>2. map' \in [Maps -> Dicts] /\ map'[m] = d /\ \A n \in Maps : n # m => map'[n] = map[n]
  BY <1>1 DEF MapsOwn
<1>3. \A n \in Maps : Owns(arena', map'[n])
  <2>1. ASSUME NEW n \in Maps PROVE Owns(arena', map'[n])
    <3>1. CASE n = m
      BY <3>1, <1>2 DEF Frame
    <3>2. CASE n # m
      BY <3>2, <1>2, OthersStay
    <3> QED BY <3>1, <3>2
  <2> QED BY <2>1
<1>4. \A n, k \in Maps : n # k => Strings(map'[n]) \cap Strings(map'[k]) = {}
  <2>1. ASSUME NEW n \in Maps, NEW k \in Maps, n # k PROVE Strings(map'[n]) \cap Strings(map'[k]) = {}
    <3>1. CASE n = m
      BY <3>1, <2>1, <1>2, OthersStay
    <3>2. CASE k = m
      BY <3>2, <2>1, <1>2, OthersStay
    <3>3. CASE n # m /\ k # m
      BY <3>3, <2>1, <1>2 DEF MapsOwn
    <3> QED BY <3>1, <3>2, <3>3
  <2> QED BY <2>1
<1>5. Sound(arena')
  BY DEF Frame
<1> QED BY <1>2, <1>3, <1>4, <1>5 DEF MapsOwn

\* The listing of another map is not disturbed, nor is that of a map that only
\* stores.
LEMMA ListingHeldNext ==
  ASSUME MapsOwn, ListingHeld, NEW m \in Maps, NEW d, Frame(m, arena', d),
         map' = [map EXCEPT ![m] = d], UNCHANGED listing,
         listing.of # m \/ Kept(Heap(m), [arena |-> arena', d |-> d])
  PROVE  ListingHeld'
<1> DEFINE of == listing.of
<1>1. SUFFICES ASSUME NEW i \in DOMAIN listing.items
               PROVE  /\ of \in Maps /\ i \in 1..Len(map'[of].entries)
                      /\ listing.items[i].key = map'[of].entries[i].key
                      /\ listing.items[i].text = TextAt(arena', listing.items[i].key)
  BY DEF ListingHeld
<1>2. /\ of \in Maps /\ i \in 1..Len(map[of].entries)
      /\ listing.items[i].key = map[of].entries[i].key
      /\ listing.items[i].text = TextAt(arena, listing.items[i].key)
  BY DEF ListingHeld
<1>3. map' \in [Maps -> Dicts] /\ map'[m] = d /\ \A n \in Maps : n # m => map'[n] = map[n]
  BY DEF MapsOwn, Frame, Owns
<1>4. map[of].entries[i].key \in Strings(map[of])
  BY <1>2 DEF Strings
<1>5. CASE of # m
  <2>1. arena'.blocks[map[of].entries[i].key] = arena.blocks[map[of].entries[i].key]
    BY <1>2, <1>4, <1>5, OthersStay
  <2> QED BY <2>1, <1>2, <1>3, <1>5 DEF TextAt
<1>6. CASE of = m
  <2>1. /\ Len(map[m].entries) <= Len(d.entries)
        /\ d.entries[i].key = map[m].entries[i].key
        /\ arena'.blocks[map[m].entries[i].key] = arena.blocks[map[m].entries[i].key]
    BY <1>2, <1>6 DEF Kept, Heap
  <2>2. Len(map[m].entries) \in Nat /\ Len(d.entries) \in Nat
    BY DictFacts DEF MapsOwn, Frame, Owns
  <2>3. i \in 1..Len(d.entries)
    BY <1>2, <1>6, <2>1, <2>2
  <2> QED BY <2>1, <2>3, <1>2, <1>3, <1>6 DEF TextAt
<1> QED BY <1>5, <1>6

----------------------------------------------------------------------------
(* The calls. *)

\* What the changed map's step says of it.
StoresIn(m) ==
  \E d : /\ map' = [map EXCEPT ![m] = d] /\ Frame(m, arena', d)
         /\ Kept(Heap(m), [arena |-> arena', d |-> d])

LEMMA SetStores ==
  ASSUME MapsOwn, NEW m \in Maps, NEW key \in Keys, NEW value \in Values, Set(m, key, value)
  PROVE  StoresIn(m)
<1>1. PICK grows \in BOOLEAN : Becomes(m, Stored(Heap(m), key, value, grows))
  BY DEF Set
<1> DEFINE g == Stored(Heap(m), key, value, grows)
<1>2. Tidy(g) /\ Kept(Heap(m), g)
  BY HeapTidy, StoredOwns
<1>3. arena' = g.arena /\ map' = [map EXCEPT ![m] = g.d]
  BY <1>1 DEF Becomes
<1> HIDE DEF g
<1>4. g = [arena |-> arena', d |-> g.d]
  BY <1>2, <1>3 DEF Tidy, Heaps
<1>5. Frame(m, arena', g.d)
  BY <1>2, <1>3, HeapTidy DEF Frame, Kept, Tidy
<1> QED BY <1>2, <1>3, <1>4, <1>5 DEF StoresIn

LEMMA MergeStores ==
  ASSUME MapsOwn, NEW m \in Maps, NEW from \in Maps, Merge(m, from)
  PROVE  StoresIn(m)
<1> DEFINE g == Merged(Heap(m), map[from].entries)
           entries == map[from].entries
<1>1. entries \in Seq(EntryType) /\ Len(entries) \in Nat
  BY DictFacts DEF MapsOwn
<1>2. Storable(Heap(m).arena, entries)
  BY HeapTidy DEF MapsOwn, Owns, Owned, Storable
<1>3. Tidy(g) /\ Kept(Heap(m), g)
  <2> HIDE DEF entries, g
  <2>1. Len(entries) \in 0..Len(entries)
    BY <1>1
  <2>2. PICK after : Merging(Heap(m), entries, after)
    BY <1>1, <1>2, HeapTidy, MergedIs
  <2> QED BY <2>1, <2>2 DEF Merging, g, entries
<1>4. arena' = g.arena /\ map' = [map EXCEPT ![m] = g.d]
  BY DEF Merge, Becomes
<1> HIDE DEF g
<1>5. g = [arena |-> arena', d |-> g.d]
  BY <1>3, <1>4 DEF Tidy, Heaps
<1>6. Frame(m, arena', g.d)
  BY <1>3, <1>4, HeapTidy DEF Frame, Kept, Tidy
<1> QED BY <1>3, <1>4, <1>5, <1>6 DEF StoresIn

LEMMA DeleteRemoves ==
  ASSUME MapsOwn, NEW m \in Maps, NEW key \in Keys, Delete(m, key)
  PROVE  \E d : LET kept == Live(arena) \ Strings(map[m])
                    now  == Live(arena') \ Strings(d)
                IN  /\ map' = [map EXCEPT ![m] = d] /\ Frame(m, arena', d)
                    /\ \/ now = kept
                       \/ /\ Len(d.entries) = Len(map[m].entries) - 1
                          /\ \E j, k \in Strings(map[m]) : j # k /\ now = kept \cup {j, k}
<1> DEFINE g == Removed(Heap(m), key)
<1>1. /\ Tidy(g)
      /\ \A k \in Live(arena) \ Strings(map[m]) : g.arena.blocks[k] = arena.blocks[k]
      /\ \/ Live(g.arena) \ Strings(g.d) = Live(arena) \ Strings(map[m])
         \/ /\ Len(g.d.entries) = Len(map[m].entries) - 1
            /\ \E j, k \in Strings(map[m]) :
                 j # k /\ Live(g.arena) \ Strings(g.d) = (Live(arena) \ Strings(map[m])) \cup {j, k}
  <2>1. Tidy(Heap(m)) /\ Heap(m).arena = arena /\ Heap(m).d = map[m]
    BY HeapTidy
  <2>2. Tidy(g) /\ Took(Heap(m), g)
    BY <2>1, RemovedOwns
  <2> QED BY <2>1, <2>2 DEF Took
<1>2. arena' = g.arena /\ map' = [map EXCEPT ![m] = g.d]
  BY DEF Delete, Becomes
<1> HIDE DEF g
<1>3. Live(arena) \ Strings(map[m]) \subseteq Live(g.arena) \ Strings(g.d)
  BY <1>1
<1>4. Frame(m, arena', g.d)
  BY <1>1, <1>2, <1>3 DEF Frame, Tidy
<1> QED BY <1>1, <1>2, <1>4

LEMMA FreeReleases ==
  ASSUME MapsOwn, NEW m \in Maps, Free(m)
  PROVE  /\ map' = [map EXCEPT ![m] = NoMap] /\ Frame(m, arena', NoMap)
         /\ Live(arena') = Live(arena) \ Strings(map[m])
<1> DEFINE entries == map[m].entries
           keys    == [i \in DOMAIN entries |-> entries[i].key]
           values  == [i \in DOMAIN entries |-> entries[i].value]
<1>1. /\ Owns(arena, map[m]) /\ Sound(arena) /\ map[m] \in Dicts
  BY DEF MapsOwn
<1>2. /\ Len(entries) \in Nat /\ DOMAIN entries = 1..Len(entries)
      /\ \A n \in 1..Len(entries) : entries[n] \in EntryType
  BY <1>1, DictFacts
<1>3. /\ keys \in Seq(Nat) /\ Len(keys) = Len(entries)
      /\ \A n \in 1..Len(entries) : keys[n] = entries[n].key
  <2> HIDE DEF entries
  <2>1. keys \in [1..Len(entries) -> Nat] /\ \A n \in 1..Len(entries) : keys[n] = entries[n].key
    BY <1>2 DEF EntryType
  <2> HIDE DEF keys
  <2> QED BY <1>2, <2>1
<1>4. /\ values \in Seq(Nat) /\ Len(values) = Len(entries)
      /\ \A n \in 1..Len(entries) : values[n] = entries[n].value
  <2> HIDE DEF entries
  <2>1. values \in [1..Len(entries) -> Nat] /\ \A n \in 1..Len(entries) : values[n] = entries[n].value
    BY <1>2 DEF EntryType
  <2> HIDE DEF values
  <2> QED BY <1>2, <2>1
<1>5. arena' = AllReleased(AllReleased(arena, keys), values) /\ map' = [map EXCEPT ![m] = NoMap]
  BY DEF Free
<1> HIDE DEF keys, values
<1>6. /\ Sound(arena') /\ Live(arena') = Live(arena) \ Strings(map[m])
      /\ \A k \in Live(arena') : arena'.blocks[k] = arena.blocks[k]
  <2>1. Listed(map[m], keys, values)
    BY <1>3, <1>4 DEF Listed
  <2> HIDE DEF entries
  <2> QED BY <1>1, <1>3, <1>4, <1>5, <2>1, FreedOwns
<1>7. Owns(arena', NoMap) /\ Strings(NoMap) = {}
  BY EmptySeq DEF Owns, Dicts, NoMap, Strings
<1> QED BY <1>5, <1>6, <1>7 DEF Frame

----------------------------------------------------------------------------
(* What the properties say, in terms of the maps' own strings. *)

Slot(s, m, i, f) ==
  m \in Maps /\ i \in 1..Len(map[m].entries) /\ f \in {"key", "value"} /\ s = <<m, i, f>>

\* The strings held are those of the maps.
LEMMA UsedSlots ==
  ASSUME MapsOwn
  PROVE  /\ \A s : s \in Used <=> \E m, i, f : Slot(s, m, i, f)
         /\ \A s, m, i, f : Slot(s, m, i, f) =>
              Held(s) = IF f = "key" THEN map[m].entries[i].key ELSE map[m].entries[i].value
<1>1. \A m \in Maps : DOMAIN map[m].entries = 1..Len(map[m].entries)
  BY DictFacts DEF MapsOwn
<1>2. \A s : s \in Used <=> \E m \in Maps : s \in {<<m, i, f>> : i \in DOMAIN map[m].entries, f \in {"key", "value"}}
  BY DEF Used
<1>3. ASSUME NEW s PROVE s \in Used <=> \E m, i, f : Slot(s, m, i, f)
  <2>1. ASSUME s \in Used PROVE \E m, i, f : Slot(s, m, i, f)
    <3>1. PICK m \in Maps : s \in {<<m, i, f>> : i \in DOMAIN map[m].entries, f \in {"key", "value"}}
      BY <2>1, <1>2
    <3>2. PICK i \in DOMAIN map[m].entries, f \in {"key", "value"} : s = <<m, i, f>>
      BY <3>1
    <3>3. Slot(s, m, i, f)
      BY <3>2, <1>1 DEF Slot
    <3> QED BY <3>3
  <2>2. ASSUME NEW m, NEW i, NEW f, Slot(s, m, i, f) PROVE s \in Used
    <3>1. m \in Maps /\ i \in DOMAIN map[m].entries /\ f \in {"key", "value"} /\ s = <<m, i, f>>
      BY <2>2, <1>1 DEF Slot
    <3> QED BY <3>1, <1>2
  <2> QED BY <2>1, <2>2
<1>4. ASSUME NEW s, NEW m, NEW i, NEW f, Slot(s, m, i, f)
      PROVE  Held(s) = IF f = "key" THEN map[m].entries[i].key ELSE map[m].entries[i].value
  BY <1>4 DEF Slot, Held
<1> QED BY <1>3, <1>4

LEMMA HeldStrings ==
  ASSUME MapsOwn
  PROVE  /\ \A s \in Used : \E m \in Maps : Held(s) \in Strings(map[m])
         /\ \A m \in Maps : \A x \in Strings(map[m]) : \E s \in Used : x = Held(s)
<1>1. ASSUME NEW s \in Used PROVE \E m \in Maps : Held(s) \in Strings(map[m])
  <2>1. PICK m, i, f : Slot(s, m, i, f)
    BY UsedSlots
  <2>2. Held(s) \in {map[m].entries[i].key, map[m].entries[i].value}
    BY <2>1, UsedSlots
  <2> QED BY <2>1, <2>2 DEF Strings, Slot
<1>2. ASSUME NEW m \in Maps, NEW x \in Strings(map[m]) PROVE \E s \in Used : x = Held(s)
  <2>1. PICK i \in 1..Len(map[m].entries) : x \in {map[m].entries[i].key, map[m].entries[i].value}
    BY DEF Strings
  <2>2. Slot(<<m, i, "key">>, m, i, "key") /\ Slot(<<m, i, "value">>, m, i, "value")
    BY DEF Slot
  <2>3. \/ <<m, i, "key">> \in Used /\ Held(<<m, i, "key">>) = x
        \/ <<m, i, "value">> \in Used /\ Held(<<m, i, "value">>) = x
    BY <2>1, <2>2, UsedSlots
  <2> QED BY <2>3
<1> QED BY <1>1, <1>2

\* The invariant says of entries what StringsOwned says of slots: each string
\* of a map is its own, with one reference.
THEOREM MapsOwnStrings == MapsOwn => StringsOwned
<1> SUFFICES ASSUME MapsOwn PROVE StringsOwned
  OBVIOUS
<1>1. ArenaSound(arena)
  BY DEF MapsOwn, Sound
<1>2. ASSUME NEW s \in Used PROVE Held(s) \in Live(arena) /\ arena.blocks[Held(s)].refs = 1
  <2>1. PICK m, i, f : Slot(s, m, i, f)
    BY UsedSlots
  <2>2. Owned(arena, map[m].entries[i])
    BY <2>1 DEF MapsOwn, Owns, Slot
  <2>3. Held(s) \in {map[m].entries[i].key, map[m].entries[i].value}
    BY <2>1, UsedSlots
  <2> QED BY <2>2, <2>3 DEF Owned
<1>3. ASSUME NEW s \in Used, NEW t \in Used, Held(s) = Held(t) PROVE s = t
  <2>1. PICK m, i, f : Slot(s, m, i, f)
    BY UsedSlots
  <2>2. PICK n, j, g : Slot(t, n, j, g)
    BY UsedSlots
  <2>3. /\ Held(s) = IF f = "key" THEN map[m].entries[i].key ELSE map[m].entries[i].value
        /\ Held(t) = IF g = "key" THEN map[n].entries[j].key ELSE map[n].entries[j].value
    BY <2>1, <2>2, UsedSlots
  <2>4. m = n
    <3>1. Held(s) \in Strings(map[m]) /\ Held(t) \in Strings(map[n])
      BY <2>1, <2>2, <2>3 DEF Strings, Slot
    <3> QED BY <2>1, <2>2, <3>1, <1>3 DEF MapsOwn, Slot
  <2>5. i = j
    <3>1. CASE i # j
      <4>1. Apart(map[m].entries[i], map[m].entries[j])
        BY <2>1, <2>2, <3>1, <2>4 DEF MapsOwn, Owns, Slot
      <4> QED BY <4>1, <2>3, <2>4, <1>3 DEF Apart
    <3> QED BY <3>1
  <2>6. f = g
    <3>1. Owned(arena, map[m].entries[i])
      BY <2>1 DEF MapsOwn, Owns, Slot
    <3>2. f \in {"key", "value"} /\ g \in {"key", "value"}
      BY <2>1, <2>2 DEF Slot
    <3> QED BY <3>1, <3>2, <2>3, <2>4, <2>5, <1>3 DEF Owned
  <2> QED BY <2>1, <2>2, <2>4, <2>5, <2>6 DEF Slot
<1>4. \A m \in Maps : map[m] # NoMap => Len(map[m].entries) <= map[m].cap
  BY DEF MapsOwn, Owns
<1> QED BY <1>1, <1>2, <1>3, <1>4 DEF StringsOwned

\* So does the listing's part: its strings still say what they said.
THEOREM ListingHeldStays == ListingHeld => ListingStays
BY DEF ListingHeld, ListingStays

----------------------------------------------------------------------------
(* The invariant holds at first and every call keeps it. *)

LEMMA InitOwns == Init => IInv
<1> SUFFICES ASSUME Init PROVE IInv
  OBVIOUS
<1>1. Sound(arena)
  <2>1. arena \in Arenas
    BY EmptySeq DEF Init, NoStrings, Arenas
  <2>2. Blocks(arena) = {} /\ Live(arena) = {} /\ DOMAIN arena.free = {}
    BY DEF Init, NoStrings, Blocks, Live
  <2>3. IsInjective(arena.free) /\ Range(arena.free) = {}
    BY <2>2 DEF IsInjective, Range
  <2> QED BY <2>1, <2>2, <2>3 DEF Sound, ArenaSound
<1>2. Owns(arena, NoMap) /\ Strings(NoMap) = {}
  BY EmptySeq DEF Owns, Dicts, NoMap, Strings
<1>3. MapsOwn
  BY <1>1, <1>2 DEF Init, MapsOwn, Dicts
<1>4. ListingHeld
  BY DEF Init, NoListing, ListingHeld
<1> QED BY <1>3, <1>4 DEF IInv

\* A listing is of a map whose strings it repeats.
LEMMA ListHolds ==
  ASSUME MapsOwn, NEW m \in Maps, List(m)
  PROVE  ListingHeld'
<1>1. DOMAIN map[m].entries = 1..Len(map[m].entries)
  BY DictFacts DEF MapsOwn
<1>2. /\ map' = map /\ arena' = arena /\ listing'.of = m
      /\ listing'.items = [i \in DOMAIN map[m].entries |->
                             [key  |-> map[m].entries[i].key,
                              text |-> TextAt(arena, map[m].entries[i].key)]]
  BY DEF List
<1>3. \A i \in DOMAIN listing'.items :
        /\ i \in 1..Len(map[m].entries)
        /\ listing'.items[i].key = map[m].entries[i].key
        /\ listing'.items[i].text = TextAt(arena, map[m].entries[i].key)
  BY <1>1, <1>2
<1> QED BY <1>2, <1>3 DEF ListingHeld, TextAt

\* Each call, but a listing's own, is a step of one map in its frame.
Changes(m, d) ==
  /\ map' = [map EXCEPT ![m] = d] /\ Frame(m, arena', d) /\ UNCHANGED listing
  /\ listing.of # m \/ Kept(Heap(m), [arena |-> arena', d |-> d])

LEMMA ChangesKeep ==
  ASSUME IInv, NEW m \in Maps, NEW d, Changes(m, d)
  PROVE  IInv'
BY MapsOwnNext, ListingHeldNext DEF IInv, Changes

LEMMA NextKeeps == IInv /\ [Next]_vars => IInv'
<1> SUFFICES ASSUME IInv, [Next]_vars PROVE IInv'
  OBVIOUS
<1>1. MapsOwn /\ ListingHeld
  BY DEF IInv
<1>2. ASSUME NEW m \in Maps, NEW key \in Keys, NEW value \in Values, Set(m, key, value) PROVE IInv'
  <2>1. UNCHANGED listing
    BY <1>2 DEF Set
  <2> QED BY <1>1, <1>2, <2>1, SetStores, ChangesKeep DEF StoresIn, Changes
<1>3. ASSUME NEW m \in Maps, NEW key \in Keys, Delete(m, key) PROVE IInv'
  <2>1. PICK d : map' = [map EXCEPT ![m] = d] /\ Frame(m, arena', d)
    BY <1>1, <1>3, DeleteRemoves
  <2>2. UNCHANGED listing /\ listing.of # m
    BY <1>3 DEF Delete
  <2> QED BY <2>1, <2>2, ChangesKeep DEF Changes
<1>4. ASSUME NEW m \in Maps, NEW from \in Maps, Merge(m, from) PROVE IInv'
  <2>1. UNCHANGED listing
    BY <1>4 DEF Merge
  <2> QED BY <1>1, <1>4, <2>1, MergeStores, ChangesKeep DEF StoresIn, Changes
<1>5. ASSUME NEW m \in Maps, Free(m) PROVE IInv'
  <2>1. UNCHANGED listing /\ listing.of # m
    BY <1>5 DEF Free
  <2> QED BY <1>1, <1>5, <2>1, FreeReleases, ChangesKeep DEF Changes
<1>6. ASSUME UNCHANGED <<arena, map>> PROVE MapsOwn'
  BY <1>1, <1>6 DEF MapsOwn
<1>7. ASSUME NEW m \in Maps, List(m) PROVE IInv'
  BY <1>1, <1>6, <1>7, ListHolds DEF IInv, List
<1>8. ASSUME Drop PROVE IInv'
  BY <1>6, <1>8 DEF IInv, Drop, ListingHeld, NoListing
<1>9. ASSUME UNCHANGED vars PROVE IInv'
  BY <1>1, <1>6, <1>9 DEF IInv, vars, ListingHeld, TextAt
<1> QED BY <1>2, <1>3, <1>4, <1>5, <1>7, <1>8, <1>9 DEF Next, Call

\* The maps' strings are their own, whatever the program does.
THEOREM OwnedAlways == Spec => []IInv
BY InitOwns, NextKeeps, PTL DEF Spec

\* Each key and each value is a string of its own with a single reference, and
\* the allocator's books are in order (StringsOwned): nothing a map shows is on
\* the free list or shared.
THEOREM StringsOwnedAlways == Spec => []StringsOwned
<1>1. IInv => StringsOwned
  BY MapsOwnStrings DEF IInv
<1> QED BY OwnedAlways, <1>1, PTL

\* The strings of keys() keep saying what they said (ListingStays).
THEOREM ListingStaysAlways == Spec => []ListingStays
<1>1. IInv => ListingStays
  BY ListingHeldStays DEF IInv
<1> QED BY OwnedAlways, <1>1, PTL

----------------------------------------------------------------------------
(* What is lost. *)

\* Lost is what is live in no map.
InNoMap ==
  \A x : x \in Lost <=> x \in Live(arena) /\ \A m \in Maps : x \notin Strings(map[m])

LEMMA LostIs == MapsOwn => InNoMap
BY HeldStrings DEF Lost, InNoMap

\* What a call changes of it is what the changed map gave up.
LEMMA LostChange ==
  ASSUME MapsOwn, NEW m \in Maps, NEW d, Changes(m, d)
  PROVE  /\ Lost \subseteq Live(arena) \ Strings(map[m])
         /\ Live(arena') \ Strings(d) = Live(arena) \ Strings(map[m]) => Lost' = Lost
         /\ \A j, k \in Strings(map[m]) :
              Live(arena') \ Strings(d) = (Live(arena) \ Strings(map[m])) \cup {j, k}
                => Lost' = Lost \cup {j, k}
<1>1. map \in [Maps -> Dicts] /\ \A n \in Maps : n # m => Strings(map[n]) \cap Strings(map[m]) = {}
  BY DEF MapsOwn
<1>2. map'[m] = d /\ \A n \in Maps : n # m => map'[n] = map[n]
  BY <1>1 DEF Changes
<1>3. MapsOwn'
  BY MapsOwnNext DEF Changes
<1> DEFINE Elsewhere == {x \in Live(arena) \cup Live(arena') :
                           \A n \in Maps : n # m => x \notin Strings(map[n])}
<1>4. Lost = (Live(arena) \ Strings(map[m])) \cap Elsewhere
  <2>1. \A x : x \in Lost <=> x \in Live(arena) /\ \A n \in Maps : x \notin Strings(map[n])
    BY LostIs DEF InNoMap
  <2>2. ASSUME NEW x
        PROVE  (\A n \in Maps : x \notin Strings(map[n]))
                 <=> x \notin Strings(map[m]) /\ \A n \in Maps : n # m => x \notin Strings(map[n])
    OBVIOUS
  <2> QED BY <2>1, <2>2
<1>5. Lost' = (Live(arena') \ Strings(d)) \cap Elsewhere
  <2>1. \A x : x \in Lost' <=> x \in Live(arena') /\ \A n \in Maps : x \notin Strings(map'[n])
    <3>1. MapsOwn' => InNoMap'
      BY LostIs, PTL
    <3> QED BY <1>3, <3>1 DEF InNoMap
  <2>2. ASSUME NEW x
        PROVE  (\A n \in Maps : x \notin Strings(map'[n]))
                 <=> x \notin Strings(d) /\ \A n \in Maps : n # m => x \notin Strings(map[n])
    BY <1>2
  <2> QED BY <2>1, <2>2
<1>6. \A x \in Strings(map[m]) : x \in Elsewhere
  BY <1>1, StringsLive DEF MapsOwn
<1> HIDE DEF Elsewhere
<1> QED BY <1>4, <1>5, <1>6

LEMMA StepLoses ==
  ASSUME IInv, [Next]_vars, Lost' # Lost
  PROVE  /\ Cardinality(Lost' \ Lost) = 2 /\ Lost \subseteq Lost'
         /\ \E m \in Maps : Len(map'[m].entries) = Len(map[m].entries) - 1
<1>1. MapsOwn
  BY DEF IInv
<1>2. ASSUME NEW m \in Maps, StoresIn(m), UNCHANGED listing PROVE FALSE
  <2>1. PICK d : Changes(m, d) /\ Live(arena') \ Strings(d) = Live(arena) \ Strings(map[m])
    BY <1>2 DEF StoresIn, Changes, Kept, Heap
  <2> QED BY <1>1, <2>1, LostChange
<1>3. ASSUME NEW m \in Maps, NEW key \in Keys, NEW value \in Values, Set(m, key, value) PROVE FALSE
  BY <1>1, <1>2, <1>3, SetStores DEF Set
<1>4. ASSUME NEW m \in Maps, NEW from \in Maps, Merge(m, from) PROVE FALSE
  BY <1>1, <1>2, <1>4, MergeStores DEF Merge
<1>5. ASSUME NEW m \in Maps, Free(m) PROVE FALSE
  <2>1. Changes(m, NoMap)
    BY <1>1, <1>5, FreeReleases DEF Changes, Free
  <2>2. Live(arena') \ Strings(NoMap) = Live(arena) \ Strings(map[m])
    BY <1>1, <1>5, FreeReleases, EmptySeq DEF Strings, NoMap
  <2> QED BY <1>1, <2>1, <2>2, LostChange
<1>6. ASSUME UNCHANGED <<arena, map>> PROVE FALSE
  BY <1>6 DEF Lost, Used, Held, Live, Blocks
<1>7. ASSUME NEW m \in Maps, NEW key \in Keys, Delete(m, key)
      PROVE  /\ Cardinality(Lost' \ Lost) = 2 /\ Lost \subseteq Lost'
             /\ Len(map'[m].entries) = Len(map[m].entries) - 1
  <2>1. PICK d : LET kept == Live(arena) \ Strings(map[m])
                     now  == Live(arena') \ Strings(d)
                 IN  /\ map' = [map EXCEPT ![m] = d] /\ Frame(m, arena', d)
                     /\ \/ now = kept
                        \/ /\ Len(d.entries) = Len(map[m].entries) - 1
                           /\ \E j, k \in Strings(map[m]) : j # k /\ now = kept \cup {j, k}
    BY <1>1, <1>7, DeleteRemoves
  <2>2. Changes(m, d)
    BY <2>1, <1>7 DEF Changes, Delete
  <2>3. Live(arena') \ Strings(d) # Live(arena) \ Strings(map[m])
    BY <1>1, <2>2, LostChange
  <2>4. PICK j \in Strings(map[m]), k \in Strings(map[m]) :
          /\ j # k /\ Live(arena') \ Strings(d) = (Live(arena) \ Strings(map[m])) \cup {j, k}
          /\ Len(d.entries) = Len(map[m].entries) - 1
    BY <2>1, <2>3
  <2>5. Lost' = Lost \cup {j, k} /\ j \notin Lost /\ k \notin Lost
    BY <1>1, <2>2, <2>4, LostChange
  <2>6. Lost' \ Lost = {j} \cup {k}
    BY <2>5
  <2>7. Cardinality({j} \cup {k}) = 2
    <3>1. IsFiniteSet({j}) /\ Cardinality({j}) = 1
      BY FS_Singleton
    <3>2. k \notin {j}
      BY <2>4
    <3>3. Cardinality({j} \cup {k}) = Cardinality({j}) + 1
      BY <3>1, <3>2, FS_AddElement
    <3> QED BY <3>1, <3>3
  <2>8. map'[m] = d
    BY <1>1, <2>1 DEF MapsOwn
  <2> QED BY <2>4, <2>5, <2>6, <2>7, <2>8
<1> QED BY <1>3, <1>4, <1>5, <1>6, <1>7 DEF Next, Call, vars, List, Drop

\* A call loses strings only if it removes the entry at the end of a map, and
\* then it loses that entry's two (OnlyLastRemovalLoses).
THEOREM OnlyLastRemovalLosesAlways == Spec => OnlyLastRemovalLoses
<1>1. IInv /\ [Next]_vars =>
        [Lost' # Lost =>
           /\ Cardinality(Lost' \ Lost) = 2 /\ Lost \subseteq Lost'
           /\ \E m \in Maps : Len(map'[m].entries) = Len(map[m].entries) - 1]_vars
  BY StepLoses
<1> QED BY OwnedAlways, <1>1, PTL DEF Spec, OnlyLastRemovalLoses
=============================================================================
