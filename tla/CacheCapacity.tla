--------------------------- MODULE CacheCapacity ---------------------------
(***************************************************************************)
(* The limit on the entries that one cache instance keeps in memory, and   *)
(* what an eviction costs.                                                 *)
(*                                                                         *)
(* The entries in memory and the LRU list are two structures: entries that *)
(* a load reads from the metas are in memory and not in the list, and an   *)
(* entry that falls off the list stays in memory.  enforce_capacity counts *)
(* the first and evicts through the second.  save() writes metas for what  *)
(* is in memory and then drops the log files of the run.                   *)
(*                                                                         *)
(* One instance at a time; entries are keys (CacheStore has contents,      *)
(* blobs and several instances), log files are young.                      *)
(***************************************************************************)
EXTENDS Integers, FiniteSets, SequencesExt

CONSTANTS
  Keys,          \* files, analyses, builds, functions
  Latest,        \* the key that every stored analysis updates too
  Limits,        \* settings.max_units of the instances that are loaded
  Unlimited,     \* max_units = None
  DefaultUnits,  \* DEFAULT_MAX_UNITS
  MaxLogs        \* bound: log files

ASSUME CapacityAssumption ==
  /\ IsFiniteSet(Keys) /\ Latest \in Keys
  /\ Unlimited \notin Nat /\ Limits \subseteq (Nat \ {0}) \union {Unlimited}
  /\ DefaultUnits \in Nat \ {0} /\ MaxLogs \in Nat

VARIABLES
  limit,  \* settings.max_units of the instance, 0 if none is alive
  mem,    \* files, analyses, builds, mir_fns: the keys
  order,  \* lru.order, the oldest first
  metas,  \* keys with a meta on disk
  log,    \* the keys of the log files, the oldest first
  old,    \* how many of them were there when the instance was loaded
  at,     \* how many of those the load has applied
  used    \* history: the keys this instance has used, by their last use

vars == <<limit, mem, order, metas, log, old, at, used>>

\* The load is over.
Alive == limit # 0 /\ at = old
OnDisk(k) == k \in metas \/ Contains(log, k)

Init ==
  /\ limit = 0 /\ mem = {} /\ order = <<>> /\ used = <<>>
  /\ metas = {} /\ log = <<>> /\ old = 0 /\ at = 0

----------------------------------------------------------------------------
\* LruMap

LruMax(l) == IF l = Unlimited THEN DefaultUnits ELSE l

\* promote: out of its place and to the back.
Place(s, k) == CHOOSE i \in DOMAIN s : s[i] = k
Without(s, k) ==
  IF Contains(s, k) THEN SubSeq(s, 1, Place(s, k) - 1) \o SubSeq(s, Place(s, k) + 1, Len(s))
  ELSE s
MovedBack(s, k) == Append(Without(s, k), k)

\* insert: a known key moves to the back; a new one may push the oldest out.
Mut_TouchedFifo(s, k, max) ==
  IF Contains(s, k) THEN s ELSE Append(IF Len(s) >= max THEN Tail(s) ELSE s, k)
Touched(s, k, max) ==
  IF Contains(s, k) THEN MovedBack(s, k)
  ELSE Append(IF Len(s) >= max THEN Tail(s) ELSE s, k)

----------------------------------------------------------------------------
\* enforce_capacity

Mut_Capacity(l) == LruMax(l)
Capacity(l) == IF l = Unlimited THEN Cardinality(Keys) ELSE l

Oldest(s, n) == {s[j] : j \in 1 .. n}

\* After n evictions from the list s, with m in memory at first, the loop ends:
\* few enough are left, the list is empty, or the last eviction freed nothing.
Mut_LoopEnds(m, s, n) ==
  Cardinality(m \ Oldest(s, n)) < Capacity(limit) \/ n = Len(s)
LoopEnds(m, s, n) ==
  \/ Cardinality(m \ Oldest(s, n)) <= Capacity(limit)
  \/ n = Len(s)
  \/ n > 0 /\ s[n] \notin m \ Oldest(s, n - 1)

Evictions(m, s) ==
  CHOOSE n \in 0 .. Len(s) : LoopEnds(m, s, n) /\ \A l \in 0 .. n - 1 : ~LoopEnds(m, s, l)

\* m and s are the memory and the list with the new entries in.
Keep(m, s) ==
  LET n == Evictions(m, s) IN
    mem' = m \ Oldest(s, n) /\ order' = SubSeq(s, n + 1, Len(s))

----------------------------------------------------------------------------
\* load_with_settings: metas go to memory alone, log records, one by one, to the
\* list too.
Load(l) ==
  /\ limit = 0
  /\ limit' = l /\ old' = Len(log) /\ at' = 0
  /\ mem' = metas /\ order' = <<>> /\ used' = <<>>
  /\ UNCHANGED <<metas, log>>

ApplyRecord ==
  /\ limit # 0 /\ at < old
  /\ at' = at + 1
  /\ mem' = mem \union {log[at + 1]}
  /\ order' = Touched(order, log[at + 1], LruMax(limit))
  /\ used' = MovedBack(used, log[at + 1])
  /\ UNCHANGED <<limit, metas, log, old>>

\* cached_file, cached_analysis, build_entry, get_cached_mir_fn: a hit, in
\* memory or cold; no eviction.
Lookup(k) ==
  /\ Alive
  /\ k \in mem \union metas
  /\ mem' = mem \union {k}
  /\ order' = Touched(order, k, LruMax(limit))
  /\ used' = MovedBack(used, k)
  /\ UNCHANGED <<limit, metas, log, old, at>>

Recorded(k) == log' = Append(log, k)

\* store_file, store_build, store_cached_mir_fn
Store(k) ==
  /\ Alive /\ Len(log) < MaxLogs
  /\ Recorded(k)
  /\ Keep(mem \union {k}, Touched(order, k, LruMax(limit)))
  /\ used' = MovedBack(used, k)
  /\ UNCHANGED <<limit, metas, old, at>>

\* store_analysis, store_analysis_error: a second entry in memory, no second
\* log record.
StoreAnalysis(k) ==
  /\ Alive /\ Len(log) < MaxLogs
  /\ Recorded(k)
  /\ Keep(mem \union {k, Latest},
          Touched(Touched(order, k, LruMax(limit)), Latest, LruMax(limit)))
  /\ used' = MovedBack(MovedBack(used, k), Latest)
  /\ UNCHANGED <<limit, metas, old, at>>

\* The log files of the instance are those that were not there before.
Save ==
  /\ Alive
  /\ metas' = metas \union mem
  /\ log' = SubSeq(log, 1, old)
  /\ UNCHANGED <<limit, mem, order, old, at, used>>

\* A meta cannot be written: the log files stay.
SaveFails(written) ==
  /\ Alive
  /\ metas' = metas \union written
  /\ UNCHANGED <<limit, mem, order, log, old, at, used>>

\* At any point, inside the load too.
Stop ==
  /\ limit # 0
  /\ limit' = 0 /\ mem' = {} /\ order' = <<>> /\ used' = <<>>
  /\ old' = 0 /\ at' = 0
  /\ UNCHANGED <<metas, log>>

Next ==
  \/ \E l \in Limits : Load(l)
  \/ ApplyRecord
  \/ \E k \in Keys \ {Latest} : Lookup(k) \/ Store(k) \/ StoreAnalysis(k)
  \/ Save \/ \E written \in SUBSET mem : SaveFails(written)
  \/ Stop

Spec == Init /\ [][Next]_vars
----------------------------------------------------------------------------
\* The list holds the keys used last, in the order of their last use, whatever
\* mix of hits, cold hits, stores and evictions came before.
ListIsRecency == IsSuffix(order, used)

\* A store evicts as much as it must and no more: it ends within the limit, or
\* has evicted everything the list knew and with it the entry just stored; and
\* what is left is not fewer than the limit allows.
StoreEvictsExactly ==
  /\ [][Len(log') > Len(log) =>
          Cardinality(mem') <= Capacity(limit) \/ order' = <<>>]_vars
  /\ [][mem \ mem' # {} /\ Alive' => Cardinality(mem') >= Capacity(limit)]_vars

\* An instance without a limit takes no entry off the disk: what its log held
\* when save() drops it is in memory, and so in the metas.
UnlimitedKeepsEntries ==
  [][limit = Unlimited => \A k \in Keys : OnDisk(k) => OnDisk(k)']_vars
=============================================================================
