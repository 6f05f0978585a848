------------------------------ MODULE MireMap ------------------------------
(***************************************************************************)
(* The runtime's hash maps from strings to strings, on the arena their     *)
(* strings live in.  A map keeps its entries dense, in insertion order     *)
(* until a removal moves the last one into the hole, and chains them from  *)
(* buckets by index.  It owns a copy of every key and value.               *)
(*                                                                         *)
(* Each call is one step: the runtime is single-threaded.  Storage always  *)
(* grows when asked to; growing the buckets may fail, which the code       *)
(* shrugs off.  No program here writes an entry's own string back to it    *)
(* or merges a map into itself: the code releases the old copy before it   *)
(* reads the new one.                                                      *)
(***************************************************************************)
EXTENDS ManagedArena, Integers, Functions

CONSTANTS
  Maps,         \* the program's maps
  Keys,         \* texts used as keys
  Values,       \* texts used as values
  Hash,         \* mire_hash_string
  FirstBuckets, \* buckets of a new map: 8 in the code
  FirstCap,     \* entries a new map has room for: 8 in the code
  MaxEntries,   \* bound: entries of each map
  MaxBlocks,    \* bound: blocks carved from the arena
  MaxCalls      \* bound: calls the program makes

ASSUME MapAssumption ==
  /\ Keys \cup Values \subseteq Texts
  /\ Hash \in [Keys -> Nat]
  /\ FirstBuckets \in Nat \ {0} /\ FirstCap \in Nat \ {0}
  /\ MaxEntries \in [Maps -> Nat] /\ MaxBlocks \in Nat /\ MaxCalls \in Nat

VARIABLES
  arena,   \* the strings
  map,     \* each map, NoMap before its first entry and after it is freed
  calls,   \* calls made so far
  listing  \* what the program got from keys(): the map's own strings, with
           \* what they said then

vars == <<arena, map, calls, listing>>

NoMap == [entries |-> <<>>, buckets |-> <<>>, cap |-> 0]
End   == -1

\* rt_dict_ensure_kind: entries and buckets are numbered from 0.
NewMap == [entries |-> <<>>,
           buckets |-> [b \in 0..(FirstBuckets - 1) |-> End],
           cap     |-> FirstCap]

Ensured(d) == IF d = NoMap THEN NewMap ELSE d

NoListing == [of |-> "nothing", items |-> <<>>]

Entry(d, i)       == d.entries[i + 1]
Indices(d)        == 0..(Len(d.entries) - 1)
BucketOf(d, hash) == hash % Cardinality(DOMAIN d.buckets)

Init ==
  /\ arena = NoStrings
  /\ map = [m \in Maps |-> NoMap]
  /\ calls = 0
  /\ listing = NoListing

----------------------------------------------------------------------------
(* Chains. *)

\* Where the walk of bucket b's chain stands after n links; End once it has
\* left the entries.
Walk(d, b) ==
  LET at[n \in 0..Len(d.entries)] ==
        IF n = 0 THEN d.buckets[b]
        ELSE LET i == at[n - 1] IN IF i \in Indices(d) THEN Entry(d, i).next ELSE End
  IN  at

Matches(a, d, key) ==
  {i \in Indices(d) : Entry(d, i).hash = Hash[key] /\ TextAt(a, Entry(d, i).key) = key}

\* mire_dict_find: the first entry of the chain with the hash and the text.
Find(a, d, key) ==
  LET at   == Walk(d, BucketOf(d, Hash[key]))
      hits == {n \in 0..Len(d.entries) : at[n] \in Matches(a, d, key)}
  IN  IF d = NoMap \/ hits = {} THEN End ELSE at[Min(hits)]

\* mire_rehash: every entry, from the first, becomes the head of its chain.
Rehashed(d, count) ==
  LET same(i) == {j \in Indices(d) : /\ j < i
                                     /\ Entry(d, j).hash % count = Entry(d, i).hash % count}
      in(b)   == {j \in Indices(d) : Entry(d, j).hash % count = b}
      latest(S) == IF S = {} THEN End ELSE Max(S)
  IN  [entries |-> [n \in DOMAIN d.entries |->
                      [d.entries[n] EXCEPT !.next = latest(same(n - 1))]],
       buckets |-> [b \in 0..(count - 1) |-> latest(in(b))],
       cap     |-> d.cap]

----------------------------------------------------------------------------
(* Entries.  A state of the heap is an arena with the map being changed. *)

\* Mutants: the old copy is not released; the whole entry is written anew.
Mut_Replaced(h, i, value) ==
  [arena |-> Allocated(h.arena, value),
   d     |-> [h.d EXCEPT !.entries[i + 1].value = NextBlock(h.arena, value)]]
Mut_ReplacedAnew(h, i, value) ==
  LET e      == Entry(h.d, i)
      freed  == Released(Released(h.arena, e.value), e.key)
      valued == Allocated(freed, value)
  IN  [arena |-> Allocated(valued, TextAt(h.arena, e.key)),
       d     |-> [h.d EXCEPT !.entries[i + 1].value = NextBlock(freed, value),
                             !.entries[i + 1].key = NextBlock(valued, TextAt(h.arena, e.key))]]

\* mire_store_value with the old copy released first.
Replaced(h, i, value) ==
  LET freed == Released(h.arena, Entry(h.d, i).value)
  IN  [arena |-> Allocated(freed, value),
       d     |-> [h.d EXCEPT !.entries[i + 1].value = NextBlock(freed, value)]]

\* A new entry: room for it, a copy of the key, a copy of the value, and the
\* head of its bucket's chain.
Added(h, key, value) ==
  LET d     == Ensured(h.d)
      keyed == Allocated(h.arena, key)
      b     == BucketOf(d, Hash[key])
      entry == [hash |-> Hash[key], next |-> d.buckets[b],
                key |-> NextBlock(h.arena, key), value |-> NextBlock(keyed, value)]
  IN  [arena |-> Allocated(keyed, value),
       d     |-> [entries |-> Append(d.entries, entry),
                  buckets |-> [d.buckets EXCEPT ![b] = Len(d.entries)],
                  cap     |-> IF Len(d.entries) >= d.cap THEN 2 * d.cap ELSE d.cap]]

\* mire_maybe_grow_buckets.
Grown(d) ==
  LET count == Cardinality(DOMAIN d.buckets)
  IN  IF Len(d.entries) > 2 * count THEN Rehashed(d, 2 * count) ELSE d

\* Mutant: the key is not looked up first.
Mut_Stored(h, key, value, grows) ==
  LET added == Added(h, key, value)
  IN  IF grows THEN [added EXCEPT !.d = Grown(@)] ELSE added

\* rt_dict_set_ptr, when the buckets can grow and when they cannot.
Stored(h, key, value, grows) ==
  LET i == Find(h.arena, h.d, key)
  IN  IF i # End THEN Replaced(h, i, value)
      ELSE LET added == Added(h, key, value)
           IN  [arena |-> added.arena, d |-> IF grows THEN Grown(added.d) ELSE added.d]

\* In bucket b's chain, what led to entry i leads to entry j.
Relinked(d, b, i, j) ==
  IF d.buckets[b] = i THEN [d EXCEPT !.buckets[b] = j]
  ELSE [d EXCEPT !.entries =
          [n \in DOMAIN d.entries |->
             IF d.entries[n].next = i THEN [d.entries[n] EXCEPT !.next = j] ELSE d.entries[n]]]

\* Mutant: the chain keeps leading to the old place.
Mut_LastMovedTo(d, i) ==
  [d EXCEPT !.entries = [Front(@) EXCEPT ![i + 1] = Last(d.entries)]]

\* The last entry takes place i.
LastMovedTo(d, i) ==
  LET last == Len(d.entries) - 1
  IN  Relinked([d EXCEPT !.entries = [Front(d.entries) EXCEPT ![i + 1] = Entry(d, last)]],
               BucketOf(d, Entry(d, last).hash), last, i)

\* Mutant: the strings are released after the last entry has moved in.
Mut_Removed(h, key) ==
  LET i == Find(h.arena, h.d, key)
      d == Relinked(h.d, BucketOf(h.d, Hash[key]), i, Entry(h.d, i).next)
      e == Entry(LastMovedTo(d, i), i)
  IN  IF i = End THEN h
      ELSE IF i = Len(d.entries) - 1
           THEN [h EXCEPT !.d = [d EXCEPT !.entries = Front(@)]]
           ELSE [arena |-> Released(Released(h.arena, e.key), e.value),
                 d     |-> LastMovedTo(d, i)]

\* rt_dict_remove.  The strings of the entry are released when another entry
\* takes its place.
Removed(h, key) ==
  LET i == Find(h.arena, h.d, key)
      d == Relinked(h.d, BucketOf(h.d, Hash[key]), i, Entry(h.d, i).next)
  IN  IF i = End THEN h
      ELSE IF i = Len(d.entries) - 1
           THEN [arena |-> h.arena, d |-> [d EXCEPT !.entries = Front(d.entries)]]
           ELSE [arena |-> Released(Released(h.arena, Entry(d, i).key), Entry(d, i).value),
                 d     |-> LastMovedTo(d, i)]

----------------------------------------------------------------------------
(* The calls a program makes. *)

Becomes(m, h) ==
  /\ Len(h.arena.blocks) <= MaxBlocks /\ Len(h.d.entries) <= MaxEntries[m]
  /\ arena' = h.arena
  /\ map' = [map EXCEPT ![m] = h.d]

Heap(m) == [arena |-> arena, d |-> map[m]]

\* m[key] = value, with a value the map does not own.
Set(m, key, value) ==
  /\ \E h \in {Stored(Heap(m), key, value, grows) : grows \in BOOLEAN} : Becomes(m, h)
  /\ UNCHANGED listing

\* The listing's strings are the map's: the program drops it before it removes.
Delete(m, key) ==
  /\ listing.of # m
  /\ Becomes(m, Removed(Heap(m), key))
  /\ UNCHANGED listing

\* The map after every entry of a list is stored in it, in turn.
Merged(h, entries) ==
  LET after[n \in 0..Len(entries)] ==
        IF n = 0 THEN h
        ELSE Stored(after[n - 1], TextAt(h.arena, entries[n].key),
                    TextAt(h.arena, entries[n].value), TRUE)
  IN  after[Len(entries)]

\* rt_dicts_merge: every entry of the other map, in its order.
Merge(m, from) ==
  /\ m # from
  /\ Becomes(m, Merged(Heap(m), map[from].entries))
  /\ UNCHANGED listing

AllReleased(a, strings) ==
  LET after[n \in 0..Len(strings)] ==
        IF n = 0 THEN a ELSE Released(after[n - 1], strings[n])
  IN  after[Len(strings)]

\* rt_dict_free: all keys, then all values.
Free(m) ==
  LET entries == map[m].entries
      keys    == [i \in DOMAIN entries |-> entries[i].key]
      values  == [i \in DOMAIN entries |-> entries[i].value]
  IN  /\ listing.of # m
      /\ map[m] # NoMap
      /\ arena' = AllReleased(AllReleased(arena, keys), values)
      /\ map' = [map EXCEPT ![m] = NoMap]
      /\ UNCHANGED listing

\* rt_dict_keys: a list of the pointers themselves.
List(m) ==
  /\ map[m].entries # <<>>
  /\ listing' = [of |-> m,
                 items |-> [i \in DOMAIN map[m].entries |->
                              [key  |-> map[m].entries[i].key,
                               text |-> TextAt(arena, map[m].entries[i].key)]]]
  /\ UNCHANGED <<arena, map>>

Drop ==
  /\ listing # NoListing
  /\ listing' = NoListing
  /\ UNCHANGED <<arena, map>>

Call ==
  \/ \E m \in Maps, key \in Keys :
       \/ \E value \in Values : Set(m, key, value)
       \/ Delete(m, key)
  \/ \E m \in Maps, from \in Maps : Merge(m, from)
  \/ \E m \in Maps : Free(m) \/ List(m)
  \/ Drop

Next == calls < MaxCalls /\ calls' = calls + 1 /\ Call

Spec == Init /\ [][Next]_vars

----------------------------------------------------------------------------
(* Properties. *)

\* Every entry is met exactly once, in the chain of its own hash, and no chain
\* runs in a circle or out of the entries: a removal that unlinks, moves and
\* relinks, and a rehash in the middle, leave nothing behind.
ChainsExact ==
  \A m \in Maps : \A b \in DOMAIN map[m].buckets :
    LET d   == map[m]
        at  == Walk(d, b)
        met == {n \in 0..Len(d.entries) : at[n] # End}
    IN  /\ {at[n] : n \in met} = {i \in Indices(d) : BucketOf(d, Entry(d, i).hash) = b}
        /\ \A n, k \in met : at[n] = at[k] => n = k

Used == UNION {{<<m, i, f>> : i \in DOMAIN map[m].entries, f \in {"key", "value"}} : m \in Maps}
Held(s) == map[s[1]].entries[s[2]][s[3]]

\* Each key and each value of each map is a string of its own with a single
\* reference, and the allocator's books are in order: nothing a map still shows
\* is on the free list, shared, or longer than its block.
StringsOwned ==
  /\ ArenaSound(arena)
  /\ \A s \in Used : Held(s) \in Live(arena) /\ arena.blocks[Held(s)].refs = 1
  /\ \A s, t \in Used : Held(s) = Held(t) => s = t
  /\ \A m \in Maps : map[m] # NoMap => Len(map[m].entries) <= map[m].cap

\* Strings in use that no map holds.
Lost == Live(arena) \ {Held(s) : s \in Used}

\* A call loses strings only if it removes the entry at the end of a map, and
\* then it loses that entry's two: replacing, removing, merging and freeing
\* release what they take out.
OnlyLastRemovalLoses ==
  [][Lost' # Lost =>
       /\ Cardinality(Lost' \ Lost) = 2 /\ Lost \subseteq Lost'
       /\ \E m \in Maps : Len(map'[m].entries) = Len(map[m].entries) - 1]_vars

\* The strings of keys() keep saying what they said while entries are set,
\* replaced and merged in, until the program drops the list.
ListingStays ==
  \A i \in DOMAIN listing.items :
    TextAt(arena, listing.items[i].key) = listing.items[i].text

\* What a lookup finds.
Contents(a, d) ==
  LET found == {key \in Keys : Find(a, d, key) # End}
  IN  [key \in found |-> TextAt(a, Entry(d, Find(a, d, key)).value)]

Abstract == INSTANCE FiniteMaps WITH contents <- [m \in Maps |-> Contents(arena, map[m])]

\* Through all of it the lookups answer as those of finite functions do.
RefinesFiniteMaps == Abstract!Spec
=============================================================================
