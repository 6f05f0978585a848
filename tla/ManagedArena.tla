--------------------------- MODULE ManagedArena ----------------------------
(***************************************************************************)
(* The allocator of Mire's managed strings: blocks carved from one arena,  *)
(* counted references, and a free list whose first block that is large     *)
(* enough is used again.  A block keeps its place for ever; what changes   *)
(* is its header (the room it admits to, its references) and its text.     *)
(*                                                                         *)
(* The operators map an arena to the arena after the call.  The texts a    *)
(* program uses belong to one size class, so there is one free list.       *)
(***************************************************************************)
EXTENDS Naturals, Sequences, FiniteSets, FiniteSetsExt, SequencesExt

CONSTANTS
  Texts,    \* what a string can hold
  Size,     \* the room each text needs, rounded as rt_string_growth_cap does
  Garbage   \* what a block holds once the free list uses its data area

ASSUME ArenaAssumption ==
  /\ Garbage \notin Texts
  /\ Size \in [Texts -> Nat \ {0}]

Null == 0

\* Of a block: the room it was carved with (extent), the room its header says
\* (cap), the references to it, its text.
NoStrings == [blocks |-> <<>>, free |-> <<>>]

Blocks(arena) == DOMAIN arena.blocks
Live(arena)   == {b \in Blocks(arena) : arena.blocks[b].refs > 0}
TextAt(arena, b) == arena.blocks[b].text

\* free_list_find: where the first free block with enough room is, or 0.
FirstFit(arena, need) ==
  LET fits == {i \in DOMAIN arena.free : arena.blocks[arena.free[i]].cap >= need}
  IN  IF fits = {} THEN 0 ELSE Min(fits)

\* rt_managed_from_slice: the block the next string of this text takes, ...
NextBlock(arena, text) ==
  LET i == FirstFit(arena, Size[text])
  IN  IF i = 0 THEN Len(arena.blocks) + 1 ELSE arena.free[i]

\* A block with a new string in it.
Holding(extent, text) ==
  [extent |-> extent, cap |-> Size[text], refs |-> 1, text |-> text]

\* ... and the arena with the string in it.
Allocated(arena, text) ==
  LET i == FirstFit(arena, Size[text])
  IN  IF i = 0
      THEN [arena EXCEPT !.blocks = Append(@, Holding(Size[text], text))]
      ELSE [blocks |-> [arena.blocks EXCEPT ![arena.free[i]] = Holding(@.extent, text)],
            free   |-> RemoveAt(arena.free, i)]

\* rt_managed_retain: a block that is free stays free.
Retained(arena, b) ==
  IF b = Null \/ b \notin Live(arena) THEN arena
  ELSE [arena EXCEPT !.blocks[b].refs = @ + 1]

\* A block on the free list, whose links overwrite the text.
Freed(block) == [extent |-> block.extent, cap |-> block.cap, refs |-> 0, text |-> Garbage]

\* rt_managed_free: drops a reference; with the last one the block goes to the
\* front of the free list.  A block without references is left alone.
Released(arena, b) ==
  IF b = Null \/ b \notin Live(arena) THEN arena
  ELSE IF arena.blocks[b].refs > 1
       THEN [arena EXCEPT !.blocks[b].refs = @ - 1]
       ELSE [blocks |-> [arena.blocks EXCEPT ![b] = Freed(@)],
             free   |-> <<b>> \o arena.free]

\* The free list holds every block without references, once; a string in use
\* fits the room its header admits to, which never exceeds the block.
ArenaSound(arena) ==
  /\ IsInjective(arena.free)
  /\ Range(arena.free) = Blocks(arena) \ Live(arena)
  /\ \A b \in Blocks(arena) : arena.blocks[b].cap <= arena.blocks[b].extent
  /\ \A b \in Live(arena) :
       /\ TextAt(arena, b) \in Texts
       /\ Size[TextAt(arena, b)] <= arena.blocks[b].cap
=============================================================================
