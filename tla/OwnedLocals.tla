---------------------------- MODULE OwnedLocals ----------------------------
(***************************************************************************)
(* Who releases a string: the instructions that lowering emits around the  *)
(* local variables of a function, and a run of them on the arena.          *)
(*                                                                         *)
(* A function body is written statement by statement, and lowered as it is *)
(* written: lowering is one pass.  When the body is finished it runs, its  *)
(* conditions going either way.  All locals are strings; an expression is  *)
(* a call that makes a new one, or a local.  The reference is what the     *)
(* language means: a local holds the text assigned to it last, and a       *)
(* string that no local holds takes no room.                               *)
(***************************************************************************)
EXTENDS ManagedArena

CONSTANTS
  Names,         \* local variables
  Vocabularies,  \* sets of statements with a number: a function uses
                 \* statements of one of them, as many as the number
  Allowed,       \* what the functions may do of Strays
  MaxStrings,    \* bound: strings that a run makes
  MaxTurns       \* bound: conditions that a run evaluates

\* What lowering gets wrong: no function does it unless it is in Allowed.
Strays == {"returns an outer local from a while body",
           "rebinds an outer local in a while body after a return",
           "declares under a condition in a while body",
           "returns or rebinds a moved string",
           "goes on after a return"}

\* What lowering is content to leak on.
Untidy == {"jumps", "declares a name again", "declares in a for body",
           "returns from a while body"}

ASSUME OwnedAssumption ==
  /\ Allowed \subseteq Strays
  /\ \A v \in Vocabularies : v.size \in Nat
  /\ MaxStrings \in Nat /\ MaxTurns \in Nat
  /\ Texts = 1..MaxStrings

VARIABLES
  words,    \* the statements this function is made of
  left,     \* bound: statements, nested ones included, still to come
  does,     \* what it does of Strays and Untidy
  open,     \* the blocks being written, the function's body first
  lower,    \* MirLower: blocks, the current one, frames and slots
  phase,    \* "write", "run", "returned", "fell" (off the end)
  machine   \* the run: where it is, the slots, the arena

vars == <<words, left, does, open, lower, phase, machine>>

New == "new"   \* the expression that makes a string
NoSlot == 0

----------------------------------------------------------------------------
(* Lowering.  L is the state of MirLower: its blocks of instructions, the  *)
(* current one, the stack of scope frames, the slot each name stands for,  *)
(* how many slots there are.  The code of a block is divided by statement; *)
(* "sees" are the slots of the locals in scope there.                      *)

Instr(op, slot) == [op |-> op, slot |-> slot]

\* push_block: a block that nothing has terminated is unreachable past its end.
EmptyBlock == [code |-> << >>, end |-> [op |-> "unreachable", to |-> << >>]]
NewFrame   == [owned |-> << >>, escaped |-> {}, blocked |-> FALSE]

Start == [blocks |-> <<EmptyBlock>>, here |-> 1, frames |-> <<NewFrame>>,
          slotOf |-> [x \in Names |-> NoSlot], slots |-> 0, returns |-> 0]

Emit(L, code) ==
  IF code = << >> THEN L ELSE
  [L EXCEPT !.blocks[L.here].code[Len(L.blocks[L.here].code)].does = @ \o code]
Mark(L, names) ==
  [L EXCEPT !.blocks[L.here].code =
     Append(@, [sees |-> {L.slotOf[x] : x \in names}, does |-> << >>])]

AddBlocks(L, n) == [L EXCEPT !.blocks = @ \o [i \in 1..n |-> EmptyBlock]]
NextBlockId(L)  == Len(L.blocks) + 1

End(L, b, op, to) == [L EXCEPT !.blocks[b].end = [op |-> op, to |-> to]]
EndIfOpen(L, b, to) ==
  IF L.blocks[b].end.op = "unreachable" THEN End(L, b, "br", <<to>>) ELSE L
At(L, b) == [L EXCEPT !.here = b]

TracksIn(frame, x) == \E n \in DOMAIN frame.owned : frame.owned[n].name = x
Tracking(L, x) == {n \in DOMAIN L.frames : TracksIn(L.frames[n], x)}

\* track_owned_local: the outermost frame that has the name keeps it, with the
\* new slot; else the innermost frame takes it.
Track(L, x, slot) ==
  LET n     == IF Tracking(L, x) = {} THEN Len(L.frames) ELSE Min(Tracking(L, x))
      other(local) == local.name # x
  IN  [L EXCEPT !.frames[n].owned =
         Append(SelectSeq(@, other), [name |-> x, slot |-> slot])]

\* The drops of what is tracked, has not escaped, and still has its slot.
Drops(L, owned, escaped) ==
  LET ours(local) == local.name \notin escaped /\ L.slotOf[local.name] = local.slot
  IN  [n \in DOMAIN SelectSeq(owned, ours) |->
         Instr("drop", SelectSeq(owned, ours)[n].slot)]

BeginScope(L) == [L EXCEPT !.frames = Append(@, NewFrame)]

Mut_EndScope(L) == [L EXCEPT !.frames = Front(@)]

\* end_scope_and_release.
EndScope(L) ==
  LET frame == Last(L.frames)
      drops == IF frame.blocked THEN << >> ELSE Drops(L, frame.owned, frame.escaped)
  IN  [Emit(L, drops) EXCEPT !.frames = Front(@)]

\* release_all_frames: every frame is emptied, unless it is blocked.
ReleaseAll(L) ==
  LET free    == SelectSeq(L.frames, LAMBDA f : ~f.blocked)
      owned   == FlattenSeq([n \in DOMAIN free |-> free[n].owned])
      escaped == UNION {free[n].escaped : n \in DOMAIN free}
  IN  [Emit(L, Drops(L, owned, escaped)) EXCEPT !.frames =
         [n \in DOMAIN @ |-> IF @[n].blocked THEN @[n] ELSE NewFrame]]

Mut_MarkEscaped(L, e) == L

\* mark_escaped_in_expression looks in the innermost frame.
MarkEscaped(L, e) ==
  IF e # New /\ TracksIn(Last(L.frames), e)
  THEN [L EXCEPT !.frames[Len(L.frames)].escaped = @ \cup {e}]
  ELSE L

Value(L, e) == IF e = New THEN <<Instr("new", NoSlot)>> ELSE <<Instr("load", L.slotOf[e])>>

Mut_Owning(L, e) == Value(L, e)

\* Another local's string is shared, a new one is the slot's own.
Owning(L, e) == Value(L, e) \o IF e = New THEN << >> ELSE <<Instr("retain", NoSlot)>>

\* The slot's string is replaced by the value.
Rebind(slot) == <<Instr("drop", slot), Instr("put", slot)>>

\* Statement::Let.
Declare(L, x, e) ==
  LET slot  == L.slots + 1
      named == Track([Emit(L, <<Instr("clear", slot)>>) EXCEPT
                        !.slots = slot, !.slotOf[x] = slot], x, slot)
  IN  Emit(named, Owning(named, e) \o Rebind(slot))

\* Statement::Assignment to a variable.
Assign(L, x, e) ==
  Track(Emit(L, Owning(L, e) \o Rebind(L.slotOf[x])), x, L.slotOf[x])

\* Statement::Move: a slot for the target, and nothing else.
Move(L, x, y) ==
  LET slot == L.slots + 1
  IN  Emit([L EXCEPT !.slots = slot, !.slotOf[x] = slot],
           <<Instr("load", L.slotOf[y]), Instr("put", slot)>>)

\* Statement::Return.
Return(L, e) ==
  LET valued == Emit(L, Value(L, e))
      done   == ReleaseAll(MarkEscaped(valued, e))
  IN  [End(done, done.here, "ret", <<L.returns + 1>>) EXCEPT !.returns = @ + 1]

\* Statement::Break and Continue.
Jump(L, to) ==
  LET after == AddBlocks([L EXCEPT !.frames[Len(L.frames)].blocked = TRUE], 1)
  IN  At(End(after, L.here, "br", <<to>>), NextBlockId(L))

\* Statement::If: the branches, then what joins them.
OpenIf(L) == At(AddBlocks(L, 1), NextBlockId(L))
OpenElse(L) == At(AddBlocks(L, 1), NextBlockId(L))
CloseIf(L, before, thenBlock, thenLast, elseBlock) ==
  LET join   == NextBlockId(L)
      joined == EndIfOpen(EndIfOpen(AddBlocks(L, 1), thenLast, join), L.here, join)
  IN  At(End(joined, before, "brcond", <<thenBlock, elseBlock>>), join)

\* Statement::While: blocks for the condition, the body and what follows; the
\* body is a scope.
OpenWhile(L) == BeginScope(At(AddBlocks(L, 3), NextBlockId(L) + 1))
CloseWhile(L, before, cond) ==
  LET released == EndScope(L)
      looped   == EndIfOpen(released, released.here, cond)
      tested   == End(looped, cond, "brcond", <<cond + 1, cond + 2>>)
  IN  At(End(tested, before, "br", <<cond>>), cond + 2)

\* Statement::For and Find: condition, body, increment, what follows; no scope.
OpenFor(L) == At(AddBlocks(L, 4), NextBlockId(L) + 1)
CloseFor(L, before, cond) ==
  LET looped == EndIfOpen(L, L.here, cond + 2)
      next   == End(looped, cond + 2, "br", <<cond>>)
      tested == End(next, cond, "brcond", <<cond + 1, cond + 3>>)
  IN  At(End(tested, before, "br", <<cond>>), cond + 3)

\* lower_function_body: a body that ends in neither a return nor an open block
\* is released.
Finished(L) ==
  IF L.blocks[L.here].end.op \in {"ret", "unreachable"} THEN L ELSE EndScope(L)

----------------------------------------------------------------------------
(* The function being written.  An open block has its kind, the ids of MIR *)
(* blocks it is closed with, the names declared in it, those of them moved *)
(* away or moved to, and whether a return or a jump has ended it.          *)

Opened(kind, ids) == [kind |-> kind, ids |-> ids, names |-> {},
                      moved |-> {}, given |-> {}, over |-> FALSE]
Here == Last(open)

InScope == UNION {open[n].names : n \in DOMAIN open}
Usable  == InScope \ UNION {open[n].moved : n \in DOMAIN open}
Given   == UNION {open[n].given : n \in DOMAIN open}

WhilesIn(n) == {k \in n..Len(open) : open[k].kind = "while"}
Loops       == {k \in DOMAIN open : open[k].kind \in {"while", "for"}}
ForsSinceWhile == {k \in DOMAIN open : open[k].kind = "for" /\ WhilesIn(k) = {}}
DeclaredAt(x) == CHOOSE n \in DOMAIN open : x \in open[n].names

\* A name is assigned, returned or passed on from where it is usable.
Values == Usable \cup {New}

\* One more statement, lowered, doing such things.
Write(word, things, blocks, lowered) ==
  LET all == things \cup IF Here.over THEN {"goes on after a return"} ELSE {}
  IN  /\ phase = "write" /\ word \in words /\ left > 0
      /\ all \cap Strays \subseteq Allowed
      /\ left' = left - 1 /\ does' = does \cup all
      /\ open' = blocks /\ lower' = lowered
      /\ UNCHANGED <<words, phase, machine>>

If(condition, thing) == IF condition THEN {thing} ELSE {}
Marked == Mark(lower, Usable)
AtEnd  == IF Here.over THEN lower ELSE Marked
InHere(block) == Append(Front(open), block)
Ended == InHere([Here EXCEPT !.over = TRUE])

WriteLet(x, e) ==
  /\ x \notin InScope
  /\ Write("let",
           If(WhilesIn(1) # {} /\ Here.kind # "while",
              "declares under a condition in a while body")
           \cup If(lower.slotOf[x] # NoSlot, "declares a name again")
           \cup If(ForsSinceWhile # {}, "declares in a for body"),
           InHere([Here EXCEPT !.names = @ \cup {x}]), Declare(Marked, x, e))

WriteAssignment(x, e) ==
  /\ x \in InScope
  /\ Write("assign",
           If(Tracking(lower, x) = {} /\ WhilesIn(DeclaredAt(x) + 1) # {},
              "rebinds an outer local in a while body after a return")
           \cup If(x \in Given \/ x \notin Usable, "returns or rebinds a moved string"),
           open, Assign(Marked, x, e))

WriteMove(x, y) ==
  /\ x \notin InScope /\ y \in Here.names
  /\ Write("move", If(lower.slotOf[x] # NoSlot, "declares a name again"),
           InHere([Here EXCEPT !.names = @ \cup {x}, !.moved = @ \cup {y},
                               !.given = @ \cup {x}]),
           Move(Marked, x, y))

WriteReturn(e) ==
  Write("return",
        If(e # New /\ Tracking(lower, e) # {} /\ Len(lower.frames) \notin Tracking(lower, e),
           "returns an outer local from a while body")
        \cup If(e \in Given, "returns or rebinds a moved string")
        \cup If(WhilesIn(1) # {}, "returns from a while body"),
        Ended, Return(Marked, e))

WriteBreak ==
  /\ Loops # {}
  /\ LET loop == open[Max(Loops)]
     IN  Write("break", {"jumps"}, Ended,
               Jump(Marked, loop.ids[2] + IF loop.kind = "while" THEN 2 ELSE 3))

WriteContinue ==
  /\ Loops # {}
  /\ LET loop == open[Max(Loops)]
     IN  Write("continue", {"jumps"}, Ended,
               Jump(Marked, loop.ids[2] + IF loop.kind = "while" THEN 0 ELSE 2))

WriteIf ==
  Write("if", {}, Append(open, Opened("if", <<lower.here, NextBlockId(lower)>>)),
        OpenIf(Marked))
WriteWhile ==
  Write("while", {}, Append(open, Opened("while", <<lower.here, NextBlockId(lower)>>)),
        OpenWhile(Marked))
WriteFor ==
  Write("for", {}, Append(open, Opened("for", <<lower.here, NextBlockId(lower)>>)),
        OpenFor(Marked))

\* The end of a block is no statement.
Close(kind, blocks, lowered) ==
  /\ phase = "write" /\ Here.kind = kind
  /\ open' = blocks /\ lower' = lowered
  /\ UNCHANGED <<words, left, does, phase, machine>>

CloseThen ==
  Close("if", InHere(Opened("else", Here.ids \o <<lower.here, NextBlockId(lower)>>)),
        OpenElse(AtEnd))
CloseElse ==
  Close("else", Front(open),
        CloseIf(AtEnd, Here.ids[1], Here.ids[2], Here.ids[3], Here.ids[4]))
EndWhile == Close("while", Front(open), CloseWhile(AtEnd, Here.ids[1], Here.ids[2]))
EndFor   == Close("for", Front(open), CloseFor(AtEnd, Here.ids[1], Here.ids[2]))

----------------------------------------------------------------------------
(* The run.  Every slot is reserved, empty, when the function is entered.  *)
(* A string is the text it was made with; "means" is the text a slot would *)
(* hold if nothing were ever released.                                     *)

Entered(L) ==
  [at |-> 1, line |-> 1, turns |-> 0, made |-> 0, arena |-> NoStrings,
   value |-> [at |-> Null, text |-> Garbage], return |-> 0,
   slots |-> [s \in 1..L.slots |-> Null], means |-> [s \in 1..L.slots |-> Garbage]]

Asleep == Entered(Start)

Done(m, i) ==
  CASE i.op = "clear" -> [m EXCEPT !.slots[i.slot] = Null]
    [] i.op = "new" -> [m EXCEPT !.made = @ + 1,
                          !.arena = Allocated(@, m.made + 1),
                          !.value = [at |-> NextBlock(m.arena, m.made + 1),
                                     text |-> m.made + 1]]
    [] i.op = "load" -> [m EXCEPT !.value = [at |-> m.slots[i.slot],
                                             text |-> m.means[i.slot]]]
    [] i.op = "retain" -> [m EXCEPT !.arena = Retained(@, m.value.at)]
    [] i.op = "drop" -> [m EXCEPT !.arena = Released(@, m.slots[i.slot])]
    [] i.op = "put" -> [m EXCEPT !.slots[i.slot] = m.value.at,
                                 !.means[i.slot] = m.value.text]

Code == lower.blocks[machine.at].code
Exit == lower.blocks[machine.at].end

\* A shorter function is the beginning of one of full size, unless it returns.
Run ==
  /\ phase = "write" /\ Len(open) = 1 /\ (left = 0 \/ Here.over)
  /\ phase' = "run" /\ lower' = Finished(lower) /\ machine' = Entered(lower)
  /\ UNCHANGED <<words, left, does, open>>

\* One statement's instructions.
Statement ==
  /\ phase = "run" /\ machine.line \in DOMAIN Code /\ machine.made < MaxStrings
  /\ machine' = [FoldLeft(Done, machine, Code[machine.line].does) EXCEPT !.line = @ + 1]
  /\ UNCHANGED <<words, left, does, open, lower, phase>>

GoTo(block, turn) ==
  /\ machine' = [machine EXCEPT !.at = block, !.line = 1, !.turns = @ + turn]
  /\ UNCHANGED phase

Terminator ==
  /\ phase = "run" /\ machine.line \notin DOMAIN Code
  /\ \/ Exit.op = "br" /\ GoTo(Exit.to[1], 0)
     \/ /\ Exit.op = "brcond" /\ machine.turns < MaxTurns
        /\ \E n \in {1, 2} : GoTo(Exit.to[n], 1)
     \/ /\ Exit.op = "ret"
        /\ phase' = "returned" /\ machine' = [machine EXCEPT !.return = Exit.to[1]]
     \/ Exit.op = "unreachable" /\ phase' = "fell" /\ UNCHANGED machine
  /\ UNCHANGED <<words, left, does, open, lower>>

Init ==
  /\ \E v \in Vocabularies : words = v.words /\ left = v.size
  /\ does = {} /\ open = <<Opened("body", << >>)>>
  /\ lower = Start /\ phase = "write" /\ machine = Asleep

Next ==
  \/ \E x \in Names, e \in Values : WriteLet(x, e) \/ WriteAssignment(x, e)
  \/ \E x \in Names, y \in Usable : WriteMove(x, y)
  \/ \E e \in Values : WriteReturn(e)
  \/ WriteBreak \/ WriteContinue
  \/ WriteIf \/ CloseThen \/ CloseElse
  \/ WriteWhile \/ EndWhile \/ WriteFor \/ EndFor
  \/ Run \/ Statement \/ Terminator

Spec == Init /\ [][Next]_vars

----------------------------------------------------------------------------
Holds(b, text) == b \in Live(machine.arena) /\ TextAt(machine.arena, b) = text

\* No release takes a string that a local in scope still stands for: wherever
\* the run is, every such local has the text assigned to it last.
LocalsHold ==
  phase = "run" /\ machine.line \in DOMAIN Code =>
    \A s \in Code[machine.line].sees : Holds(machine.slots[s], machine.means[s])

\* The caller gets a string that nothing has released.
ReturnedHolds == phase = "returned" => Holds(machine.value.at, machine.value.text)

\* No release takes a string that is still in use, in the function or by its caller.
StringsHold == LocalsHold /\ ReturnedHolds

\* A return releases all there is but its value, to which one reference is
\* left.  This goes for the first return in the text, in functions that do
\* nothing of Untidy.
ReturnReleases ==
  phase = "returned" /\ machine.return = 1 /\ does \cap Untidy = {} =>
    /\ Live(machine.arena) = {machine.value.at}
    /\ machine.arena.blocks[machine.value.at].refs = 1
=============================================================================
