---------------------------- MODULE BorrowCheck -----------------------------
(***************************************************************************)
(* The borrow checker of src/compiler/borrowck, and what it is meant to    *)
(* exclude.                                                                *)
(*                                                                         *)
(* The first part is the checker: scopes of binding states, looked up by   *)
(* name, walked over the statements of a function.  The second part runs   *)
(* the same statements: names stand for locations, references are values   *)
(* that point to locations, branches and loops go either way.  A state of  *)
(* the specification is a function body; each body of a bounded size is    *)
(* checked and run.                                                        *)
(*                                                                         *)
(* Bodies are well scoped and well typed: the parser and the type checker  *)
(* come first.  The data type of a variable is its Kind.                   *)
(***************************************************************************)
EXTENDS Integers, FiniteSets, SequencesExt

CONSTANTS
  Names,         \* variables of the function
  Kind,          \* what a name holds: "owned", "shared" or "excl"
  Params,        \* the names that are parameters
  Vocabularies,  \* sets of statements without a body: a function uses one of them
  MaxSize,       \* bound: statements of a function, nested ones included
  MaxTurns       \* bound: iterations of a loop that is run

ASSUME BorrowAssumption ==
  /\ Kind \in [Names -> {"owned", "shared", "excl"}]
  /\ Params \subseteq Names
  /\ MaxSize \in Nat /\ MaxTurns \in Nat \ {0}

VARIABLES
  leaves,   \* the vocabulary of this function
  open      \* the blocks being written, the outermost first
vars == <<leaves, open>>

----------------------------------------------------------------------------
\* Syntax.  Every statement has an op; those with bodies have a sequence of them.

Lit == [op |-> "lit"]
Use(x) == [op |-> "use", name |-> x]
Ref(x, m) == [op |-> "ref", name |-> x, mut |-> m]
MoveOut(x) == [op |-> "move", name |-> x]              \* move::(x), as the tests of the checker build it
Wrap(x) == [op |-> "wrap", name |-> x]                 \* Ok(x), Err(x), Some(x), x?
Call(mode, a) == [op |-> "call", mode |-> mode, arg |-> a]
Closure(x) == [op |-> "closure", name |-> x]           \* a closure that captures x

Let(x, e) == [op |-> "let", name |-> x, value |-> e]
Assign(x, e) == [op |-> "assign", name |-> x, value |-> e]
AssignField(x, e) == [op |-> "field", name |-> x, value |-> e]
MoveTo(x, y) == [op |-> "moveto", name |-> x, value |-> Use(y)]  \* move::(y) to x
Drop(x) == [op |-> "drop", name |-> x]
Eval(e) == [op |-> "eval", value |-> e]
Return(e) == [op |-> "return", value |-> e]
Break == [op |-> "break"]
Branch(bodies) == [op |-> "branch", bodies |-> bodies]     \* if, match
Loop(b) == [op |-> "loop", bodies |-> <<b>>]               \* while, for, find
Unsafe(b) == [op |-> "unsafe", bodies |-> <<b>>]

HasBodies(s) == s.op \in {"branch", "loop", "unsafe"}
HasValue(s) == s.op \in {"let", "assign", "field", "moveto", "eval", "return"}

\* The statements of ss and of the bodies in it.
RECURSIVE Nested(_)
Nested(ss) ==
  ToSet(ss) \cup UNION {UNION {Nested(b) : b \in ToSet(s.bodies)} : s \in {t \in ToSet(ss) : HasBodies(t)}}

----------------------------------------------------------------------------
\* The checker: scopes, the innermost last, the nesting of unsafe blocks, and
\* the error, which ends the walk.

NoError == "none"
Fresh == [moved |-> FALSE, shared |-> 0, excl |-> FALSE, refs |-> <<>>]
NoBindings == [x \in {} |-> Fresh]

Start == [scopes |-> <<NoBindings, [x \in Params |-> Fresh]>>, unsafe |-> 0, err |-> NoError]

\* ownership_error: the first error is the result.
Fail(c, e) == IF c.err = NoError THEN [c EXCEPT !.err = e] ELSE c

DepthOf(scopes, x) ==
  LET ds == {d \in DOMAIN scopes : x \in DOMAIN scopes[d]} IN
    IF ds = {} THEN 0 ELSE Max(ds)

\* lookup_binding, lookup_binding_mut
Bound(c, x) == DepthOf(c.scopes, x) # 0
Binding(c, x) == c.scopes[DepthOf(c.scopes, x)][x]
Update(c, x, b) ==
  IF Bound(c, x) THEN [c EXCEPT !.scopes[DepthOf(c.scopes, x)][x] = b] ELSE c

MarkMoved(c, x) == Update(c, x, [Binding(c, x) EXCEPT !.moved = TRUE])
Revived(c, x) == Update(c, x, [Binding(c, x) EXCEPT !.moved = FALSE])

Borrowed(b) == b.excl \/ b.shared > 0

EnsureAvailable(c, x) ==
  IF Bound(c, x) /\ Binding(c, x).moved THEN Fail(c, "UseAfterMove") ELSE c

EnsureCanWrite(c, x) ==
  IF c.unsafe > 0 THEN c
  ELSE IF ~Bound(c, x) THEN Fail(c, "UseAfterMove")
  ELSE IF Borrowed(Binding(c, x)) THEN Fail(c, "MutationWhileShared") ELSE c

\* ensure_can_move, ensure_can_drop
EnsureCanLeave(c, x, error) ==
  IF ~Bound(c, x) \/ Binding(c, x).moved THEN Fail(c, "UseAfterMove")
  ELSE IF c.unsafe = 0 /\ Borrowed(Binding(c, x)) THEN Fail(c, error) ELSE c

\* m: the new reference is mutable.
Mut_EnsureBorrowAllowed(c, x, m) ==
  IF c.unsafe > 0 THEN c
  ELSE IF ~Bound(c, x) \/ Binding(c, x).moved THEN Fail(c, "UseAfterMove")
  ELSE IF m /\ Binding(c, x).excl THEN Fail(c, "MultipleMutableRefs")
  ELSE IF Binding(c, x).excl THEN Fail(c, "MutationWhileShared") ELSE c
EnsureBorrowAllowed(c, x, m) ==
  IF c.unsafe > 0 THEN c
  ELSE IF ~Bound(c, x) \/ Binding(c, x).moved THEN Fail(c, "UseAfterMove")
  ELSE IF m /\ Binding(c, x).excl THEN Fail(c, "MultipleMutableRefs")
  ELSE IF Binding(c, x).excl \/ (m /\ Binding(c, x).shared > 0)
       THEN Fail(c, "MutationWhileShared") ELSE c

RegisterBorrow(c, ref) ==
  LET d == EnsureBorrowAllowed(c, ref.target, ref.mut)
      b == Binding(d, ref.target)
  IN  Update(d, ref.target,
             IF ref.mut THEN [b EXCEPT !.excl = TRUE] ELSE [b EXCEPT !.shared = @ + 1])

ReleaseBorrow(c, ref) ==
  LET b == Binding(c, ref.target) IN
    Update(c, ref.target,
           IF ref.mut THEN [b EXCEPT !.excl = FALSE]
                      ELSE [b EXCEPT !.shared = IF @ > 0 THEN @ - 1 ELSE 0])

Registered(c, refs) == FoldLeft(RegisterBorrow, c, refs)
Released(c, refs) == FoldLeft(ReleaseBorrow, c, refs)

\* collect_ref_targets
RefTargets(e) ==
  CASE e.op = "ref" -> <<[target |-> e.name, mut |-> e.mut]>>
    [] e.op = "closure" -> <<[target |-> e.name, mut |-> FALSE]>>
    [] OTHER -> <<>>

PushScope(c) == [c EXCEPT !.scopes = Append(@, NoBindings)]

\* pop_scope: the references of the popped bindings are released, by name, in
\* what remains.
Mut_PopScope(c) == [c EXCEPT !.scopes = Front(@)]
PopScope(c) ==
  LET scope == Last(c.scopes) IN
    FoldLeft(Released, [c EXCEPT !.scopes = Front(@)],
             [n \in 1 .. Cardinality(DOMAIN scope) |->
                scope[SetToSeq(DOMAIN scope)[n]].refs])

InsertBinding(c, x, b) ==
  LET d == Len(c.scopes)
      old == IF x \in DOMAIN c.scopes[d] THEN c.scopes[d][x].refs ELSE <<>>
  IN  Released([c EXCEPT !.scopes[d] = (x :> b) @@ @], old)

RebindReferences(c, x, refs) ==
  LET old == IF Bound(c, x) THEN Binding(c, x).refs ELSE <<>>
      d == Registered(Released(c, old), refs)
  IN  Update(d, x, [Binding(d, x) EXCEPT !.refs = refs])

\* merge_scopes, merge_multiple_scopes: the first branch, and moved where any
\* branch has moved.
Mut_Merged(branches) == branches[1]
Merged(branches) ==
  LET MergedScope(d) ==
        [x \in DOMAIN branches[1][d] |->
          [branches[1][d][x] EXCEPT !.moved =
             \E n \in DOMAIN branches : x \in DOMAIN branches[n][d] /\ branches[n][d][x].moved]]
  IN  FoldLeftDomain(LAMBDA scopes, d : Append(scopes, MergedScope(d)), <<>>, branches[1])

----------------------------------------------------------------------------
\* check_call_argument, for a parameter of type &T, &mut T or T
CheckArgument(c, mode, a) ==
  LET plain == a.op = "use" IN
  CASE mode = "shared" /\ a.op = "ref" ->
         IF a.mut THEN Fail(c, "MultipleMutableRefs") ELSE EnsureBorrowAllowed(c, a.name, FALSE)
    [] mode = "shared" /\ plain /\ Kind[a.name] = "owned" ->
         EnsureBorrowAllowed(c, a.name, FALSE)
    [] mode = "excl" /\ a.op = "ref" ->
         IF ~a.mut THEN Fail(c, "Type") ELSE EnsureBorrowAllowed(c, a.name, TRUE)
    [] mode = "excl" /\ plain /\ Kind[a.name] # "excl" ->
         EnsureBorrowAllowed(c, a.name, TRUE)
    [] mode = "owned" /\ plain ->
         MarkMoved(EnsureCanLeave(c, a.name, "MoveWhileBorrowed"), a.name)
    [] OTHER -> c

\* is_copy_data_type: references are; the other variables hold lists, structures
\* and the like.
IsCopy(x) == Kind[x] # "owned"

RECURSIVE CheckExpression(_, _)
CheckExpression(c, e) ==
  CASE e.op = "lit" -> c
    [] e.op = "use" -> EnsureAvailable(c, e.name)
    [] e.op = "ref" -> EnsureBorrowAllowed(EnsureAvailable(c, e.name), e.name, e.mut)
    [] e.op = "move" ->
         MarkMoved(EnsureCanLeave(EnsureAvailable(c, e.name), e.name, "MoveWhileBorrowed"), e.name)
    [] e.op = "wrap" ->
         IF IsCopy(e.name) THEN EnsureAvailable(c, e.name)
                           ELSE MarkMoved(EnsureAvailable(c, e.name), e.name)
    [] e.op = "call" -> CheckArgument(CheckExpression(c, e.arg), e.mode, e.arg)
    [] e.op = "closure" -> RegisterBorrow(c, [target |-> e.name, mut |-> FALSE])

\* ensure_return_is_safe: every local name is one of the function's own.
EnsureReturnIsSafe(c, e) ==
  IF e.op = "ref" /\ Kind[e.name] = "owned"
  THEN Fail(c, IF e.mut THEN "UnsafeViolation" ELSE "BorrowOutOfScope") ELSE c

\* The names that pass 1 of a loop has moved.
MovedBy(before, after) ==
  UNION {{x \in DOMAIN before[d] : ~before[d][x].moved /\ after[d][x].moved} : d \in DOMAIN before}

RECURSIVE CheckStatements(_, _), CheckStatement(_, _)

CheckStatements(c, ss) == FoldLeft(CheckStatement, c, ss)

CheckScope(c, ss) == PopScope(CheckStatements(PushScope(c), ss))

CheckBranches(c, bodies) ==
  LET Arm(a, ss) == LET d == CheckScope([a.c EXCEPT !.scopes = c.scopes], ss)
                    IN  [c |-> d, ends |-> Append(a.ends, d.scopes)]
      all == FoldLeft(Arm, [c |-> c, ends |-> <<>>], bodies)
  IN  [all.c EXCEPT !.scopes = Merged(all.ends)]

CheckLoop(c, ss) ==
  LET once == CheckScope(c, ss)
      moved == MovedBy(c.scopes, once.scopes)
  IN  IF moved = {} THEN once
      ELSE CheckScope(FoldLeft(MarkMoved, [once EXCEPT !.scopes = c.scopes], SetToSeq(moved)), ss)

CheckLet(c, s) ==
  LET d == Registered(CheckExpression(c, s.value), RefTargets(s.value)) IN
    InsertBinding(d, s.name, [Fresh EXCEPT !.refs = RefTargets(s.value)])

CheckAssignment(c, s) ==
  LET d == CheckExpression(EnsureCanWrite(c, s.name), s.value) IN
    Revived(IF s.op = "field" THEN d ELSE RebindReferences(d, s.name, RefTargets(s.value)), s.name)

CheckDrop(c, x) ==
  MarkMoved(EnsureCanLeave(EnsureAvailable(c, x), x, "DropWhileBorrowed"), x)

CheckMove(c, s) ==
  LET y == s.value.name
      d == MarkMoved(EnsureCanLeave(CheckExpression(c, s.value), y, "MoveWhileBorrowed"), y)
  IN  InsertBinding(d, s.name, Fresh)

CheckUnsafe(c, ss) ==
  LET d == CheckScope([c EXCEPT !.unsafe = @ + 1], ss) IN [d EXCEPT !.unsafe = c.unsafe]

CheckStatement(c, s) ==
  IF c.err # NoError THEN c ELSE
  CASE s.op = "let" -> CheckLet(c, s)
    [] s.op \in {"assign", "field"} -> CheckAssignment(c, s)
    [] s.op = "moveto" -> CheckMove(c, s)
    [] s.op = "drop" -> CheckDrop(c, s.name)
    [] s.op = "eval" -> CheckExpression(c, s.value)
    [] s.op = "return" -> EnsureReturnIsSafe(CheckExpression(c, s.value), s.value)
    [] s.op = "break" -> c
    [] s.op = "branch" -> CheckBranches(c, s.bodies)
    [] s.op = "loop" -> CheckLoop(c, s.bodies[1])
    [] s.op = "unsafe" -> CheckUnsafe(c, s.bodies[1])

HasExplicitReturn(ss) == \E s \in Nested(ss) : s.op = "return"
\* implicit_return_expression
ImplicitReturn(ss) == ss # <<>> /\ Last(ss).op = "eval"

\* A function: without a return statement, its last expression is what it returns.
CheckFunction(ss) ==
  LET end == CheckStatements(Start, ss) IN
    IF end.err = NoError /\ ~HasExplicitReturn(ss) /\ ImplicitReturn(ss)
    THEN EnsureReturnIsSafe(end, Last(ss).value) ELSE end

Verdict(ss) == CheckFunction(ss).err
Accepted(ss) == Verdict(ss) = NoError

----------------------------------------------------------------------------
\* The meaning: a name stands for a location, a location has been moved from
\* or not and holds references to other locations.  A reference is active as
\* long as some name in scope stands for the location that holds it.

RunStart ==
  LET loc == SetToSeq(Params) IN
    [env |-> <<[x \in Params |-> CHOOSE n \in DOMAIN loc : loc[n] = x]>>,
     mem |-> [n \in DOMAIN loc |-> [moved |-> FALSE, refs |-> {}]],
     unsafe |-> 0, exit |-> "none", err |-> NoError]

Loc(r, x) == r.env[DepthOf(r.env, x)][x]

References(r) == UNION {UNION {r.mem[scope[y]].refs : y \in DOMAIN scope} : scope \in ToSet(r.env)}

RefsTo(r, x) == {q \in References(r) : q.loc = Loc(r, x)}

MustBeLive(r, x) == IF r.mem[Loc(r, x)].moved THEN Fail(r, "UseAfterMove") ELSE r

MustBeFree(r, x, error) == IF r.unsafe = 0 /\ RefsTo(r, x) # {} THEN Fail(r, error) ELSE r

MustBeLendable(r, x, m) ==
  IF r.unsafe > 0 \/ \A q \in RefsTo(r, x) : ~m /\ ~q.mut THEN r
  ELSE Fail(r, IF m /\ \E q \in RefsTo(r, x) : q.mut THEN "MultipleMutableRefs"
                                                     ELSE "MutationWhileShared")

Leave(r, x, error) ==
  [MustBeFree(MustBeLive(r, x), x, error) EXCEPT !.mem[Loc(r, x)].moved = TRUE]

RECURSIVE Evaluate(_, _)
Evaluate(r, e) ==
  CASE e.op = "lit" -> r
    [] e.op = "use" -> MustBeLive(r, e.name)
    [] e.op = "ref" -> MustBeLendable(MustBeLive(r, e.name), e.name, e.mut)
    [] e.op = "closure" -> MustBeLendable(MustBeLive(r, e.name), e.name, FALSE)
    [] e.op \in {"move", "wrap"} -> Leave(r, e.name, "MoveWhileBorrowed")
    [] e.op = "call" ->
         IF e.arg.op # "use" THEN Evaluate(r, e.arg)
         ELSE IF e.mode = "owned" THEN Leave(r, e.arg.name, "MoveWhileBorrowed")
         ELSE MustBeLendable(MustBeLive(r, e.arg.name), e.arg.name, e.mode = "excl")

\* The references a value holds.
Held(r, e) ==
  CASE e.op = "ref" -> {[loc |-> Loc(r, e.name), mut |-> e.mut]}
    [] e.op = "closure" -> {[loc |-> Loc(r, e.name), mut |-> FALSE]}
    [] e.op \in {"use", "move"} -> r.mem[Loc(r, e.name)].refs
    [] OTHER -> {}

\* A second copy of an exclusive reference is a second exclusive reference.
Copied(r, e) ==
  IF r.unsafe = 0 /\ e.op = "use" /\ \E q \in Held(r, e) : q.mut
  THEN Fail(r, "MultipleMutableRefs") ELSE r

Declare(r, x, refs) ==
  [r EXCEPT !.mem = Append(@, [moved |-> FALSE, refs |-> refs]),
            !.env[Len(r.env)] = (x :> Len(r.mem) + 1) @@ @]

Enter(r) == [r EXCEPT !.env = Append(@, <<>>)]

\* No reference outlives what it refers to.
Exit(r) ==
  LET out == [r EXCEPT !.env = Front(@)]
      gone == {Last(r.env)[x] : x \in DOMAIN Last(r.env)}
  IN  IF \E q \in References(out) : q.loc \in gone THEN Fail(out, "BorrowOutOfScope") ELSE out

RECURSIVE Runs(_, _), RunsOf(_, _), Turns(_, _, _)

Runs(r, ss) ==
  IF ss = <<>> THEN {r} ELSE UNION {Runs(q, Tail(ss)) : q \in RunsOf(r, Head(ss))}

Block(r, ss) == {Exit(q) : q \in Runs(Enter(r), ss)}

\* A loop stops before any turn, after the last of the bound, or by break.
Turns(r, ss, n) ==
  {r} \cup
  IF n = 0 THEN {} ELSE
    UNION {IF q.exit = "break" THEN {[q EXCEPT !.exit = "none"]}
           ELSE IF q.exit = "return" \/ q.err # NoError THEN {q}
           ELSE Turns(q, ss, n - 1) : q \in Block(r, ss)}

RunsOf(r, s) ==
  IF r.err # NoError \/ r.exit # "none" THEN {r} ELSE
  CASE s.op = "let" ->
         LET q == Copied(Evaluate(r, s.value), s.value) IN
           {Declare(q, s.name, Held(q, s.value))}
    [] s.op = "assign" ->
         LET q == Copied(Evaluate(MustBeFree(r, s.name, "MutationWhileShared"), s.value), s.value) IN
           {[q EXCEPT !.mem[Loc(q, s.name)] = [moved |-> FALSE, refs |-> Held(q, s.value)]]}
    [] s.op = "field" ->
         {Evaluate(MustBeFree(MustBeLive(r, s.name), s.name, "MutationWhileShared"), s.value)}
    [] s.op = "moveto" ->
         LET refs == Held(r, s.value) IN
           {Declare(Leave(r, s.value.name, "MoveWhileBorrowed"), s.name, refs)}
    [] s.op = "drop" -> {Leave(r, s.name, "DropWhileBorrowed")}
    [] s.op = "eval" -> {Evaluate(r, s.value)}
    [] s.op = "return" ->
         LET q == Evaluate(r, s.value) IN
           {[IF s.value.op = "ref" THEN Fail(q, "BorrowOutOfScope") ELSE q EXCEPT !.exit = "return"]}
    [] s.op = "break" -> {[r EXCEPT !.exit = "break"]}
    [] s.op = "branch" -> UNION {Block(r, b) : b \in ToSet(s.bodies)}
    [] s.op = "loop" -> Turns(r, s.bodies[1], MaxTurns)
    [] s.op = "unsafe" ->
         {[q EXCEPT !.unsafe = r.unsafe] : q \in Block([r EXCEPT !.unsafe = @ + 1], s.bodies[1])}

RunErrors(ss) == {r.err : r \in Runs(RunStart, ss)} \ {NoError}

----------------------------------------------------------------------------
\* Writing a function: a statement at the end of the innermost open block, a
\* new block, the next arm of a branch, the end of a block.

RECURSIVE Size(_)
Size(ss) ==
  LET SizeOf(s) == IF HasBodies(s) THEN 1 + FoldLeft(LAMBDA n, b : n + Size(b), 0, s.bodies) ELSE 1
  IN  FoldLeft(LAMBDA n, s : n + SizeOf(s), 0, ss)

Closed(frame) ==
  CASE frame.op = "loop" -> Loop(frame.stmts)
    [] frame.op = "unsafe" -> Unsafe(frame.stmts)
    [] frame.op = "branch" -> Branch(<<frame.stmts, <<>>>>)        \* no else yet
    [] frame.op = "else" -> Branch(<<frame.first, frame.stmts>>)

\* The function, were it to end here.
Ending(End(_)) ==
  LET Body[n \in 1 .. Len(open)] ==
        open[n].stmts \o IF n = Len(open) THEN <<>>
                         ELSE <<End([open[n + 1] EXCEPT !.stmts = Body[n + 1]])>>
  IN  Body[1]

Body == Ending(Closed)

\* What has been checked by the time the checker reaches the end of the
\* innermost block: an open loop has not had its second pass.
Reached == Ending(LAMBDA f : IF f.op = "loop" THEN Branch(<<f.stmts>>) ELSE Closed(f))

Declared(ss) == {s.name : s \in {t \in ToSet(ss) : t.op \in {"let", "moveto"}}}
Visible == Params \cup UNION {Declared(open[n].stmts) : n \in DOMAIN open}

Mentioned(s) ==
  (IF s.op \in {"assign", "field", "drop"} THEN {s.name} ELSE {}) \cup
  IF ~HasValue(s) \/ s.value.op = "lit" THEN {}
  ELSE IF s.value.op # "call" THEN {s.value.name}
  ELSE IF s.value.arg.op = "lit" THEN {} ELSE {s.value.arg.name}

Frame(op) == [op |-> op, stmts |-> <<>>, first |-> <<>>]
Top == open[Len(open)]

Init == leaves \in Vocabularies /\ open = <<Frame("function")>>

\* What is rejected so far stays rejected.
CanGrow ==
  /\ Size(Body) < MaxSize /\ CheckStatements(Start, Reached).err = NoError
  /\ UNCHANGED leaves

Write(s) ==
  /\ CanGrow
  /\ Mentioned(s) \subseteq Visible
  /\ s.op = "break" => \E n \in DOMAIN open : open[n].op = "loop"
  /\ open' = [open EXCEPT ![Len(open)].stmts = Append(@, s)]

Open(op) == CanGrow /\ open' = Append(open, Frame(op))

Else ==
  /\ Top.op = "branch"
  /\ open' = [open EXCEPT ![Len(open)] = [Frame("else") EXCEPT !.first = Top.stmts]]
  /\ UNCHANGED leaves

Close ==
  /\ Len(open) > 1 /\ Top.stmts # <<>>
  /\ open' = [Front(open) EXCEPT ![Len(open) - 1].stmts = Append(@, Closed(Top))]
  /\ UNCHANGED leaves

Next == (\E s \in leaves : Write(s)) \/ (\E op \in {"branch", "loop", "unsafe"} : Open(op)) \/ Else \/ Close

Spec == Init /\ [][Next]_vars

----------------------------------------------------------------------------
Values(op) == {s \in Nested(Body) : HasValue(s) /\ s.value.op = op}
Ops == {s.op : s \in Nested(Body)}

RECURSIVE DeclaredTwice(_, _)
DeclaredTwice(seen, ss) ==
  IF ss = <<>> THEN FALSE
  ELSE LET s == Head(ss)
           here == IF s.op \in {"let", "moveto"} THEN {s.name} ELSE {}
       IN  \/ here \cap seen # {}
           \/ HasBodies(s) /\ \E b \in ToSet(s.bodies) : DeclaredTwice(seen, b)
           \/ DeclaredTwice(seen \cup here, Tail(ss))

\* Where the checker follows moves: no write to a field, no assignment in a loop.
MoveFragment ==
  /\ "field" \notin Ops
  /\ \A s \in Nested(Body) : s.op = "loop" => \A t \in Nested(s.bodies[1]) : t.op # "assign"
  /\ \A s \in Nested(Body) : s.op = "unsafe" =>
       \A t \in Nested(s.bodies[1]) : HasValue(t) => t.value.op # "closure"

\* Where the checker follows borrows: a name is declared once, a reference is
\* bound once and not copied, nothing borrowed is wrapped.
BorrowFragment ==
  /\ ~DeclaredTwice(Params, Body)
  /\ \A s \in Nested(Body) : s.op = "assign" => Kind[s.name] = "owned"
  /\ Values("wrap") = {}
  /\ \A s \in Values("use") : Kind[s.value.name] = "owned" \/ s.op \in {"eval", "return"}

\* A function that the checker accepts uses no value that has been moved out,
\* on any path through its branches and loops (check_statement_inner keeps one
\* state per variable for all paths and checks a loop at most twice).
MovesSound ==
  Len(open) = 1 /\ MoveFragment /\ Accepted(Body) => "UseAfterMove" \notin RunErrors(Body)

\* A function that the checker accepts never writes, moves or drops what an
\* active reference refers to, nor has two references of which one is
\* exclusive: the counts of register_borrow and release_borrow, kept by name,
\* agree with the references that exist.
BorrowsSound ==
  Len(open) = 1 /\ MoveFragment /\ BorrowFragment /\ Accepted(Body) => RunErrors(Body) = {}

\* Where there is one path, the checker reports the error that the run meets
\* and no other: it rejects no function for a borrow that has ended.
ExactOnOnePath ==
  Len(open) = 1 /\ MoveFragment /\ BorrowFragment /\ Ops \cap {"branch", "loop", "return"} = {}
    /\ Values("closure") = {}
  => RunErrors(Body) = {Verdict(Body)} \ {NoError}

=============================================================================
