---------------------------- MODULE MirOptimizer ---------------------------
(***************************************************************************)
(* The optimizer of src/compiler/mir/optimize and the inliner before it,   *)
(* on what lowering gives them.                                            *)
(*                                                                         *)
(* A program is a few functions, main among them.  It is lowered, its      *)
(* small functions are inlined one after the other, and every function     *)
(* that is left goes through the passes until a round changes nothing.     *)
(* The reference is a run of the instructions: whatever has been done so   *)
(* far, the program says and returns what it did when it left lowering.    *)
(*                                                                         *)
(* Values are integers of Width bits and booleans.  Ids of blocks and      *)
(* temporaries begin with 1.                                               *)
(***************************************************************************)
EXTENDS Integers, FiniteSets, SequencesExt

CONSTANTS
  Width,         \* bits of an integer: 64
  Programs,      \* sequences of functions, each a name and a body
  Inputs,        \* arguments that main is run with
  MaxBlocks      \* bound: blocks that a run goes through

ASSUME OptimizerAssumption ==
  /\ Width \in Nat \ {0, 1} /\ MaxBlocks \in Nat /\ Inputs \subseteq Int
  /\ \A p \in Programs : \E i \in DOMAIN p : p[i].name = "main"

VARIABLES
  source,   \* the program as lowered: a sequence of functions
  program,  \* the program as it is now
  phase,    \* "inline", "optimize", "done", or "panicked": the compiler is aborted
  tried,    \* positions the inliner has looked at
  fn,       \* the function being optimized,
  pass,     \* the next pass over it,
  changed   \* and whether a pass of this round has changed it

vars == <<source, program, phase, tried, fn, pass, changed>>

----------------------------------------------------------------------------
\* Values, instructions, blocks.

Int64(n)  == [is |-> "int", of |-> n]
Bool(b)   == [is |-> "bool", of |-> IF b THEN 1 ELSE 0]
Temp(n)   == [is |-> "temp", of |-> n]
Param(n)  == [is |-> "param", of |-> n]
IsTemp(v) == v.is = "temp"
IsConst(v) == v.is \in {"int", "bool"}

None == 0   \* the result of an instruction that has none

Inst(result, op, args, to) == [result |-> result, op |-> op, args |-> args, to |-> to]
End(op, args, to) == [op |-> op, args |-> args, to |-> to]
Br(b) == End("br", <<>>, <<b>>)
Open == End("unreachable", <<>>, <<>>)
EmptyBlock == [insts |-> <<>>, end |-> Open]

Compares == {"eq", "ne", "lt", "le"}

Signed(n) == LET u == n % 2^Width IN IF u >= 2^(Width - 1) THEN u - 2^Width ELSE u
Least == -2^(Width - 1)
Quotient(x, y) == IF (x < 0) = (y < 0) THEN x \div y ELSE -((-x) \div y)

\* What code generation makes of an operation: >> is arithmetic.
Compare(op, x, y) ==
  LET holds == CASE op = "eq" -> x = y [] op = "ne" -> x # y [] op = "lt" -> x < y [] op = "le" -> x <= y
  IN  IF holds THEN 1 ELSE 0

\* Shifts, and the operations of booleans.
BitsOf(op, x, y) ==
  CASE op = "shl" -> Signed(x * 2^y)
    [] op = "shr" -> x \div 2^y
    [] op = "and" -> x * y
    [] op = "or" -> x + y - x * y

Compute(op, x, y) ==
  CASE op = "add" -> Signed(x + y)
    [] op = "sub" -> Signed(x - y)
    [] op = "mul" -> Signed(x * y)
    [] op = "sdiv" -> Signed(Quotient(x, y))
    [] op = "srem" -> x - y * Quotient(x, y)
    [] op \in Compares -> Compare(op, x, y)
    [] OTHER -> BitsOf(op, x, y)

----------------------------------------------------------------------------
\* Lowering.  L has the blocks of MirLower, the current one, the number of
\* temporaries, the one that is the address of each variable, and the blocks
\* that continue and break go to, a pair for each open loop.

\* Syntax.
Lit(n)         == [op |-> "lit", n |-> n]
Truth(b)       == [op |-> "truth", b |-> b]
Var            == [op |-> "var"]                       \* the one variable, the parameter
Bin(op, l, r)  == [op |-> op, l |-> l, r |-> r]
Neg(e)         == Bin("sub", Lit(0), e)
Not(e)         == Bin("eq", e, Truth(FALSE))
CallOf(f, e)   == [op |-> "call", f |-> f, e |-> e]

Set(e)         == [op |-> "set", e |-> e]
Say(e)         == [op |-> "say", e |-> e]              \* a call of the runtime
Do(e)          == [op |-> "do", e |-> e]               \* a call for its effect
Return(e)      == [op |-> "return", e |-> e]
Break          == [op |-> "break"]
Continue       == [op |-> "continue"]
If(c, b, d)    == [op |-> "if", c |-> c, bodies |-> <<b, d>>]
While(c, b)    == [op |-> "while", c |-> c, bodies |-> <<b>>]
Match(e, ns, bs) == [op |-> "match", e |-> e, ns |-> ns, bodies |-> bs]  \* the last body is the default
Choice(e, ns, es) == [op |-> "choice", e |-> e, ns |-> ns, es |-> es]    \* a match that has a value
DoWhile(c, b)  == [op |-> "dowhile", c |-> c, bodies |-> <<b>>]

\* push, with a new temporary for the result.
Emit(L, op, args, to) ==
  [L EXCEPT !.temps = @ + 1,
            !.blocks[L.here].insts = Append(@, Inst(L.temps + 1, op, args, to))]
EmitVoid(L, op, args, to) ==
  [L EXCEPT !.blocks[L.here].insts = Append(@, Inst(None, op, args, to))]
Newest(L) == Temp(L.temps)

AddBlocks(L, n) == [L EXCEPT !.blocks = @ \o [i \in 1..n |-> EmptyBlock]]
NextId(L) == Len(L.blocks) + 1
At(L, b) == [L EXCEPT !.here = b]
EndAt(L, b, end) == [L EXCEPT !.blocks[b].end = end]
EndIfOpen(L, b, to) == IF L.blocks[b].end = Open THEN EndAt(L, b, Br(to)) ELSE L

\* A call of panic ends the run; a division first tests its divisor.
LowerDivision(L, op, l, r) ==
  LET ok      == NextId(L)
      tested  == Emit(AddBlocks(L, 3), "eq", <<r, Int64(0)>>, "")
      split   == EndAt(tested, L.here, End("brcond", <<Newest(tested)>>, <<ok + 1, ok>>))
      panics  == EmitVoid(At(split, ok + 1), "call", <<>>, "panic")
      divided == Emit(At(panics, ok), op, <<l, r>>, "")
  IN  At(EndAt(divided, ok, Br(ok + 2)), ok + 2)

\* The tests of a match: a chain of them, then the cases, the default and the
\* end, in blocks made before any body is lowered.
CaseBlock(L, ns, i) == NextId(L) + Len(ns) + i - 1
EndBlock(L, ns) == NextId(L) + 2 * Len(ns) + 1

Tested(L, v, ns) ==
  LET n      == Len(ns)
      Test(M, i) ==
        LET chk == NextId(L) + i - 1
            T   == Emit(At(M, chk), "eq", <<v, Int64(ns[i])>>, "")
        IN  EndAt(T, chk, End("brcond", <<Newest(T)>>,
                              <<CaseBlock(L, ns, i), IF i < n THEN chk + 1 ELSE CaseBlock(L, ns, n + 1)>>))
  IN  FoldLeftDomain(Test, EndAt(AddBlocks(L, 2 * n + 2), L.here, Br(NextId(L))), ns)

\* lower_expression: the state after it, and its value.
RECURSIVE LowerExpression(_, _)

\* A match that has a value: each case stores its own in one slot.
LowerChoice(L, e) ==
  LET v    == LowerExpression(L, e.e)
      slot == Emit(v.lower, "alloca", <<>>, "")
      end  == EndBlock(slot, e.ns)
      Body(M, i) ==
        LET b == LowerExpression(At(M, CaseBlock(slot, e.ns, i)), e.es[i])
            S == EmitVoid(b.lower, "store", <<Newest(slot), b.value>>, "")
        IN  EndAt(S, S.here, Br(end))
      M    == Emit(At(FoldLeftDomain(Body, Tested(slot, v.value, e.ns), e.es), end), "load", <<Newest(slot)>>, "")
  IN  [lower |-> M, value |-> Newest(M)]

LowerExpression(L, e) ==
  CASE e.op = "lit" -> [lower |-> L, value |-> Int64(e.n)]
    [] e.op = "truth" -> [lower |-> L, value |-> Bool(e.b)]
    [] e.op = "var" ->
         LET M == Emit(L, "load", <<Temp(1)>>, "") IN [lower |-> M, value |-> Newest(M)]
    [] e.op = "call" ->
         LET a == LowerExpression(L, e.e)
             M == Emit(a.lower, "call", <<a.value>>, e.f)
         IN  [lower |-> M, value |-> Newest(M)]
    [] e.op = "choice" -> LowerChoice(L, e)
    [] OTHER ->
         LET l == LowerExpression(L, e.l)
             r == LowerExpression(l.lower, e.r)
             M == IF e.op \in {"sdiv", "srem"} THEN LowerDivision(r.lower, e.op, l.value, r.value)
                                              ELSE Emit(r.lower, e.op, <<l.value, r.value>>, "")
         IN  [lower |-> M, value |-> Newest(M)]

RECURSIVE LowerStatement(_, _)
LowerStatements(L, ss) == FoldLeft(LowerStatement, L, ss)

LowerIf(L, s) ==
  LET c      == LowerExpression(L, s.c)
      then   == LowerStatements(At(AddBlocks(c.lower, 1), NextId(c.lower)), s.bodies[1])
      else   == LowerStatements(At(AddBlocks(then, 1), NextId(then)), s.bodies[2])
      join   == NextId(else)
      joined == EndIfOpen(EndIfOpen(AddBlocks(else, 1), then.here, join), else.here, join)
  IN  At(EndAt(joined, c.lower.here,
               End("brcond", <<c.value>>, <<NextId(c.lower), NextId(then)>>)), join)

LowerWhile(L, s) ==
  LET cond   == NextId(L)
      c      == LowerExpression(At(AddBlocks(L, 1), cond), s.c)
      body   == NextId(c.lower)
      inside == LowerStatements([At(AddBlocks(c.lower, 2), body) EXCEPT !.loops = Append(@, <<cond, body + 1>>)],
                                s.bodies[1])
      looped == EndIfOpen([inside EXCEPT !.loops = L.loops], inside.here, cond)
      tested == EndAt(looped, c.lower.here, End("brcond", <<c.value>>, <<body, body + 1>>))
  IN  At(EndAt(tested, L.here, Br(cond)), body + 1)

LowerDoWhile(L, s) ==
  LET body   == NextId(L)
      inside == LowerStatements([At(AddBlocks(L, 3), body) EXCEPT !.loops = Append(@, <<body + 1, body + 2>>)],
                                s.bodies[1])
      looped == EndIfOpen([inside EXCEPT !.loops = L.loops], inside.here, body + 1)
      c      == LowerExpression(At(looped, body + 1), s.c)
      tested == EndAt(c.lower, c.lower.here, End("brcond", <<c.value>>, <<body, body + 2>>))
  IN  At(EndAt(tested, L.here, Br(body)), body + 2)

LowerMatch(L, s) ==
  LET v   == LowerExpression(L, s.e)
      end == EndBlock(v.lower, s.ns)
      Body(M, i) ==
        LET B == LowerStatements(At(M, CaseBlock(v.lower, s.ns, i)), s.bodies[i]) IN EndIfOpen(B, B.here, end)
  IN  At(FoldLeftDomain(Body, Tested(v.lower, v.value, s.ns), s.bodies), end)

\* What follows a jump goes to a block of its own.
Jump(L, to) == At(EndAt(AddBlocks(L, 1), L.here, Br(to)), NextId(L))

LowerStatement(L, s) ==
  LET v == LowerExpression(L, s.e) IN
  CASE s.op = "set" -> EmitVoid(v.lower, "store", <<Temp(1), v.value>>, "")
    [] s.op = "say" -> EmitVoid(v.lower, "call", <<v.value>>, "say")
    [] s.op = "do" -> v.lower
    [] s.op = "return" -> EndAt(v.lower, v.lower.here, End("ret", <<v.value>>, <<>>))
    [] s.op = "continue" -> Jump(L, Last(L.loops)[1])
    [] s.op = "break" -> Jump(L, Last(L.loops)[2])
    [] s.op = "if" -> LowerIf(L, s)
    [] s.op = "while" -> LowerWhile(L, s)
    [] s.op = "dowhile" -> LowerDoWhile(L, s)
    [] s.op = "match" -> LowerMatch(L, s)

\* lower_function_body: the parameter gets a slot.
LowerFunction(f) ==
  LET start == [blocks |-> <<EmptyBlock>>, here |-> 1, temps |-> 0, loops |-> <<>>]
      slot  == EmitVoid(Emit(start, "alloca", <<>>, ""), "store", <<Temp(1), Param(1)>>, "")
  IN  [name |-> f.name, blocks |-> LowerStatements(slot, f.body).blocks]


----------------------------------------------------------------------------
\* Running the instructions.

\* The outcome so far: what was said, the blocks left, and how it ended.
Running(fuel) == [said |-> <<>>, fuel |-> fuel, end |-> "none", value |-> 0]
Ended(out, how, v) == [out EXCEPT !.end = how, !.value = v]

Defined(frame, v) == IsTemp(v) => v.of \in DOMAIN frame.temps
ValueOf(frame, v) ==
  CASE IsConst(v) -> v.of
    [] v.is = "param" -> frame.arg
    [] IsTemp(v) -> frame.temps[v.of]

WithTemp(frame, t, x) == [frame EXCEPT !.temps = (t :> x) @@ @]

RECURSIVE RunBlock(_, _, _, _, _)

Call(p, name, arg, out) ==
  LET f == CHOOSE i \in DOMAIN p : p[i].name = name IN
    RunBlock(p, p[f], 1, [temps |-> [n \in {} |-> 0], memory |-> [n \in {} |-> 0], arg |-> arg], out)

\* One instruction, on the frame and the outcome of its function.
Step(p, r, i) ==
  LET x(k)    == ValueOf(r.frame, i.args[k])
      gives(v) == [r EXCEPT !.frame = WithTemp(@, i.result, v)]
      called  == Call(p, i.to, x(1), r.out)
  IN
  IF r.out.end # "none" THEN r
  ELSE IF \E k \in DOMAIN i.args : ~Defined(r.frame, i.args[k])
  THEN [r EXCEPT !.out = Ended(@, "undefined", 0)]
  ELSE CASE i.op = "alloca" -> gives(i.result)
         [] i.op = "load" -> gives(r.frame.memory[x(1)])
         [] i.op = "store" -> [r EXCEPT !.frame.memory = (x(1) :> x(2)) @@ @]
         [] i.op = "copy" -> gives(x(1))
         [] i.op = "call" /\ i.to = "panic" -> [r EXCEPT !.out = Ended(@, "panic", 0)]
         [] i.op = "call" /\ i.to = "say" -> [r EXCEPT !.out.said = Append(@, x(1))]
         [] i.op = "call" /\ i.to \notin {"panic", "say"} ->
              IF called.end # "return" THEN [r EXCEPT !.out = called]
              ELSE [gives(called.value) EXCEPT !.out = Ended(called, "none", 0)]
         [] i.op \in {"sdiv", "srem"} /\ x(1) = Least /\ x(2) = -1 ->   \* undefined: anything may happen
              [r EXCEPT !.out = Ended(@, "overflow", 0)]
         [] OTHER -> gives(Compute(i.op, x(1), x(2)))

\* A function that falls off its end returns 0.
RunBlock(p, f, b, frame, out) ==
  LET end  == f.blocks[b].end
      ran  == FoldLeft(LAMBDA r, i : Step(p, r, i), [frame |-> frame, out |-> [out EXCEPT !.fuel = @ - 1]],
                       f.blocks[b].insts)
      v    == ValueOf(ran.frame, end.args[1])
      next == IF end.op = "br" \/ v = 1 THEN end.to[1] ELSE end.to[2]
  IN
  IF out.fuel = 0 THEN Ended(out, "fuel", 0)
  ELSE IF ran.out.end # "none" THEN ran.out
  ELSE IF end.args # <<>> /\ ~Defined(ran.frame, end.args[1]) THEN Ended(ran.out, "undefined", 0)
  ELSE CASE end.op = "ret" -> Ended(ran.out, "return", v)
         [] end.op = "unreachable" -> Ended(ran.out, "return", 0)
         [] OTHER -> RunBlock(p, f, next, ran.frame, ran.out)

Outcome(p, x) == [Call(p, "main", x, Running(MaxBlocks)) EXCEPT !.fuel = 0]

----------------------------------------------------------------------------
\* inlining

MaxInlined == 5   \* instructions

InstCount(f) == FoldLeft(LAMBDA n, b : n + Len(b.insts), 0, f.blocks)
IsCallTo(i, name) == i.op = "call" /\ i.to = name
HasCallTo(f, name) == \E b \in ToSet(f.blocks) : \E i \in ToSet(b.insts) : IsCallTo(i, name)

TempsOf(args) == {v.of : v \in {u \in ToSet(args) : IsTemp(u)}}
TempsIn(f) ==
  UNION {TempsOf(b.end.args) \cup UNION {{i.result} \cup TempsOf(i.args) : i \in ToSet(b.insts)}
         : b \in ToSet(f.blocks)}

Remapped(v, offset, args) ==
  CASE IsTemp(v) -> Temp(v.of + offset)
    [] v.is = "param" -> args[v.of]
    [] OTHER -> v

Inlinable(callee) == Len(callee.blocks) = 1 /\ callee.blocks[1].end.op = "ret"

\* The blocks of the caller that end with a call of the callee.
CallSites(caller, name) ==
  {b \in DOMAIN caller.blocks : /\ caller.blocks[b].insts # <<>>
                                /\ IsCallTo(Last(caller.blocks[b].insts), name)}

\* The body of the callee in place of a call, its temporaries moved.
InlinedBody(callee, call, offset) ==
  LET block  == callee.blocks[1]
      Map(v) == Remapped(v, offset, call.args)
  IN  Append([n \in DOMAIN block.insts |->
               [block.insts[n] EXCEPT !.result = IF @ = None THEN None ELSE @ + offset,
                                      !.args = [k \in DOMAIN @ |-> Map(@[k])]]],
             Inst(call.result, "copy", <<Map(block.end.args[1])>>, ""))

\* next_available_temp, after so many calls have been replaced: what the body of
\* a callee defines is free in the caller.
Mut_Offset(caller, callee, before) == Max(TempsIn(caller))
Offset(caller, callee, before) == Max(TempsIn(caller)) + before * Max(TempsIn(callee))

\* The last call site first; what follows a call goes to a new block at the end.
InlineInto(caller, callee) ==
  LET sites     == CallSites(caller, callee.name)
      old       == Len(caller.blocks)
      order     == Reverse(SetToSortSeq(sites, <))
      Before(b) == Cardinality({c \in sites : c > b})
      Changed(b) ==
        LET block == caller.blocks[b] IN
        IF b \notin sites THEN block
        ELSE [insts |-> Front(block.insts) \o
                         InlinedBody(callee, Last(block.insts), Offset(caller, callee, Before(b))),
              end |-> Br(old + Before(b) + 1)]
  IN  IF ~Inlinable(callee) THEN caller
      ELSE [caller EXCEPT !.blocks =
              [b \in DOMAIN @ |-> Changed(b)] \o
              [n \in DOMAIN order |-> [insts |-> <<>>, end |-> caller.blocks[order[n]].end]]]

Mut_Candidates ==
  {c \in DOMAIN program : program[c].name # "main" /\ InstCount(program[c]) <= MaxInlined}
Candidates ==
  {c \in DOMAIN program \ tried : program[c].name # "main" /\ InstCount(program[c]) <= MaxInlined}

\* One turn of the loop: a function that was inlined in each of its callers is
\* removed.
InlineFunction ==
  LET c       == Min(Candidates)
      name    == program[c].name
      callers == {k \in DOMAIN program \ {c} : HasCallTo(program[k], name)}
      inlined == [k \in DOMAIN program |->
                   IF k \in callers THEN InlineInto(program[k], program[c]) ELSE program[k]]
      all     == \A k \in callers : Inlinable(program[c]) /\ CallSites(program[k], name) # {}
  IN
  /\ phase = "inline" /\ Candidates # {}
  /\ tried' = tried \cup {c}
  /\ program' = IF callers # {} /\ all THEN RemoveAt(inlined, c) ELSE inlined
  /\ UNCHANGED <<source, phase, fn, pass, changed>>

InliningEnds ==
  /\ phase = "inline" /\ Candidates = {} /\ phase' = "optimize"
  /\ UNCHANGED <<source, program, tried, fn, pass, changed>>

----------------------------------------------------------------------------
\* Passes over the instructions.

Copies(i, v) == [i EXCEPT !.op = "copy", !.args = <<v>>]
EachInst(f, New(_)) ==
  [f EXCEPT !.blocks = [b \in DOMAIN @ |-> [@[b] EXCEPT !.insts = [n \in DOMAIN @ |-> New(@[n])]]]]

Arithmetic == {"add", "sub", "mul", "sdiv", "srem", "shl", "shr"}

\* try_fold.  A constant is shifted right as if it had no sign.
FoldedValue(op, x, y) ==
  IF op = "shr" THEN Signed((x % 2^Width) \div 2^y) ELSE Compute(op, x, y)

CanFold(i) ==
  /\ i.op \in Arithmetic \cup Compares /\ \A v \in ToSet(i.args) : IsConst(v)
  /\ i.args[1].is = i.args[2].is
  /\ i.op \in Arithmetic => i.args[1].is = "int"
  /\ i.op \in {"sdiv", "srem"} => i.args[1].of # 0 /\ i.args[2].of # 0

\* The quotient and the remainder of the least integer by -1 are no integers: Rust's / and
\* % panic, in a release build too.
Overflows(i) ==
  CanFold(i) /\ i.op \in {"sdiv", "srem"} /\ i.args[1].of = Least /\ i.args[2].of = -1

Folded(i) ==
  LET v == FoldedValue(i.op, i.args[1].of, i.args[2].of) IN
    IF ~CanFold(i) THEN i
    ELSE Copies(i, IF i.op \in Compares THEN Bool(v = 1) ELSE Int64(v))

\* try_simplify
Simplified(i) ==
  LET l == i.args[1]
      r == i.args[2]
      same == l = r /\ IsTemp(l)
  IN
  CASE i.op = "add" /\ r = Int64(0) -> Copies(i, l)
    [] i.op = "add" /\ l = Int64(0) -> Copies(i, r)
    [] i.op = "sub" /\ r = Int64(0) -> Copies(i, l)
    [] i.op = "sub" /\ same -> Copies(i, Int64(0))
    [] i.op = "mul" /\ r = Int64(1) -> Copies(i, l)
    [] i.op = "mul" /\ l = Int64(1) -> Copies(i, r)
    [] i.op = "mul" /\ Int64(0) \in {l, r} -> Copies(i, Int64(0))
    [] i.op = "sdiv" /\ r = Int64(1) -> Copies(i, l)
    [] i.op = "eq" /\ same -> Copies(i, Bool(TRUE))
    [] i.op = "ne" /\ same -> Copies(i, Bool(FALSE))
    [] OTHER -> i

\* try_strength_reduce
Exponents(c) == {k \in 0 .. Width - 2 : c.is = "int" /\ c.of = 2^k}
Reduced(i) ==
  LET t == CHOOSE v \in ToSet(i.args) : IsTemp(v)
      c == CHOOSE v \in ToSet(i.args) : Exponents(v) # {}
  IN  IF /\ i.op = "mul" /\ \E v \in ToSet(i.args) : IsTemp(v)
         /\ \E v \in ToSet(i.args) : Exponents(v) # {}
      THEN [i EXCEPT !.op = "shl", !.args = <<t, Int64(Max(Exponents(c)))>>] ELSE i

AllInsts(f) == FlattenSeq([b \in DOMAIN f.blocks |-> f.blocks[b].insts])

\* copy_propagate: what each copy stands for, in the order of the blocks.
Resolve(copies, v) == IF IsTemp(v) /\ v.of \in DOMAIN copies THEN copies[v.of] ELSE v
CopiesOf(f) ==
  FoldLeft(LAMBDA m, i : IF i.op = "copy" THEN (i.result :> Resolve(m, i.args[1])) @@ m ELSE m,
           [t \in {} |-> Int64(0)], AllInsts(f))

Replaced(copies, args) == [k \in DOMAIN args |-> Resolve(copies, args[k])]
CopyPropagate(f) ==
  LET copies == CopiesOf(f)
      g == EachInst(f, LAMBDA i : [i EXCEPT !.args = Replaced(copies, @)])
  IN  [g EXCEPT !.blocks = [b \in DOMAIN @ |-> [@[b] EXCEPT !.end.args = Replaced(copies, @)]]]

\* dce_function
HasSideEffect(i) == i.op \in {"store", "call"}
Used(f) ==
  UNION {TempsOf(i.args) : i \in ToSet(AllInsts(f))} \cup UNION {TempsOf(b.end.args) : b \in ToSet(f.blocks)}
RemoveUnused(f) ==
  LET used == Used(f)
      Keep(i) == HasSideEffect(i) \/ i.result = None \/ i.result \in used
  IN  [f EXCEPT !.blocks = [b \in DOMAIN @ |-> [@[b] EXCEPT !.insts = SelectSeq(@, Keep)]]]

----------------------------------------------------------------------------
\* Passes over the blocks.

FoldBranches(f) ==
  LET Taken(e) == IF e.op = "brcond" /\ e.args[1].is = "bool"
                  THEN Br(e.to[2 - e.args[1].of]) ELSE e
  IN  [f EXCEPT !.blocks = [b \in DOMAIN @ |-> [@[b] EXCEPT !.end = Taken(@)]]]

\* compute_predecessor_counts, by edges
Mut_Preds(f, b) ==
  Cardinality({e \in {<<s, k>> : s \in 1 .. b - 1, k \in 1 .. 2} :
                 e[2] \in DOMAIN f.blocks[e[1]].end.to /\ f.blocks[e[1]].end.to[e[2]] = b})
Preds(f, b) ==
  Cardinality({e \in {<<s, k>> : s \in DOMAIN f.blocks, k \in 1 .. 2} :
                 e[2] \in DOMAIN f.blocks[e[1]].end.to /\ f.blocks[e[1]].end.to[e[2]] = b})

\* fix_block_ids: blocks whose ids are ids get their positions for ids.  A
\* target that is gone keeps its number.
Renumbered(f, blocks, ids) ==
  LET New(t) == IF t \in ToSet(ids) THEN CHOOSE n \in DOMAIN ids : ids[n] = t ELSE t IN
    [f EXCEPT !.blocks = [b \in DOMAIN blocks |->
       [blocks[b] EXCEPT !.end.to = [k \in DOMAIN @ |-> New(@[k])]]]]

\* dead_block_elim: once over the blocks; what only the dead lead to stays.
RemoveDeadBlocks(f) ==
  LET ids == SelectSeq([b \in DOMAIN f.blocks |-> b], LAMBDA b : b = 1 \/ Preds(f, b) > 0) IN
    Renumbered(f, [n \in DOMAIN ids |-> f.blocks[ids[n]]], ids)

\* merge_blocks: a position is compared with ids and with the counts of before.
RECURSIVE Merged(_, _, _, _)
Merged(f, blocks, ids, i) ==
  IF i >= Len(blocks) THEN Renumbered(f, blocks, ids)
  ELSE IF blocks[i].end = Br(i + 1) /\ Preds(f, i + 1) = 1
  THEN Merged(f, RemoveAt([blocks EXCEPT ![i] = [insts |-> @.insts \o blocks[i + 1].insts,
                                                 end |-> blocks[i + 1].end]], i + 1),
              RemoveAt(ids, i + 1), i)
  ELSE Merged(f, blocks, ids, i + 1)

MergeBlocks(f) == Merged(f, f.blocks, [b \in DOMAIN f.blocks |-> b], 1)

----------------------------------------------------------------------------
\* optimize_function

Passes == <<"fold", "simplify", "reduce", "copies", "branches", "unused", "dead", "merge">>

Apply(p, f) ==
  CASE p = "fold" -> EachInst(f, Folded)
    [] p = "simplify" -> EachInst(f, Simplified)
    [] p = "reduce" -> EachInst(f, Reduced)
    [] p = "copies" -> CopyPropagate(f)
    [] p = "branches" -> FoldBranches(f)
    [] p = "unused" -> RemoveUnused(f)
    [] p = "dead" -> RemoveDeadBlocks(f)
    [] p = "merge" -> MergeBlocks(f)

\* A pass counts what it does; a copy that is replaced counts even by itself.
Counts(p, f) ==
  IF p = "copies" THEN Used(f) \cap DOMAIN CopiesOf(f) # {} ELSE Apply(p, f) # f

\* The next pass is to fold what has no value.
FoldOverflows ==
  /\ phase = "optimize" /\ pass <= Len(Passes) /\ Passes[pass] = "fold"
  /\ \E i \in ToSet(AllInsts(program[fn])) : Overflows(i)

RunPass ==
  /\ phase = "optimize" /\ pass <= Len(Passes) /\ ~FoldOverflows
  /\ program' = [program EXCEPT ![fn] = Apply(Passes[pass], @)]
  /\ changed' = (changed \/ Counts(Passes[pass], program[fn]))
  /\ pass' = pass + 1
  /\ UNCHANGED <<source, phase, tried, fn>>

Panic ==
  /\ FoldOverflows /\ phase' = "panicked"
  /\ UNCHANGED <<source, program, tried, fn, pass, changed>>

NextRound ==
  /\ phase = "optimize" /\ pass > Len(Passes) /\ changed
  /\ pass' = 1 /\ changed' = FALSE
  /\ UNCHANGED <<source, program, phase, tried, fn>>

NextFunction ==
  /\ phase = "optimize" /\ pass > Len(Passes) /\ ~changed
  /\ IF fn < Len(program) THEN fn' = fn + 1 /\ pass' = 1 /\ phase' = phase
                          ELSE phase' = "done" /\ UNCHANGED <<fn, pass>>
  /\ UNCHANGED <<source, program, tried, changed>>

----------------------------------------------------------------------------
Init ==
  /\ \E p \in Programs : source = [k \in DOMAIN p |-> LowerFunction(p[k])]
  /\ program = source /\ phase = "inline" /\ tried = {}
  /\ fn = 1 /\ pass = 1 /\ changed = FALSE

Optimize == InlineFunction \/ InliningEnds \/ RunPass \/ Panic \/ NextRound \/ NextFunction
Next == Optimize \/ (phase \in {"done", "panicked"} /\ UNCHANGED vars)

Spec == Init /\ [][Next]_vars /\ WF_vars(Optimize)

----------------------------------------------------------------------------
\* What a program refers to exists: a build in which it does not is refused
\* by the assembler.
Assembles(p) ==
  \A f \in ToSet(p) : \A i \in ToSet(AllInsts(f)) :
    i.op = "call" => i.to \in {"panic", "say"} \cup {g.name : g \in ToSet(p)}

Agree(x) ==
  LET before == Outcome(source, x) IN before.end \in {"fuel", "overflow"} \/ Outcome(program, x) = before

\* Whatever inlining and the passes have done so far, a program that still
\* assembles says and returns what it did as it left lowering.
Preserves == program # source /\ Assembles(program) => \A x \in Inputs : Agree(x)

\* However often a function is inlined, into whom, and in which order, no two
\* instructions of a function define the same temporary.
TempsDefinedOnce ==
  \A f \in ToSet(program) :
    LET results == SelectSeq([n \in DOMAIN AllInsts(f) |-> AllInsts(f)[n].result], LAMBDA t : t # None)
    IN  Cardinality(ToSet(results)) = Len(results)

\* Every program is optimized in the end: no function is tried for inlining
\* for ever, and rounds of the passes come to one that changes nothing; unless
\* a fold meets a division of the least integer by -1, also where no run would.
OptimizerEnds == <>(phase = "done" \/ FoldOverflows)

=============================================================================
