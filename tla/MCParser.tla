------------------------------ MODULE MCParser ------------------------------
(***************************************************************************)
(* Small programs for the parser: every operation of an expression under   *)
(* every other, every statement with an expression of one operation, and   *)
(* blocks of a few statements.                                             *)
(***************************************************************************)
EXTENDS StatementHash, TLC

a == Identifier("a")
b1 == Identifier("b")
n == Literal("int", "1")
self == Identifier("self")
I64 == Type("i64", <<>>)
VecOf(t) == Type("vec", <<t>>)
MapOf(k, v) == Type("map", <<k, v>>)
E == TypeWith("enum", "E")
P == TypeWith("struct", "P")

MCCapitalised == {"E", "V", "W", "P"}
\* "s{a}", "{a}{b + 1}" and "{a :i64:1}".
MCTemplates ==
  ("s{a}" :> <<[tokens |-> <<>>, text |-> "s"], [tokens |-> <<Id("a")>>, text |-> ""]>>) @@
  ("{a}{b + 1}" :> <<[tokens |-> <<Id("a")>>, text |-> ""], [tokens |-> <<Id("b"), Sym("+"), Tok("int", "1")>>, text |-> ""]>>) @@
  ("{a :i64:1}" :> <<[tokens |-> <<Id("a"), Sym(":"), Id("i64"), Sym(":"), Tok("int", "1")>>, text |-> ""]>>)
StrOf(e) == Typed("Call", "str", <<e>>, Str)
MCInterpolation ==
  ("s{a}" :> <<StrLiteral("s"), StrOf(a)>>) @@ ("{a}{b + 1}" :> <<StrOf(a), StrOf(Binary("+", b1, n))>>) @@
  ("{a :i64:1}" :> <<Typed("Call", "__mire_fmt", <<[a EXCEPT !.type = I64], StrLiteral("1")>>, Str)>>)
MCPath == [x \in {"f", "i", "k", "g", "h", "j"} |-> <<x>>] @@ ("f.g" :> <<"f", "g">>) @@ ("f.g.h" :> <<"f", "g", "h">>)
            @@ ("i.j" :> <<"i", "j">>) @@ ("f::g" :> <<"f", "g">>)

Param0(x) == Node("Param", x, <<>>)
ParamOf(x, t) == Typed("Param", x, <<>>, t)
NoAttributes == Node("Attributes", "", <<>>)
TypeParamsOf(ts) == Node("TypeParams", "", ts)
EnumNode(x, variants) == Node("EnumDef", x, <<TypeParamsOf(<<>>), Node("Variants", "", variants)>>)

\* enum E { V(v :i64) W }   type P { f :i64 mut g }
MCPrelude ==
  <<EnumNode("E", <<Node("Variant", "V", <<ParamOf("v", I64)>>), Node("Variant", "W", <<>>)>>),
    Node("Type", "P", <<NoAttributes, TypeParamsOf(<<>>),
                        Node("Fields", "", <<Typed("Field", "f", Flag(TRUE, "mut"), I64), Node("Field", "g", <<>>)>>)>>)>>

MCOperands == {a}
MCOtherType == Type("maybe", <<Type("u8", <<>>)>>)

----------------------------------------------------------------------------
\* Expressions.

\* One operator of each level, and two that do not commute.
Operators == {"||", "^", "&&", "==", "|", "&", "<", "in", "+", "-", "<<", "*", "/"}

\* Names that are called are not called by their value.
IsNamed(e) == e.op \in {"Identifier", "MemberAccess", "EnumVariantPath"}
IfExpr(c, t, f) == Call("__if_expr", <<c, Closure(<<>>, <<Return(t)>>), Closure(<<>>, <<Return(f)>>)>>)
Ascribed(e, t) == Typed("Ascribed", "", <<e>>, t)
Case(p, body) == Node("Case", "", <<p, body>>)
Default(e) == Node("Default", "", <<e>>)
To(e, f) == Typed("Call", "range", <<e, f>>, Type("list", <<>>))
Is(e, f) == Typed("Call", "__is", <<e, f>>, Bool)
PatternIs(k, p, q) == Typed("Call", k, <<p, q>>, Bool)

Infixes(e) ==
  UNION {{Binary(o, e, a), Binary(o, b1, e)} : o \in Operators}
    \cup {Is(e, a), Is(b1, e), To(e, a), To(b1, e), Node("At", "", <<e, n>>), Node("At", "", <<b1, e>>),
          Typed("Of", "", <<e>>, VecOf(I64)),
          Node("Pipe", "", <<CallAt("f", <<>>), CallAt("f", <<self, e>>)>>),
          Node("Pipe", "safe", <<n, IfExpr(self, e, a)>>), Node("Pipe", "", <<e, CallAt("f", <<self>>)>>), Node("Pipe", "safe", <<e, CallAt("f", <<a>>)>>)}

\* The type of an expression that has a place for it.
Typings(e) ==
  IF Meant(e, {}).op \in Slotted \cup {"Literal"} /\ e.op \notin {"Ascribed"} THEN {Ascribed(e, I64)} ELSE {}

Affixes(e) ==
  {Unary("-", e), Unary("!", e), Node("Reference", "", <<e>>), Node("Reference", "mut", <<e>>), Node("Dereference", "", <<e>>),
   Member(e, "m"), Node("Try", "", <<e>>), Index(a, e)}
    \cup (IF Meant(e, {}).op \in {"List", "Dict", "Literal"} THEN {} ELSE {Index(e, n)})
    \cup (IF IsNamed(Meant(e, {})) THEN {} ELSE {Call("call", <<e, a>>)})

Calls(e) ==
  {CallAt("f", <<e, a>>), CallAt("f.g", <<NamedArg("k", e)>>), Call("f.g.h", <<e>>),
   Call("f", <<Node("TypeArgs", "", <<Typed("Type", "", <<>>, VecOf(I64)), Typed("Type", "", <<>>, P)>>), e>>),
   Node("MacroCall", "", <<CallAt("f", <<e>>)>>), Node("Ok", "", <<e>>), Node("Some", "", <<Node("Tuple", "", <<e, a>>)>>),
   Node("Say", "dasu", <<StrLiteral("s{a}"), e, StrLiteral("{a}{b + 1}"), StrLiteral("{a :i64:1}"), StrLiteral("t")>>),
   Variant("E", "V", <<NamedArg("v", e)>>), Binary("==", e, VariantPath("E", "W")),
   Node("Struct", "P", <<NamedArg("f", e), NamedArg("g", a)>>), Node("UseMacro", "", <<e>>)}
    \cup (IF e.op = "Ascribed" THEN {} ELSE {Node("Use", "", <<e>>)})

Literal2(e) ==
  {List(<<e, a>>), List(<<List(<<e>>), a>>), Node("Dict", "", <<Entry(b1, e), Entry(n, a)>>), Node("Bracketed", "", <<Entry(b1, e), Entry(n, e)>>)}

Functions(e) ==
  {Closure(<<ParamOf("x", I64), Param0("y")>>, <<Return(e)>>),
   Closure(<<Param0("x")>>, <<Eval(CallAt("f", <<>>)), Return(e)>>),
   Node("Arrow", "x", <<Return(e)>>)}

Branches(e) ==
  {IfExpr(e, a, b1), IfExpr(a, e, b1), IfExpr(a, b1, e),
   Node("Match", "", <<e, Case(n, a), Default(b1)>>),
   Node("Match", "", <<a, Case(VariantPath("E", "W"), e), Default(NoneLiteral)>>),
   Node("Match", "", <<a, Case(PatternIs("__match_guard", PatternIs("__match_or", Literal("str", "t"), a), e), b1), Default(e)>>)}

MCContexts(e) == Infixes(e) \cup Typings(e) \cup Affixes(e) \cup Calls(e) \cup Literal2(e) \cup Functions(e) \cup Branches(e)

----------------------------------------------------------------------------
\* Statements.

Set(x, e) == Node("Set", "=", <<x, e>>)
Fn(x, ps, body, t, flags) == Function(x, NoAttributes, <<>>, ps, Block(body), t, flags)
If(c, t, f) == Node("If", "", <<c, Block(t)>> \o (IF f = <<>> THEN <<>> ELSE <<Block(f)>>))
x1 == Identifier("x")

\* With an expression.
Uses(e) ==
  {Eval(e), Set(x1, e), Node("Set", "=", <<x1, e>> \o Flag(TRUE, "mut")), Node("Set", "=", <<x1, e>> \o Flag(TRUE, "const")),
   Node("Set", "+=", <<x1, e>>), Set(Member(Member(x1, "f"), "g"), e), Set(Index(x1, e), a), Set(Node("At", "", <<x1, e>>), b1),
   Set(Node("Dereference", "", <<a>>), e), Node("Cons", "x", <<e>>), Return(e),
   Node("drop", "", <<e>>), Node("drop", "", <<Node("Tuple", "", <<a, e>>)>>), Node("move", "y", <<e>>),
   Typed("own", "", <<e>>, VecOf(I64)),
   If(e, <<Eval(a)>>, <<>>), Node("While", "", <<e, Block(<<Node("break", "", <<>>)>>)>>),
   Node("For", "i", <<e, Block(<<Node("continue", "", <<>>)>>)>>), Node("Find", "i", <<e, Block(<<>>)>>),
   Node("DoWhile", "", <<Block(<<Eval(a)>>), e>>),
   Node("MatchStatement", "", <<e, Case(n, Block(<<Eval(a)>>))>>),
   Node("MatchStatement", "", <<a, Case(Typed("Short", "V", <<Identifier("y")>>, Type("E", <<>>)),
                                        Block(<<Set(Identifier("y"), e), Set(x1, e)>>)), Block(<<Set(x1, e)>>)>>),
   Eval(Node("Dict", "", <<Entry(x1, e)>>))}

Skilled == Typed("Signature", "f", <<Param0("self"), ParamOf("x", I64)>>, Bool)
Method == Fn("f", <<Param0("self"), ParamOf("x", I64)>>, <<Return(Member(self, "f"))>>, I64, Flag(TRUE, "method"))
Marker == Node("Attribute", "test", <<StrLiteral("t")>>)

\* Without.
Declarations ==
  {Node("Return", "", <<>>), Typed("new", "", <<>>, MapOf(Str, I64)),
   Set(x1, Ascribed(List(<<>>), MapOf(Str, I64))), Node("Cons", "x", <<Ascribed(n, I64)>>),
   Node("Asm", "", <<Node("Instruction", "nop", <<StrLiteral("")>>), Node("Instruction", "inc", <<StrLiteral("rax")>>)>>),
   Function("g", Node("Attributes", "", <<Marker>>), <<Node("TypeParam", "T", <<Node("Bound", "A", <<>>), Node("Bound", "B", <<>>)>>)>>,
            <<ParamOf("x", TypeWith("generic", "T")), ParamOf("p", Type("refmut", <<P>>))>>, Block(<<Return(x1)>>),
            Type("result", <<E, Str>>), Flag(TRUE, "pub")),
   Node("Type", "Q", <<Node("Attributes", "", <<Marker>>), TypeParamsOf(<<Node("TypeParam", "T", <<>>)>>),
                       Node("Fields", "", <<Typed("Field", "q", <<>>, TypeWith("generic", "T"))>>), Node("Parent", "P", <<>>)>> \o Flag(TRUE, "pub")),
   Node("Skill", "S", <<Node("Signatures", "", <<Skilled>>), Node("Parent", "R", <<>>)>>),
   Node("Impl", "P", <<TypeParamsOf(<<>>), Block(<<Method>>)>>),
   Node("Impl", "P", <<TypeParamsOf(<<Node("TypeParam", "T", <<>>)>>), Block(<<Method>>), Node("Parent", "S", <<>>)>>),
   Node("ExternLib", "c", <<StrLiteral("c")>>), Node("ExternLib", "c", <<StrLiteral("libc")>>),
   Typed("ExternFunction", "puts", <<Params(<<ParamOf("s", Str)>>), StrLiteral("c")>> \o Flag(TRUE, "pub"), Type("i32", <<>>)),
   Node("Load", "f.g", <<>>), Node("Load", "f", <<Node("Items", "", <<Node("Name", "p", <<>>), Node("Name", "q", <<>>)>>)>>),
   Node("LoadLocal", "f.g", <<>>), Node("LoadLocal", "f", Flag(TRUE, "absolute")), Node("Module", "m", <<>>),
   Node("Marked", "", <<Marker, Eval(a)>>)}

MCForms(e) == Uses(e) \cup (IF e.op = "Identifier" THEN Declarations ELSE {})

\* Some statements have no place in a block: loads, and what stands under an attribute.
TopOnly(s) == s.op \in {"Load", "LoadLocal", "Marked"} \/ (s.op \in {"Function", "Type"} /\ s.args[1].args # <<>>)

\* A function that has functions keeps only them when it is promoted itself.
IsAnchor(f) == f.args[3].args = <<>> /\ \A i \in DOMAIN f.args[4].args : f.args[4].args[i].op = "Function"
HasFunctions(f) == \E i \in DOMAIN f.args[4].args : f.args[4].args[i].op = "Function"
Promotable(ss) == \A i \in DOMAIN ss : ss[i].op = "Function" /\ HasFunctions(ss[i]) => IsAnchor(ss[i])

MCEnclosures(ss) ==
  IF \E i \in DOMAIN ss : TopOnly(ss[i]) THEN {}
  ELSE {If(a, ss, <<>>), If(a, <<Eval(b1)>>, ss), Node("While", "", <<a, Block(ss)>>), Node("For", "i.j", <<a, Block(ss)>>),
        Node("DoWhile", "", <<Block(ss), a>>), Node("Unsafe", "", <<Block(ss)>>),
        Node("MatchStatement", "", <<a, Case(VariantPath("E", "W"), Block(ss)), Block(ss)>>)}
       \cup (IF Promotable(ss) THEN {Fn("f::g", <<>>, ss, None, Flag(TRUE, "pub")), Fn("h", <<ParamOf("x", I64)>>, ss, None, <<>>)} ELSE {})

\* What can tell whether x is still in scope, and a function to promote.
MCLater ==
  {Set(x1, b1), Eval(Node("Dict", "", <<Entry(x1, a)>>)), Set(Identifier("i"), x1), Fn("k", <<ParamOf("y", Type("list", <<>>))>>, <<Set(Identifier("y"), a)>>, I64, <<>>)}
=============================================================================
