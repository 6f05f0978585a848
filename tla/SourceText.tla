----------------------------- MODULE SourceText -----------------------------
(***************************************************************************)
(* Programs as they are written, and what the parser makes of them.        *)
(*                                                                         *)
(* A writer grows a program: an expression by one operation at a time, a   *)
(* block by one statement or by enclosing what is there.  Written is its   *)
(* text, with no parentheses but those the operators need; Meant is the    *)
(* tree it stands for.  ReadsAsWritten says that the parser of src/parser  *)
(* finds that tree, however the lines are broken around operators.         *)
(*                                                                         *)
(* A written tree is made of the parser's nodes and of a few of its own:   *)
(* "Set" (declares or assigns), "Pipe", "At" (index by `@`), "Of",         *)
(* "Ascribed", "Bracketed" (a map between brackets), "Arrow" (`x => e`),   *)
(* "Use", "Struct" (a value of a type), "Say" (print, with interpolations) *)
(* and "Marked" (a statement under an attribute it cannot take).           *)
(***************************************************************************)
EXTENDS Parser

CONSTANTS
  Operands,             \* the operands an operation adds
  Contexts(_),          \* what one operation makes of an expression
  Forms(_),             \* the statements made of an expression
  Enclosures(_),        \* the statements made of a block
  Later,                \* the statements that may follow another
  Prelude,              \* the declarations every program begins with
  Interpolation,        \* the parts each text with interpolations stands for
  Path,                 \* the words a name is made of
  MaxOperations, MaxSteps

VARIABLES
  expression,   \* the expression being written
  program,      \* the statements written so far
  operations,   \* how many operations the expression has
  steps         \* how many statements and enclosures there are

vars == <<expression, program, operations, steps>>

----------------------------------------------------------------------------
\* How tightly an expression holds together: what it may be an operand of.

Whole == 0      \* an ascription
Greedy == 1     \* takes everything that follows: closures, use
Prefixed == 12
Tight == 13

Strength(e) ==
  CASE e.op = "Ascribed" -> Whole
    [] e.op \in {"Closure", "Use", "UseMacro"} -> Greedy
    [] e.op = "BinaryOp" /\ e.name = "||" -> 2
    [] e.op = "BinaryOp" /\ e.name = "^" -> 3
    [] e.op = "BinaryOp" /\ e.name = "&&" -> 4
    [] e.op = "BinaryOp" /\ e.name \in {"==", "!="} -> 5
    [] e.op = "Call" /\ e.name = "__is" -> 5
    [] e.op = "BinaryOp" /\ e.name = "|" -> 6
    [] e.op = "BinaryOp" /\ e.name = "&" -> 7
    [] e.op = "BinaryOp" /\ e.name \in {"<", ">", "<=", ">=", "in"} -> 8
    [] e.op \in {"Pipe", "At", "Of"} -> 8
    [] e.op = "Call" /\ e.name = "range" -> 8
    [] e.op = "BinaryOp" /\ e.name \in {"+", "-"} -> 9
    [] e.op = "BinaryOp" /\ e.name \in {"<<", ">>"} -> 10
    [] e.op = "BinaryOp" /\ e.name \in {"*", "/", "%"} -> 11
    [] e.op \in {"UnaryOp", "Reference", "Dereference"} -> Prefixed
    [] OTHER -> Tight

\* Operators before which an operand may have a type of its own.
AfterType == {"+", "-", "*", "/", "%", "==", "!=", "<", ">", "<=", ">=", "&&", "||", "^", "<<", ">>", "=>", "=>?"}

----------------------------------------------------------------------------
\* The text of an expression.

Newline == <<Sym("newline")>>
Around(ts) == <<Sym("(")>> \o ts \o <<Sym(")")>>
\* `(x => ...` is a function of x; the input x of a pipeline is written ((x)).
Parens(ts) ==
  IF Len(ts) > 1 /\ ts[1].kind = "ident" /\ ts[2].kind = "=>"
  THEN Around(Around(Around(<<Head(ts)>>)) \o Tail(ts)) ELSE Around(ts)
Braces(ts) == <<Sym("{")>> \o ts \o <<Sym("}")>>
Brackets(ts) == <<Sym("[")>> \o ts \o <<Sym("]")>>
Joined(tss, sep) == FoldLeft(LAMBDA s, t : IF s = <<>> THEN t ELSE s \o sep \o t, <<>>, tss)
Listed(tss) == Joined(tss, <<Sym(",")>>)
Words(x, sep) == Joined([i \in DOMAIN Path[x] |-> <<Id(Path[x][i])>>], sep)

RECURSIVE TypeTokens(_)
TypeTokens(t) ==
  CASE t.ty \in {"struct", "enum", "generic"} -> <<Id(t.of[1].ty)>>
    [] t.ty \in {"ref", "refmut"} -> <<Sym("&")>> \o (IF t.ty = "ref" THEN <<>> ELSE <<Sym("mut")>>) \o TypeTokens(t.of[1])
    [] t.ty = "arr" -> <<Id("arr")>> \o Brackets(TypeTokens(t.of[1]) \o <<Tok("int", t.of[2].ty)>>)
    [] t.ty \in {"vec", "maybe", "map", "result"} ->
         <<Id(t.ty)>> \o Brackets(Joined([i \in DOMAIN t.of |-> TypeTokens(t.of[i])], <<>>))
    [] OTHER -> <<Id(t.ty)>>
Colon(t) == <<Sym(":")>> \o TypeTokens(t)
TypeText(t) == FoldLeft(LAMBDA s, x : s \o x.text, "", TypeTokens(t))

\* A token of ts that is outside all brackets of ts.
Outside(ts, opening, closing, kind) ==
  \E i \in DOMAIN ts :
    /\ ts[i].kind = kind
    /\ Cardinality({j \in 1 .. i - 1 : ts[j].kind \in opening}) = Cardinality({j \in 1 .. i - 1 : ts[j].kind \in closing})

\* An `@` that is the second token of a block needs parentheses; between a keyword
\* and its '{' a brace of the expression does, too.
InBraces(ts) == IF Len(ts) > 1 /\ ts[2].kind = "@" THEN Parens(ts) ELSE ts
BeforeBrace(ts) == IF Outside(ts, {"(", "["}, {")", "]"}, "{") THEN Parens(ts) ELSE InBraces(ts)
\* In a list a colon outside brackets would make it a map.
AsElement(ts) == IF Outside(ts, {"(", "[", "{"}, {")", "]", "}"}, ":") THEN Parens(ts) ELSE ts
\* A body that begins with a brace would be a block, and `use !` is of its own.
AsBody(ts) == IF Head(ts).kind = "{" THEN Parens(ts) ELSE ts
AsUsed(ts) == IF Head(ts).kind = "!" THEN Parens(ts) ELSE ts
\* A statement that begins with an operator would go on with the one before it, `if`
\* and `match` are statements, and so is `use`, without a type.
AsStatement(e, ts) ==
  IF Head(ts).kind \in {"-", "*", "&", "if", "match"} \/ (Head(ts).kind = "use" /\ e.op = "Ascribed") THEN Parens(ts) ELSE ts

RECURSIVE Tokens(_, _)
Lines(ss, b) == Joined([i \in DOMAIN ss |-> Tokens(ss[i], b)], Newline)

Operand(e, least, b) == IF Strength(e) >= least THEN Tokens(e, b) ELSE Parens(Tokens(e, b))
\* An index is not followed by '.' or '('.
Base(e, b) == IF e.op = "Index" THEN Parens(Tokens(e, b)) ELSE Operand(e, Tight, b)
\* A left operand keeps its type without parentheses where the operator allows it,
\* and then the operator is on its line.
KeepsType(e, o) == e.op = "Ascribed" /\ o \in AfterType /\ Strength(e.args[1]) = Tight
LeftOperand(e, o, least, b) ==
  CASE KeepsType(e, o) -> Tokens(e, b)
    [] e.op = "Struct" /\ o = "=>" -> Parens(Tokens(e, b)) \o b     \* not the parameters of a function
    [] OTHER -> Operand(e, least, b) \o b
Infix(e, o, b) == LeftOperand(e.args[1], o, Strength(e), b) \o <<Sym(o)>> \o b \o Operand(e.args[2], Strength(e) + 1, b)

Arguments(es, sep, b) ==
  Parens(Listed([i \in DOMAIN es |->
    IF es[i].op = "NamedArg" THEN <<Id(es[i].name), Sym(sep)>> \o Tokens(es[i].args[1], b) ELSE Tokens(es[i], b)]))
Entries(es, b) ==
  Listed([i \in DOMAIN es |-> Operand(es[i].args[1], Greedy, b) \o <<Sym(":")>> \o Tokens(es[i].args[2], b)])
NameAndType(x) == IF x.type = Unknown THEN <<Id(x.name)>> ELSE <<Id(x.name)>> \o Colon(x.type)
ParamList(ps) ==
  Parens(Listed([i \in DOMAIN ps |-> IF ps[i].name = "self" THEN <<Sym("self")>> ELSE NameAndType(ps[i])]))
BlockTokens(ss, b) == Braces(Newline \o Lines(ss, b) \o Newline)

\* A function value: one expression, or a block that ends with its value.
BodyTokens(ss, b) ==
  IF Len(ss) = 1 THEN AsBody(Operand(ss[1].args[1], Greedy, b))
  ELSE BlockTokens(Append(Front(ss), Eval(Last(ss).args[1])), b)

\* The cases of a match: (pattern, body) pairs, and the body of `_`.
Arm(c, b) ==
  Tokens(c.args[1], b) \o Braces(IF c.args[2].op = "Block" THEN Newline \o Lines(c.args[2].args, b) \o Newline ELSE InBraces(Tokens(c.args[2], b)))
Arms(cs, default, b) ==
  Braces(Newline \o Joined([i \in DOMAIN cs |-> Arm(cs[i], b)], Newline) \o Newline
         \o (IF default = <<>> THEN <<>> ELSE Arm(Node("Case", "", <<Identifier("_"), default[1]>>), b) \o Newline))

CallTokens(e, b) ==
  CASE e.name = "__match_range" -> Tokens(e.args[1], b) \o <<Sym("."), Sym(".")>> \o Tokens(e.args[2], b)
    [] e.name = "__match_or" -> Tokens(e.args[1], b) \o <<Sym("|")>> \o Tokens(e.args[2], b)
    [] e.name = "__match_guard" -> Tokens(e.args[1], b) \o <<Id("when")>> \o BeforeBrace(Tokens(e.args[2], b))
    [] e.name = "__is" ->
         Operand(e.args[1], Strength(e), b) \o b \o <<Sym("is")>> \o Parens(Operand(e.args[2], Strength(e) + 1, b))
    [] e.name = "range" -> Infix(e, "to", b)
    [] e.name = "__if_expr" ->
         <<Sym("if")>> \o BeforeBrace(Tokens(e.args[1], b)) \o Braces(InBraces(Tokens(e.args[2].args[2].args[1].args[1], b)))
           \o <<Sym("else")>> \o Braces(InBraces(Tokens(e.args[3].args[2].args[1].args[1], b)))
    [] e.name = "call" -> Base(e.args[1], b) \o Arguments(Tail(e.args), "=", b)
    [] e.args # <<>> /\ e.args[1].op = "TypeArgs" ->
         <<Id(e.name)>> \o Brackets(Joined([i \in DOMAIN e.args[1].args |-> TypeTokens(e.args[1].args[i].type)], <<>>))
           \o Arguments(Tail(e.args), "=", b)
    [] OTHER -> Words(e.name, <<Sym(".")>>) \o Arguments(e.args, "=", b)

Expressions ==
  {"Identifier", "Literal", "BinaryOp", "Pipe", "At", "Of", "UnaryOp", "Reference", "Dereference", "MemberAccess", "Try", "Index",
   "Call", "CallAt", "Say", "MacroCall", "Ok", "Err", "Some", "List", "Dict", "Bracketed", "Closure", "Arrow", "Match",
   "EnumVariantPath", "EnumVariant", "Short", "Struct", "Use", "UseMacro", "Ascribed"}
ExpressionTokens(e, b) ==
  CASE e.op = "Identifier" -> <<IF e.name = "self" THEN Sym("self") ELSE Id(e.name)>>
    [] e.op = "Literal" -> <<Tok(e.name, e.args[1].name)>>
    [] e.op = "BinaryOp" -> Infix(e, e.name, b)
    [] e.op = "Pipe" -> Infix(e, IF e.name = "safe" THEN "=>?" ELSE "=>", b)
    [] e.op = "At" -> Infix(e, "@", <<>>)
    [] e.op = "Of" -> Operand(e.args[1], Strength(e), b) \o b \o <<Sym("of")>> \o TypeTokens(e.type)
    [] e.op = "UnaryOp" -> <<Sym(e.name)>> \o Operand(e.args[1], Prefixed, b)
    [] e.op = "Reference" -> <<Sym("&")>> \o (IF e.name = "mut" THEN <<Sym("mut")>> ELSE <<>>) \o Operand(e.args[1], Prefixed, b)
    [] e.op = "Dereference" -> <<Sym("*")>> \o Operand(e.args[1], Prefixed, b)
    [] e.op = "MemberAccess" -> Base(e.args[1], b) \o <<Sym("."), Id(e.name)>>
    [] e.op = "Try" -> Operand(e.args[1], Tight, b) \o <<Sym("?")>>
    [] e.op = "Index" -> Operand(e.args[1], Tight, b) \o Brackets(Operand(e.args[2], 9, b))
    [] e.op = "Call" -> CallTokens(e, b)
    [] e.op = "CallAt" -> Words(e.name, <<Sym(":"), Sym(":")>>) \o Arguments(e.args, "=", b)
    [] e.op = "Say" -> <<Id(e.name)>> \o Arguments(e.args, "=", b)
    [] e.op = "MacroCall" -> <<Id(e.args[1].name), Sym("!")>> \o Arguments(e.args[1].args, "=", b)
    [] e.op \in {"Ok", "Err", "Some"} ->
         <<Id(CASE e.op = "Ok" -> "ok" [] e.op = "Err" -> "err" [] e.op = "Some" -> "some")>>
           \o Arguments(IF e.args[1].op = "Tuple" THEN e.args[1].args ELSE e.args, "=", b)
    [] e.op = "List" -> Brackets(Listed([i \in DOMAIN e.args |-> AsElement(Tokens(e.args[i], b))]))
    [] e.op = "Dict" -> Braces(Entries(e.args, b))
    [] e.op = "Bracketed" -> Brackets(Entries(e.args, b))
    [] e.op = "Closure" -> ParamList(e.args[1].args) \o <<Sym("=>")>> \o BodyTokens(e.args[2].args, b)
    [] e.op = "Arrow" -> Around(<<Id(e.name), Sym("=>")>> \o BodyTokens(e.args, b))
    [] e.op = "Match" -> <<Sym("match")>> \o Tokens(e.args[1], b) \o b
                           \o Arms(SubSeq(e.args, 2, Len(e.args) - 1),
                                    IF Last(e.args).args = <<NoneLiteral>> THEN <<>> ELSE Last(e.args).args, b)
    [] e.op = "Short" -> <<Id(e.name)>> \o Arguments(e.args, "=", b)
    [] e.op = "EnumVariantPath" -> <<Id(e.args[1].name), Sym("."), Id(e.name)>>
    [] e.op = "EnumVariant" -> <<Id(e.args[1].name), Sym("."), Id(e.name)>> \o Arguments(Tail(e.args), ":", b)
    [] e.op = "Struct" ->
         Parens(<<Id(e.name)>> \o Joined([i \in DOMAIN e.args |-> <<Id(e.args[i].name), Sym(":")>> \o Tokens(e.args[i].args[1], b)], <<>>))
    [] e.op = "Use" -> <<Sym("use")>> \o AsUsed(Operand(e.args[1], Greedy, b))
    [] e.op = "UseMacro" -> <<Sym("use"), Sym("!")>> \o Operand(e.args[1], Greedy, b)
    [] e.op = "Ascribed" -> Operand(e.args[1], Greedy, b) \o Colon(e.type)

----------------------------------------------------------------------------
\* The text of statements.

Has(flags, x) == \E i \in DOMAIN flags : flags[i].op = x
Word(flags, x) == IF Has(flags, x) THEN <<Sym(x)>> ELSE <<>>
\* The name a node has for its parent, after a keyword.
ParentOf(flags, keyword) ==
  FoldLeft(LAMBDA s, x : IF x.op = "Parent" THEN s \o <<Sym(keyword), Id(x.name)>> ELSE s, <<>>, flags)
TypeParamTokens(ts) ==
  IF ts = <<>> THEN <<>>
  ELSE Brackets(Listed([i \in DOMAIN ts |->
         <<Id(ts[i].name)>> \o (IF ts[i].args = <<>> THEN <<>> ELSE <<Sym(":")>>)
           \o Joined([k \in DOMAIN ts[i].args |-> <<Id(ts[i].args[k].name)>>], <<Sym("+")>>)]))
AttributeTokens(as) ==
  Joined([i \in DOMAIN as |->
    <<Sym("@"), Sym("["), Id(as[i].name)>>
      \o (IF as[i].args = <<>> THEN <<>> ELSE Parens(Listed([k \in DOMAIN as[i].args |-> <<Tok("str", as[i].args[k].args[1].name)>>])))
      \o <<Sym("]"), Sym("newline")>>], <<>>)
Result(t) == IF t = None THEN <<>> ELSE Colon(t)
SignatureTokens(x) == <<Id(x.name), Sym(":")>> \o ParamList(x.args) \o Result(x.type)

MemberTokens(m) ==
  CASE m.op = "Field" -> NameAndType(m) \o Word(m.args, "mut")
    [] m.op = "Variant" -> <<Id(m.name)>> \o (IF m.args = <<>> THEN <<>> ELSE ParamList(m.args))
    [] m.op = "Signature" -> <<Sym("fn")>> \o SignatureTokens(m)
    [] m.op = "Instruction" -> <<Id(m.name)>> \o (IF m.args[1].args[1].name = "" THEN <<>> ELSE <<Id(m.args[1].args[1].name)>>)
MembersText(ms) == Braces(Newline \o Joined([i \in DOMAIN ms |-> MemberTokens(ms[i])], Newline) \o Newline)

RECURSIVE TargetTokens(_)
TargetTokens(e) ==
  CASE e.op = "Identifier" -> <<Id(e.name)>>
    [] e.op = "MemberAccess" -> TargetTokens(e.args[1]) \o <<Sym("."), Id(e.name)>>
    [] e.op = "Index" -> TargetTokens(e.args[1]) \o Brackets(Tokens(e.args[2], <<>>))
    [] e.op = "At" -> TargetTokens(e.args[1]) \o <<Sym("@")>> \o Operand(e.args[2], 9, <<>>)
    [] e.op = "Dereference" -> <<Sym("*")>> \o Tokens(e.args[1], <<>>)

IfTokens(s, b) ==
  BeforeBrace(Tokens(s.args[1], b)) \o BlockTokens(s.args[2].args, b)
    \o (IF Len(s.args) = 2 THEN <<>>
        ELSE LET e == s.args[3].args
             IN IF Len(e) = 1 /\ e[1].op = "If" /\ b = <<>> THEN <<Sym("elif")>> \o Tail(Tokens(e[1], b))
                ELSE <<Sym("else")>> \o BlockTokens(e, b))

FunctionTokens(s, b) ==
  AttributeTokens(s.args[1].args) \o Word(s.args, "pub") \o <<Sym("fn")>> \o Words(s.name, <<Sym(":"), Sym(":")>>)
    \o TypeParamTokens(s.args[2].args) \o <<Sym(":")>> \o ParamList(s.args[3].args) \o Result(s.type) \o BlockTokens(s.args[4].args, b)

\* What a name is given in place of several: the elements of a tuple.
Several(es, b) ==
  <<Sym(":"), Sym(":")>> \o Arguments(IF es # <<>> /\ es[1].op = "Tuple" THEN es[1].args ELSE es, "=", b)

Line(s, b) ==
  CASE s.op = "Expression" -> AsStatement(s.args[1], Tokens(s.args[1], b))
    [] s.op = "Set" -> <<Sym("set")>> \o TargetTokens(s.args[1]) \o <<Sym(s.name)>> \o Tokens(s.args[2], b)
                         \o Word(s.args, "mut") \o Word(s.args, "const")
    [] s.op = "Cons" -> <<Sym("cons"), Id(s.name), Sym("=")>> \o Tokens(s.args[1], b)
    [] s.op = "If" -> <<Sym("if")>> \o IfTokens(s, b)
    [] s.op = "While" -> <<Sym("while")>> \o BeforeBrace(Tokens(s.args[1], b)) \o BlockTokens(s.args[2].args, b)
    [] s.op \in {"For", "Find"} ->
         <<Sym(IF s.op = "For" THEN "for" ELSE "find")>> \o Words(s.name, <<Sym(",")>>) \o <<Sym("in")>>
           \o BeforeBrace(Tokens(s.args[1], b)) \o BlockTokens(s.args[2].args, b)
    [] s.op = "DoWhile" -> <<Sym("do")>> \o BlockTokens(s.args[1].args, b) \o <<Sym("while")>> \o Tokens(s.args[2], b)
    [] s.op = "MatchStatement" ->
         LET cases == SelectSeq(Tail(s.args), LAMBDA x : x.op = "Case")
         IN <<Sym("match")>> \o Tokens(s.args[1], b) \o Arms(cases, SelectSeq(Tail(s.args), LAMBDA x : x.op = "Block"), b)
    [] s.op = "Return" -> <<Sym("return")>> \o (IF s.args = <<>> THEN <<>> ELSE Tokens(s.args[1], b))
    [] s.op \in {"break", "continue"} -> <<Sym(s.op)>>
    [] s.op \in {"new", "own"} -> <<Sym(s.op)>> \o Several(s.args, b) \o Colon(s.type)
    [] s.op = "drop" -> <<Sym("drop")>> \o Several(s.args, b)
    [] s.op = "move" -> <<Sym("move")>> \o Several(s.args, b) \o <<Sym("to"), Id(s.name)>>
    [] s.op = "Unsafe" -> <<Sym("unsafe")>> \o BlockTokens(s.args[1].args, b)
    [] s.op = "Asm" -> <<Sym("asm")>> \o MembersText(s.args)
    [] s.op = "Function" -> FunctionTokens(s, b)
    [] s.op = "Type" -> AttributeTokens(s.args[1].args) \o Word(s.args, "pub") \o <<Sym("type"), Id(s.name)>> \o TypeParamTokens(s.args[2].args)
                          \o ParentOf(s.args, "extends") \o MembersText(s.args[3].args)
    [] s.op = "EnumDef" -> Word(s.args, "pub") \o <<Sym("enum"), Id(s.name)>> \o TypeParamTokens(s.args[1].args) \o MembersText(s.args[2].args)
    [] s.op = "Skill" -> Word(s.args, "pub") \o <<Sym("skill"), Id(s.name)>> \o ParentOf(s.args, "super") \o MembersText(s.args[1].args)
    [] s.op = "Impl" -> <<Sym("impl")>> \o TypeParamTokens(s.args[1].args)
                          \o (IF Len(s.args) = 2 THEN <<Id(s.name)>> ELSE <<Id(s.args[3].name), Sym("for"), Id(s.name)>>)
                          \o BlockTokens(s.args[2].args, b)
    [] s.op = "ExternLib" -> <<Sym("extern"), Sym("lib"), Id(s.name)>>
                               \o (IF s.args[1].args[1].name = s.name THEN <<>> ELSE <<Tok("str", s.args[1].args[1].name)>>)
    [] s.op = "ExternFunction" -> Word(s.args, "pub") \o <<Sym("extern"), Sym("fn"), Id(s.name), Sym(":")>> \o ParamList(s.args[1].args) \o Result(s.type)
                                    \o <<Sym("lib"), Id(s.args[2].args[1].name)>>
    [] s.op = "Load" -> <<Sym("load")>> \o Words(s.name, <<Sym(":"), Sym(":")>>)
                          \o (IF s.args = <<>> THEN <<>>
                              ELSE <<Sym(":")>> \o Parens([i \in DOMAIN s.args[1].args |-> Id(s.args[1].args[i].name)]))
    [] s.op = "LoadLocal" -> <<Sym("load"), Sym("!")>> \o (IF s.args = <<>> THEN <<>> ELSE <<Sym("/")>>) \o Words(s.name, <<Sym("/")>>)
    [] s.op = "Module" -> <<Sym("module"), Id(s.name)>>
    [] s.op = "Marked" -> AttributeTokens(<<s.args[1]>>) \o Tokens(s.args[2], b)

Tokens(e, b) == IF e.op \in Expressions THEN ExpressionTokens(e, b) ELSE Line(e, b)

Written(ss, b) == Lines(Prelude \o ss, b)

----------------------------------------------------------------------------
\* The tree a program stands for.  `scope` has the variables in scope.

SumOf(parts) ==
  IF parts = <<>> THEN StrLiteral("")
  ELSE FoldLeft(LAMBDA l, r : Typed("BinaryOp", "+", <<l, r>>, Str), Head(parts), Tail(parts))
\* An ascription gives its operand the type; a literal keeps its own.
OfType(e, t) ==
  CASE e.op = "Literal" -> Typed("Ascription", "", <<e>>, t)
    [] e.op = "List" /\ e.args = <<>> /\ t.ty = "map" -> Typed("Dict", "", <<>>, t)
    [] OTHER -> [e EXCEPT !.type = t]
\* The stage of a pipeline, with its input where `self` stands.
RECURSIVE Filled(_, _)
Filled(e, input) ==
  IF e = Identifier("self") THEN input ELSE [e EXCEPT !.args = [i \in DOMAIN @ |-> Filled(@[i], input)]]
Piped(safe, input, stage) ==
  IF safe = "" /\ HasSelf(stage) THEN Filled(stage, input) ELSE Node("Pipeline", safe, <<input, Filled(stage, input)>>)

RECURSIVE Meant(_, _)
RECURSIVE MeantAll(_, _)

MeantParts(e, scope) == [e EXCEPT !.args = [i \in DOMAIN @ |-> Meant(@[i], scope)]]
MeantEntry(n, scope) ==
  LET key == Meant(n.args[1], scope)
  IN Entry(IF key.op = "Identifier" /\ key.name \notin scope THEN StrLiteral(key.name) ELSE key, Meant(n.args[2], scope))

\* A match: what a pattern binds is in the scope of its arm.
RECURSIVE Bound(_)
Bound(e) ==
  CASE e.op \in {"EnumVariant", "Short"} -> {x.name : x \in {y \in ToSet(e.args) : y.op = "Identifier"}}
    [] e.op = "Call" /\ e.args # <<>> -> Bound(e.args[1])
    [] OTHER -> {}
\* A variant without its enum: the only one that has it.
RECURSIVE WithOwner(_)
WithOwner(e) ==
  IF e.op = "Short" THEN Variant(e.type.ty, e.name, e.args) ELSE [e EXCEPT !.args = [i \in DOMAIN @ |-> WithOwner(@[i])]]
MeantArm(c, scope) == Node("Case", "", <<WithOwner(Meant(c.args[1], scope)), Meant(c.args[2], scope \cup Bound(c.args[1]))>>)

\* `set x = e` declares x, or assigns it when x is in scope.
MeantSet(target, o, value, flags, scope) ==
  CASE o # "=" -> Assignment(target, Node("BinaryOp", Compound[o], <<target, value>>))
    [] o = "=" /\ (target.op # "Identifier" \/ (target.name \in scope /\ ~Has(flags, "const"))) -> Assignment(target, value)
    [] OTHER -> Let(target.name, value, Unknown, flags)

Meant(e, scope) ==
  CASE e.op = "Of" -> Typed("Call", "__type_matches", <<Meant(e.args[1], scope), StrLiteral(TypeText(e.type))>>, Bool)
    [] e.op = "At" -> Index(Meant(e.args[1], scope), Meant(e.args[2], scope))
    [] e.op = "Pipe" -> Piped(e.name, Meant(e.args[1], scope), Meant(e.args[2], scope))
    [] e.op = "Ascribed" -> OfType(Meant(e.args[1], scope), e.type)
    [] e.op \in {"Dict", "Bracketed"} -> Node("Dict", "", [i \in DOMAIN e.args |-> MeantEntry(e.args[i], scope)])
    [] e.op = "Arrow" -> Closure(<<Node("Param", e.name, <<>>)>>, MeantAll(e.args, scope))
    [] e.op = "Use" -> IF e.args[1].op = "Identifier" THEN Call(e.args[1].name, <<>>) ELSE Meant(e.args[1], scope)
    [] e.op = "Struct" -> Call(e.name, [i \in DOMAIN e.args |-> Meant(e.args[i], scope)])
    [] e.op = "Say" -> Typed("Call", e.name, [i \in DOMAIN e.args |->
                          IF e.args[i].op = "Literal" /\ e.args[i].args[1].name \in DOMAIN Interpolation
                          THEN SumOf(Interpolation[e.args[i].args[1].name]) ELSE Meant(e.args[i], scope)], Str)
    [] e.op \in {"Match", "MatchStatement"} ->
         [e EXCEPT !.args = [i \in DOMAIN @ |-> IF @[i].op = "Case" THEN MeantArm(@[i], scope) ELSE Meant(@[i], scope)]]
    [] e.op = "Block" -> Block(MeantAll(e.args, scope))
    [] e.op = "Set" -> MeantSet(Meant(e.args[1], scope), e.name, Meant(e.args[2], scope), SubSeq(e.args, 3, Len(e.args)), scope)
    [] e.op = "Cons" -> LET v == Meant(e.args[1], scope)
                        IN Let(e.name, v, IF v.op = "Ascription" THEN v.type ELSE Unknown, Flag(TRUE, "const"))
    [] e.op \in {"For", "Find"} -> [e EXCEPT !.args = <<Meant(@[1], scope), Meant(@[2], scope \cup ToSet(Path[e.name]))>>]
    [] e.op = "DoWhile" ->
         Eval(Typed("Call", "__do_while", <<Typed("Closure", "", <<Params(<<>>), Meant(e.args[1], scope)>>, None),
                                           Typed("Closure", "", <<Params(<<>>), Block(<<Return(Meant(e.args[2], scope))>>)>>, Bool)>>, None))
    [] e.op = "Function" -> [e EXCEPT !.args[4] = Meant(@, scope \cup Names(e.args[3].args))]
    [] OTHER -> MeantParts(e, scope)

\* The statements of a block, one after the other.
MeantAll(ss, scope) ==
  FoldLeft(LAMBDA s, x :
             LET m == Meant(x, s.scope)
             IN [scope |-> IF m.op = "Let" THEN s.scope \cup {m.name} ELSE s.scope, done |-> Append(s.done, m)],
           [scope |-> scope, done |-> <<>>], ss).done

\* The functions inside a function come after it, under its name.
RECURSIVE Promoted(_, _)
Promoted(name, f) ==
  LET inner == SelectSeq(f.args[4].args, LAMBDA s : s.op = "Function")
      outer == SelectSeq(f.args[4].args, LAMBDA s : s.op # "Function")
  IN <<[f EXCEPT !.name = name, !.args[4] = Block(outer)]>>
       \o FlattenSeq([i \in DOMAIN inner |-> Promoted(name \o "::" \o inner[i].name, inner[i])])

Unmarked(ss) == [i \in DOMAIN ss |-> IF ss[i].op = "Marked" THEN ss[i].args[2] ELSE ss[i]]
Expected(ss) ==
  LET all == MeantAll(Unmarked(Prelude \o ss), {})
      marks == SelectSeq(ss, LAMBDA s : s.op = "Marked")
  IN [ok |-> TRUE,
      statements |-> FlattenSeq([i \in DOMAIN all |-> IF all[i].op = "Function" THEN Promoted(all[i].name, all[i]) ELSE <<all[i]>>]),
      attributes |-> [i \in DOMAIN marks |-> marks[i].args[1]]]

----------------------------------------------------------------------------
\* The writer.

Init == /\ expression \in Operands
        /\ program = <<>>
        /\ operations = 0
        /\ steps = 0

\* One more operation, while nothing else is written.
Grow == /\ steps = 0 /\ operations < MaxOperations
        /\ expression' \in Contexts(expression)
        /\ operations' = operations + 1
        /\ UNCHANGED <<program, steps>>

\* There is room for another statement; an operation takes the place of two.
Room == steps + 2 * operations < MaxSteps

\* A statement of the expression, or one after another.
Write == /\ Room
         /\ \E s \in IF program = <<>> THEN Forms(expression) ELSE Later : program' = Append(program, s)
         /\ steps' = steps + 1
         /\ UNCHANGED <<expression, operations>>

\* The last statements become the block of a new one.
Enclose == /\ Room
           /\ \E n \in 1 .. Len(program) :
                \E s \in Enclosures(SubSeq(program, n, Len(program))) :
                  program' = Append(SubSeq(program, 1, n - 1), s)
           /\ steps' = steps + 1
           /\ UNCHANGED <<expression, operations>>

Next == Grow \/ Write \/ Enclose

Spec == Init /\ [][Next]_vars

----------------------------------------------------------------------------
\* Properties.

TypeOK == /\ operations \in 0 .. MaxOperations
          /\ steps \in 0 .. MaxSteps
          /\ Len(program) <= steps

\* The program so far, or the expression as its only statement.
Current == IF program = <<>> THEN <<Eval(expression)>> ELSE program
Layouts == {<<>>, Newline}

\* A program is parsed to the tree it stands for: operators bind and associate as
\* written, a colon, a bracket, a brace or an `@` means what its place says, `set`
\* declares or assigns by the scopes of the blocks around it, keys, patterns and
\* stages get their names, and functions end up under their parent's name.
ReadsAsWritten == \A b \in Layouts : Parse(Written(Current, b)) = Expected(Current)

=============================================================================
