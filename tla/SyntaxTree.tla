----------------------------- MODULE SyntaxTree -----------------------------
(***************************************************************************)
(* Tokens, types and syntax trees, as the parser of src/parser reads and   *)
(* builds them.                                                            *)
(*                                                                         *)
(* A tree is made of nodes with a kind, a name, children and the type in   *)
(* its slot.  Positions in the text are left out, but for what depends on  *)
(* them: a call with a position ("CallAt") and one without ("Call").       *)
(***************************************************************************)
EXTENDS Integers, FiniteSets, SequencesExt

Tok(kind, text) == [kind |-> kind, text |-> text]
Sym(kind) == Tok(kind, kind)
Id(x) == Tok("ident", x)

Type(n, of) == [ty |-> n, of |-> of]
TypeWith(n, x) == Type(n, <<Type(x, <<>>)>>)        \* a type with a name in it
Unknown == Type("unknown", <<>>)
Bool == Type("bool", <<>>)
Str == Type("str", <<>>)
None == Type("mu", <<>>)

Typed(op, name, args, type) == [op |-> op, name |-> name, args |-> args, type |-> type]
Node(op, name, args) == Typed(op, name, args, Unknown)

Identifier(x) == Node("Identifier", x, <<>>)
Literal(kind, text) == Node("Literal", kind, <<Node("Text", text, <<>>)>>)
StrLiteral(text) == Literal("str", text)
NoneLiteral == Literal("none", "mu")
Binary(o, l, r) ==
  Typed("BinaryOp", o, <<l, r>>,
        IF o \in {"||", "&&", "==", "!=", "<", ">", "<=", ">=", "in"} THEN Bool ELSE Unknown)
Unary(o, e) == Typed("UnaryOp", o, <<e>>, IF o = "!" THEN Bool ELSE Unknown)
Member(e, m) == Node("MemberAccess", m, <<e>>)
Index(e, i) == Node("Index", "", <<e, i>>)
Call(f, args) == Node("Call", f, args)
CallAt(f, args) == Node("CallAt", f, args)
NamedArg(x, e) == Node("NamedArg", x, <<e>>)
Block(ss) == Node("Block", "", ss)
Params(ps) == Node("Params", "", ps)
Closure(ps, body) == Node("Closure", "", <<Params(ps), Block(body)>>)
Return(e) == Node("Return", "", <<e>>)
Eval(e) == Node("Expression", "", <<e>>)
Flag(b, x) == IF b THEN <<Node(x, "", <<>>)>> ELSE <<>>
List(es) == Node("List", "", es)
Tuple(es) == Node("Tuple", "", es)
Entry(k, v) == Node("Entry", "", <<k, v>>)

EnumType(x) == TypeWith("enum", x)
VariantPath(x, v) == Typed("EnumVariantPath", v, <<Node("Enum", x, <<>>)>>, EnumType(x))
Variant(x, v, payloads) == Typed("EnumVariant", v, <<Node("Enum", x, <<>>)>> \o payloads, EnumType(x))

Visible(public) == Flag(public, "pub")
Function(x, attributes, types, params, body, type, flags) ==
  Typed("Function", x, <<attributes, Node("TypeParams", "", types), Params(params), body>> \o flags, type)

=============================================================================
