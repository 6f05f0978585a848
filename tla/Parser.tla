------------------------------- MODULE Parser -------------------------------
(***************************************************************************)
(* The parser of src/parser: tokens to a syntax tree.                      *)
(*                                                                         *)
(* A parser is a record: the tokens, the position, and what the parser     *)
(* remembers on the way (the names declared in the open scopes, the        *)
(* functions seen, how deep it is in methods, functions and literal keys,  *)
(* the attributes waiting for their declaration).  Each operator is one of *)
(* the parse_ functions: it takes a parser and gives the parser after it,  *)
(* what it read, and whether it succeeded; on an error the parser keeps    *)
(* what it had changed, as `?` leaves self.                                *)
(***************************************************************************)
EXTENDS DeclaredTypes, NestedFunctions

CONSTANTS
  Capitalised,   \* the names that begin with a capital letter
  Templates      \* the texts that have interpolations: their parts, texts and tokens

----------------------------------------------------------------------------
\* The parser's state and its elementary steps.

NoNames == [enums |-> {}, owners |-> [x \in {} |-> ""], nominal |-> {}]

Fresh(tokens) ==
  [tokens |-> tokens, pos |-> 1, scopes |-> <<{}>>, functions |-> {}, methods |-> 0,
   typeParams |-> <<{}>>, bodies |-> 0, keys |-> 0, pending |-> <<>>, failed |-> FALSE,
   known |-> NoNames]

KindAt(p, n) == IF p.pos + n \in 1 .. Len(p.tokens) THEN p.tokens[p.pos + n].kind ELSE "eof"
Kind(p) == KindAt(p, 0)
At(p, kind) == Kind(p) = kind
AtEnd(p) == Kind(p) = "eof"
Text(p) == IF AtEnd(p) THEN "eof" ELSE p.tokens[p.pos].text
Advance(p) == IF AtEnd(p) THEN p ELSE [p EXCEPT !.pos = @ + 1]
Skip(p, n) == [p EXCEPT !.pos = @ + n]

RECURSIVE SkipNewlines(_)
SkipNewlines(p) == IF At(p, "newline") THEN SkipNewlines(Advance(p)) ELSE p

Ok(p, v) == [ok |-> TRUE, p |-> p, v |-> v]
Fail(p) == [ok |-> FALSE, p |-> p, v |-> <<>>]
Then(r, Next(_)) == IF r.ok THEN Next(r) ELSE r     \* the operator `?`
With(r, v) == Ok(r.p, v)

Expect(p, kind) == IF At(p, kind) THEN Ok(Advance(p), kind) ELSE Fail(p)
\* What r read, when `kind` follows it.
Closing(r, kind) == Then(r, LAMBDA s : Then(Expect(s.p, kind), LAMBDA c : With(c, s.v)))
\* A '}' that is missing at the end of the text is not an error.
BlockClose(r) == Then(r, LAMBDA s : IF AtEnd(s.p) THEN s ELSE Closing(s, "}"))
Option(p, kind) == Ok(IF At(p, kind) THEN Advance(p) ELSE p, At(p, kind))

Lifecycle == {"new", "drop", "move", "own"}
ExpectIdent(p) ==
  IF Kind(p) \in {"ident", "set", "to", "is"} \cup Lifecycle THEN Ok(Advance(p), Text(p)) ELSE Fail(p)

\* Tokens written with symbols; the surface of any other begins like a word.
Symbols == {":", ",", ".", "+", "-", "*", "/", "%", "==", "=", "!=", ">", "<", ">=", "<=", "@",
            "?", "(", ")", "[", "]"}
ExpectWord(p) == IF Kind(p) \notin Symbols THEN Ok(Advance(p), Text(p)) ELSE Fail(p)

MemberNames == {"ident", "set", "cons", "is", "to", "find"} \cup Lifecycle
AtPath(p) == At(p, ":") /\ KindAt(p, 1) = ":"
AtMember(p) == AtPath(p) /\ KindAt(p, 2) \in MemberNames

Push(p) == [p EXCEPT !.scopes = Append(@, {})]
Pop(r) == [r EXCEPT !.p.scopes = Front(@)]
Declare(p, x) == [p EXCEPT !.scopes[Len(p.scopes)] = @ \cup {x}]
DeclareAll(p, xs) == [p EXCEPT !.scopes[Len(p.scopes)] = @ \cup xs]
Mut_IsDeclared(p, x) == x \in Last(p.scopes)
IsDeclared(p, x) == \E i \in DOMAIN p.scopes : x \in p.scopes[i]
PushTypes(p, xs) == [p EXCEPT !.typeParams = Append(@, xs)]
PopTypes(p) == [p EXCEPT !.typeParams = Front(@)]

----------------------------------------------------------------------------
\* Looking ahead.

\* The position after the bracket that closes the one at i, 0 when there is none.
RECURSIVE AfterBracket(_, _, _)
AfterBracket(tokens, i, depth) ==
  IF i > Len(tokens) THEN 0
  ELSE IF tokens[i].kind = "]" /\ depth = 1 THEN i + 1
  ELSE AfterBracket(tokens, i + 1,
         CASE tokens[i].kind = "[" -> depth + 1 [] tokens[i].kind = "]" -> depth - 1 [] OTHER -> depth)

BracketThen(p, kind) ==
  /\ At(p, "[")
  /\ \E i \in {AfterBracket(p.tokens, p.pos, 0)} : i \in 1 .. Len(p.tokens) /\ p.tokens[i].kind = kind

\* bracket_contains_top_level_colon, from inside the bracket.
RECURSIVE ColonInside(_, _, _)
ColonInside(tokens, i, depth) ==
  /\ i <= Len(tokens)
  /\ \/ tokens[i].kind = ":" /\ depth = 0
     \/ /\ ~(tokens[i].kind \in {"]", "}", ")"} /\ depth = 0)
        /\ ColonInside(tokens, i + 1,
             CASE tokens[i].kind \in {"[", "{", "("} -> depth + 1
               [] tokens[i].kind \in {"]", "}", ")"} -> depth - 1
               [] OTHER -> depth)

\* slice_until_block_boundary: the first position at or after i where the block
\* opens (or, from inside it, closes).
RECURSIVE Boundary(_, _, _, _, _)
Boundary(tokens, i, side, round, brace) ==
  LET k == IF i <= Len(tokens) THEN tokens[i].kind ELSE "eof"
  IN IF k = "eof" THEN i
     ELSE IF round = 0 /\ brace = 0 /\ k = side THEN i
     ELSE Boundary(tokens, i + 1, side,
            CASE k \in {"(", "["} -> round + 1 [] k \in {")", "]"} /\ round > 0 -> round - 1 [] OTHER -> round,
            CASE k = "{" /\ round = 0 -> brace + 1
              [] k = "}" /\ round = 0 /\ brace > 0 -> brace - 1
              [] OTHER -> brace)

\* The first token of a match case, past newlines and what cannot decide.
RECURSIVE FormsCase(_, _, _)
FormsCase(tokens, i, depth) ==
  /\ i <= Len(tokens)
  /\ ~(depth = 0 /\ tokens[i].kind \in {"}", ":"})
  /\ \/ depth = 0 /\ tokens[i].kind \in {"ident", "int", "float", "char", "str", "bool", "none"}
     \/ FormsCase(tokens, i + 1,
          CASE tokens[i].kind \in {"(", "["} -> depth + 1
            [] tokens[i].kind \in {")", "]"} /\ depth > 0 -> depth - 1
            [] OTHER -> depth)

\* The parser of a slice: it knows the names and the types, but not the
\* functions seen so far nor that it is inside one.
Slice(p, to) ==
  [Fresh(SubSeq(p.tokens, p.pos, to - 1)) EXCEPT
     !.scopes = p.scopes, !.methods = p.methods, !.typeParams = p.typeParams, !.known = p.known]

\* After its slice the parser stands at the boundary, whatever the slice left unread.
AfterSlice(p, to, r) == [r EXCEPT !.p = [p EXCEPT !.pos = to]]

----------------------------------------------------------------------------
\* The descent: what is read inside something else.

RECURSIVE Read(_, _)
ParseType(p) == Read("type", p)
Expression(p) == Read("expression", p)
ParseUnary(p) == Read("operand", p)
ParseStatement(p) == Read("statement", p)

\* The statements of a block: up to its end, or to the other branch.
RECURSIVE StatementsUntil(_, _, _)
StatementsUntil(p, stops, ss) ==
  LET q == SkipNewlines(p)
  IN IF AtEnd(q) \/ Kind(q) \in stops THEN Ok(q, ss)
     ELSE Then(ParseStatement(q), LAMBDA r : StatementsUntil(r.p, stops, Append(ss, r.v)))
ParseBlock(p) == StatementsUntil(p, {"}", "else", "elif"}, <<>>)

----------------------------------------------------------------------------
\* Types.

Scalars == {"i8", "i16", "i32", "i64", "i128", "u8", "u16", "u32", "u64", "u128", "f32", "f64",
            "str", "bool", "char", "mu"}

\* data_type_name.
RECURSIVE TypeName(_)
TypeName(t) ==
  CASE t.ty \in {"struct", "enum", "generic"} -> t.of[1].ty
    [] t.ty \in {"vec", "maybe"} -> t.ty \o "[" \o TypeName(t.of[1]) \o "]"
    [] t.ty \in {"map", "result"} -> t.ty \o "[" \o TypeName(t.of[1]) \o " " \o TypeName(t.of[2]) \o "]"
    [] t.ty = "arr" -> "arr[" \o TypeName(t.of[1]) \o " " \o t.of[2].ty \o "]"
    [] t.ty \in Scalars -> t.ty
    [] OTHER -> "unknown"
NameWith(x, ts) ==
  x \o "[" \o FoldLeft(LAMBDA s, t : IF s = "" THEN TypeName(t) ELSE s \o " " \o TypeName(t), "", ts) \o "]"

RECURSIVE TypesUntil(_, _)
\* Types up to a ']'; commas between them are optional.
TypesUntil(p, ts) ==
  IF At(p, "]") \/ AtEnd(p) THEN Ok(p, ts)
  ELSE IF At(p, ",") THEN TypesUntil(Advance(p), ts)
  ELSE Then(ParseType(p), LAMBDA r : TypesUntil(r.p, Append(ts, r.v)))

TypeArgs(p) == Then(Expect(p, "["), LAMBDA o : Closing(TypesUntil(o.p, <<>>), "]"))

Named(p, kind, x) ==
  IF At(p, "[") THEN Then(TypeArgs(p), LAMBDA r : With(r, TypeWith(kind, NameWith(x, r.v))))
  ELSE Ok(p, TypeWith(kind, x))

\* A type that takes one type between brackets, or two, or one and a size.
Applied(p, x) ==
  Then(Expect(p, "["), LAMBDA o :
    Then(ParseType(o.p), LAMBDA a :
      CASE x \in {"vec", "maybe"} -> Closing(Ok(a.p, Type(x, <<a.v>>)), "]")
        [] x = "arr" ->
             IF At(a.p, "int") THEN Closing(Ok(Advance(a.p), Type(x, <<a.v, Type(Text(a.p), <<>>)>>)), "]") ELSE Fail(a.p)
        [] x = "result" /\ At(a.p, "]") -> Ok(Advance(a.p), Type(x, <<a.v, Str>>))
        [] OTHER ->
             Then(ParseType(IF x = "result" THEN Option(a.p, ",").p ELSE a.p), LAMBDA b :
               Closing(Ok(b.p, Type(x, <<a.v, b.v>>)), "]"))))

\* DataType::parse_type, for the names that are left.
Simple(x) ==
  CASE x \in {"list", "dict", "function", "db", "tuple", "datetime", "box"} -> Type(x, <<>>)
    [] x \in {"any", "anything"} -> Type("anything", <<>>)
    [] OTHER -> Unknown

NameType(p, x) ==
  CASE x \in Scalars -> Ok(p, Type(x, <<>>))
    [] x = "ptr" -> Ok(p, Type("pointer", <<Unknown>>))
    [] x \in {"arr", "vec", "result", "maybe"} -> Applied(p, x)
    [] x = "map" -> Applied(Option(p, "!").p, x)
    [] OTHER ->
         IF At(p, "!") THEN Applied(Advance(p), "vec")
         ELSE IF x \in p.known.nominal THEN Named(p, "struct", x)
         ELSE IF x \in p.known.enums THEN Named(p, "enum", x)
         ELSE IF \E i \in DOMAIN p.typeParams : x \in p.typeParams[i] THEN Ok(p, TypeWith("generic", x))
         ELSE Ok(p, Simple(x))

TypeRead(p) ==
  CASE At(p, "&") -> Then(ParseType(Option(Advance(p), "mut").p), LAMBDA r :
                       With(r, Type(IF KindAt(p, 1) = "mut" THEN "refmut" ELSE "ref", <<r.v>>)))
    [] At(p, "none") -> Ok(Advance(p), None)
    [] At(p, "*") -> Ok(Option(Option(Advance(p), "mut").p, "ident").p, Unknown)
    [] At(p, "ident") -> NameType(Advance(p), Text(p))
    [] OTHER -> Fail(p)

\* parse_type_name_string: a type as it is written.
TypeSurface(p) ==
  Then(ParseType(p), LAMBDA r :
    With(r, FoldLeft(LAMBDA s, t : s \o t.text, "", SubSeq(p.tokens, p.pos, r.p.pos - 1))))

\* parse_optional_type_params_with_bounds: the parameters, each with its bounds.
RECURSIVE BoundsUntil(_, _)
BoundsUntil(p, bs) ==
  IF Kind(p) \in {",", "]", "eof"} THEN Ok(p, bs)
  ELSE IF At(p, "+") THEN BoundsUntil(Advance(p), bs)
  ELSE Then(ExpectIdent(p), LAMBDA r : BoundsUntil(r.p, Append(bs, Node("Bound", r.v, <<>>))))

RECURSIVE TypeParamsUntil(_, _)
TypeParamsUntil(p, ps) ==
  IF At(p, "]") \/ AtEnd(p) THEN Ok(p, ps)
  ELSE IF At(p, ",") THEN TypeParamsUntil(Advance(p), ps)
  ELSE Then(ExpectIdent(p), LAMBDA x :
         Then(IF At(x.p, ":") THEN BoundsUntil(Advance(x.p), <<>>) ELSE With(x, <<>>), LAMBDA bs :
           TypeParamsUntil(bs.p, Append(ps, Node("TypeParam", x.v, bs.v)))))

TypeParams(p) ==
  IF At(p, "[") THEN Closing(TypeParamsUntil(Advance(p), <<>>), "]") ELSE Ok(p, <<>>)
Names(ps) == {ps[i].name : i \in DOMAIN ps}

----------------------------------------------------------------------------
\* Expressions.

RECURSIVE Level(_, _)
RECURSIVE ParseProgram(_, _, _)
RECURSIVE MatchCases(_, _, _)

\* parse_or down to parse_multiplicative: the operators of each level, the
\* loosest first.
Levels == <<{"||"}, {"^"}, {"&&"}, {"==", "!="}, {"|"}, {"&"}, {"<", ">", "<=", ">=", "in"},
            {"+", "-"}, {"<<", ">>"}, {"*", "/", "%"}>>
Equality == 4
Comparison == 7
Additive == 8
PipelineFree(p) == Level(1, p)

\* contains_self_placeholder.
RECURSIVE HasSelf(_)
HasSelf(e) ==
  \/ e.op = "Identifier" /\ e.name = "self"
  \/ \E i \in DOMAIN e.args : HasSelf(e.args[i])

\* replace_self_placeholder: it does not enter a closure, a macro or an ascription.
RECURSIVE ReplaceSelf(_, _)
ReplaceSelf(e, input) ==
  IF e.op = "Identifier" /\ e.name = "self" THEN input
  ELSE IF e.op \in {"Closure", "UseMacro", "MacroCall", "Ascription"} THEN e
  ELSE [e EXCEPT !.args = [i \in DOMAIN @ |-> ReplaceSelf(@[i], input)]]

ApplyPipeline(input, stage, safe) ==
  IF HasSelf(stage) /\ ~safe THEN ReplaceSelf(stage, input)
  ELSE Node("Pipeline", IF safe THEN "safe" ELSE "", <<input, IF HasSelf(stage) THEN ReplaceSelf(stage, input) ELSE stage>>)

\* `@` indexes what ends on the same line; never after the first token of a text.
SameLine(p) == p.pos > 2 /\ p.tokens[p.pos - 1].kind # "newline"

\* The loop of one level: r is the left operand.
RECURSIVE More(_, _)
More(l, r) ==
  Then(r, LAMBDA left :
    LET p == SkipNewlines(left.p)
        Right(s) == Level(l + 1, SkipNewlines(Advance(s)))
        Next(s, Build(_)) == More(l, Then(s, LAMBDA right : With(right, Build(right.v))))
    IN CASE Kind(p) \in Levels[l] -> Next(Right(p), LAMBDA v : Binary(Kind(p), left.v, v))
         [] l = Equality /\ At(p, "is") ->
              Next(Then(Expect(Advance(p), "("), LAMBDA o : Closing(Level(l + 1, o.p), ")")),
                   LAMBDA v : Typed("Call", "__is", <<left.v, v>>, Bool))
         [] l = Comparison /\ Kind(p) \in {"=>", "=>?"} ->
              Next(Right(p), LAMBDA v : ApplyPipeline(left.v, v, At(p, "=>?")))
         [] l = Comparison /\ At(p, "of") ->
              Next(TypeSurface(Advance(p)), LAMBDA t : Typed("Call", "__type_matches", <<left.v, StrLiteral(t)>>, Bool))
         [] l = Comparison /\ At(p, "@") /\ SameLine(p) -> Next(Right(p), LAMBDA v : Index(left.v, v))
         [] l = Comparison /\ At(p, "to") ->
              Next(Right(p), LAMBDA v : Typed("Call", "range", <<left.v, v>>, Type("list", <<>>)))
         [] OTHER -> Ok(p, left.v))

Prefix(p, Build(_)) == Then(ParseUnary(p), LAMBDA r : With(r, Build(r.v)))

\* apply_type_ascription: the type goes into the node's slot; a literal, which
\* has none, is wrapped; nodes that are not listed lose it.
Slotted == {"Identifier", "BinaryOp", "UnaryOp", "NamedArg", "Call", "List", "Dict", "Index", "MemberAccess",
            "Pipeline", "Match", "EnumVariantPath", "EnumVariant", "Try", "Ok", "Err", "Closure"}
Ascribe(e, t) ==
  CASE e.op = "Literal" -> Typed("Ascription", "", <<e>>, t)
    [] e.op = "List" /\ e.args = <<>> /\ t.ty = "map" -> Typed("Dict", "", <<>>, t)
    [] e.op \in Slotted -> [e EXCEPT !.type = t]
    [] OTHER -> e

\* at_operator_continuing_expression.
Continuing == {"+", "-", "*", "/", "%", "==", "!=", ">", "<", ">=", "<=", "&&", "||", "^", "<<", ">>",
               "=>", "=>?", ".", "?", "+=", "-=", "*=", "/=", "%="}

\* parse_expression: a type after the whole expression is its ascription.
ExpressionRead(p) ==
  Then(PipelineFree(p), LAMBDA r :
    IF At(r.p, ":")
    THEN Then(ParseType(Advance(r.p)), LAMBDA t : With(t, Ascribe(r.v, t.v)))
    ELSE r)

----------------------------------------------------------------------------
\* Lists between brackets.  The kinds differ in what an element is and in where a
\* comma may stand.

\* An argument may have a name: `x = e` in a call, `x: e` for the payload of a variant.
Argument(p, colon) ==
  IF At(p, "ident") /\ KindAt(p, 1) = colon
  THEN Then(Expression(Skip(p, 2)), LAMBDA r : With(r, NamedArg(Text(p), r.v)))
  ELSE Expression(p)

Param(p) ==
  Then(IF At(p, "self") THEN Ok(Advance(p), "self") ELSE ExpectIdent(p), LAMBDA x :
    IF At(x.p, ":")
    THEN Then(ParseType(Advance(x.p)), LAMBDA t : Ok(Option(t.p, "mut").p, Typed("Param", x.v, <<>>, t.v)))
    ELSE With(x, Node("Param", x.v, <<>>)))

\* A pointer of a foreign function; anything else is a type.
ForeignType(p) ==
  IF At(p, "*")
  THEN Then(ParseType(Option(Option(Advance(p), "const").p, "mut").p), LAMBDA t : With(t, Type("pointer", <<t.v>>)))
  ELSE ParseType(p)

ForeignParam(p) ==
  Then(ExpectIdent(p), LAMBDA x :
    IF At(x.p, ":") THEN Then(ForeignType(Advance(x.p)), LAMBDA t : With(t, Typed("Param", x.v, <<>>, t.v)))
    ELSE With(x, Node("Param", x.v, <<>>)))

PayloadParam(p) ==
  Then(ExpectIdent(p), LAMBDA x :
    Then(Expect(x.p, ":"), LAMBDA c : Then(ParseType(c.p), LAMBDA t : With(t, Typed("Param", x.v, <<>>, t.v)))))

\* coerce_dict_key_to_string: a name that is not declared is a string.
Key(p, e) == IF e.op = "Identifier" /\ ~IsDeclared(p, e.name) THEN StrLiteral(e.name) ELSE e

\* `key: value`; only the key is shielded from ascriptions.
KeyValue(p) ==
  Then(PipelineFree([p EXCEPT !.keys = @ + 1]), LAMBDA k :
    Then(Expect([k.p EXCEPT !.keys = @ - 1], ":"), LAMBDA c :
      Then(Expression(c.p), LAMBDA v : With(v, Entry(Key(k.p, k.v), v.v)))))

Item(kind, p) ==
  CASE kind = "argument" -> Argument(p, "=")
    [] kind = "payload" -> Argument(p, ":")
    [] kind = "element" -> Expression(p)
    [] kind = "entry" -> KeyValue(p)
    [] kind = "param" -> Param(p)
    [] kind = "foreign" -> ForeignParam(p)
    [] kind = "binding" -> PayloadParam(p)
    [] kind = "name" -> Then(ExpectIdent(p), LAMBDA x : With(x, Node("Name", x.v, <<>>)))

\* Commas: anywhere, only after an element, nowhere.
AfterElement == {"element", "entry", "param"}
NoComma == {"name"}

RECURSIVE ItemsUntil(_, _, _, _)
ItemsUntil(kind, stop, p, items) ==
  IF At(p, stop) \/ AtEnd(p) THEN Ok(p, items)
  ELSE IF At(p, ",") /\ kind \notin AfterElement \cup NoComma THEN ItemsUntil(kind, stop, Advance(p), items)
  ELSE Then(Read(kind, p), LAMBDA r :
         ItemsUntil(kind, stop, IF kind \in NoComma THEN r.p ELSE Option(r.p, ",").p, Append(items, r.v)))

Items(kind, open, close, p) ==
  Then(Expect(p, open), LAMBDA o : Closing(ItemsUntil(kind, close, o.p, <<>>), close))
CallArguments(p) == Items("argument", "(", ")", p)

\* parse_bracket_literal: a colon inside makes it a map.
BracketLiteral(p) ==
  IF KindAt(p, 1) # "]" /\ ColonInside(p.tokens, p.pos + 1, 0)
  THEN Then(Items("entry", "[", "]", p), LAMBDA r : With(r, Node("Dict", "", r.v)))
  ELSE Then(Items("element", "[", "]", p), LAMBDA r : With(r, List(r.v)))
BraceLiteral(p) == Then(Items("entry", "{", "}", p), LAMBDA r : With(r, Node("Dict", "", r.v)))

----------------------------------------------------------------------------
\* Calls, members and what follows an operand.

\* member_access_name, and the names a call can be made by.
RECURSIVE PathName(_)
PathName(e) ==
  CASE e.op = "Identifier" -> e.name
    [] e.op = "MemberAccess" /\ PathName(e.args[1]) # "" -> PathName(e.args[1]) \o "." \o e.name
    [] OTHER -> ""
CallTarget(e) == IF e.op = "EnumVariantPath" THEN e.args[1].name \o "." \o e.name ELSE PathName(e)

\* The value of several expressions between parentheses.
Packed(es) == IF Len(es) = 0 THEN NoneLiteral ELSE IF Len(es) = 1 THEN es[1] ELSE Tuple(es)
Wrappers == [ok |-> "Ok", err |-> "Err", some |-> "Some"]

\* concat_expressions.
Concat(parts) ==
  LET kept == SelectSeq(parts, LAMBDA e : e # StrLiteral(""))
  IN IF kept = <<>> THEN StrLiteral("")
     ELSE FoldLeft(LAMBDA l, r : Typed("BinaryOp", "+", <<l, r>>, Str), Head(kept), Tail(kept))

\* parse_interpolation_source: an expression, with a format after a colon of its
\* own (the first colon is the expression's), and nothing after it.
Surface(tokens) == FoldLeft(LAMBDA s, t : s \o t.text, "", tokens)
Interpolated(p, tokens) ==
  Then(Expression([Fresh(tokens) EXCEPT !.scopes = p.scopes, !.methods = p.methods, !.known = p.known]), LAMBDA r :
    CASE At(r.p, ":") ->
           Ok(p, Typed("Call", "__mire_fmt", <<r.v, StrLiteral(Surface(SubSeq(tokens, r.p.pos + 1, Len(tokens))))>>, Str))
      [] AtEnd(SkipNewlines(r.p)) -> Ok(p, Typed("Call", "str", <<r.v>>, Str))
      [] OTHER -> Fail(p))

\* normalize_io_argument: a text with interpolations is the sum of its parts.
RECURSIVE Template(_, _, _)
Template(p, parts, done) ==
  IF parts = <<>> THEN Ok(p, Concat(done))
  ELSE Then(IF Head(parts).tokens = <<>> THEN Ok(p, StrLiteral(Head(parts).text)) ELSE Interpolated(p, Head(parts).tokens),
            LAMBDA r : Template(p, Tail(parts), Append(done, r.v)))

RECURSIVE Normalised(_, _, _)
Normalised(p, args, done) ==
  IF args = <<>> THEN Ok(p, done)
  ELSE LET e == Head(args)
       IN Then(IF e.op = "Literal" /\ e.name = "str" /\ e.args[1].name \in DOMAIN Templates
               THEN Template(p, Templates[e.args[1].name], <<>>) ELSE Ok(p, e),
               LAMBDA r : Normalised(p, Tail(args), Append(done, r.v)))

IoCall(p, f) ==
  Then(CallArguments(p), LAMBDA r :
    Then(Normalised(r.p, r.v, <<>>), LAMBDA n :
      IF At(n.p, ":") THEN Then(ParseType(Advance(n.p)), LAMBDA t : With(t, Typed("Call", f, n.v, t.v)))
      ELSE With(n, Typed("Call", f, n.v, Str))))

\* A '(' after an operand.
CallOf(e, p) ==
  LET f == CallTarget(e)
  IN CASE f \in {"dasu", "ireru"} -> IoCall(p, f)
       [] OTHER ->
            Then(CallArguments(p), LAMBDA r :
              With(r, CASE f = "" -> Call("call", <<e>> \o r.v)
                        [] f \in DOMAIN Wrappers -> Node(Wrappers[f], "", <<Packed(r.v)>>)
                        [] e.op = "Identifier" -> CallAt(f, r.v)
                        [] OTHER -> Call(f, r.v)))

MacroCall(e, p) ==
  IF e.op # "Identifier" THEN Fail(p)
  ELSE Then(CallArguments(Advance(p)), LAMBDA r : With(r, Node("MacroCall", "", <<CallAt(e.name, r.v)>>)))

GenericCall(e, p) ==
  Then(TypeArgs(p), LAMBDA ts :
    Then(CallArguments(ts.p), LAMBDA r :
      With(r, Call(CallTarget(e), <<Node("TypeArgs", "", [i \in DOMAIN ts.v |-> Typed("Type", "", <<>>, ts.v[i])])>> \o r.v))))

\* The colon of an operand: the type is the operand's when an operator follows it;
\* otherwise the colon is left to the whole expression.
OperandType(e, p) ==
  Then(ParseType(Advance(p)), LAMBDA t :
    IF Kind(t.p) \in Continuing THEN Ok(t.p, Ascribe(e, t.v)) ELSE Ok(p, e))

\* parse_postfix after its operand.
RECURSIVE MorePostfix(_)
MorePostfix(r) ==
  Then(r, LAMBDA s :
    LET e == s.v  p == s.p
    IN CASE At(p, "!") -> MorePostfix(MacroCall(e, p))
         [] BracketThen(p, "(") /\ CallTarget(e) # "" /\ e.op # "EnumVariantPath" -> MorePostfix(GenericCall(e, p))
         [] At(p, ".") -> MorePostfix(Then(ExpectWord(Advance(p)), LAMBDA m : With(m, Member(e, m.v))))
         [] AtMember(p) -> MorePostfix(Ok(Skip(p, 3), Member(e, p.tokens[p.pos + 2].text)))
         [] At(p, "?") -> MorePostfix(Ok(Advance(p), Node("Try", "", <<e>>)))
         [] At(p, "[") /\ e.op \notin {"List", "Dict", "Literal"} ->
              MorePostfix(Then(Closing(Level(Additive, SkipNewlines(Advance(p))), "]"), LAMBDA i : With(i, Index(e, i.v))))
         [] At(p, "(") -> MorePostfix(CallOf(e, p))
         [] At(p, ":") /\ p.keys = 0 ->
              Then(OperandType(e, p), LAMBDA t : IF t.p.pos = p.pos THEN s ELSE MorePostfix(t))
         [] OTHER -> s)

----------------------------------------------------------------------------
\* Operands.

\* `.variant`, with its payload if there is one.
EnumPrimary(p, x) ==
  IF KindAt(p, 2) = "("
  THEN Then(Items("payload", "(", ")", Skip(p, 2)), LAMBDA r : With(r, Variant(x, p.tokens[p.pos + 1].text, r.v)))
  ELSE Ok(Skip(p, 2), VariantPath(x, p.tokens[p.pos + 1].text))

\* `a::b::c`: the names after the first.
RECURSIVE PathRest(_, _)
PathRest(p, names) ==
  IF AtMember(p) THEN PathRest(Skip(p, 3), Append(names, p.tokens[p.pos + 2].text)) ELSE Ok(p, names)
Dotted(names) == FoldLeft(LAMBDA s, x : IF s = "" THEN x ELSE s \o "." \o x, "", names)

PathPrimary(p, x) ==
  Then(PathRest(p, <<>>), LAMBDA r :
    LET full == Dotted(<<x>> \o r.v)
    IN CASE At(r.p, ".") /\ KindAt(r.p, 1) = "ident" /\ Last(r.v) \in p.known.enums -> EnumPrimary(r.p, full)
         [] At(r.p, "(") -> Then(CallArguments(r.p), LAMBDA a : With(a, CallAt(full, a.v)))
         [] OTHER -> With(r, Member(Identifier(x), Dotted(r.v))))

\* A name, with what is read together with it.  `name[...].` is a type with arguments.
\* The branch for `type e` is left out: `type` is a keyword, never an "ident".
NamePrimary(p) ==
  Then(IF BracketThen(Advance(p), ".")
       THEN Then(TypeArgs(Advance(p)), LAMBDA ts : With(ts, NameWith(Text(p), ts.v))) ELSE Ok(Advance(p), Text(p)),
       LAMBDA n :
    CASE AtMember(n.p) -> PathPrimary(n.p, n.v)
      [] At(n.p, ".") /\ KindAt(n.p, 1) = "ident" /\ Text(p) \in p.known.enums -> EnumPrimary(n.p, n.v)
      [] At(n.p, ".") /\ KindAt(n.p, 1) = "ident" /\ KindAt(n.p, 2) = "(" ->
           Then(CallArguments(Skip(n.p, 2)), LAMBDA a : With(a, CallAt(n.v \o "." \o n.p.tokens[n.p.pos + 1].text, a.v)))
      [] At(n.p, ".") /\ KindAt(n.p, 1) = "ident" -> Ok(Skip(n.p, 2), Member(Identifier(n.v), n.p.tokens[n.p.pos + 1].text))
      [] OTHER -> With(n, Identifier(n.v)))

\* A block whose last expression is its value, or one expression.
ClosureBody(p) ==
  IF At(p, "{")
  THEN Then(BlockClose(ParseBlock(Advance(p))), LAMBDA r :
         With(r, IF r.v # <<>> /\ Last(r.v).op = "Expression" THEN Append(Front(r.v), Return(Last(r.v).args[1])) ELSE r.v))
  ELSE Then(PipelineFree(p), LAMBDA r : With(r, <<Return(r.v)>>))

\* try_parse_signature_closure and `name => body`: neither opens a scope.
SignatureClosure(params) == Then(ClosureBody(Skip(params.p, 2)), LAMBDA b : With(b, Closure(params.v, b.v)))
NameClosure(p) ==
  Then(ClosureBody(Skip(p, 2)), LAMBDA b : Closing(With(b, Closure(<<Node("Param", Text(p), <<>>)>>, b.v)), ")"))

\* `(Name field: e, ...)`.
RECURSIVE Fields(_, _)
Fields(p, fields) ==
  IF At(p, "ident") /\ KindAt(p, 1) = ":"
  THEN Then(Argument(p, ":"), LAMBDA r : Fields(Option(r.p, ",").p, Append(fields, r.v))) ELSE Ok(p, fields)
StructLiteral(p) == Then(Closing(Fields(Advance(p), <<>>), ")"), LAMBDA r : With(r, Call(Text(p), r.v)))

\* The branch for (Type.method(...)) reads only `Name..`, which it then refuses as
\* any other reading does; type arguments are looked for at the name, where no '['
\* is (bracket_followed_by_dot, bracket_followed_by_ident_colon), so never found.
Parenthesised(p, params) ==
  CASE params.ok /\ At(params.p, ")") /\ KindAt(params.p, 1) = "=>" -> SignatureClosure(params)
    [] At(p, "ident") /\ KindAt(p, 1) = "ident" /\ KindAt(p, 2) = ":" -> StructLiteral(p)
    [] Kind(p) \in {"ident", "self"} /\ KindAt(p, 1) = "=>" -> NameClosure(p)
    [] OTHER -> Closing(Expression(p), ")")

\* An expression that is alone before a '{', or between braces: what the
\* parser of the slice leaves unread is not looked at.
UntilOpen(p) ==
  Then(Ok(p, Boundary(p.tokens, p.pos, "{", 0, 0)), LAMBDA b : AfterSlice(p, b.v, Expression(Slice(p, b.v))))
UntilClose(p) ==
  Then(Ok(p, Boundary(p.tokens, p.pos, "}", 0, 0)), LAMBDA b : AfterSlice(p, b.v, Expression(Slice(p, b.v))))
Braced(p) == Then(Expect(p, "{"), LAMBDA o : BlockClose(UntilClose(o.p)))

IfExpression(p) ==
  Then(UntilOpen(Advance(p)), LAMBDA c :
    Then(Braced(c.p), LAMBDA t :
      Then(Expect(t.p, "else"), LAMBDA e :
        Then(Braced(e.p), LAMBDA f :
          With(f, Call("__if_expr", <<c.v, Closure(<<>>, <<Return(t.v)>>), Closure(<<>>, <<Return(f.v)>>)>>))))))

\* `use f` calls f; `use! e` marks e.
UseExpr(p) ==
  IF At(p, "!") THEN Then(PipelineFree(Advance(p)), LAMBDA r : With(r, Node("UseMacro", "", <<r.v>>)))
  ELSE Then(PipelineFree(p), LAMBDA r : With(r, IF r.v.op = "Identifier" THEN Call(r.v.name, <<>>) ELSE r.v))

\* What is after the cases: the value when none of them matches.
MatchExpression(p) ==
  Then(Expression(SkipNewlines(p)), LAMBDA v :
    Then(Expect(SkipNewlines(v.p), "{"), LAMBDA o :
      Then(MatchCases("expression", o.p, [cases |-> <<>>, default |-> <<>>]), LAMBDA m :
        With(m, Node("Match", "", <<v.v>> \o m.v.cases \o
                  <<Node("Default", "", IF m.v.default = <<>> THEN <<NoneLiteral>> ELSE m.v.default)>>)))))

Literals == {"int", "float", "char", "str", "bool", "none"}

\* check_lifecycle_expression_prefix asks for a keyword and a ':' at one position,
\* so `move::(e)` is never read as such.
Primary(p) ==
  CASE Kind(p) \in Lifecycle \cup {"set", "to", "in"} -> Ok(Advance(p), Identifier(Text(p)))
    [] Kind(p) \in Literals -> Ok(Advance(p), Literal(Kind(p), Text(p)))
    [] At(p, "self") -> Ok(Advance(p), Identifier("self"))
    [] At(p, "ident") -> NamePrimary(p)
    [] At(p, "use") -> UseExpr(Advance(p))
    [] At(p, "if") -> IfExpression(p)
    [] At(p, "match") -> MatchExpression(Advance(p))
    [] At(p, "(") -> Parenthesised(Advance(p), ItemsUntil("param", ")", Advance(p), <<>>))
    [] At(p, "[") -> BracketLiteral(p)
    [] At(p, "{") -> BraceLiteral(p)
    [] OTHER -> Fail(p)

UnaryRead(p) ==
  CASE Kind(p) \in {"-", "!"} -> Prefix(Advance(p), LAMBDA e : Unary(Kind(p), e))
    [] At(p, "&") -> Prefix(Option(Advance(p), "mut").p,
                            LAMBDA e : Node("Reference", IF KindAt(p, 1) = "mut" THEN "mut" ELSE "", <<e>>))
    [] At(p, "*") -> Prefix(Advance(p), LAMBDA e : Node("Dereference", "", <<e>>))
    [] OTHER -> MorePostfix(Primary(p))

Level(l, p) == IF l > Len(Levels) THEN ParseUnary(p) ELSE More(l, Level(l + 1, p))

----------------------------------------------------------------------------
\* Match cases.

RECURSIVE PatternAtom(_)

\* `Enum.Variant(...)`, or `Variant(...)` when only one enum has it.
NamePattern(p) ==
  CASE KindAt(p, 1) = "." /\ KindAt(p, 2) = "ident" ->
         IF KindAt(p, 3) = "("
         THEN Then(CallArguments(Skip(p, 3)), LAMBDA r : With(r, Variant(Text(p), p.tokens[p.pos + 2].text, r.v)))
         ELSE Ok(Skip(p, 3), VariantPath(Text(p), p.tokens[p.pos + 2].text))
    [] KindAt(p, 1) = "(" /\ Text(p) \in Capitalised ->
         Then(CallArguments(Advance(p)), LAMBDA r :
           IF Text(p) \in DOMAIN p.known.owners THEN With(r, Variant(p.known.owners[Text(p)], Text(p), r.v)) ELSE Fail(r.p))
    [] OTHER -> Ok(Advance(p), Identifier(Text(p)))

PatternAtom(p) ==
  CASE At(p, "ident") -> NamePattern(p)
    [] At(p, "int") /\ KindAt(p, 1) = "." /\ KindAt(p, 2) = "." ->
         Then(PatternAtom(Skip(p, 3)), LAMBDA e :
           With(e, Typed("Call", "__match_range", <<Literal("int", Text(p)), e.v>>, Bool)))
    [] Kind(p) \in Literals \ {"none"} -> Ok(Advance(p), Literal(Kind(p), Text(p)))
    [] OTHER -> Fail(p)

\* Alternatives, to the left.
RECURSIVE MorePatterns(_)
MorePatterns(r) ==
  IF r.ok /\ At(r.p, "|")
  THEN MorePatterns(Then(PatternAtom(Advance(r.p)), LAMBDA e : With(e, Typed("Call", "__match_or", <<r.v, e.v>>, Bool))))
  ELSE r

Guarded(r) ==
  Then(r, LAMBDA s :
    IF At(s.p, "ident") /\ Text(s.p) = "when"
    THEN Then(UntilOpen(Advance(s.p)), LAMBDA g : With(g, Typed("Call", "__match_guard", <<s.v, g.v>>, Bool)))
    ELSE s)

\* declare_match_pattern_bindings: the names a pattern binds; of alternatives, those of the first.
RECURSIVE Bindings(_)
Bindings(e) ==
  CASE e.op = "EnumVariant" -> {e.args[i].name : i \in {j \in DOMAIN e.args : e.args[j].op = "Identifier"}}
    [] e.op = "Call" /\ e.name \in {"__match_guard", "__match_or"} -> Bindings(e.args[1])
    [] OTHER -> {}

\* A case's body is read by the parser of its slice: an expression, or statements
\* in a scope of their own.
SliceStatements(p, r) == IF r.p.failed THEN Fail(p) ELSE Ok(p, Block(r.statements))
CaseBody(kind, p) ==
  Then(Ok(p, Boundary(p.tokens, p.pos, "}", 0, 0)), LAMBDA b :
    Then(AfterSlice(p, b.v, IF kind = "expression" THEN Expression(Slice(p, b.v))
                            ELSE SliceStatements(p, ParseProgram(Push(Slice(p, b.v)), <<>>, <<>>))),
         LAMBDA r : Pop(r)))

MatchCases(kind, p, m) ==
  LET start == SkipNewlines(p)
      Body(g) == Then(Expect(SkipNewlines(g.p), "{"), LAMBDA o :
                   Closing(CaseBody(kind, DeclareAll(Push(SkipNewlines(o.p)), Bindings(g.v))), "}"))
      default(g) == g.v.op = "Identifier" /\ g.v.name = "_"
  IN CASE At(start, "}") -> Ok(Advance(start), m)
       [] ~At(start, "}") /\ ~FormsCase(start.tokens, start.pos, 0) -> Fail(start)
       [] OTHER ->
            Then(Guarded(MorePatterns(PatternAtom(start))), LAMBDA g :
              Then(Body(g), LAMBDA b :
                CASE m.default # <<>> -> Fail(b.p)
                  [] default(g) -> MatchCases(kind, b.p, [m EXCEPT !.default = <<b.v>>])
                  [] OTHER -> MatchCases(kind, b.p, [m EXCEPT !.cases = Append(@, Node("Case", "", <<g.v, b.v>>))])))

----------------------------------------------------------------------------
\* Statements.

\* `{ ... }` with a scope of its own, in which xs are declared.
Body(p, xs) ==
  Then(Expect(p, "{"), LAMBDA o :
    Then(ParseBlock(DeclareAll(Push(o.p), xs)), LAMBDA b : BlockClose(Pop(With(b, Block(b.v))))))

\* parse_assignment_target, as the expression it stands for.
RECURSIVE TargetPath(_, _)
TargetPath(p, e) ==
  IF At(p, ".") THEN Then(ExpectIdent(Advance(p)), LAMBDA m : TargetPath(m.p, Member(e, m.v))) ELSE Ok(p, e)
Target(p) ==
  IF At(p, "*") THEN Prefix(Advance(p), LAMBDA e : Node("Dereference", "", <<e>>))
  ELSE Then(IF At(p, "self") THEN Ok(Advance(p), "self") ELSE ExpectIdent(p), LAMBDA x :
         Then(TargetPath(x.p, Identifier(x.v)), LAMBDA t :
           CASE At(t.p, "@") -> Then(Level(Additive, Advance(t.p)), LAMBDA i : With(i, Index(t.v, i.v)))
             [] At(t.p, "[") -> Then(Closing(Expression(Advance(t.p)), "]"), LAMBDA i : With(i, Index(t.v, i.v)))
             [] OTHER -> t))

Compound == [o \in {"+=", "-=", "*=", "/=", "%="} |->
               CASE o = "+=" -> "+" [] o = "-=" -> "-" [] o = "*=" -> "*" [] o = "/=" -> "/" [] o = "%=" -> "%"]

Let(x, v, t, flags) == Typed("Let", x, <<v>> \o flags, t)
Assignment(target, v) == Node("Assignment", "", <<target, v>>)

\* apply_vector_type_to_list, apply_map_type_to_dict.
Shaped(e, t) ==
  CASE t.ty = "vec" /\ e.op = "List" -> [e EXCEPT !.type = t]
    [] t.ty = "map" /\ e.op = "Dict" -> [e EXCEPT !.type = t]
    [] t.ty = "map" /\ e.op = "List" /\ e.args = <<>> -> Typed("Dict", "", <<>>, t)
    [] OTHER -> e

\* parse_set_statement: a declaration, or an assignment when the name is declared.
SetValue(target, o, r) ==
  Then(IF At(r.p, ":") THEN Then(ParseType(Advance(r.p)), LAMBDA t : With(t, <<t.v>>)) ELSE With(r, <<>>), LAMBDA t :
    LET mut == Option(t.p, "mut")
        const == Option(mut.p, "const")
        value == IF t.v = <<>> THEN r.v ELSE Shaped(r.v, t.v[1])
        x == target.name
        again == IsDeclared(t.p, x) /\ x \notin t.p.functions
    IN CASE o \in DOMAIN Compound -> With(const, Assignment(target, Node("BinaryOp", Compound[o], <<target, value>>)))
         [] o = "=" /\ target.op # "Identifier" -> With(const, Assignment(target, value))
         [] o = "=" /\ target.op = "Identifier" /\ t.v = <<>> /\ ~const.v /\ again -> With(const, Assignment(target, value))
         [] OTHER -> Ok(Declare(const.p, x), Let(x, value, IF t.v = <<>> THEN Unknown ELSE t.v[1],
                                                 Flag(mut.v, "mut") \o Flag(const.v, "const"))))
SetStatement(p) ==
  Then(Target(p), LAMBDA t :
    IF Kind(t.p) \in {"="} \cup DOMAIN Compound
    THEN Then(Expression(Advance(t.p)), LAMBDA r : SetValue(t.v, Kind(t.p), r)) ELSE Fail(Advance(t.p)))

ConsStatement(p) ==
  Then(Target(p), LAMBDA t : Then(Expect(t.p, "="), LAMBDA o : Then(Expression(o.p), LAMBDA r :
    CASE At(r.p, "mut") \/ t.v.op # "Identifier" -> Fail(r.p)
      [] OTHER ->
           Then(CASE r.v.op = "Ascription" -> With(r, r.v.type)
                  [] r.v.op # "Ascription" /\ At(r.p, ":") -> ParseType(Advance(r.p))
                  [] OTHER -> With(r, Unknown),
                LAMBDA y : Ok(Declare(y.p, t.v.name), Let(t.v.name, r.v, y.v, Flag(TRUE, "const")))))))

\* if, elif, else.
RECURSIVE IfStatement(_)
IfStatement(p) ==
  Then(UntilOpen(p), LAMBDA c : Then(Body(c.p, {}), LAMBDA t :
    Then(CASE At(t.p, "elif") -> Then(IfStatement(Advance(t.p)), LAMBDA e : With(e, <<Block(<<e.v>>)>>))
           [] At(t.p, "else") -> Then(Body(Advance(t.p), {}), LAMBDA e : With(e, <<e.v>>))
           [] OTHER -> With(t, <<>>),
         LAMBDA e : With(e, Node("If", "", <<c.v, t.v>> \o e.v)))))

WhileStatement(p) ==
  Then(UntilOpen(p), LAMBDA c : Then(Body(c.p, {}), LAMBDA b : With(b, Node("While", "", <<c.v, b.v>>))))

LoopOver(op, p, xs) ==
  Then(Expect(p, "in"), LAMBDA i : Then(UntilOpen(i.p), LAMBDA e :
    Then(Body(e.p, ToSet(xs)), LAMBDA b : With(b, Node(op, Dotted(xs), <<e.v, b.v>>)))))
ForStatement(p) ==
  Then(ExpectIdent(p), LAMBDA x :
    IF At(x.p, ",") THEN Then(ExpectIdent(Advance(x.p)), LAMBDA y : LoopOver("For", y.p, <<x.v, y.v>>))
    ELSE LoopOver("For", x.p, <<x.v>>))
FindStatement(p) == Then(ExpectIdent(p), LAMBDA x : LoopOver("Find", x.p, <<x.v>>))

DoWhileStatement(p) ==
  Then(Body(p, {}), LAMBDA b : Then(Expect(b.p, "while"), LAMBDA w : Then(Expression(w.p), LAMBDA c :
    With(c, Eval(Typed("Call", "__do_while", <<Typed("Closure", "", <<Params(<<>>), b.v>>, None),
                                              Typed("Closure", "", <<Params(<<>>), Block(<<Return(c.v)>>)>>, Bool)>>, None))))))

MatchStatement(p) ==
  Then(Expression(SkipNewlines(p)), LAMBDA v : Then(Expect(v.p, "{"), LAMBDA o :
    Then(MatchCases("statement", o.p, [cases |-> <<>>, default |-> <<>>]), LAMBDA m :
      With(m, Node("MatchStatement", "", <<v.v>> \o m.v.cases \o m.v.default)))))

ReturnStatement(p) ==
  IF Kind(p) \in {"newline", "}", "else", "elif", "eof"} THEN Ok(p, Node("Return", "", <<>>))
  ELSE Then(Expression(p), LAMBDA r : With(r, Return(r.v)))

LifecycleArgs(p) ==
  Then(Expect(p, ":"), LAMBDA a : Then(Expect(a.p, ":"), LAMBDA b : Items("expression", "(", ")", b.p)))
\* new and own make a value of a type; move and drop take one.
OwnershipStatement(k, p) ==
  Then(LifecycleArgs(p), LAMBDA r :
    CASE k \in {"new", "own"} ->
           Then(Expect(r.p, ":"), LAMBDA c : Then(ParseType(c.p), LAMBDA t :
             With(t, Typed(k, "", IF r.v = <<>> THEN <<>> ELSE <<Packed(r.v)>>, t.v))))
      [] k = "move" /\ Len(r.v) = 1 -> Then(Expect(r.p, "to"), LAMBDA c : Then(ExpectIdent(c.p), LAMBDA x : With(x, Node("move", x.v, r.v))))
      [] k = "drop" /\ r.v # <<>> -> With(r, Node("drop", "", <<Packed(r.v)>>))
      [] OTHER -> Fail(r.p))

----------------------------------------------------------------------------
\* Declarations.

ReturnType(p, Parse(_)) == IF At(p, ":") THEN Parse(Advance(p)) ELSE Ok(p, None)

\* `: (params) :type`.
Signature(p) ==
  Then(Expect(p, ":"), LAMBDA c : Then(Items("param", "(", ")", c.p), LAMBDA ps :
    Then(ReturnType(ps.p, ParseType), LAMBDA t : With(t, [params |-> ps.v, type |-> t.v]))))

\* The attributes read before the statement go to the first declaration that ends.
Taken(p) == Node("Attributes", "", p.pending)
Attributed(p) == [p EXCEPT !.pending = <<>>]

FnStatement(p, public) ==
  Then(ExpectIdent(p), LAMBDA first : Then(PathRest(first.p, <<first.v>>), LAMBDA path : Then(TypeParams(path.p), LAMBDA ts :
    Then(Signature(PushTypes(ts.p, Names(ts.v))), LAMBDA sig :
      Then(Body([sig.p EXCEPT !.bodies = @ + 1], Names(sig.v.params)), LAMBDA b :
        LET x == FoldLeft(LAMBDA s, y : IF s = "" THEN y ELSE s \o "::" \o y, "", path.v)
            after == [Declare(PopTypes(b.p), x) EXCEPT !.bodies = @ - 1, !.functions = @ \cup {x}]
        IN Ok(Attributed(after), Function(x, Taken(after), ts.v, sig.v.params, b.v, sig.v.type,
                                          Visible(public) \o Flag(b.p.methods > 0, "method"))))))))

\* A list of members, one after the other up to the '}'; a token that cannot begin
\* a field is passed over.
FieldMember(p) ==
  Then(Ok(Advance(p), Text(p)), LAMBDA x :
    Then(IF At(x.p, ":") THEN ParseType(Advance(x.p)) ELSE With(x, Unknown), LAMBDA t :
      LET mut == Option(t.p, "mut")
      IN Ok(Option(mut.p, ",").p, Typed("Field", x.v, Flag(mut.v, "mut"), t.v))))
VariantMember(p) ==
  Then(ExpectIdent(p), LAMBDA x :
    Then(IF At(x.p, "(") THEN Items("binding", "(", ")", x.p) ELSE With(x, <<>>), LAMBDA ps : With(ps, Node("Variant", x.v, ps.v))))
SignatureMember(p) ==
  Then(Expect(p, "fn"), LAMBDA f : Then(ExpectIdent(f.p), LAMBDA x :
    Then(Signature(x.p), LAMBDA sig : With(sig, Typed("Signature", x.v, sig.v.params, sig.v.type)))))
\* An instruction: its name, and the rest of the line.
RECURSIVE RestOfLine(_, _)
RestOfLine(p, text) ==
  IF Kind(p) \in {"newline", "}", "eof"} THEN Ok(p, StrLiteral(text))
  ELSE RestOfLine(Advance(p), IF text = "" THEN Text(p) ELSE text \o " " \o Text(p))
Instruction(p) ==
  Then(ExpectIdent(p), LAMBDA x : Then(RestOfLine(x.p, ""), LAMBDA r : With(r, Node("Instruction", x.v, <<r.v>>))))

MemberKinds == {"field", "variant", "signature", "instruction"}
MemberOf(kind, p) ==
  CASE kind = "field" -> FieldMember(p)
    [] kind = "variant" -> VariantMember(p)
    [] kind = "signature" -> SignatureMember(p)
    [] kind = "instruction" -> Instruction(p)
RECURSIVE MembersUntil(_, _, _)
MembersUntil(kind, p, ms) ==
  LET q == SkipNewlines(p)
  IN IF At(q, "}") \/ AtEnd(q) THEN Ok(q, ms)
     ELSE IF kind = "field" /\ ~At(q, "ident") THEN MembersUntil(kind, Advance(q), ms)
     ELSE Then(Read(kind, q), LAMBDA r : MembersUntil(kind, r.p, Append(ms, r.v)))
Members(kind, p) == Then(Expect(p, "{"), LAMBDA o : BlockClose(MembersUntil(kind, o.p, <<>>)))

Parent(p, keyword) == IF At(p, keyword) THEN Then(ExpectIdent(Advance(p)), LAMBDA x : With(x, <<Node("Parent", x.v, <<>>)>>)) ELSE Ok(p, <<>>)

NominalStatement(p, public) ==
  Then(ExpectIdent(p), LAMBDA x : Then(TypeParams(x.p), LAMBDA ts : Then(Parent(PushTypes(ts.p, Names(ts.v)), "extends"), LAMBDA e :
    Then(Members("field", e.p), LAMBDA fs :
      Ok(Attributed(Declare(PopTypes(fs.p), x.v)),
         Node("Type", x.v, <<Taken(fs.p), Node("TypeParams", "", ts.v), Node("Fields", "", fs.v)>> \o e.v \o Visible(public)))))))

EnumStatement(p, public) ==
  Then(ExpectIdent(p), LAMBDA x : Then(TypeParams(x.p), LAMBDA ts : Then(Members("variant", PushTypes(ts.p, Names(ts.v))), LAMBDA vs :
    Ok(Declare(PopTypes(vs.p), x.v), Node("EnumDef", x.v, <<Node("TypeParams", "", ts.v), Node("Variants", "", vs.v)>> \o Visible(public))))))

SkillStatement(p, public) ==
  Then(ExpectIdent(p), LAMBDA x : Then(Parent(x.p, "super"), LAMBDA e : Then(Members("signature", e.p), LAMBDA ms :
    With(ms, Node("Skill", x.v, <<Node("Signatures", "", ms.v)>> \o e.v \o Visible(public))))))

\* parse_nominal_name_with_type_args.
NominalName(p) ==
  Then(ExpectIdent(p), LAMBDA x :
    Then(IF AtPath(x.p) THEN Then(ExpectIdent(Skip(x.p, 2)), LAMBDA y : With(y, x.v \o "." \o y.v)) ELSE x, LAMBDA n :
      IF At(n.p, "[") THEN Then(TypeArgs(n.p), LAMBDA ts : With(ts, NameWith(n.v, ts.v))) ELSE n))

ImplStatement(p) ==
  Then(TypeParams(p), LAMBDA ts : Then(NominalName(PushTypes(ts.p, Names(ts.v))), LAMBDA a :
    Then(IF At(a.p, "for") THEN Then(NominalName(Advance(a.p)), LAMBDA b : With(b, <<b.v, a.v>>)) ELSE With(a, <<a.v>>), LAMBDA n :
      Then(Expect([n.p EXCEPT !.methods = @ + 1], "{"), LAMBDA o :
        Then(BlockClose(StatementsUntil(o.p, {"}"}, <<>>)), LAMBDA ms :
          Ok(PopTypes([ms.p EXCEPT !.methods = @ - 1]),
             Node("Impl", n.v[1], <<Node("TypeParams", "", ts.v), Block(ms.v)>> \o
                    (IF Len(n.v) = 2 THEN <<Node("Parent", n.v[2], <<>>)>> ELSE <<>>))))))))

StringOrIdent(p) == IF Kind(p) \in {"str", "ident"} THEN Ok(Advance(p), Text(p)) ELSE Fail(p)
ExternStatement(p, public, visible) ==
  CASE At(p, "lib") /\ ~visible ->
         Then(StringOrIdent(Advance(p)), LAMBDA x :
           Then(IF Kind(x.p) \in {"str", "ident"} THEN StringOrIdent(x.p) ELSE x, LAMBDA y : With(y, Node("ExternLib", x.v, <<StrLiteral(y.v)>>))))
    [] At(p, "fn") ->
         Then(ExpectIdent(Advance(p)), LAMBDA x : Then(Expect(x.p, ":"), LAMBDA c : Then(Items("foreign", "(", ")", c.p), LAMBDA ps :
           Then(ReturnType(ps.p, ForeignType), LAMBDA t : Then(Expect(t.p, "lib"), LAMBDA l : Then(StringOrIdent(l.p), LAMBDA y :
             With(y, Typed("ExternFunction", x.v, <<Params(ps.v), StrLiteral(y.v)>> \o Visible(public), t.v))))))))
    [] OTHER -> Fail(p)

\* load a::b:(x y), load! a/b; not inside a function.
RECURSIVE LoadPath(_, _)
LoadPath(p, path) ==
  Then(ExpectWord(p), LAMBDA x : IF AtPath(x.p) THEN LoadPath(Skip(x.p, 2), Append(path, x.v)) ELSE With(x, Append(path, x.v)))
RECURSIVE FilePath(_, _)
FilePath(p, path) ==
  Then(ExpectIdent(p), LAMBDA x : IF At(x.p, "/") THEN FilePath(Advance(x.p), Append(path, x.v)) ELSE With(x, Append(path, x.v)))
LoadStatement(p) ==
  IF p.bodies > 0 \/ KindAt(p, 1) = "." THEN Fail(p)
  ELSE Then(LoadPath(Advance(p), <<>>), LAMBDA path :
         CASE At(path.p, "as") -> Fail(path.p)
           [] At(path.p, ":") -> Then(Items("name", "(", ")", Advance(path.p)), LAMBDA xs : With(xs, Node("Load", Dotted(path.v), <<Node("Items", "", xs.v)>>)))
           [] OTHER -> With(path, Node("Load", Dotted(path.v), <<>>)))
LoadLocalStatement(p) ==
  IF p.bodies > 0 THEN Fail(p)
  ELSE Then(FilePath(Option(Skip(p, 2), "/").p, <<>>), LAMBDA path :
         With(path, Node("LoadLocal", Dotted(path.v), Flag(KindAt(p, 2) = "/", "absolute"))))

Declaration(p, public, visible) ==
  CASE At(p, "fn") -> FnStatement(Advance(p), public)
    [] Kind(p) \in {"type", "struct"} -> NominalStatement(Advance(p), public)
    [] At(p, "skill") -> SkillStatement(Advance(p), public)
    [] At(p, "enum") -> EnumStatement(Advance(p), public)
    [] At(p, "extern") -> ExternStatement(Advance(p), public, visible)
    [] OTHER -> Fail(p)

StatementRead(p) ==
  CASE At(p, "ident") /\ Text(p) = "add" /\ KindAt(p, 1) \in {"ident", ".", "str"} -> Fail(p)
    [] At(p, "load") -> IF KindAt(p, 1) = "!" THEN LoadLocalStatement(p) ELSE LoadStatement(p)
    [] At(p, "module") -> Then(ExpectWord(Advance(p)), LAMBDA x : With(x, Node("Module", x.v, <<>>)))
    [] At(p, "set") -> SetStatement(Advance(p))
    [] At(p, "cons") -> ConsStatement(Advance(p))
    [] At(p, "use") -> Then(UseExpr(Advance(p)), LAMBDA e : With(e, Eval(e.v)))
    [] Kind(p) \in {"pub", "priv"} -> Declaration(Advance(p), At(p, "pub"), TRUE)
    [] Kind(p) \in {"fn", "type", "struct", "skill", "enum", "extern"} -> Declaration(p, FALSE, FALSE)
    [] At(p, "impl") -> ImplStatement(Advance(p))
    [] At(p, "unsafe") -> Then(Body(Advance(p), {}), LAMBDA b : With(b, Node("Unsafe", "", <<b.v>>)))
    [] At(p, "asm") -> Then(Members("instruction", Advance(p)), LAMBDA is : With(is, Node("Asm", "", is.v)))
    [] At(p, "if") -> IfStatement(Advance(p))
    [] At(p, "while") -> WhileStatement(Advance(p))
    [] At(p, "for") -> ForStatement(Advance(p))
    [] At(p, "find") -> FindStatement(Advance(p))
    [] At(p, "do") -> DoWhileStatement(Advance(p))
    [] At(p, "match") -> MatchStatement(Advance(p))
    [] Kind(p) \in Lifecycle -> OwnershipStatement(Kind(p), Advance(p))
    [] At(p, "return") -> ReturnStatement(Advance(p))
    [] Kind(p) \in {"break", "continue"} -> Ok(Advance(p), Node(Kind(p), "", <<>>))
    [] OTHER -> Then(Expression(p), LAMBDA e : With(e, Eval(e.v)))

Read(what, p) ==
  CASE what = "type" -> TypeRead(p)
    [] what = "expression" -> ExpressionRead(p)
    [] what = "operand" -> UnaryRead(p)
    [] what = "statement" -> StatementRead(p)
    [] what \in MemberKinds -> MemberOf(what, p)
    [] OTHER -> Item(what, p)

----------------------------------------------------------------------------
\* Attributes: `@[name!(args), name(args)][name(args), name("text")]`.

RECURSIVE AttributeArgs(_, _, _)
AttributeArgs(p, kinds, args) ==
  CASE At(p, ")") \/ AtEnd(p) -> Closing(Ok(p, args), ")")
    [] At(p, ",") -> AttributeArgs(Advance(p), kinds, args)
    [] ~At(p, ",") /\ ~At(p, ")") /\ ~AtEnd(p) /\ (kinds = "any" \/ At(p, "str")) ->
         AttributeArgs(Advance(p), kinds, Append(args, IF Kind(p) \in {"ident", "str", "int", "float", "char", "bool"} THEN Text(p) ELSE ""))
    [] OTHER -> Fail(p)     \* the loop of the code does not end here

Attribute(p, kinds, first) ==
  Then(ExpectIdent(p), LAMBDA x :
    Then(Option(x.p, IF first THEN "!" ELSE "no token"), LAMBDA bang :
      Then(IF At(bang.p, "(") THEN AttributeArgs(Advance(bang.p), kinds, <<>>) ELSE With(bang, <<>>), LAMBDA args :
        With(args, Node("Attribute", IF bang.v THEN x.v \o "!" ELSE x.v,
                        [i \in DOMAIN args.v |-> StrLiteral(args.v[i])])))))

\* One pair of brackets; only strings after a comma in a chained one.
RECURSIVE Attributes(_, _, _)
Attributes(r, chained, attrs) ==
  Then(r, LAMBDA a :
    IF At(a.p, ",")
    THEN Attributes(Attribute(Advance(a.p), IF chained THEN "strings" ELSE "any", FALSE), chained, Append(attrs, a.v))
    ELSE Closing(With(a, Append(attrs, a.v)), "]"))

\* parse_attributes.
RECURSIVE AttributeGroups(_, _)
AttributeGroups(p, attrs) ==
  CASE At(p, "@") /\ KindAt(p, 1) = "[" ->
         Then(Attributes(Attribute(Skip(p, 2), "any", TRUE), FALSE, attrs), LAMBDA r : AttributeGroups(r.p, r.v))
    [] At(p, "[") /\ attrs # <<>> ->
         Then(Attributes(Attribute(Advance(p), "any", FALSE), TRUE, attrs), LAMBDA r : AttributeGroups(r.p, r.v))
    [] OTHER -> Ok(p, attrs)

----------------------------------------------------------------------------
\* A program: its statements, and the attributes no declaration took.

\* After an error parsing goes on at the end of the line or after a '}'.
RECURSIVE StatementBoundary(_)
StatementBoundary(p) ==
  IF Kind(p) \in {"newline", "eof"} THEN p
  ELSE IF At(p, "}") THEN Advance(p) ELSE StatementBoundary(Advance(p))

\* The attributes before a statement; those of a group that fails are dropped.
RECURSIVE Leading(_, _)
Leading(p, attrs) ==
  Then(Ok(p, AttributeGroups(p, <<>>)), LAMBDA g :
    LET q == SkipNewlines(g.v.p)
        all == IF g.v.ok THEN attrs \o g.v.v ELSE attrs
    IN IF At(q, "@") /\ KindAt(q, 1) = "[" THEN Leading(q, all) ELSE [q EXCEPT !.pending = all])

Recovered(p) == StatementBoundary([p EXCEPT !.pending = <<>>, !.failed = TRUE])

ParseProgram(p, attrs, ss) ==
  LET q == SkipNewlines(p)
      next(r) == IF r.ok THEN ParseProgram([r.p EXCEPT !.pending = <<>>], attrs \o r.p.pending, Append(ss, r.v))
                 ELSE ParseProgram(Recovered(r.p), attrs, ss)
  IN IF AtEnd(q) THEN [p |-> q, statements |-> ss, attributes |-> attrs] ELSE next(ParseStatement(Leading(q, <<>>)))

\* parse: the program of a text, or nothing when some statement has an error.
Parse(tokens) ==
  LET r == ParseProgram([Fresh(tokens) EXCEPT !.known = Metadata(tokens)], <<>>, <<>>)
  IN IF r.p.failed THEN [ok |-> FALSE, statements |-> <<>>, attributes |-> <<>>]
     ELSE [ok |-> TRUE, statements |-> Flatten(r.statements), attributes |-> r.attributes]

=============================================================================
