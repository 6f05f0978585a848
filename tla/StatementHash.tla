--------------------------- MODULE StatementHash ---------------------------
(***************************************************************************)
(* What src/incremental/hashing gives the hasher for a statement.          *)
(*                                                                         *)
(* The cache takes two statements with one hash for one statement, and the *)
(* hash is a function of the words below: tags, lengths, names and types,  *)
(* in the order of a walk through the tree.  Where two lists meet, or a    *)
(* part may be missing, different trees could give the same words.         *)
(*                                                                         *)
(* A byte is <<n, "">>; the letters of a name are one item, <<256, name>>. *)
(* Left out: positions, which the code hashes for names and functions, and *)
(* what goes with a type (the types of the elements of a list or a map).   *)
(***************************************************************************)
EXTENDS SourceText

CONSTANTS
  OtherName,    \* a name for what is renamed
  OtherType     \* and a type

----------------------------------------------------------------------------
\* The hasher's words.

Byte(n) == <<<<n, "">>>>
Long(n) == Byte(n) \o [i \in 1 .. 7 |-> <<0, "">>]
Bit(b) == Byte(IF b THEN 1 ELSE 0)
NameWords(x) == (IF x = "" THEN <<>> ELSE <<<<256, x>>>>) \o Byte(255)
Mut_Counted(wss) == FlattenSeq(wss)
\* A list: how many, and each.
Counted(wss) == Long(Len(wss)) \o FlattenSeq(wss)
NamesWords(xs) == Counted([i \in DOMAIN xs |-> NameWords(xs[i])])
\* What may be missing, as the standard library hashes it.
OptionWords(wss) == IF wss = <<>> THEN Long(0) ELSE Long(1) \o wss[1]

ScalarTag == [i8 |-> 0, i16 |-> 1, i32 |-> 2, i64 |-> 3, u8 |-> 4, u16 |-> 5, u32 |-> 6, u64 |-> 7, f32 |-> 8, f64 |-> 9,
              char |-> 10, str |-> 11, bool |-> 12, mu |-> 13, list |-> 14, dict |-> 16, anything |-> 18, function |-> 19,
              db |-> 22, tuple |-> 23, datetime |-> 25, unknown |-> 26, box |-> 29, i128 |-> 39, u128 |-> 40]
NamedTag == [struct |-> 21, enum |-> 31, generic |-> 37]
AppliedTag == [map |-> 17, ref |-> 27, refmut |-> 28, pointer |-> 35, result |-> 36, maybe |-> 41]

RECURSIVE TypeWords(_)
TypeWords(t) ==
  CASE t.ty \in DOMAIN ScalarTag -> Byte(ScalarTag[t.ty])
    [] t.ty \in DOMAIN NamedTag -> Byte(NamedTag[t.ty]) \o NameWords(t.of[1].ty)
    [] t.ty = "vec" -> Byte(15) \o TypeWords(t.of[1]) \o Bit(TRUE)
    [] t.ty = "arr" -> Byte(33) \o TypeWords(t.of[1]) \o <<<<256, t.of[2].ty>>>>
    [] t.ty \in DOMAIN AppliedTag -> Byte(AppliedTag[t.ty]) \o FlattenSeq([i \in DOMAIN t.of |-> TypeWords(t.of[i])])

NameAndTypeWords(xs) == Counted([i \in DOMAIN xs |-> NameWords(xs[i].name) \o TypeWords(xs[i].type)])
LiteralWords(kind, text) ==
  CASE kind = "int" -> Byte(0) \o <<<<256, text>>>>
    [] kind = "float" -> Byte(1) \o <<<<256, text>>>>
    [] kind = "char" -> Byte(2) \o <<<<256, text>>>>
    [] kind = "str" -> Byte(3) \o NameWords(text)
    [] kind = "bool" -> Byte(4) \o Bit(text = "true")
    [] kind = "none" -> Byte(5)

----------------------------------------------------------------------------
\* Expressions.

\* Fed(n): hash_expression and hash_statement, of one walk.
RECURSIVE Fed(_)
AllWords(ns) == Counted([i \in DOMAIN ns |-> Fed(ns[i])])
\* A part that may be missing, as hash_option_expr has it.
MaybeWords(ns) == IF ns = <<>> THEN Byte(0) ELSE Byte(1) \o Fed(ns[1])
PairsWords(ns) == Counted([i \in DOMAIN ns |-> Fed(ns[i].args[1]) \o Fed(ns[i].args[2])])
Cases(ns) == SelectSeq(ns, LAMBDA n : n.op = "Case")

\* The type arguments have no length of their own.
CallWords(n) ==
  LET generic == n.args # <<>> /\ n.args[1].op = "TypeArgs"
      types == IF generic THEN n.args[1].args ELSE <<>>
  IN NameWords(n.name) \o AllWords(IF generic THEN Tail(n.args) ELSE n.args)
       \o FlattenSeq([i \in DOMAIN types |-> TypeWords(types[i].type)]) \o TypeWords(n.type)

\* Of one child, and the slot.
UnaryTag == [Dereference |-> 13, Try |-> 19, Ok |-> 20, Err |-> 21, Some |-> 42]

ExpressionWords(n) ==
  CASE n.op = "Ascription" -> Byte(99) \o Fed(n.args[1])          \* not its type
    [] n.op = "Literal" -> Byte(0) \o LiteralWords(n.name, n.args[1].name)
    [] n.op = "Identifier" -> Byte(1) \o NameWords(n.name) \o TypeWords(n.type)
    [] n.op = "BinaryOp" -> Byte(2) \o NameWords(n.name) \o Fed(n.args[1]) \o Fed(n.args[2]) \o TypeWords(n.type)
    [] n.op = "UnaryOp" -> Byte(3) \o NameWords(n.name) \o Fed(n.args[1]) \o TypeWords(n.type)
    [] n.op = "NamedArg" -> Byte(4) \o NameWords(n.name) \o Fed(n.args[1]) \o TypeWords(n.type)
    [] n.op \in {"Call", "CallAt"} -> Byte(5) \o CallWords(n)
    [] n.op = "List" -> Byte(6) \o AllWords(n.args) \o TypeWords(n.type)
    [] n.op = "Dict" -> Byte(7) \o PairsWords(n.args) \o TypeWords(n.type)
    [] n.op = "Tuple" -> Byte(8) \o AllWords(n.args) \o TypeWords(n.type)
    [] n.op = "Index" -> Byte(9) \o Fed(n.args[1]) \o Fed(n.args[2]) \o TypeWords(n.type)
    [] n.op = "MemberAccess" -> Byte(10) \o Fed(n.args[1]) \o NameWords(n.name) \o TypeWords(n.type)
    [] n.op = "Closure" -> Byte(11) \o NameAndTypeWords(n.args[1].args) \o AllWords(n.args[2].args) \o TypeWords(n.type) \o Long(0)
    [] n.op = "Reference" -> Byte(12) \o Fed(n.args[1]) \o Bit(n.name = "mut") \o TypeWords(n.type)
    [] n.op \in DOMAIN UnaryTag -> Byte(UnaryTag[n.op]) \o Fed(n.args[1]) \o TypeWords(n.type)
    [] n.op = "Pipeline" -> Byte(15) \o Fed(n.args[1]) \o Fed(n.args[2]) \o Bit(n.name = "safe") \o TypeWords(n.type)
    [] n.op = "Match" -> Byte(16) \o Fed(n.args[1]) \o PairsWords(Cases(n.args)) \o Fed(Last(n.args).args[1]) \o TypeWords(n.type)
    [] n.op = "EnumVariantPath" -> Byte(17) \o NameWords(n.args[1].name) \o NameWords(n.name) \o TypeWords(n.type)
    [] n.op = "EnumVariant" -> Byte(18) \o NameWords(n.args[1].name) \o NameWords(n.name) \o AllWords(Tail(n.args)) \o TypeWords(n.type)
    [] n.op = "UseMacro" -> Byte(22) \o Fed(n.args[1])
    [] n.op = "MacroCall" -> Byte(97) \o Fed(n.args[1])

----------------------------------------------------------------------------
\* Statements.

FlagBit(n, x) == Bit(Has(n.args, x))
Visibility(n) == Byte(IF Has(n.args, "pub") THEN 0 ELSE 1)
NamesOf(ns) == [i \in DOMAIN ns |-> ns[i].name]
ParentWords(n) ==
  OptionWords([i \in DOMAIN SelectSeq(n.args, LAMBDA x : x.op = "Parent") |->
                 NameWords(SelectSeq(n.args, LAMBDA x : x.op = "Parent")[i].name)])
\* The parameters, and the bounds of those that have some.
TypeParamWords(ts) ==
  LET bounded == SelectSeq(ts, LAMBDA t : t.args # <<>>)
  IN NamesWords(NamesOf(ts)) \o Counted([i \in DOMAIN bounded |-> NameWords(bounded[i].name) \o NamesWords(NamesOf(bounded[i].args))])
\* The arguments of an attribute have no names.
AttributeWords(as) ==
  Counted([i \in DOMAIN as |-> NameWords(as[i].name)
             \o Counted([k \in DOMAIN as[i].args |-> OptionWords(<<>>) \o NameWords(as[i].args[k].args[1].name)])])

TargetWords(e) ==
  CASE e.op = "Identifier" -> Byte(0) \o NameWords(e.name)
    [] e.op = "MemberAccess" -> Byte(1) \o NameWords(PathName(e))
    [] e.op = "Index" -> Byte(2) \o Fed(e.args[1]) \o Fed(e.args[2])
    [] e.op = "Dereference" -> Byte(3) \o Fed(e.args[1])

\* A variable is neither static nor public; a field has no value.
LetWords(n, value) ==
  Byte(0) \o NameWords(n.name) \o TypeWords(n.type) \o MaybeWords(value)
    \o FlagBit(n, "const") \o FlagBit(n, "mut") \o Bit(FALSE) \o Byte(1)
\* Not its attributes.
FunctionWords(n) ==
  Byte(2) \o NameWords(n.name) \o TypeParamWords(n.args[2].args) \o NameAndTypeWords(n.args[3].args) \o AllWords(n.args[4].args)
    \o TypeWords(n.type) \o Visibility(n) \o FlagBit(n, "method")
IfWords(n) ==
  Byte(4) \o Fed(n.args[1]) \o AllWords(n.args[2].args)
    \o (IF Len(n.args) = 2 THEN Byte(0) ELSE Byte(1) \o AllWords(n.args[3].args))
ForWords(n) ==
  Byte(6) \o NameWords(Path[n.name][1])
    \o OptionWords([i \in 1 .. Len(Path[n.name]) - 1 |-> NameWords(Path[n.name][i + 1])])
    \o Fed(n.args[1]) \o AllWords(n.args[2].args)
ArmsWords(cs) == Counted([i \in DOMAIN cs |-> Fed(cs[i].args[1]) \o AllWords(cs[i].args[2].args)])
MatchWords(n) ==
  Byte(11) \o Fed(n.args[1]) \o ArmsWords(Cases(n.args)) \o AllWords(IF Last(n.args).op = "Block" THEN Last(n.args).args ELSE <<>>)
\* Types, enums, skills and foreign functions: not whether they are public.
VariantsWords(n) ==
  Counted([i \in DOMAIN n.args[2].args |->
    LET v == n.args[2].args[i]
    IN NameWords(n.name) \o NameWords(v.name) \o NamesWords(NamesOf(v.args))
         \o Counted([k \in DOMAIN v.args |-> TypeWords(v.args[k].type)])])
SignaturesWords(ms) ==
  Counted([i \in DOMAIN ms |-> NameWords(ms[i].name) \o NameAndTypeWords(ms[i].args) \o TypeWords(ms[i].type)])

StatementWords(n) ==
  CASE n.op = "Let" -> LetWords(n, <<n.args[1]>>)
    [] n.op = "Field" -> LetWords(n, <<>>)
    [] n.op = "Assignment" -> Byte(1) \o TargetWords(n.args[1]) \o Fed(n.args[2]) \o Bit(TRUE)
    [] n.op = "Function" -> FunctionWords(n)
    [] n.op = "Return" -> Byte(3) \o MaybeWords(n.args)
    [] n.op = "If" -> IfWords(n)
    [] n.op = "While" -> Byte(5) \o Fed(n.args[1]) \o AllWords(n.args[2].args)
    [] n.op = "For" -> ForWords(n)
    [] n.op = "Expression" -> Byte(7) \o Fed(n.args[1])
    [] n.op = "break" -> Byte(8)
    [] n.op = "continue" -> Byte(9)
    [] n.op = "Find" -> Byte(10) \o NameWords(n.name) \o Fed(n.args[1]) \o AllWords(n.args[2].args)
    [] n.op = "MatchStatement" -> MatchWords(n)
    [] n.op = "Type" -> Byte(12) \o NameWords(n.name) \o TypeParamWords(n.args[2].args) \o ParentWords(n)
                          \o AllWords(n.args[3].args) \o AttributeWords(n.args[1].args)
    [] n.op = "Skill" -> Byte(13) \o NameWords(n.name) \o SignaturesWords(n.args[1].args)
    [] n.op = "Impl" -> Byte(14) \o ParentWords(n) \o NameWords(n.name) \o TypeParamWords(n.args[1].args) \o AllWords(n.args[2].args)
    [] n.op = "ExternLib" -> Byte(18) \o NameWords(n.name) \o NameWords(n.args[1].args[1].name)
    [] n.op = "ExternFunction" -> Byte(19) \o NameWords(n.name) \o NameWords(n.args[2].args[1].name)
                                    \o NameAndTypeWords(n.args[1].args) \o TypeWords(n.type)
    [] n.op = "Unsafe" -> Byte(20) \o AllWords(n.args[1].args)
    [] n.op = "Asm" -> Byte(21) \o Counted([i \in DOMAIN n.args |-> NameWords(n.args[i].name) \o Fed(n.args[i].args[1])])
    [] n.op = "Load" -> Byte(23) \o NamesWords(Path[n.name]) \o OptionWords(<<>>)
                          \o OptionWords(IF n.args = <<>> THEN <<>> ELSE <<NamesWords(NamesOf(n.args[1].args))>>)
    [] n.op = "LoadLocal" -> Byte(23) \o NamesWords(Path[n.name]) \o FlagBit(n, "absolute")
    [] n.op = "Module" -> Byte(24) \o NameWords(n.name)
    [] n.op = "drop" -> Byte(25) \o Fed(n.args[1])
    [] n.op = "move" -> Byte(26) \o NameWords(n.name) \o Fed(n.args[1])
    [] n.op = "new" -> Byte(32) \o MaybeWords(n.args) \o TypeWords(n.type)
    [] n.op = "own" -> Byte(33) \o MaybeWords(n.args) \o TypeWords(n.type)
    [] n.op = "EnumDef" -> Byte(27) \o NameWords(n.name) \o TypeParamWords(n.args[1].args) \o VariantsWords(n)

StatementOps ==
  {"Let", "Field", "Assignment", "Function", "Return", "If", "While", "For", "Expression", "break", "continue", "Find",
   "MatchStatement", "Type", "Skill", "Impl", "ExternLib", "ExternFunction", "Unsafe", "Asm", "Load", "LoadLocal", "Module",
   "drop", "move", "new", "own", "EnumDef"}
Fed(n) == IF n.op \in StatementOps THEN StatementWords(n) ELSE ExpressionWords(n)

----------------------------------------------------------------------------
\* Trees that differ from n in one place.

Renamable ==
  {"Identifier", "NamedArg", "Call", "CallAt", "MemberAccess", "EnumVariantPath", "EnumVariant", "Enum", "Let", "Field", "Function",
   "Param", "TypeParam", "Bound", "For", "Find", "Type", "Skill", "Signature", "Impl", "ExternLib", "ExternFunction", "Instruction",
   "Load", "LoadLocal", "Name", "Module", "move", "EnumDef", "Variant"}
Retypable ==
  Slotted \cup {"Param", "Let", "Field", "Function", "Signature", "ExternFunction", "new", "own"}
\* Whose children are a list, from `First` on.
Lists == {"Block", "Params", "List", "Tuple", "Dict", "Call", "CallAt", "Fields", "Variants", "Variant", "Signatures", "Signature", "Items",
          "TypeParams", "TypeArgs", "EnumVariant", "Asm"}
First(n) == IF n.op = "EnumVariant" \/ (n.args # <<>> /\ n.args[1].op = "TypeArgs") THEN 2 ELSE 1
Flags == [Let |-> {"mut", "const"}, Field |-> {"mut"}, Function |-> {"pub", "method"}, LoadLocal |-> {"absolute"}]

Toggled(n, x) ==
  [n EXCEPT !.args = IF Has(@, x) THEN SelectSeq(@, LAMBDA y : y.op # x) ELSE @ \o Flag(TRUE, x)]
\* The element at i, replaced by some.
Replaced(s, i, with) == SubSeq(s, 1, i - 1) \o with \o SubSeq(s, i + 1, Len(s))
Without(s, i) == Replaced(s, i, <<>>)
Swapped(s, i) == Replaced(Without(s, i + 1), i, <<s[i + 1], s[i]>>)
WithPart(n, i, part) == [n EXCEPT !.args = Replaced(@, i, <<part>>)]

\* The last of a list goes behind the element of ns that it is in: of one of its blocks, or of its own.
BlocksOf(n) == {k \in DOMAIN n.args : n.args[k].op = "Block" /\ n.args[k].args # <<>>}
Ends(n) == n.op \in {"List", "Tuple", "Call", "CallAt"} /\ n.args # <<>> /\ Last(n.args).op # "TypeArgs"
Shorter(n) == [n EXCEPT !.args = Front(@)]
Spills(ns) ==
  UNION {{Replaced(ns, i, <<WithPart(ns[i], k, Shorter(ns[i].args[k])), Last(ns[i].args[k].args)>>) : k \in BlocksOf(ns[i])}
           \cup (IF Ends(ns[i]) THEN {Replaced(ns, i, <<Shorter(ns[i]), Last(ns[i].args)>>)} ELSE {}) :
         i \in DOMAIN ns}
Relisted(n) ==
  LET ps == First(n) .. Len(n.args)
  IN {[n EXCEPT !.args = Without(@, i)] : i \in ps} \cup {[n EXCEPT !.args = Append(@, @[i])] : i \in ps}
       \cup {[n EXCEPT !.args = Swapped(@, i)] : i \in ps \ {Len(n.args)}}
       \cup {[n EXCEPT !.args = ns] : ns \in Spills(n.args)}

ChangedHere(n) ==
  (IF n.op \in Renamable THEN {[n EXCEPT !.name = OtherName]} ELSE {})
    \cup (IF n.op \in Retypable THEN {[n EXCEPT !.type = OtherType]} ELSE {})
    \cup (IF n.op \in Lists THEN Relisted(n) ELSE {})
    \cup (IF n.op \in DOMAIN Flags THEN {Toggled(n, x) : x \in Flags[n.op]} ELSE {})
    \cup (CASE n.op = "Reference" -> {[n EXCEPT !.name = IF @ = "mut" THEN "" ELSE "mut"]}
            [] n.op = "Pipeline" -> {[n EXCEPT !.name = IF @ = "safe" THEN "" ELSE "safe"]}
            [] n.op \in {"Return", "new", "own"} /\ n.args # <<>> -> {[n EXCEPT !.args = <<>>]}
            [] n.op = "If" /\ Len(n.args) = 3 -> {Shorter(n)}
            [] n.op \in {"Impl", "Type"} /\ Last(n.args).op = "Parent" -> {Shorter(n)}
            [] n.op = "TypeArgs" -> {WithPart(n, i, [n.args[i] EXCEPT !.type = OtherType]) : i \in DOMAIN n.args}
            [] n.op = "BinaryOp" -> {[n EXCEPT !.args = Swapped(@, 1)], [n EXCEPT !.name = "%"]}
            [] OTHER -> {})

\* What a hash does not see is left alone: the attributes of a function, the parent of a skill,
\* a type for the target of an assignment.
Seen(n, i) == n.op # "TypeArgs" /\ <<n.op, i>> \notin {<<"Function", 1>>, <<"Assignment", 1>>} /\ ~(n.op = "Skill" /\ i > 1)
RECURSIVE Changed(_)
ChangedParts(n) == UNION {{WithPart(n, i, c) : c \in Changed(n.args[i])} : i \in {j \in DOMAIN n.args : Seen(n, j)}}
ChangedTarget(e) == IF e.op \in {"Identifier", "MemberAccess"} THEN {[e EXCEPT !.name = OtherName]} ELSE ChangedParts(e)
Changed(n) ==
  ChangedHere(n) \cup ChangedParts(n)
    \cup (IF n.op = "Assignment" THEN {WithPart(n, 1, c) : c \in ChangedTarget(n.args[1])} ELSE {})

----------------------------------------------------------------------------
\* Properties.

Distinct(trees) == Cardinality({Fed(t) : t \in trees}) = Cardinality(trees)

\* The statements of the program that have a hash each, and what could be written instead
\* of a program that is only an expression.
Units == LET all == Expected(Current).statements IN SubSeq(all, Len(Prelude) + 1, Len(all))
Alternatives == {Meant(s, {}) : s \in {Eval(e) : e \in Contexts(expression)} \cup Forms(expression)}
Statements(ss) == {s \in ss : s.op # "Marked"}

\* Two statements have one hash only if they are one statement, where the hash looks: a
\* statement and what an edit of one place makes of it (a name, a type, a flag, an element
\* more or less, or out of its list into the one around) never share their words, nor do two
\* statements of one expression.  Asked of the programs the writer goes on with.
HashesTellApart ==
  Room =>
    /\ \A i \in DOMAIN Units : Distinct({Units[i]} \cup Changed(Units[i]))
    /\ operations = 0 /\ steps = 0 => Distinct(Statements(Alternatives))

=============================================================================
