-------------------------- MODULE NestedFunctions ---------------------------
(***************************************************************************)
(* flatten_nested_functions of src/parser/flatten.rs: the functions inside *)
(* a function follow it, under its name.  One that has functions of its    *)
(* own keeps only its name.                                                *)
(***************************************************************************)
EXTENDS SyntaxTree

IsFunction(s) == s.op = "Function"
BodyOf(f) == f.args[4].args
Nested(f) == SelectSeq(BodyOf(f), IsFunction)
WithoutNested(f) == [f EXCEPT !.args[4].args = SelectSeq(@, LAMBDA s : ~IsFunction(s))]
Anchor(x) == Function(x, Node("Attributes", "", <<>>), <<>>, <<>>, Block(<<>>), None, Visible(TRUE))

RECURSIVE FlattenChildren(_, _)
FlattenChildren(parent, fs) ==
  IF fs = <<>> THEN <<>>
  ELSE LET x == parent \o "::" \o Head(fs).name
       IN (IF Nested(Head(fs)) = <<>> THEN <<[Head(fs) EXCEPT !.name = x]>>
           ELSE <<Anchor(x)>> \o FlattenChildren(x, Nested(Head(fs))))
          \o FlattenChildren(parent, Tail(fs))

Flatten(ss) ==
  FlattenSeq([i \in DOMAIN ss |->
    IF IsFunction(ss[i]) THEN <<WithoutNested(ss[i])>> \o FlattenChildren(ss[i].name, Nested(ss[i])) ELSE <<ss[i]>>])

=============================================================================
