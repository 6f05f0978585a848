--------------------------- MODULE ModuleRenamer ---------------------------
(***************************************************************************)
(* What the loader sees of a statement or an expression (src/loader,       *)
(* src/incremental/dependencies.rs): the names in it, the scopes it opens, *)
(* and how the exports of a module get its namespace wherever they are     *)
(* mentioned and nothing of the same name hides them.                      *)
(*                                                                         *)
(* A node is what it is, the name it stands under, the nodes read in its   *)
(* own scope, the scopes it opens and the names it hides from the          *)
(* statements after it.  A scope is the names it binds, the other names    *)
(* it hides, and its block.  The forms of the language are built from      *)
(* nodes below: what is read where.                                        *)
(***************************************************************************)
EXTENDS Integers, FiniteSets, SequencesExt

NoName == <<>>

Node(op, name, parts, scopes, hides) ==
  [op |-> op, name |-> name, parts |-> parts, scopes |-> scopes, hides |-> hides]

Scope(binds, hides, block) == [binds |-> binds, hides |-> hides, block |-> block]

----------------------------------------------------------------------------
(* Names.  A "name" is collected as a dependency and renamed; a "typed" one *)
(* (the type of a result, of a variable, of a bound) only renamed; one that *)
(* is "written" (a member, a variant, a table) only collected.              *)

Mention(name)     == Node("name", name, <<>>, <<>>, {})
TypeMention(name) == Node("typed", name, <<>>, <<>>, {})
Written(name)     == Node("written", name, <<>>, <<>>, {})

(* Expressions. *)

Call(name, args) == Node("name", name, args, <<>>, {})
Group(parts)     == Node("group", NoName, parts, <<>>, {})
Wrapped(e)       == Group(<<e>>)

Member(target, member) == Group(<<Written(member), target>>)
Variant(type, variant, payloads) ==
  Node("name", type, <<Written(variant)>> \o payloads, <<>>, {})

\* Under use!, in a call of a macro, under an ascription: read, not renamed.
Quoted(e) == Node("quoted", NoName, <<e>>, <<>>, {})

AnonymousFn(params, types, body) == Node("group", NoName, types, <<Scope(params, {}, body)>>, {})

\* The variables of a pattern are its own names, and another pattern's where a
\* guard or an alternative follows; other payloads are read.
Pattern(type, variables, payloads) ==
  Node("name", type, SetToSeq({Written(<<v>>) : v \in variables}) \o payloads, <<>>, variables)
Guarded(pattern, conditions) ==
  Node("group", NoName, <<pattern>> \o conditions, <<>>, pattern.hides)

Case(pattern, body) == [pattern |-> pattern, body |-> body]
Matched(value, cases, default) ==
  Node("match", NoName, <<value>> \o [i \in DOMAIN cases |-> cases[i].pattern],
       Append([i \in DOMAIN cases |-> Scope({}, cases[i].pattern.hides, cases[i].body)],
              Scope({}, {}, default)), {})

(* Statements. *)

\* Return, drop, an expression.
Do(e) == Node("do", NoName, <<e>>, <<>>, {})

\* new, own, asm, a store into a target: of a field the variable is read, and
\* through a pointer the target is renamed only.
Quietly(parts)         == Node("quiet", NoName, parts, <<>>, {})
Assigned(target, value) == Quietly(<<target, value>>)

Let(name, type, value)  == Node("let", NoName, <<type, value>>, <<>>, {name})
MoveTo(target, value)   == Node("let", NoName, <<Written(<<target>>), value>>, <<>>, {target})

\* An if, a while, an unsafe block.
Branch(conditions, blocks) ==
  Node("branch", NoName, conditions, [i \in DOMAIN blocks |-> Scope({}, {}, blocks[i])], {})

\* A for, a find.
Loop(variables, iterable, body) ==
  Node("branch", NoName, <<iterable>>, <<Scope(variables, {}, body)>>, variables)

\* Declarations: the types of parameters are read in the scope around.
Function(name, generics, params, types, body) ==
  Node("fn", NoName, types, <<Scope(params, generics, body)>>, {name})
TypeDecl(name, generics, bounds, fields) ==
  Node("type", NoName, bounds, <<Scope({}, generics, fields)>>, {name})
Skill(name, methods, types) ==
  Node("skill", NoName, [i \in DOMAIN methods |-> Written(<<methods[i]>>)] \o types, <<>>, {name})
Impl(type, bounds, generics, methods) ==
  Node("impl", NoName, <<Mention(type)>> \o bounds, <<Scope({}, generics, methods)>>, {})
EnumDecl(name, bounds, types) == Node("enum", NoName, bounds \o types, <<>>, {name})
Foreign(name, lib, types) == Node("extern", NoName, <<Written(<<lib>>)>> \o types, <<>>, {name})

\* Tables and columns are names of their own; the block is that of get.
QueryOn(table, parts, block) ==
  Node("query", NoName, <<Written(<<table>>)>> \o parts, <<Scope({}, {}, block)>>, {})

----------------------------------------------------------------------------
(* What is collected. *)

Below(n) == ToSet(n.parts) \cup UNION {ToSet(s.block) : s \in ToSet(n.scopes)}

\* collect_statement_dependencies, collect_expression_dependencies
RECURSIVE Collected(_)
Collected(n) ==
  {x \in {n.name} : x # NoName /\ n.op # "typed"} \cup UNION {Collected(m) : m \in Below(n)}

\* collect_statement_bindings: parameters and variables, but neither those of
\* patterns nor those inside conditions, values, targets and queries.
RECURSIVE Bound(_)
Bound(n) ==
  LET inside == {m \in ToSet(n.parts) : n.op \in {"do", "name", "group", "quoted"}}
      blocks == {s \in ToSet(n.scopes) : n.op # "query"}
  IN  UNION {s.binds : s \in blocks} \cup {x \in n.hides : n.op = "let"}
        \cup UNION {Bound(m) : m \in inside \cup UNION {ToSet(s.block) : s \in blocks}}

----------------------------------------------------------------------------
(* Renaming: the exports of the module get its prefix. *)

\* A name with a dot is left alone, and so is one that something here hides.
Mut_ShouldPrefix(name, symbols, hidden) == name \in symbols
ShouldPrefix(name, symbols, hidden) == name \in symbols /\ Last(name) \notin hidden

RenamedMention(name, prefix, symbols, hidden) ==
  IF Len(name) = 1 /\ ShouldPrefix(name, symbols, hidden) THEN prefix \o name ELSE name

RECURSIVE RenamedNode(_, _, _, _), RenamedBlock(_, _, _, _)

\* rename_statement_with_scope, rename_expression, rename_match_pattern
RenamedNode(n, prefix, symbols, hidden) ==
  IF n.op = "quoted" THEN n
  ELSE [n EXCEPT
          !.name   = IF n.op \in {"name", "typed"} THEN RenamedMention(@, prefix, symbols, hidden)
                     ELSE @,
          !.parts  = [i \in DOMAIN @ |-> RenamedNode(n.parts[i], prefix, symbols, hidden)],
          !.scopes = [i \in DOMAIN @ |->
            LET s == n.scopes[i]
            IN  [s EXCEPT !.block = RenamedBlock(@, prefix, symbols, hidden \cup s.binds \cup s.hides)]]]

\* rename_statement_block: a statement hides names from those after it.
RenamedBlock(block, prefix, symbols, hidden) ==
  IF block = <<>> THEN <<>>
  ELSE <<RenamedNode(Head(block), prefix, symbols, hidden)>>
         \o RenamedBlock(Tail(block), prefix, symbols, hidden \cup Head(block).hides)

----------------------------------------------------------------------------
(* The same by the rules of scope: what a name stands for where it is read. *)
(* The condition of a guard sees its pattern's variables, a nested function  *)
(* sees its own name, a loop's variables end with the loop, fields and       *)
(* methods hide nothing from each other, and quoting changes nothing.        *)

Ends(n, owner) == n.op = "branch" \/ owner \in {"type", "impl"}

RECURSIVE LexicalNode(_, _, _, _), LexicalBlock(_, _, _, _, _)
LexicalNode(n, prefix, symbols, hidden) ==
  [n EXCEPT
     !.name   = IF n.op \in {"name", "typed"} /\ @ \in symbols /\ Last(@) \notin hidden
                THEN prefix \o @ ELSE @,
     !.parts  = [i \in DOMAIN @ |->
       LexicalNode(n.parts[i], prefix, symbols, IF n.op = "group" /\ i > 1 THEN hidden \cup n.hides ELSE hidden)],
     !.scopes = [i \in DOMAIN @ |->
       LET s == n.scopes[i]
       IN  [s EXCEPT !.block = LexicalBlock(@, n.op, prefix, symbols, hidden \cup s.binds \cup s.hides)]]]

LexicalBlock(block, owner, prefix, symbols, hidden) ==
  LET first == Head(block)
      own   == IF first.op = "fn" /\ owner # "impl" THEN first.hides ELSE {}
      after == IF Ends(first, owner) THEN {} ELSE first.hides
  IN  IF block = <<>> THEN <<>>
      ELSE <<LexicalNode(first, prefix, symbols, hidden \cup own)>>
             \o LexicalBlock(Tail(block), owner, prefix, symbols, hidden \cup after)

\* Where the renamer goes by other rules than these: a statement is Plain if it
\* has no such place.
RECURSIVE Read(_)
Read(n) == ({n.name} \ {NoName}) \cup UNION {Read(m) : m \in Below(n)}

Uses(nodes, variables) == \E n \in nodes : \E x \in Read(n) : Last(x) \in variables
After(block, i)        == {block[j] : j \in i + 1 .. Len(block)}

RECURSIVE Plain(_)
Plain(n) ==
  /\ n.op = "quoted" => Read(n) = {}
  /\ n.op = "group" => ~Uses(After(n.parts, 1), n.hides)
  /\ \A s \in ToSet(n.scopes) : \A i \in DOMAIN s.block :
       LET m == s.block[i] IN
         /\ Ends(m, n.op) => ~Uses(After(s.block, i), m.hides)
         /\ m.op = "fn" /\ n.op # "impl" => ~Uses({m}, m.hides)
  /\ \A m \in Below(n) : Plain(m)
=============================================================================
