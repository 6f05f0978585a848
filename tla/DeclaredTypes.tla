--------------------------- MODULE DeclaredTypes ----------------------------
(***************************************************************************)
(* What the parser knows of the types of a text before it parses it:       *)
(* collect_top_level_metadata of src/parser/metadata.rs, a scan of the     *)
(* tokens outside all braces.                                              *)
(***************************************************************************)
EXTENDS SyntaxTree

\* How many braces are open at each token, itself not counted.
Depths(tokens) ==
  LET depth[i \in 1 .. Len(tokens) + 1] ==
        IF i = 1 THEN 0
        ELSE CASE tokens[i - 1].kind = "{" -> depth[i - 1] + 1
               [] tokens[i - 1].kind = "}" /\ depth[i - 1] > 0 -> depth[i - 1] - 1
               [] OTHER -> depth[i - 1]
  IN depth

DeclaredAs(tokens, kinds, depth) ==
  {i \in 1 .. Len(tokens) - 1 : tokens[i].kind \in kinds /\ depth[i] = 0 /\ tokens[i + 1].kind = "ident"}

\* The names inside the braces of an enum, whatever they name.
VariantsOf(tokens, i, depth) ==
  {j \in i + 3 .. Len(tokens) :
     /\ tokens[i + 2].kind = "{" /\ tokens[j].kind = "ident" /\ depth[j] = 1
     /\ \A k \in i + 3 .. j : depth[k] > 0}

MetadataOf(tokens, depth) ==
  LET enums == DeclaredAs(tokens, {"enum"}, depth)
      uses == UNION {{<<i, j>> : j \in VariantsOf(tokens, i, depth)} : i \in enums}
      named(x) == {u \in uses : tokens[u[2]].text = x}
      once == {x \in {tokens[u[2]].text : u \in uses} : Cardinality(named(x)) = 1}
  IN [enums |-> {tokens[i + 1].text : i \in enums},
      nominal |-> {tokens[i + 1].text : i \in DeclaredAs(tokens, {"struct", "type"}, depth)},
      owners |-> [x \in once |-> LET u == CHOOSE u \in named(x) : TRUE IN tokens[u[1] + 1].text]]

Metadata(tokens) == MetadataOf(tokens, Depths(tokens))

=============================================================================
