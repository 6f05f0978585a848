--------------------------- MODULE MCMirOptimizer --------------------------
EXTENDS MirOptimizer

Main(body) == [name |-> "main", body |-> body]
Helper(name, body) == [name |-> name, body |-> body]

\* Expressions over the argument and small constants, one operation and two.
Positive == Bin("lt", Lit(0), Var)
Atoms == {Var, Lit(0), Lit(1), Lit(2)}
Minus1 == Neg(Lit(1))
Binary(ops, ls, rs) == {Bin(op, l, r) : op \in ops, l \in ls, r \in rs}
Once == Binary({"add", "sub", "mul", "sdiv"}, Atoms, Atoms)
Twice == Binary({"mul", "sdiv", "eq"}, Once \cup {Minus1}, {Var, Lit(0), Lit(2)})
           \cup Binary({"sub", "sdiv"}, {Var, Lit(0), Lit(1)}, Once)
           \cup Binary({"shl"}, Once, {Lit(0), Lit(1)}) \cup Binary({"shr"}, Atoms, {Lit(0), Lit(1)})
Logical == {Bin(op, l, r) : op \in {"and", "or"}, l, r \in {Truth(TRUE), Positive, Not(Positive), Bin("eq", Lit(1), Lit(1))}}
Remainders == Binary({"srem"}, Once \cup {Neg(Var)}, {Lit(0), Lit(2), Var})
Deciding == {<<Main(<<If(c, <<Say(Var)>>, <<>>), Return(Lit(0))>>)>> : c \in Logical \cup {Not(l) : l \in Logical}}
Matching == {<<Main(<<Match(e, ns, [i \in 1 .. Len(ns) + 1 |-> IF i = k THEN b ELSE <<Say(Lit(i))>>]), Return(Var)>>)>> :
              e \in {Var, Lit(1), Bin("srem", Var, Lit(2))}, ns \in {<<1>>, <<1, 2>>, <<2, 1>>, <<1, 1>>}, k \in 1 .. 3,
              b \in {<<>>, <<Return(Lit(2))>>, <<Set(Lit(1))>>, <<While(Positive, <<Break>>)>>,
                     <<Match(Var, <<1>>, <<<<Say(Var)>>, <<Return(Var)>>>>)>>}}
Chosen == {Choice(e, ns, [i \in 1 .. Len(ns) + 1 |-> IF i = k THEN b ELSE Lit(i)]) :
             e \in {Var, Lit(1), Bin("srem", Var, Lit(2))}, ns \in {<<1>>, <<1, 2>>, <<1, 1>>}, k \in 1 .. 3,
             b \in {Var, Bin("sdiv", Lit(1), Var), Choice(Var, <<2>>, <<Lit(0), Var>>)}}
Choosing == {<<Main(<<Return(c)>>)>> : c \in Chosen \cup Binary({"add"}, Chosen, {Var})}
Arithmetical == {<<Main(<<Return(e)>>)>> : e \in Once \cup Twice \cup Remainders}

\* Divisions with a quotient that is no integer: of constants, where they run and where
\* they do not, and of what only a run knows.
Leasts == {Bin("sub", Neg(Lit(7)), Lit(1)), Bin("shl", Lit(1), Lit(3)), Bin("mul", Lit(4), Lit(2)), Var}
Overflowing ==
  UNION {{<<Main(<<Return(e)>>)>>, <<Main(<<If(Truth(FALSE), <<Say(e)>>, <<>>), Return(Var)>>)>>,
          <<Main(<<Do(e), Return(Var)>>)>>,
          <<Helper("f", <<Return(e)>>), Main(<<Return(CallOf("f", Var))>>)>>}
         : e \in Binary({"sdiv", "srem"}, Leasts, {Minus1, Bin("sub", Lit(1), Lit(2))})}

\* Bodies of n statements over steps S and conditions C; a body in a loop may end
\* in a jump.
RECURSIVE Bodies(_, _, _, _)
Bodies(n, loop, S, C) ==
  LET Inside(k, l) == Bodies(k, l, S, C)
      Compound(k)  == UNION {{While(c, b), DoWhile(c, b)} : c \in C, b \in Inside(k - 1, TRUE)} \cup
                      UNION {{If(c, b, d) : c \in C, b \in Inside(j, loop), d \in Inside(k - 1 - j, loop)}
                             : j \in 1 .. k - 1}
      Longer(k)    == {Append(b, s) : b \in Inside(n - k, FALSE),
                                      s \in IF k = 1 THEN S ELSE Compound(k)}
  IN  IF n = 0 THEN {<<>>}
      ELSE UNION {Longer(k) : k \in 1 .. n}
           \cup (IF loop THEN {Append(b, s) : b \in Inside(n - 1, FALSE), s \in {Break, Continue}} ELSE {})

Counted(n, C) == {<<Main(Append(b, Return(Var)))>> :
                   b \in Bodies(n, FALSE, {Set(Bin("sub", Var, Lit(1))), Say(Var)}, C)}

\* Small functions: pure, with an effect, with a call, with a test, without a
\* return, too long.  The last calls itself.
F(body) == Helper("f", body)
G(body) == Helper("g", body)
Leaves == {<<Return(Bin("add", Var, Lit(1)))>>, <<Say(Var), Return(Var)>>, <<Return(Lit(2))>>, <<Say(Lit(1))>>,
           <<If(Positive, <<Return(Lit(1))>>, <<>>), Return(Var)>>,
           <<Say(Var), Set(Bin("mul", Var, Lit(2))), Return(Var)>>}
Callers == {<<Return(CallOf("f", Var))>>, <<Return(CallOf("f", Lit(1)))>>,
            <<Do(CallOf("f", Var)), Return(Lit(0))>>}
Endless == <<Return(CallOf("f", Var))>>

\* What main does with a call: the call ends its block, or does not.
CallsOf(f) ==
  LET c == CallOf(f, Var) IN
  {<<Return(c)>>, <<Return(CallOf(f, c))>>, <<Set(c), Return(Var)>>, <<Do(c), Return(Bin("sub", Var, Lit(1)))>>,
   <<While(Bin("lt", Lit(0), Var), <<Say(Var), Set(Bin("sub", Var, Lit(1))), Do(c)>>), Return(c)>>,
   <<If(Bin("eq", Var, Lit(2)), <<Do(c)>>, <<Return(c)>>), Return(Var)>>,
   <<If(Bin("le", c, Lit(1)), <<Return(c)>>, <<Do(c)>>), Return(c)>>,
   <<Do(CallOf(f, Lit(0))), Return(c)>>}
Calling ==
  UNION {{<<F(l), Main(m)>>, <<Main(m), F(l)>>} : l \in Leaves \cup {Endless}, m \in CallsOf("f")} \cup
  UNION {{<<F(l), G(g), Main(m)>>, <<Main(m), G(g), F(l)>>}
         : l \in Leaves, g \in Callers, m \in CallsOf("g") \cup CallsOf("f")}

MCPrograms == Arithmetical \cup Counted(3, {Truth(TRUE), Truth(FALSE), Positive}) \cup Calling
              \cup Deciding \cup Matching \cup Choosing \cup Overflowing
MCInputs == {-8, 1, 2}
=============================================================================
