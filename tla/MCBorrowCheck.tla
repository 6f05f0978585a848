---------------------------- MODULE MCBorrowCheck ---------------------------
EXTENDS BorrowCheck

MCNames == {"x", "y", "r", "m"}
MCKind == [n \in MCNames |-> CASE n = "r" -> "shared" [] n = "m" -> "excl" [] OTHER -> "owned"]

\* Moves of one value, in and out of loops.
Moves == {Eval(Use("x")), MoveTo("y", "x"), Eval(Wrap("x")), Assign("x", Lit),
          AssignField("x", Lit), Break, Return(Lit)}

\* References to one value, of both kinds, and what ends or conflicts with them.
Borrows == {Let("r", Ref("x", FALSE)), Let("m", Ref("x", TRUE)), Assign("x", Lit),
            Eval(Use("r")), Drop("x"), Eval(Call("excl", Ref("x", TRUE)))}

\* Two values, a call, a closure, a reference that is returned, names declared twice.
Mixed == {Let("y", Lit), Let("r", Ref("y", FALSE)), Assign("r", Ref("x", FALSE)),
          MoveTo("y", "x"), Eval(Call("owned", Use("y"))), Eval(Closure("x")),
          Return(Ref("x", FALSE))}

MCVocabularies == {Moves, Borrows, Mixed}
=============================================================================
