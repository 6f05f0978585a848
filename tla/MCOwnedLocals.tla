--------------------------- MODULE MCOwnedLocals ---------------------------
EXTENDS OwnedLocals, TLC

Small == Permutations(Names)

Straight == {"let", "assign", "move", "return", "if"}
Whiles   == {"let", "assign", "return", "if", "while"}
Fors     == {"let", "assign", "return", "if", "for"}
Jumps    == {"let", "return", "if", "while", "for", "break", "continue"}

MCVocabularies == {[words |-> Straight, size |-> 4], [words |-> Whiles, size |-> 5],
                   [words |-> Fors, size |-> 4], [words |-> Jumps, size |-> 4]}
MCTexts == 1..MaxStrings
MCSize  == [t \in MCTexts |-> 1]
=============================================================================
