\* Functions of four or five statements over two locals.
CONSTANTS
  Names = {a, b}
  Vocabularies <- MCVocabularies
  Allowed = {}
  MaxStrings = 5
  MaxTurns = 5
  Texts <- MCTexts
  Size <- MCSize
  Garbage = Garbage
SYMMETRY Small
SPECIFICATION Spec
INVARIANTS StringsHold ReturnReleases
\* Functions return.
CHECK_DEADLOCK FALSE
