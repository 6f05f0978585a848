SPECIFICATION Spec
CONSTANTS
  Names <- MCNames
  Kind <- MCKind
  Params = {"x"}
  Vocabularies <- MCVocabularies
  MaxSize = 4
  MaxTurns = 2
INVARIANTS
  MovesSound
  BorrowsSound
  ExactOnOnePath
CHECK_DEADLOCK FALSE
