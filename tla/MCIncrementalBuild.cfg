SPECIFICATION Spec
CONSTANTS
  Statements <- MCStatements
  Sources <- MCSources
  Profiles <- MCProfiles
  Output <- MCOutput
  OptLevel <- MCOptLevel
  Tests <- MCTests
  Declarations <- MCDeclarations
  MaxEdits = 2
  MaxBuilds = 3
INVARIANTS
  BuildTransparent
  HitIsFresh
  InvalidationIsClosure
CHECK_DEADLOCK FALSE
