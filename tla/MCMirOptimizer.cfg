SPECIFICATION Spec
CONSTANTS
  Width = 4
  Programs <- MCPrograms
  Inputs <- MCInputs
  MaxBlocks = 24
INVARIANTS
  Preserves
  TempsDefinedOnce
PROPERTY OptimizerEnds
