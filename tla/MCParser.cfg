SPECIFICATION Spec
CONSTANTS
  Capitalised <- MCCapitalised
  Templates <- MCTemplates
  Operands <- MCOperands
  Contexts <- MCContexts
  Forms <- MCForms
  Enclosures <- MCEnclosures
  Later <- MCLater
  Prelude <- MCPrelude
  Interpolation <- MCInterpolation
  Path <- MCPath
  OtherName = "k"
  OtherType <- MCOtherType
  MaxOperations = 2
  MaxSteps = 3
INVARIANTS
  ReadsAsWritten
  HashesTellApart
CHECK_DEADLOCK FALSE
