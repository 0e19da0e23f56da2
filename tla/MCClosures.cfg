CONSTANTS
  Sources <- MCSources
  Programs <- CompiledPrograms
  MaxInt = 127
  OverflowChecks = TRUE
  MaxFrames = 12
  MaxTextLen = 1
SPECIFICATION Spec
INVARIANTS
  CapturesInv
  OpenCellsOwned
  OutcomeAsEvaluated
PROPERTIES
  CapturedValuesKept
  ClosuresShareVariables
