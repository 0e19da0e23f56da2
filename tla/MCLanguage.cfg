CONSTANTS
  Sources <- MCSources
  Programs <- CompiledPrograms
  MaxInt = 127
  OverflowChecks = FALSE
  MaxFrames = 5
  MaxTextLen = 1
SPECIFICATION Spec
INVARIANTS
  TypeOK
  CapturesInv
  HandlesLead
  VariablesDontShareTuples
PROPERTIES
  ObjectsKeepShape
