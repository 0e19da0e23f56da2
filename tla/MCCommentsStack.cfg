CONSTANTS
  Sources <- StackSources
  Programs <- CompiledPrograms
  MaxInt = 127
  OverflowChecks = TRUE
  MaxFrames = 5
  MaxTextLen = 1
SPECIFICATION Spec
INVARIANT
  RunLeavesNoOperand
