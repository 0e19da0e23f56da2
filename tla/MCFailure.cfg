CONSTANTS
  Sources <- MCSources
  Programs <- CompiledPrograms
  MaxInt = 127
  OverflowChecks = TRUE
  MaxFrames = 5
  MaxTextLen = 1
SPECIFICATION Spec
INVARIANTS
  OutcomeAsEvaluated
  InnermostHandlerWins
  CodeBalanced
  OwnOperandsUsed
  TestKeepsOperands
  CalleeLeavesResult
PROPERTIES
  CallersOperandsKept
  Terminates
