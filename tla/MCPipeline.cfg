SPECIFICATION PipelineSpec
CONSTANTS
  MaxInt = 1000
  OverflowChecks = TRUE
  Programs = {}
  MaxFrames = 20
  MaxTextLen = 1
  Texts <- const_Texts
INVARIANTS OutcomeAsWritten TypesSound
PROPERTIES ItemsLeaveNothing
