CONSTANTS
  Sources <- StartSources
  Programs <- CompiledPrograms
  MaxInt = 127
  OverflowChecks = TRUE
  MaxFrames = 5
  MaxTextLen = 1
SPECIFICATION Spec
PROPERTY
  HandlerProtects
