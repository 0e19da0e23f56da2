SPECIFICATION Spec
CONSTANTS
  Inputs <- BlankTexts
  Rescanned <- MCRescanned
INVARIANT BlankLinesStripped
