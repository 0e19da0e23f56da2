SPECIFICATION Spec
CONSTANTS
  Inputs <- MCInputs
  Rescanned <- MCRescanned
INVARIANTS TypeOK StackDeepens NoIndentInLine DedentsMatch TokensKept BlocksFollowLines
  RefusedLinesMisfit
