SPECIFICATION Spec
CONSTANTS
  Texts <- MCTexts
  BrokenLines <- MCBroken
  CutLines <- MCCut
INVARIANTS RoundTrip 
