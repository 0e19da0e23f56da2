SPECIFICATION Spec
CONSTANTS
  Texts <- MCTexts
  BrokenLines <- MCBroken
  CutLines <- MCCut
INVARIANTS TypeOK NothingDropped LoopsInBlocks
PROPERTIES Terminates
