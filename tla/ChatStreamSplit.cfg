SPECIFICATION Spec
CONSTANTS
  t1 = t1
  CallIDs = {t1}
  NoCall = NoCall
  Names <- MCNamePieces
  CustomNames <- MCSplitCustomNames
  Fragments = {"open", "close"}
  Opening = "open"
  Closing = "close"
  SplitNames = TRUE
  FinishReasons = {"length"}
  MaxChunks = 2
INVARIANT
  KindAsDeclared
