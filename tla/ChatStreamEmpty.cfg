SPECIFICATION Spec
CONSTANTS
  t1 = t1
  CallIDs = {t1}
  NoCall = NoCall
  Names <- MCNames
  CustomNames <- MCCustomNames
  Fragments = {"open", "close"}
  Opening = "open"
  Closing = "close"
  SplitNames = FALSE
  FinishReasons = {"length"}
  MaxChunks = 2
INVARIANT
  EveryOutputItemStreamed
