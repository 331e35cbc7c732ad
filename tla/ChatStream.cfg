SPECIFICATION PathsFairSpec
CONSTANTS
  t1 = t1
  t2 = t2
  CallIDs = {t1, t2}
  NoCall = NoCall
  GeneratedCall = GeneratedCall
  Names <- MCNames
  CustomNames <- MCCustomNames
  Fragments = {"open", "close"}
  Opening = "open"
  Closing = "close"
  SplitNames = FALSE
  FinishReasons = {"length"}
  MaxChunks = 3
INVARIANTS
  TypeOK
  NothingLost
  NoAnswerFromBrokenStream
  ClientInStep
  PathsAgree
PROPERTIES
  FollowsProtocol
  EndsWithTerminalEvent
