SPECIFICATION Spec
CONSTANTS
  t1 = t1
  t2 = t2
  NoCall = NoCall
  GeneratedCall = GeneratedCall
  Names <- MCNames
  CustomNames <- MCCustomNames
  Opening = "open"
  Closing = "close"
  EmptyObject = "{}"
  Messages <- MCMessages
INVARIANTS
  Reassembled
  NothingMadeUp
