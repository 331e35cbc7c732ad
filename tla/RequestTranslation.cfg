SPECIFICATION DialogueSpec
CONSTANTS
  c1 = c1
  c2 = c2
  NoCall = NoCall
  GeneratedCall = GeneratedCall
  Names <- MCNames
  CustomNames <- MCCustomNames
  Opening = "open"
  Closing = "close"
  EmptyObject = "{}"
  Items <- MCItems
  MaxItems = 5
INVARIANTS
  ToolMessagesFollowTheirCall
  AnthropicTurns
  DialogueKept
  SameVerdict
  CallsEchoed
