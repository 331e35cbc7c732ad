SPECIFICATION Spec
CONSTANTS
  NoCall = NoCall
  GeneratedCall = "generated"
  CallIDs <- MCCallIDs
  Names <- MCNames
  CustomNames <- MCCustomNames
  Opening = "open"
  Closing = "close"
  Answers <- MCAnswers
  Reasonings <- MCReasonings
INVARIANTS
  EventsCarryTheAnswer
PROPERTIES
  FollowsProtocol
