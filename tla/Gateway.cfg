SPECIFICATION GatewaySpec
CONSTANTS
  MaxRetries = 2
  RetryDelay = 1
  RequestTimeout = 5
  BodySize = 2
  Statuses = {200, 304, 500}
  MaxBody = 2
  MaxTime = 6
INVARIANTS
  BodiesClosed
  AnswersWholeRequest
  TruncationIsTold
  AsAsked
PROPERTIES
  BackoffIsKept
  OutcomeFits
  OneHead
  AlwaysReturns
