SPECIFICATION FairSpec
CONSTANTS
  MaxRetries = 2
  RetryDelay = 1
  RequestTimeout = 4
  BodySize = 2
  Statuses = {200, 500}
  MaxTime = 5
INVARIANT
  RetryReusesConnection
