SPECIFICATION FairSpec
CONSTANTS
  c1 = c1
  c2 = c2
  c3 = c3
  Callers = {c1, c2, c3}
  Bases = {"m"}
  Protocols = {"chat", "responses", "messages"}
  Chat = "chat"
  Unlisted = Unlisted
  Nobody = Nobody
  Catalogs <- MCCatalogs
  TTL = 2
  FailureTTL = 1
  FetchTimeout = 2
  MaxTime = 4
INVARIANTS
  TypeOK
PROPERTIES
  AnswersAreFresh
  RefreshSpacing
  ImplementsDirectory
  EveryCallerAnswered
