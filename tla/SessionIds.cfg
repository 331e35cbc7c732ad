SPECIFICATION SessionSpec
CONSTANTS
  s1 = s1
  s2 = s2
  c1 = c1
  c2 = c2
  NoText = NoText
  Callers <- MCCallers
  PerMs = 3
  Span = 3
  MaxTime = 3
  MaxIds = 4
  Window = 2
  MaxSteps = 4
  Signals <- MCSignals
  digest <- MCDigest
  Inbounds <- MCInbounds
SYMMETRY SomeCaller
INVARIANTS
  TimePartsSorted
  SessionsCanonical
  SessionKept
