CONSTANTS
  r1 = r1
  r2 = r2
  None = None
  Intents = {1, 2}
  Relays = {r1, r2}
  RetryDelay = 1
  MaxTime = 1
  MaxFaults = 1
SPECIFICATION MetricsSpec
SYMMETRY MetricsSymmetry
INVARIANTS
  MetricsTypeOK
  AnswersAreAccountedFor
  ScrapeNeverCountsTwice
CHECK_DEADLOCK FALSE
