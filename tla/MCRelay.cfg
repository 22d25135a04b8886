CONSTANTS
  r1 = r1
  r2 = r2
  None = None
  Intents = {1, 2}
  Relays = {r1, r2}
  RetryDelay = 1
  MaxTime = 3
  MaxFaults = 3
SPECIFICATION Spec
INVARIANTS
  TypeOK
  CopiesAreAccountedFor
  ClaimsAreExclusive
PROPERTIES
  ImplementsDelivery
  IntentsArePublished
CHECK_DEADLOCK FALSE
