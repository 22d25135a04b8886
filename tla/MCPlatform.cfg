CONSTANTS
  c1 = c1
  r1 = r1
  r2 = r2
  None = None
  Garbled = Garbled
  Intents = {1}
  Body <- BodyOf
  FirstAttempt <- NoHeader
  Consumers = {c1}
  MaxAttempts = 2
  MaxSends = 2
  MaxWorkerFaults = 1
  Relays = {r1, r2}
  RetryDelay = 1
  MaxTime = 2
  MaxFaults = 1
SPECIFICATION PlatformSpec
INVARIANTS
  EventIsNotifiedOnce
PROPERTIES
  MessagesEndWell
CHECK_DEADLOCK FALSE
