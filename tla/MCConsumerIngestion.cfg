CONSTANTS
  s1 = s1
  h1 = h1
  c1 = c1
  c2 = c2
  None = None
  Garbled = Garbled
  Shipments = {s1}
  CreationTime = 0
  Deliveries <- AllEvents
  Http = {h1}
  Reference <- OneReference
  Messages = {1, 2}
  Body <- BodyOf
  FirstAttempt <- HeaderOf
  EventOf <- EventSent
  Workers = {c1, c2}
  MaxAttempts = 2
  MaxSends = 1
  MaxFaults = 1
SPECIFICATION ConsumptionSpec
INVARIANTS
  CommitBeforeAck
PROPERTIES
  ImplementsConsumer
CHECK_DEADLOCK FALSE
