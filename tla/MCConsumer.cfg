CONSTANTS
  c1 = c1
  c2 = c2
  ok = ok
  malformed = malformed
  mistyped = mistyped
  None = None
  Garbled = Garbled
  Messages = {ok, malformed, mistyped}
  Body <- BodiesSent
  FirstAttempt <- ForeignHeaders
  Consumers = {c1, c2}
  MaxAttempts = 2
  MaxSends = 1
  MaxFaults = 2
SPECIFICATION Spec
INVARIANTS
  TypeOK
  NothingVanishes
  RetriesAreBounded
PROPERTIES
  MessagesSettle
CHECK_DEADLOCK FALSE
