CONSTANTS
  c1 = c1
  c2 = c2
  ok = ok
  malformed = malformed
  mistyped = mistyped
  None = None
  Garbled = Garbled
  Messages = {malformed}
  Body <- BodiesSent
  FirstAttempt <- ForeignHeaders
  Consumers = {c1, c2}
  MaxAttempts = 3
  MaxSends = 1
  MaxFaults = 0
SPECIFICATION Spec
PROPERTIES
  InvalidSettles
CHECK_DEADLOCK FALSE
