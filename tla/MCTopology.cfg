CONSTANTS
  x1 = x1
  x2 = x2
  x3 = x3
  x4 = x4
  q1 = q1
  q2 = q2
  q3 = q3
  q4 = q4
  Plain = Plain
  None = None
  ExchangeNames = {x1, x2, x3}
  QueueNames = {q1, q2, q3, q4}
  Delays = {1, 2}
  MaxChanges = 1
SPECIFICATION Spec
SYMMETRY NamesSymmetry
INVARIANTS
  TypeOK
  StreamsAreSeparate
  RetriesReturnAsConfigured
CHECK_DEADLOCK FALSE
