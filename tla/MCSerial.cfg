CONSTANTS
  s1 = s1
  h1 = h1
  w1 = w1
  None = None
  Shipments = {s1}
  Http = {h1}
  Workers = {}
  CreationTime = 0
  Deliveries <- SerialDeliveries
  Reference <- OneReference
SPECIFICATION Spec
INVARIANTS
  ProjectionIsCurrent
PROPERTIES
  SerialLedgerSpec
