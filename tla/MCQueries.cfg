CONSTANTS
  s1 = s1
  s2 = s2
  s3 = s3
  h1 = h1
  h2 = h2
  q1 = q1
  None = None
  Shipments = {s1, s2, s3}
  Http = {h1, h2}
  Workers = {}
  Readers = {q1}
  CreationTime = 0
  Deliveries <- SharedDeliveries
  Reference <- SharedReferences
SPECIFICATION QueriesSpec
INVARIANTS
  ReferenceIsUnique
  HistoryExplainsAnswer
