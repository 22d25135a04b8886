CONSTANTS
  s1 = s1
  h1 = h1
  w1 = w1
  None = None
  Shipments = {s1}
  Http = {h1}
  Workers = {w1}
  CreationTime = 0
  Deliveries <- RaceDeliveries
  Reference <- OneReference
SPECIFICATION Spec
INVARIANTS
  TypeOK
  IntentsMatchHistory
  ProjectionIsWitnessed
  CustodyIsComplete
  RepeatIsNeverRefused
  RecoveredAnswerIsCurrent
  RecordsFollowRegistration
PROPERTIES
  LedgerSpec
  RequestsEnd
