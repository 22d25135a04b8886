SPECIFICATION Spec
INVARIANTS
  TypeOK
PROPERTIES
  VerdictIsFinal
  ImplementsPublication
  PublicationEnds
CHECK_DEADLOCK FALSE
