SPECIFICATION Spec
CONSTANTS
  Request = {r1}
  MaxBytes = 2
  SendBound = 4
INVARIANTS
  TypeOK
  HeldWithinLimit
  WholeBodyOnce
PROPERTIES
  ImplementsGate
  Decided
CHECK_DEADLOCK FALSE
