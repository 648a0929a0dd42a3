SPECIFICATION Spec
CONSTANTS
  Query <- MCQuery
  MaxCells = 7
  MaxSims = 4
INVARIANTS
  TypeOK
  EveryPairAccountedFor
  SameAsSingleEndpoints
  DroppingMethodsReturnsTheRest
  OnePositionIsV1
CHECK_DEADLOCK FALSE
