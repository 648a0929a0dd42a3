SPECIFICATION Spec
CONSTANTS
  N = 10
  Calendar <- EveryCalendar
  GarchWindow = 3
  ResidualWindow = {2, 3, 4}
  ModelWindow = {1, 2}
  RvWindow = 2
INVARIANTS
  TypeOK
  NoLookAhead
  StaleExactly
  OneRefitEachMonth
  ResidualWindows
CHECK_DEADLOCK FALSE
