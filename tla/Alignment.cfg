SPECIFICATION AlignSpec
CONSTANTS
  Asset <- TwoAssets
  Day <- ThreeDays
  SlotsPerDay = 2
  NoDate = NoDate
INVARIANTS
  AlignTypeOK
  EveryObservationCounted
  HolesExplained
  WindowOnlyCuts
CHECK_DEADLOCK FALSE
