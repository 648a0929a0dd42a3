SPECIFICATION AlignSpec
CONSTANTS
  Asset <- TwoAssets
  Day <- ThreeDays
  SlotsPerDay = 2
  NoDate = NoDate
INVARIANTS
  ReportedWindowIsUsed
CHECK_DEADLOCK FALSE
