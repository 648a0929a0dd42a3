SPECIFICATION RollingSpec
CONSTANTS
  DaysPerException = 4
  Inputs <- EveryInput
  Episodes <- TwoEpisodes
  BaselWindow = 3
  MinYear = 2
  MaxRuns = 2
  MaxDays = 4
  Nothing = Nothing
INVARIANTS
  RollingTypeOK
  OutOfSampleExceptions
  SummaryAddsUp
  RollingViewsAgree
  FailureTellsArtefacts
CHECK_DEADLOCK FALSE
