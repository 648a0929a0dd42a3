SPECIFICATION Spec
CONSTANTS
  Scale = 12
  Level = 4
  PValue = {1, 2, 5}
  Comparison <- KeptComparisons
  MeanLosses <- MostLosses
  Rejections <- FewRejections
INVARIANTS
  HolmIsClosedTest
  EveryTestReported
  SupportedOnEvidence
CHECK_DEADLOCK FALSE
