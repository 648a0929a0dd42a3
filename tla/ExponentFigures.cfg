SPECIFICATION Spec
CONSTANTS
  TopPositions = 2
  ListedDates = 1
  ListedAssets = 1
  Results <- MCResults
  Lettered = {1, 3, 5}
  Invented <- MCInvented
  InventedDates = {5, 7, 9}
INVARIANTS
  EveryFigureShownPasses
CHECK_DEADLOCK FALSE
