SPECIFICATION Spec
CONSTANTS
  SnapCount = 1
  CatchUpN = 1
  MaxLog = 4
  MaxCrashes = 1
  MaxLeaderSnaps = 0
INVARIANTS
  StoreCurrent
