SPECIFICATION KvLiveSpec
CONSTANTS
  SnapCount = 1
  CatchUpN = 1
  MaxLog = 3
  MaxCrashes = 2
  MaxLeaderSnaps = 1
INVARIANTS
  KvAppliesInOrder
  KvLossExcused
PROPERTIES
  FreshStartServes
