SPECIFICATION LiveSpec
CONSTANTS
  SnapCount = 1
  CatchUpN = 1
  MaxLog = 3
  MaxCrashes = 2
  MaxLeaderSnaps = 1
INVARIANTS
  TypeOK
  WALOpensAtSnapshot
  CompactsForward
  AppliesInOrder
  ReaderAlive
  LossExcused
PROPERTIES
  SnapshotsForward
  StartupCompletes
  CommittedApplied
