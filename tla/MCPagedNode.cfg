SPECIFICATION NodeSpec
CONSTANTS
  Pages = {p1, p2}
  PageStoreMaxLen = 1
  MaxLog = 4
  MaxCrashes = 2
  MaxLeaderSnaps = 1
INVARIANTS
  StoresInOrder
  
