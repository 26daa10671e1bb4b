SPECIFICATION Spec
CONSTANTS
  Node = {n1, n2}
  Record = {r1, r2}
  Second = 2
  TtlModulus = 1024
  TTLs = {1, 2}
  Wide = {2}
  MaxDelay = 2
  MaxTime = 5
  MaxBrought = 2
  MaxCrashes = 1
SYMMETRY Symmetry
INVARIANTS
  TypeOK
  BoundedStaleness
  
CHECK_DEADLOCK FALSE
