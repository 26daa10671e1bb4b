SPECIFICATION LiveSpec
CONSTANTS
  c1 = c1
  c2 = c2
  n1 = n1
  n2 = n2
  r1 = r1
  r2 = r2
  r3 = r3
  New = new
  Old <- MCOld
  Names <- MCNames
  Requests <- MCTwoRequests
  Deletes <- MCNoDeletes
  NameOf <- MCNameOf
  Before <- MCBefore
  After <- MCOneMoves
  MaxAttempts = 1
  MaxHashRestarts = 0
  MaxMemberRestarts = 0
  MaxFailures = 0
PROPERTIES
  WritesResume
CHECK_DEADLOCK FALSE
