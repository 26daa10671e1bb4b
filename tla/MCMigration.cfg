SPECIFICATION LiveSpec
CONSTANTS
  c1 = c1
  c2 = c2
  n1 = n1
  n2 = n2
  r1 = r1
  r2 = r2
  r3 = r3
  New = new
  Old <- MCOld
  Names <- MCNames
  Requests <- MCRequests
  Deletes <- MCDeletes
  NameOf <- MCNameOf
  Before <- MCBefore
  After <- MCOneMoves
  MaxAttempts = 2
  MaxHashRestarts = 1
  MaxMemberRestarts = 1
  MaxFailures = 1
INVARIANTS
  TypeOK
  QuietMigrationExact
  
  
PROPERTIES
  MigrationEnds
CHECK_DEADLOCK FALSE
