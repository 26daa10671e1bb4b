SPECIFICATION Spec
CONSTANTS
  h1 = h1
  h2 = h2
  c1 = c1
  c2 = c2
  s1 = s1
  s2 = s2
  s3 = s3
  n1 = n1
  n2 = n2
  n3 = n3
  n4 = n4
  Queries <- MCQueries
  Clusters <- MCClusters
  Members <- MCMembers
  Names <- MCNames
  AskSets <- MCAskSets
  Table <- MCTable
  Holds <- MCHolds
  Spelled <- MCSpelled
  MaxFailures = 1
INVARIANTS
  RepliesComplete
  Failover
  PanicsOnlyUnreachable
CHECK_DEADLOCK FALSE
