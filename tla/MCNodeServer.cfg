SPECIFICATION LiveSpec
CONSTANTS
  Request = {w1, w2, w3, bad}
  Bad = {bad}
  NoRequest = NoRequest
  MaxRestarts = 1
INVARIANTS
  TypeOK
  ProposedOnceInOrder
  
PROPERTIES
  WritesAnswered
  StopsWhenTold
CHECK_DEADLOCK FALSE
