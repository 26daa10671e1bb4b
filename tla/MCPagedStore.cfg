SPECIFICATION Spec
CONSTANTS
  Pages = {p1, p2, p3}
  PageStoreMaxLen = 2
  MaxLog = 4
  MaxCrashes = 2
INVARIANTS
  TypeOK
  LRUConsistent
PROPERTIES
  ImplementsFlat
