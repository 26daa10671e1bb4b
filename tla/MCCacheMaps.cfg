SPECIFICATION Spec
CONSTANTS
  Kinds = {"hash", "flat", "paged"}
  Handler = {h1, h2}
  Map = {m1, m2, m3}
  NoMap = NoMap
  a = a
  ns = ns
  Types = {"A", "NS"}
  Answers <- MCAnswers
  TypeOf <- MCTypeOf
INVARIANTS
  TypeOK
  ClashesExplained
  
