SPECIFICATION Spec
CONSTANTS
  r1 = r1
  r2 = r2
  r3 = r3
  w1 = w1
  w2 = w2
  Resource = {r1, r2, r3}
  Worker = {w1, w2}
  NoResource = NoResource
  Type <- MCType
  TypeOf <- MCTypeOf
  Serial = {"serial"}
  ReferenceGraphs <- MCGraphs
  ReadsAs <- SharedIds
PROPERTIES
  ImplementsOrderedApply
  CleanupEnds
INVARIANTS
  DependentsFirst
CHECK_DEADLOCK FALSE
