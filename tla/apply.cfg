SPECIFICATION MCSpec
CONSTANTS
  r1 = r1
  r2 = r2
  r3 = r3
  r4 = r4
  w1 = w1
  w2 = w2
  Resource = {r1, r2, r3, r4}
  Worker = {w1, w2}
  NoResource = NoResource
  Type <- MCType
  TypeOf <- MCTypeOf
  Serial = {"serial"}
  MaxConcurrent <- MCMaxConcurrent
  ReferenceGraphs <- Graphs
  EdgeTo <- StateKeys
  Modes <- AllModes
INVARIANTS
  VerdictFinal
  NoDanglingReference
  CapRespected
PROPERTIES
  ImplementsOrderedApply
  Termination
CHECK_DEADLOCK FALSE
