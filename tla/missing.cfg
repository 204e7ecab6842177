SPECIFICATION Spec
CONSTANTS
  r1 = r1
  r2 = r2
  r3 = r3
  r4 = r4
  p2 = p2
  p4 = p4
  w1 = w1
  w2 = w2
  Resource = {r1, r2, r3, r4}
  Name = {r1, p2, r3, p4}
  NameOf <- PublicId
  InScope = {r1}
  ReferenceGraphs <- AllGraphs
  Worker = {w1, w2}
  NoName = NoName
  MaxQueued = 3
INVARIANTS
  ImportIsClosed
PROPERTY PoolEnds
