SPECIFICATION FilesSpec
CONSTANTS
  i1 = i1
  i2 = i2
  i3 = i3
  n1 = n1
  n2 = n2
  Id = {i1, i2, i3}
  FileName = {n1, n2}
  Whole = Whole
  Proc = {1, 2}
  Modes <- TwoModes
  MaxVersion = 2
INVARIANTS
  ExactAfterImport
  SteadyIsSeen
