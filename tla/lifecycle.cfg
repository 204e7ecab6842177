SPECIFICATION Spec
CONSTANTS
  i1 = i1
  i2 = i2
  Id = {i1, i2}
  Modes <- FourModes
  MaxCopies = 2
INVARIANTS
  Tracked
  MirrorAfterSync
PROPERTIES
  CleanupOnlyRemoved
  SourceFilesKept
  OneTornFile
