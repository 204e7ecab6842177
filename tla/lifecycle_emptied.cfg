SPECIFICATION Spec
CONSTANTS
  i1 = i1
  i2 = i2
  Id = {i1, i2}
  Modes <- Migrating
  MaxCopies = 2
PROPERTY MigrateOnlyRemoved
