SPECIFICATION DowntimeSpec
CONSTANTS
  None = None
  Horizon = 14
  Minute = 2
  Daily = 24
  Gap = {19}
  MaxRecurrences = 2
  Families <- AllFamilies
  Lag = 2
  Latency = 1
  Limits <- Bounds
INVARIANTS
  NoOrphan
PROPERTIES
  NeverOutlasts
  WindowsCovered
  FaithfulAfterPass
  FaithfulCopyKept
CHECK_DEADLOCK FALSE
