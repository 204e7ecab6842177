SPECIFICATION Spec
CONSTANTS
  Monitors = Monitors
  HostTags = HostTags
  Downtimes = Downtimes
  DowntimeSchedules = DowntimeSchedules
  Unknown = Unknown
  Id = {1, 2}
  Type <- AllTypes
  Fetchable <- FetchTypes
  Loadable <- LoadTypes
  Renamed <- RenamedTypes
  Undeletable <- BuiltIn
  Unwritable <- Refusable
  Starts <- AllStarts
  Faults = TRUE
INVARIANTS
  NothingFetchedIsLost
  CleanExitIsComplete
  CleanupIsTotal
PROPERTIES
  OnlyStalePruned
  ResetBackedUp
