SPECIFICATION Spec
CONSTANTS
  user = user
  role = role
  monitor = monitor
  dashboard = dashboard
  composite = composite
  Resources = {user, role, monitor, dashboard, composite}
  Kind <- Types4
  Refs <- References
  Lists <- AccessLists
  Modes <- AllModes
  MaxId = 2
INVARIANTS
  CreatedOnce
PROPERTIES
  AppliedRefsLive
  ListsKept
