SPECIFICATION RolesSpec
CONSTANTS
  None = None
  ann = ann
  bob = bob
  User = {ann, bob}
  Team = {core}
  Role = {"admin", "viewer", "agent"}
  Level = {"lead", "member"}
  Email = {"post"}
  Perm = {"read", "write", "audit", "beta"}
  Offered = {"read", "write", "beta"}
  Gated = {"beta"}
  AllowPartial = {"write"}
  Builtin = {"admin"}
  Managed = {"agent"}
  Starts <- AllStarts
  Limits <- Bounds
  RolesAt <- RolesOfStarts
INVARIANTS
  AccessReaches
  RolesAreHeld
  DiffsConverge
PROPERTIES
  OnlyDroppedIsTaken
CHECK_DEADLOCK FALSE
