SPECIFICATION OrdersSpec
CONSTANTS
  a = a
  b = b
  x = x
  Item = {a, b}
  Extra = {x}
  Kinds <- AllKinds
  Options <- TwoOptions
  Classes <- TwoClasses
  Nothing = Nothing
  Invalid = Invalid
  MaxMade = 2
  MaxPasses = 4
  MaxOutside = 1
INVARIANTS
  ReportedOrderMirrors
PROPERTIES
  ExtrasKeepOrder
CHECK_DEADLOCK FALSE
