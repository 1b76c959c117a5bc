SPECIFICATION Spec
CONSTANTS
  Attributes <- AllAttributes
  MaxAttributes = 2
  Crates <- AllCrates
  IgnoreLists <- NothingIgnored
CHECK_DEADLOCK FALSE
INVARIANTS
  NoBumpIsKept
