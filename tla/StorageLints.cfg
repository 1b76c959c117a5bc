SPECIFICATION Spec
CONSTANTS
  Attributes <- AllAttributes
  MaxAttributes = 2
  Crates <- AllCrates
  IgnoreLists <- OneIgnored
CHECK_DEADLOCK FALSE
INVARIANTS
  TypeOK
  CriticalNeverTemporary
  CleanMeansDurable
  QuietMeansManaged
  SameEntry
