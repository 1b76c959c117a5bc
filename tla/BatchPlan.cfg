SPECIFICATION Spec
CONSTANTS
  MaxEntries = 4
  U32Max = 4
INVARIANTS
  TypeOK
  EveryEntryOnce
  EachBatchIsNext
CHECK_DEADLOCK FALSE
