SPECIFICATION Spec
CONSTANTS
  k1 = k1
  k2 = k2
  Keys = {k1, k2}
  MaxLedger = 3
  InitialTtls = {1, 2}
  TrafficTtl = 2
  NumWatches = 2
  WatchKeys <- SharedKeys
  Threshold <- SharedThreshold
  ExtendTo <- SharedExtendTo
  Size <- UnitSize
  MaxBatchBytes = 1
  MaxAttempts = 2
  LedgerWindow = 1
  RpcLag = 0
  MaxQueued = 1
  MaxFaults = 1
  LuckyKey = k1
INVARIANTS
  TypeOK
  IInv
  ReportsAddUp
  CleanReportsProtect
  WatchesInOrder
  QueuedTransactionsAreBatches
PROPERTIES
  NoExpiryWithinThreshold
  KeepsPromise
