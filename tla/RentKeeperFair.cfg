SPECIFICATION FairSpec
CONSTANTS
  k1 = k1
  k2 = k2
  Keys = {k1, k2}
  MaxLedger = 2
  InitialTtls = {1}
  TrafficTtl = 0
  NumWatches = 2
  WatchKeys <- ApartKeys
  Threshold <- ApartThreshold
  ExtendTo <- ApartExtendTo
  Size <- UnitSize
  MaxBatchBytes = 1
  MaxAttempts = 2
  LedgerWindow = 1
  RpcLag = 0
  MaxQueued = 6
  MaxFaults = 1
  LuckyKey = k2
PROPERTIES
  LuckyKeyIsServed
  PollsEnd
