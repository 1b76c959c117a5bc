SPECIFICATION DaemonSpec
CONSTANTS
  k1 = k1
  k2 = k2
  Keys = {k1, k2}
  MaxLedger = 5
  InitialTtls = {2}
  TrafficTtl = 0
  NumWatches = 1
  WatchKeys <- OneWatch
  Threshold <- OneThreshold
  ExtendTo <- OneExtendTo
  Size <- UnitSize
  MaxBatchBytes = 2
  MaxAttempts = 2
  LedgerWindow = 1
  RpcLag = 1
  MaxQueued = 1
  MaxFaults = 1
  LuckyKey = k1
  ConfigFiles <- Files
  Balances = {0, 1}
CHECK_DEADLOCK FALSE
INVARIANTS
  DaemonTypeOK
  CompleteGaugesAreHonest
  SilenceMeansSafety
  SubmittedMeansLanded
PROPERTIES
  NoExpiryAsleep
