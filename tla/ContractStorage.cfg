SPECIFICATION Spec
CONSTANTS
  balance = balance
  nonce = nonce
  admin = admin
  Absent = Absent
  Instance = Instance
  Keys = {balance, nonce, admin}
  Values = {"v"}
  Lifecycle <- MCLifecycle
  AutoBump <- MCAutoBump
  Threshold <- MCThreshold
  ExtendTo <- MCExtendTo
  MinTtl <- MCMinTtl
  MaxTtl <- MCMaxTtl
  MAX_TEMP_TTL = 1
  MAX_PERSISTENT_TTL = 3
  Ttls = {1, 3}
  MaxLedger = 3
INVARIANTS
  TypeOK
  TouchedEntriesLive
  TtlIsPredictable
  AskedTtlsAreKept
PROPERTIES
  TtlNeverShrinks
  BumpsAreSpaced
