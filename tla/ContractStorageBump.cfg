SPECIFICATION Spec
CONSTANTS
  balance = balance
  nonce = nonce
  admin = admin
  Absent = Absent
  Instance = Instance
  Keys = {balance}
  Values = {"v"}
  Lifecycle <- MCLifecycle
  AutoBump <- MCAutoBump
  Threshold <- MCThreshold
  ExtendTo <- MCExtendTo
  MinTtl <- MCMinTtl
  MaxTtl <- MCMaxTtl
  MAX_TEMP_TTL = 1
  MAX_PERSISTENT_TTL = 3
  Ttls = {1}
  MaxLedger = 3
PROPERTY
  NoBumpAfterSetTtl
