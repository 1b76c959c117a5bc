SPECIFICATION Spec
CONSTANTS
  Keys <- VaultKeys
  Values <- VaultValues
  Lifecycle <- VaultLifecycle
  AutoBump <- VaultKeys
  Threshold <- VaultThreshold
  ExtendTo <- VaultExtendTo
  Users = {u1}
  Absent = Absent
  AdminAddress = AdminAddress
  Instance = Instance
  Amounts = {1, 2}
  Nonces = {1, 2}
  MaxI128 = 8
  GrantTtl = 3
  PolicyOf <- MCPolicyOf
  MinTtl <- MCMinTtl
  MaxTtl <- MCMaxTtl
  MAX_TEMP_TTL = 4
  MAX_PERSISTENT_TTL = 8
  MaxLedger = 6
  MaxFunding = 3
INVARIANT
  TypeOK
PROPERTIES
  KeepsPromise
  NoncesHoldForADay
