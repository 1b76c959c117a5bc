SPECIFICATION Spec
CONSTANTS
  c1 = c1
  c2 = c2
  i1 = i1
  i2 = i2
  code = code
  data = data
  Entries = {i1, i2, code, data}
  Instance <- MCInstance
  Code <- MCCode
  NumItems = 2
  Contract <- TwoContracts
  Data <- TwoData
  HashGiven = {2}
  MaxRuns = 1
  MaxChanges = 0
CHECK_DEADLOCK FALSE
INVARIANT
  ReadyToSign
