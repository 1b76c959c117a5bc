SPECIFICATION Spec
CONSTANTS
  c1 = c1
  c2 = c2
  i1 = i1
  i2 = i2
  code = code
  data = data
  Entries = {i1, i2, code, data}
  Instance <- MCInstance
  Code <- MCCode
  NumItems = 3
  Contract <- TwiceContracts
  Data <- TwiceData
  HashGiven = {2}
  MaxRuns = 2
  MaxChanges = 2
CHECK_DEADLOCK FALSE
INVARIANTS
  TypeOK
  OneResultPerContract
  NothingMeansNothing
  EnvelopesSurviveFailures
PROPERTY
  DryRunTouchesNothing
