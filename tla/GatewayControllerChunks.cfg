SPECIFICATION Spec
CONSTANTS
  k1 = k1
  k2 = k2
  NoKey = NoKey
  Keys <- MCKeys
  MaxRuns = 1
  MaxChunks = 2
  MaxUnpairs = 1
PROPERTIES
  SuccessLosesNothing
  CallsSettle
