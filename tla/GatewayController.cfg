SPECIFICATION Spec
CONSTANTS
  k1 = k1
  k2 = k2
  NoKey = NoKey
  Keys <- MCKeys
  MaxRuns = 2
  MaxChunks = 1
  MaxUnpairs = 2

  
PROPERTIES
  
  NoUploadOnceUnpairing
  UnpairLeavesNothing
