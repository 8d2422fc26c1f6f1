SPECIFICATION FairSpec
CONSTANTS
  Capacity = 3
  MaxChunks = 2
  Ttl = 4
  BaseDelay = 1
  MaxDelay = 6
  MaxAttempts = 3
  RetryAfters <- MCRetryAfters
  MaxElapsed = 2
  MaxStops = 0
PROPERTIES
  OutageIsTemporary
