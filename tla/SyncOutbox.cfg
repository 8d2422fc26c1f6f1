SPECIFICATION FairSpec
CONSTANTS
  Capacity = 4
  MaxChunks = 3
  Ttl = 4
  BaseDelay = 1
  MaxDelay = 6
  MaxAttempts = 3
  RetryAfters <- MCRetryAfters
  MaxElapsed = 3
  MaxStops = 1
INVARIANTS
  RetryBeforeExpiry
  PassAccounts
PROPERTIES
  RoomToRecover
