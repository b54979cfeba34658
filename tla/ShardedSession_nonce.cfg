SPECIFICATION Spec
CONSTANTS
  NumShards = 2
  MaxPendingTun = 2
  RingCap = 1
  MaxKeys = 3
  MaxCounter = 4
INVARIANT NonceUnique
