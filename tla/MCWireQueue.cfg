SPECIFICATION WireSpec
CONSTANTS
  MaxThreads = 2
  MaxFlushers = 2
  MAX_DRAIN = 1
  MaxWireOps = 3
  MaxFlushes = 2
  MaxMishaps = 0
CHECK_DEADLOCK FALSE
INVARIANT QueuedIsDrained
