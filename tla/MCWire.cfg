SPECIFICATION WireSpec
CONSTANTS
  MaxThreads = 2
  MaxFlushers = 2
  MAX_DRAIN = 1
  MaxWireOps = 3
  MaxFlushes = 2
  MaxMishaps = 1
CHECK_DEADLOCK FALSE
INVARIANTS WireTypeOK AppliedInOrder QueuedIsApplied JournalIsHistory FlushCovers MigratedOnce
