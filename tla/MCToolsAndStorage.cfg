INIT RunningInit
NEXT RunningNext
CONSTANTS
    MaxBatch = 3
    Paths <- SomePaths
    AccessChoices <- SomeAccesses
    MaxPanics = 1
    MaxThreads = 2
    MaxFlushers = 2
    MAX_DRAIN = 1
    MaxWireOps = 3
    MaxFlushes = 2
    MaxMishaps = 1
    MaxOps = 3
    MaxRecords = 2
    MaxAcquires = 1
    MaxGens = 2
    MaxCalls = 1
    MaxRewrites = 1
    MaxFaults = 1
    MaxLocks = 4
    OneProcess = 2
    Unix = TRUE
    MaxAttempts = 3
    MaxRenewals = 1
CHECK_DEADLOCK FALSE
INVARIANTS
    ConflictsRunInOrder OneResultEach BatchNeverStuck
    AppliedInOrder QueuedIsApplied JournalIsHistory FlushCovers MigratedOnce
    FileInOrder FlushedIsDurable FlushComing RewriteKeepsTail LogNeverStuck
    HolderOwnsFile NobodyLockedOut
