INIT LogInit
NEXT LogStep
CONSTANTS
  MaxOps = 3
  MaxRecords = 2
  MaxAcquires = 1
  MaxGens = 2
  MaxCalls = 1
  MaxRewrites = 1
  MaxFaults = 1
CHECK_DEADLOCK FALSE
INVARIANT TornTailIsDropped
