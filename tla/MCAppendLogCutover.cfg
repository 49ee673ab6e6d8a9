SPECIFICATION LogSpec
CONSTANTS
  MaxOps = 3
  MaxRecords = 1
  MaxAcquires = 0
  MaxGens = 1
  MaxCalls = 1
  MaxRewrites = 1
  MaxFaults = 1
CHECK_DEADLOCK FALSE
PROPERTY VouchedSurvives
