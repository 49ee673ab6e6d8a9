INIT BatchInit
NEXT BatchStep
CONSTANTS
    MaxBatch = 3
    Paths <- MCPaths
    AccessChoices <- MCAccess
    MaxPanics = 1
INVARIANTS BatchTypeOK ConflictsRunInOrder OneResultEach BatchNeverStuck BatchGuardsSuffice
CHECK_DEADLOCK FALSE
