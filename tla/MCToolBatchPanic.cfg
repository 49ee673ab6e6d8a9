INIT BatchInit
NEXT BatchStep
CONSTANTS
    MaxBatch = 4
    Paths <- MCPaths
    AccessChoices <- MCOneAccess
    MaxPanics = 1
CONSTRAINT MCForms
INVARIANTS BatchTypeOK ConflictsRunInOrder OneResultEach BatchNeverStuck BatchGuardsSuffice
CHECK_DEADLOCK FALSE
