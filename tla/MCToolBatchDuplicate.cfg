INIT BatchInit
NEXT BatchStep
CONSTANTS
    MaxBatch = 3
    Paths <- MCPaths
    AccessChoices <- MCAccess
    MaxPanics = 0
INVARIANTS DuplicateIsAnswered
CHECK_DEADLOCK FALSE
