SPECIFICATION FairSpec
CONSTANTS
    c1 = c1
    c2 = c2
    Callers <- OneCaller
    Kinds = {"prompt"}
    MaxRequests = 1
    MaxSteps = 1
    MaxCancels = 0
    MaxWaits = 0
    MaxDisposals = 1
CHECK_DEADLOCK FALSE
PROPERTY CreatedTurnsSettle
