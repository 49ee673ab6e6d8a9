SPECIFICATION FairSpec
CONSTANTS
    c1 = c1
    c2 = c2
    Callers <- OneCaller
    Kinds = {"prompt", "steer"}
    MaxRequests = 2
    MaxSteps = 1
    MaxCancels = 1
    MaxWaits = 1
    MaxDisposals = 1
CHECK_DEADLOCK FALSE
PROPERTIES EveryTurnSettles SettledCallsReturn
