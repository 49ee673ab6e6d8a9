SPECIFICATION Spec
CONSTANTS
    c1 = c1
    c2 = c2
    Callers <- OneCaller
    Kinds = {"prompt", "notification"}
    MaxRequests = 2
    MaxSteps = 0
    MaxCancels = 0
    MaxWaits = 0
    MaxDisposals = 0
CHECK_DEADLOCK FALSE
INVARIANT StepsSettleWithTurn
