SPECIFICATION Spec
CONSTANTS
    c1 = c1
    c2 = c2
    Callers <- TwoCallers
    Kinds = {"prompt", "continuation", "steer"}
    MaxRequests = 2
    MaxSteps = 0
    MaxCancels = 1
    MaxWaits = 1
    MaxDisposals = 1
SYMMETRY CallerSymmetry
CHECK_DEADLOCK FALSE
INVARIANTS TypeOK OneTurnAtATime PumpComing WaitersHaveCause
