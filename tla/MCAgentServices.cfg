INIT RunningInit
NEXT RunningNext
CONSTANTS
    c1 = c1
    c2 = c2
    Callers <- TwoCallers
    Kinds = {"prompt", "continuation", "steer"}
    MaxRequests = 2
    MaxSteps = 0
    MaxCancels = 1
    MaxWaits = 1
    MaxDisposals = 1
    ClockCallers = {"c1", "c2"}
    MaxTurnId = 2
    MaxAsks = 2
    MaxAgents = 2
    MaxIds = 2
    MaxTurns = 1
SYMMETRY CallerSymmetry
CHECK_DEADLOCK FALSE
INVARIANTS
    OneTurnAtATime PumpComing WaitersHaveCause
    TurnIdsNeverReused StartedTurnsAreCounted
    WaitingIsPending EntriesAreSwept
