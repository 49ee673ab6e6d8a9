SPECIFICATION AskSpec
CONSTANTS
    MaxAsks = 2
    MaxAgents = 2
    MaxIds = 2
    MaxTurns = 1
INVARIANTS AskTypeOK WaitingIsPending EntriesAreSwept
CHECK_DEADLOCK FALSE
