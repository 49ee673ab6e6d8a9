SPECIFICATION AskSpec
CONSTANTS
    MaxAsks = 2
    MaxAgents = 2
    MaxIds = 2
    MaxTurns = 1
INVARIANT CancelledWithItsTurn
CHECK_DEADLOCK FALSE
