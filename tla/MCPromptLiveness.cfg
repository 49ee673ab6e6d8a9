SPECIFICATION FairSpec
CONSTANTS
    i1 = i1
    i2 = i2
    Ids <- ClientIds
    Results = {"completed"}
    Refusals = {"failed"}
    MaxPrompts = 2
    MaxInjects = 0
    MaxSteers = 1
    MaxClears = 0
    MaxCompactions = 1
PROPERTY EveryPromptSettles
CHECK_DEADLOCK FALSE
