SPECIFICATION Spec
CONSTANTS
    i1 = i1
    i2 = i2
    Ids <- ClientIds
    Results = {"completed", "failed", "cancelled"}
    Refusals = {"failed", "blocked"}
    MaxPrompts = 2
    MaxInjects = 0
    MaxSteers = 0
    MaxClears = 1
    MaxCompactions = 0
INVARIANT OneTaskOfEachKind
CHECK_DEADLOCK FALSE
