SPECIFICATION Spec
CONSTANTS
    i1 = i1
    i2 = i2
    Ids <- ClientIds
    Results = {"completed", "failed", "cancelled"}
    Refusals = {"failed", "blocked"}
    MaxPrompts = 3
    MaxInjects = 0
    MaxSteers = 1
    MaxClears = 0
    MaxCompactions = 0
SYMMETRY IdSymmetry
INVARIANTS LiveIdsUnique ChildrenHaveActiveParent
CHECK_DEADLOCK FALSE
