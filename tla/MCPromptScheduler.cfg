SPECIFICATION Spec
CONSTANTS
    i1 = i1
    i2 = i2
    Ids <- ClientIds
    Results = {"completed", "failed", "cancelled"}
    Refusals = {"failed", "blocked"}
    MaxPrompts = 2
    MaxInjects = 1
    MaxSteers = 1
    MaxClears = 1
    MaxCompactions = 0
SYMMETRY IdSymmetry
INVARIANTS OwnedUntilSettled NoOrphanTurn CancelsHaveCause LiveIdsUnique ChildrenHaveActiveParent
PROPERTY ImplementsLifecycle
CHECK_DEADLOCK FALSE
