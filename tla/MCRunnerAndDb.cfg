SPECIFICATION RunningSpec
CONSTANTS
    Clients = {"c1", "c2"}
    Workers = {"w1"}
    Capacity = 1
    MaxPending = 1
    Generations = 2
    Keys = {k1, k2}
    MaxWrites = 2
    MaxCompactions = 1
    MaxDbFaults = 2
CHECK_DEADLOCK FALSE
INVARIANTS OneOwner NoLostWakeup ParkedIsQuiescent StoreIsRecoverable
PROPERTIES
    EveryCallReturns EveryReportReceived ShutdownCompletes
    CompactionEnds ImplementsDurableMap
