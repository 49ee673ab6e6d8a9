SPECIFICATION RunnerFairSpec
CONSTANTS
    Clients = {"c1", "c2"}
    Workers = {"w1"}
    Capacity = 1
    MaxPending = 1
    Generations = 2
INVARIANTS RunnerTypeOK OneOwner NoLostWakeup ParkedIsQuiescent
PROPERTIES EveryCallReturns EveryReportReceived ShutdownCompletes
