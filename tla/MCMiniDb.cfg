SPECIFICATION DbLiveSpec
CONSTANTS
  Keys = {k1, k2}
  MaxWrites = 2
  MaxCompactions = 1
  MaxDbFaults = 2
CHECK_DEADLOCK FALSE
INVARIANTS DbTypeOK StoreIsRecoverable
PROPERTIES CompactionEnds ImplementsDurableMap
