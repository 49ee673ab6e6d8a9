INIT DbInit
NEXT DbStep
CONSTANTS
  Keys = {k1, k2}
  MaxWrites = 2
  MaxCompactions = 1
  MaxDbFaults = 0
CHECK_DEADLOCK FALSE
INVARIANT CompactionKeepsWrites
