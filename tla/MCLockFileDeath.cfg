INIT LockInit
NEXT LockStep
CONSTANTS
  MaxLocks = 3
  OneProcess = 1
  Unix = TRUE
  MaxAttempts = 4
  MaxRenewals = 0
CHECK_DEADLOCK FALSE
INVARIANT SingleWriter
