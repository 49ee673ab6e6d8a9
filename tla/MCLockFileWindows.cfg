INIT LockInit
NEXT LockStep
CONSTANTS
  MaxLocks = 2
  OneProcess = 1
  Unix = FALSE
  MaxAttempts = 2
  MaxRenewals = 0
CHECK_DEADLOCK FALSE
INVARIANT SingleWriter
