INIT LockInit
NEXT LockStep
CONSTANTS
  MaxLocks = 2
  OneProcess = 2
  Unix = TRUE
  MaxAttempts = 2
  MaxRenewals = 0
CHECK_DEADLOCK FALSE
INVARIANT SingleWriter
