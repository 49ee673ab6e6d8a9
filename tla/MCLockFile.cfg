SPECIFICATION LockSpec
CONSTANTS
  MaxLocks = 3
  OneProcess = 1
  Unix = TRUE
  MaxAttempts = 4
  MaxRenewals = 1
CHECK_DEADLOCK FALSE
INVARIANTS LockTypeOK HolderOwnsFile NobodyLockedOut
