SPECIFICATION RunSpec
CONSTANTS
  Sessions = {s1, s2}
  Keys = {}
  RunKeys = {q1, q2}
  Accounts = {own}
  WorkerAccounts = {own}
  ReservationIds = {r1, r2}
  RunIds = {w1, w2}
  UnitSizes = {2}
  ExpiryTimes = {1}
  NoExpiry = NoExpiry
  AllocatedUnits <- MCAllocated
  MonthlyUnits <- MCMonthly
  PerTaskUnits <- MCPerTask
  HardLimit <- MCHardLimit
  HoldTime = 1
  RunHoldTime = 2
  MaxClock = 0
INVARIANT WorkerAccountsWithinLimit
CHECK_DEADLOCK FALSE
