SPECIFICATION FairRunSpec
CONSTANTS
  Sessions = {s1, s2}
  Keys = {}
  RunKeys = {q1, q2}
  Accounts = {own}
  WorkerAccounts = {own}
  ReservationIds = {r1, r2}
  RunIds = {w1}
  UnitSizes = {2}
  ExpiryTimes = {}
  NoExpiry = NoExpiry
  AllocatedUnits <- MCAllocated
  MonthlyUnits <- MCMonthly
  PerTaskUnits <- MCPerTask
  HardLimit <- MCHardLimit
  HoldTime = 1
  RunHoldTime = 2
  MaxClock = 2
CHECK_DEADLOCK FALSE
PROPERTY RunSettles
