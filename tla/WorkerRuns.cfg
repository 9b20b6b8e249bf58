SPECIFICATION RunSpec
CONSTANTS
  Sessions = {s1, s2}
  Keys = {k1}
  RunKeys = {q1, q2}
  Accounts = {shared, own}
  WorkerAccounts = {own}
  ReservationIds = {r1, r2, r3}
  RunIds = {w1, w2}
  UnitSizes = {2}
  ExpiryTimes = {1}
  NoExpiry = NoExpiry
  AllocatedUnits <- MCAllocated
  MonthlyUnits <- MCMonthly
  PerTaskUnits <- MCPerTask
  HardLimit <- MCHardLimit
  HoldTime = 1
  RunHoldTime = 2
  MaxClock = 2
SYMMETRY MCSymmetry
INVARIANTS RunTypeOK SharedAccountsWithinLimit RunSettlesWithBudget
PROPERTIES OutcomeIsFinal
CHECK_DEADLOCK FALSE
