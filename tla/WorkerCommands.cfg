SPECIFICATION FairCommandSpec
CONSTANTS
  Sessions = {s1, s2}
  Keys = {}
  RunKeys = {q1, q2}
  CommandKeys = {q1}
  Accounts = {own}
  WorkerAccounts = {own}
  ReservationIds = {r1}
  RunIds = {w1}
  UnitSizes = {2}
  ExpiryTimes = {}
  NoExpiry = NoExpiry
  AllocatedUnits <- MCAllocated
  MonthlyUnits <- MCMonthly
  PerTaskUnits <- MCPerTask
  HardLimit <- MCHardLimit
  HoldTime = 1
  RunHoldTime = 1
  MaxClock = 1
CHECK_DEADLOCK FALSE
INVARIANTS CommandTypeOK ChargedCommandsDelivered
PROPERTIES RecordsStayNamed CommandsSettle SettlementEndsUpInOutput
