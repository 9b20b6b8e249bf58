SPECIFICATION AiSpec
CONSTANTS
  Sessions = {g1, g2, s1}
  Callers = {g1, g2}
  q1 = q1
  rq1 = rq1
  cq1 = cq1
  AiKeys = {q1}
  Keys = {rq1, cq1, k1}
  ReserveKey <- MCReserveKey
  ChargeKey <- MCChargeKey
  AiAccount <- MCAiAccount
  AiUnits <- MCAiUnits
  InferenceIds = {i1, i2, i3}
  Accounts = {a1}
  ReservationIds = {r1, r2, r3}
  UnitSizes = {1, 2}
  ExpiryTimes = {2}
  NoExpiry = NoExpiry
  AllocatedUnits <- MCAllocated
  MonthlyUnits <- MCMonthly
  PerTaskUnits <- MCPerTask
  HardLimit <- MCHardLimit
  HoldTime = 1
  MaxClock = 3
SYMMETRY MCSymmetry
INVARIANTS
  AiTypeOK ChargedOnce CommittedWithinLimit OneEffectPerKey
  OneChargedInferencePerKey AuditNamesChargedInference
PROPERTIES SettledIsFinal ChargedInferenceStays LedgerIsKept
CHECK_DEADLOCK FALSE
