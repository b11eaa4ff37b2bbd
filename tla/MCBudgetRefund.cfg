SPECIFICATION Spec
CONSTANTS
  i1 = i1
  i2 = i2
  global = global
  orgA = orgA
  orgB = orgB
  Ids = {i1, i2}
  Fields = {global, orgA, orgB}
  FieldsOf <- TwoOrganizations
  AmountOf <- Amounts
  Hours = {h1}
  PerTx <- Limits
  HourLimit <- Limits
  DayLimit <- Limits
  Callers = {c1, c2}
  Jobs = {k1}
  MaxAttempt = 1
  Excess = 0
  Lossy = FALSE
  Resends = FALSE
SYMMETRY Perms
INVARIANTS
  RefundReachesRedis
CHECK_DEADLOCK FALSE
