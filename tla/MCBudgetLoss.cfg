SPECIFICATION Spec
CONSTANTS
  i1 = i1
  i2 = i2
  global = global
  orgA = orgA
  orgB = orgB
  Ids = {i1, i2}
  Fields = {global, orgA, orgB}
  FieldsOf <- TwoOrganizations
  AmountOf <- Amounts
  Hours = {h1, h2}
  PerTx <- Limits
  HourLimit <- Limits
  DayLimit <- Limits
  Callers = {c1, c2}
  Jobs = {k1}
  MaxAttempt = 1
  Excess = 1
  Lossy = TRUE
  Resends = TRUE
SYMMETRY Perms
INVARIANTS
  TypeOK
  WithinBudget
  NoUndercount
  SettlementNeverRefused
CHECK_DEADLOCK FALSE
