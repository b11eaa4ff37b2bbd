SPECIFICATION Spec
CONSTANTS
  Requests = {r1, r2}
  Attempts = {a1, a2}
  NoAttempt = NoAttempt
  Periods = 1
  MaxRows = 1
  Scenarios <- Safety
CHECK_DEADLOCK FALSE
SYMMETRY Perms
INVARIANTS TypeOK OneChargePerPeriod AdvancedWasCharged ConfirmedAttemptLanded CanceledIsOnChain
PROPERTY CollectionsOnlyAdvance
