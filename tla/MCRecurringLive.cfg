SPECIFICATION FairSpec
CONSTANTS
  Requests = {r1}
  Attempts = {a1}
  NoAttempt = NoAttempt
  Periods = 1
  MaxRows = 0
  Scenarios <- Liveness
CHECK_DEADLOCK FALSE
PROPERTY ChargedAdvances
