SPECIFICATION FairSpec
CONSTANTS
  Transfers = {t1}
  Chunks = {}
  Jobs = {j1, j2}
  NoTransfer = NoTransfer
CHECK_DEADLOCK FALSE
INVARIANTS ConfirmedIsOnChain FailedDidNotMove
PROPERTIES SettledStays OutcomeIsRecorded
