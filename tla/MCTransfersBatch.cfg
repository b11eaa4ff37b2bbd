SPECIFICATION Spec
CONSTANTS
  Transfers = {t1, t2}
  Chunks = {t1, t2}
  Jobs = {j1}
  NoTransfer = NoTransfer
CHECK_DEADLOCK FALSE
SYMMETRY Perms
INVARIANTS RecipientsFollowChunk BatchIsDerived
