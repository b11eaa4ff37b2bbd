SPECIFICATION FairSpec
CONSTANTS
  Ops = {o1}
  Keys = {k1}
  NoKey = NoKey
  TheKey = NoKey
  Key <- SharedKey
  Attempts = {a1, a2, a3}
  None = None
  MaxFaults = 2
CHECK_DEADLOCK FALSE
INVARIANTS OneSubmissionPerOperation SubmittedWasCleared
PROPERTIES ClosedStaysClosed ExecutingEnds
