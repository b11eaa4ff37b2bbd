SPECIFICATION Spec
CONSTANTS
  h1 = h1
  h2 = h2
  Executions = {e1}
  Ticks = {t1, t2}
  Handlers = {h1, h2}
  Versions = {v1, v2}
  NoVersion = NoVersion
  MaxAttempts = 2
  MaxDecisions = 2
  Scenarios <- All
CHECK_DEADLOCK FALSE
INVARIANTS LiveKeyIsReadable OrphanIsQueued GatedRunsOncePerDecision WithdrawnNeverRuns PendingCanRun
PROPERTY FinalStays
