SPECIFICATION FairSpec
CONSTANTS
  Requests = {r1}
  Ticks = {t1}
  Humans = {alice}
  Faults = {overspend}
  Threshold = 2
  MaxVersion = 4
  MaxFailures = 2
INVARIANTS
  StandingDisableHolds
  ControlIsFaithful
PROPERTIES
  AdmissionSeesNewest
  ConfigTripRecovers
