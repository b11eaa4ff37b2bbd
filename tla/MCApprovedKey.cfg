SPECIFICATION Spec
CONSTANTS
  Ops = {o1, o2}
  Keys = {k1}
  NoKey = NoKey
  TheKey = k1
  Key <- SharedKey
  Attempts = {a1, a2}
  None = None
  MaxFaults = 2
CHECK_DEADLOCK FALSE
SYMMETRY Perms
INVARIANT CompletedWasSubmitted
PROPERTY ImplementsGate
