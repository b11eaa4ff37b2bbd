SPECIFICATION Spec
CONSTANTS
  Ids = {i1, i2}
  m1 = m1
  Messages = {m1}
  First = i1
  Kinds1 = {"sign"}
  Kinds2 = {"send"}
  MessageOf <- SameMessage
  OpsOf <- Kinds
  Callers = {c1, c2}
  Jobs = {k1}
  MaxAttempt = 1
SYMMETRY Perms
INVARIANTS
  SoleOwner
  OwnerIsCurrent
  SettledAfterTerminal
  ExposedIsCharged
PROPERTY
  ImplementsLedger
