SPECIFICATION FairSpec
CONSTANTS
  Ids = {i1}
  m1 = m1
  Messages = {m1}
  First = i1
  Kinds1 = {"owned"}
  Kinds2 = {}
  MessageOf <- SameMessage
  OpsOf <- Kinds
  Callers = {c1}
  Jobs = {k1}
  MaxAttempt = 2
PROPERTIES
  EventuallyResolved
  EventuallySettled
