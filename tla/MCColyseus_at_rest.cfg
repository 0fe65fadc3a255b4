SPECIFICATION Spec
CONSTANTS
  s1 = s1
  s2 = s2
  g1 = g1
  t1 = t1
  None = None
  Server = {s1, s2}
  Guid = {g1}
  Task = {t1}
  ProactiveReplication = FALSE
  InterestTTL = 1
  Failures = FALSE
  Connected = TRUE
  Type <- MCType
  Input <- MCInput
  MaxEvents = 2
  MaxCalls = 2
  MaxMarkers = 1
SYMMETRY Symmetry
INVARIANT ReplicatedAtRest
CHECK_DEADLOCK FALSE
