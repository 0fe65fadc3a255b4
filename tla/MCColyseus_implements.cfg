SPECIFICATION Spec
CONSTANTS
  s1 = s1
  s2 = s2
  g1 = g1
  g2 = g2
  t1 = t1
  None = None
  Server = {s1, s2}
  Guid = {g1, g2}
  Task = {t1}
  ProactiveReplication = TRUE
  InterestTTL = 1
  Failures = TRUE
  Connected = TRUE
  Type <- MCType
  Input <- MCInput
  MaxEvents = 1
  MaxCalls = 1
  MaxMarkers = 2
SYMMETRY Symmetry
INVARIANT IInv
PROPERTIES CopiesVanishWithObject ImplementsPrimaryCopy
CHECK_DEADLOCK FALSE
