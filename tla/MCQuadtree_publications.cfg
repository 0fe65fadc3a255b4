SPECIFICATION Spec
CONSTANTS
  s1 = s1
  s2 = s2
  g1 = g1
  g2 = g2
  Sid = {s1, s2}
  Guid = {g1, g2}
  Owner <- MCOwner
  Rect <- MCRectStraddling
  Size = 4
  Capacity = 1
  Life = {2}
  MaxDepth = 2
  MaxStored = 2
  MaxTime = 2
PROPERTY PublicationKeptForTTL
CHECK_DEADLOCK FALSE
