SPECIFICATION Spec
CONSTANTS
  s1 = s1
  s2 = s2
  g1 = g1
  g2 = g2
  Sid = {s1, s2}
  Guid = {g1, g2}
  Owner <- MCOwner
  Rect <- MCRectStraddling
  Size = 4
  Capacity = 1
  Life = {1}
  MaxDepth = 2
  MaxStored = 3
  MaxTime = 2
INVARIANT IntersectingIsFound
CHECK_DEADLOCK FALSE
