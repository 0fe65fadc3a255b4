SPECIFICATION Spec
CONSTANTS
  s1 = s1
  s2 = s2
  g1 = g1
  g2 = g2
  g3 = g3
  t1 = t1
  None = None
  Server = {s1, s2}
  Guid = {g1, g2, g3}
  Task = {t1}
  ProactiveReplication = TRUE
  InterestTTL = 1
  Failures = FALSE
  Connected = FALSE
  Type = {"Player", "Projectile"}
  Input = {{"Shoot"}}
  MaxEvents = 1
  MaxCalls = 2
  MaxMarkers = 1
SYMMETRY Symmetry
INVARIANT OneProjectilePerShot
CHECK_DEADLOCK FALSE
