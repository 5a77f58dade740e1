SPECIFICATION Spec
CONSTANTS
  c1 = c1
  c2 = c2
  c3 = c3
  k1 = k1
  Conns = {c1, c2, c3}
  Uploaders = {u1}
  Keys = {k1, k2}
  MaxClients = 2
  Concurrency = 1
  Instances <- MCInstances
INVARIANTS PermitsAreExact AckedStands CachedListIsCurrent
PROPERTY Quiesces
CHECK_DEADLOCK FALSE
