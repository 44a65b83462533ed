SPECIFICATION FairSpec
CONSTANTS
  u1 = u1
  d1 = d1
  d2 = d2
  c1 = c1
  None = None
  User = {u1}
  Device = {d1, d2}
  Cron = {c1}
  Owner <- MCOwner
  MaxSessions = 2
  MaxTime = 1
  Lifetime = 1
  MaxRows = 2
  MaxInbox = 1
PROPERTY RevokedSignsOut
