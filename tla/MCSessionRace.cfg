\* Three logins of one user racing each other, with logouts in between.
SPECIFICATION Spec
CONSTANTS
  User = {u1}
  Request = {q1, q2, q3}
  Cron = {}
  MaxSessions = 1
  Lifetime = 4
  MaxTime = 3
  MaxRows = 4
SYMMETRY Symmetry
INVARIANTS SlotsBounded OvershootBounded OldestIsEvicted
