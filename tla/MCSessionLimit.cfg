\* Two logins of one user that overlap.
SPECIFICATION Spec
CONSTANTS
  User = {u1}
  Request = {q1, q2}
  Cron = {c1}
  MaxSessions = 2
  Lifetime = 2
  MaxTime = 3
  MaxRows = 4
INVARIANTS WithinLimit
