\* Two users, cleanups that race with requests and with the clock, and whose
\* queries may be rejected before or after the database executes them.
SPECIFICATION FairSpec
CONSTANTS
  User = {u1, u2}
  Request = {q1, q2}
  Cron = {c1}
  MaxSessions = 1
  Lifetime = 1
  MaxTime = 2
  MaxRows = 2
INVARIANTS TypeOK LocalsFresh
PROPERTIES OnlyExpiredSwept ListChangesAnnounced ExpiredRowsGo
