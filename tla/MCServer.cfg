\* Two connections and a socket, through startup, signals and crashes.
SPECIFICATION FairSpec
CONSTANTS
  r1 = r1
  r2 = r2
  Conn = {r1, r2}
  DbType = "mongodb"
  GraphQL = TRUE
  Routes = {"login"}
  Max <- MCMax
  MaxCount = 2
  MaxSignals = 1
  MaxLeaked = 1
INVARIANTS TypeOK CountExact GaugeExact
PROPERTY ShutdownEnds
\* The process ends.
CHECK_DEADLOCK FALSE
