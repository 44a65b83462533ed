SPECIFICATION Spec
CONSTANTS
  d1 = d1
  d2 = d2
  Device = {d1, d2}
  Timeout = 2
  MaxTime = 5
SYMMETRY Symmetry
INVARIANTS TypeOK TimerNearUse InfoTrue
PROPERTIES RefusedNearlyIdle
