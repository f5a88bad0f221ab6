CONSTANTS
  MaxBurst = 3
  Start = 1
  Rates = {0, 1, 2}
  Lens = {1, 4}
  Delays = {0, 2, 5}
  MaxFlushes = 3
SPECIFICATION Spec
CHECK_DEADLOCK FALSE
INVARIANTS
  TokenBucket
  OnSchedule
