SPECIFICATION Spec
CONSTANTS
  Threads = {t1, t2, t3}
  NoThread = NoThread
  IdleTimeout = TRUE
  ClockSteps = FALSE
  MaxPoolSize = 2
  MinPoolSize = 0
  LenBound = 3
  ClearBound = 1
INVARIANTS
  WaitOnlyWhenFull
