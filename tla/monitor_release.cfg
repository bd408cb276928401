SPECIFICATION LifetimeFairSpec
CONSTANTS
  Servers = {m1, m2}
  Initial = {m1, m2}
  Unreachable = {}
  ClockSteps = FALSE
CHECK_DEADLOCK FALSE
PROPERTIES
  ClientReleased
