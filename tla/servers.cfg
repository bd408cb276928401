SPECIFICATION MCSpec
CONSTANTS
  Threads = {t1, t2, t3, t4}
  NoThread = NoThread
  IdleTimeout = FALSE
  ClockSteps = FALSE
  MaxPoolSize = 2
  MinPoolSize = 1
  LenBound = 3
  ClearBound = 2
  a = a
  b = b
  c = c
  d = d
  Addresses = {a, b, c}
  Slots = {s1, s2, s3}
  NoServer = NoServer
  None = None
INVARIANTS
  TypeOK
  ExclusiveStreams
  NoSlotLost
  NoLostWakeup
PROPERTIES
  OpensBelowMax
  ImplementsLease
  WaitersServed
  Discovery
