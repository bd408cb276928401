SPECIFICATION MCSpec
CONSTANTS
  c1 = c1
  c2 = c2
  c3 = c3
  Threads = {t1, t2}
  Calls = {c1, c2, c3}
  Retryable = {c1}
  RetryOption = TRUE
  RequestId <- SharedRequestId
  Streams = {s1, s2, s3}
  MaxPoolSize = 2
  ClearBound = 1
  NoCall = NoCall
  NoStream = NoStream
  Servers = {m1, m2, m3}
  Initial = {m1, m2}
  Unreachable = {m2}
  ClockSteps = TRUE
  primary = primary
  secondary = secondary
  NoServer = NoServer
CHECK_DEADLOCK FALSE
INVARIANTS
  StreamsInStep
  SuccessExecuted
  ExecutionsBounded
  MappedMonitored
PROPERTIES
  BrokenForGood
  CallsEnd
  RemovedEnds
  MonitorsStop
  
