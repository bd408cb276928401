SPECIFICATION Spec
CONSTANTS
  c1 = c1
  c2 = c2
  c3 = c3
  Threads = {t1, t2}
  Calls = {c1, c2, c3}
  Retryable = {c1}
  RetryOption = TRUE
  RequestId <- SharedRequestId
  Streams = {s1, s2, s3}
  MaxPoolSize = 2
  ClearBound = 1
  NoCall = NoCall
  NoStream = NoStream
CHECK_DEADLOCK FALSE
INVARIANTS
  DeletesOne
