SPECIFICATION MCSpec
CONSTANTS
  StreamCompressors = {"none", "Noop", "Snappy"}
  Dialects <- MCDialects
  LastRequest = 2
  BodySize = 16
  ClientCredentials <- MCCredentials
  Peers = {"protocol", "driver"}
  CursorServers <- MCCursorServers
  Callers <- MCCallers
  p = p
  q = q
  Last = 4
  BatchSize = 2
  FaultBound = 2
  ErrorBound = 4
  Operations <- MCOperations
  Stored = {"a", "b"}
  Inserted <- MCInserted
  RetryReads = TRUE
  RetryWrites = TRUE
  Uris <- MCUris
  Threads = {t1, t2, t3}
  Servers = {s1, s2}
  t3 = t3
  MaxPoolSize = 2
  IdleTimeout = TRUE
  ClockSteps = TRUE
  NoServer = none
CHECK_DEADLOCK FALSE
PROPERTIES
  ScramGoesOn
