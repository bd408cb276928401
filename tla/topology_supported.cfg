SPECIFICATION Spec
CONSTANTS
  a = a
  b = b
  c = c
  d = d
  Addresses = {a, b}
  Slots = {s1, s2, s3}
  NoServer = NoServer
  None = None
  Replies <- Failover
  HostLists = {{a}}
  InitialType = "Unknown"
  ReplicaSet = None
INVARIANTS
  NoSpuriousError
