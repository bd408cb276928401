SPECIFICATION Spec
CONSTANTS
  a = a
  b = b
  c = c
  d = d
  Addresses = {a, b, c, d}
  Slots = {s1, s2, s3}
  NoServer = NoServer
  None = None
  Replies <- FailoverOrMixed
  HostLists = {{a}, {c, d}}
  InitialType = "Unknown"
  ReplicaSet = None
SYMMETRY SlotSymmetry
CHECK_DEADLOCK FALSE
INVARIANTS
  TypeOK
  OnePrimary
  MapConsistent
  MembersVetted
PROPERTIES
  ElectionMonotone
  DemotedByLater
  IdentityFixed
