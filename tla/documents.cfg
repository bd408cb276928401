SPECIFICATION MCSpec
CONSTANTS
  Foci = {"ids", "buffer", "codec"}
  Threads = {t1, t2, t3}
  M = 4
  Word = 8
  IdBound = 13
  Keys = {1, 2}
  UseRegex = FALSE
  Values <- MCValues
  BufferBound = 15
  Scalars <- MCScalars
  Specials = {"oid", "date", "regularExpression", "timestamp"}
  Documents <- MCEmbedded
  Requests = {"any", "ignored", "bytes", "tuple", "enum"}
  ValueBound = 4
  DepthBound = 3
CHECK_DEADLOCK FALSE
INVARIANTS
  DistinctInARow
  LengthIsExact
  FindAgrees
  
  
PROPERTIES
  ImplementsElements
