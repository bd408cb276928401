SPECIFICATION MCSpec
CONSTANTS
  Foci = {"buffer"}
  Threads = {t1}
  M = 4
  Word = 8
  IdBound = 13
  Keys = {1, 2}
  UseRegex = TRUE
  Values <- MCValues
  BufferBound = 15
  Scalars <- MCScalars
  Specials = {"oid"}
  Documents <- MCEmbedded
  Requests = {"any"}
  ValueBound = 4
  DepthBound = 3
CHECK_DEADLOCK FALSE
INVARIANTS
  SizesAgree
