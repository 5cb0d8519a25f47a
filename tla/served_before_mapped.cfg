SPECIFICATION ClusterSpec
CONSTANTS
  Node = {0, 1}
  Loader = {1}
  Storer = {1}
  Call = {c1, c2}
  Data = {0}
  ZeroPage = 0
  Empty = Empty
  NoOne = NoOne
  CallsMayFail = TRUE
  MaxOrphans = 0
  PoolSize = 1
  OnlyRefused = TRUE
SYMMETRY CallSymmetry
INVARIANT FetchCanRead
CHECK_DEADLOCK FALSE
