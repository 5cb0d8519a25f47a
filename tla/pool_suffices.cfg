SPECIFICATION ClusterSpec
CONSTANTS
  Node = {0, 1, 2}
  Loader = {0}
  Storer = {1, 2}
  Call = {c1, c2, c3, c4}
  Data = {0}
  ZeroPage = 0
  Empty = Empty
  NoOne = NoOne
  CallsMayFail = TRUE
  MaxOrphans = 1
  PoolSize = 4
  OnlyRefused = FALSE
SYMMETRY CallSymmetry
INVARIANT NestedCallsHaveThreads
CHECK_DEADLOCK FALSE
