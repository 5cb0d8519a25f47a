SPECIFICATION FairClusterSpec
CONSTANTS
  Node = {0, 1, 2}
  Loader = {1}
  Storer = {2}
  Call = {c1, c2, c3}
  Data = {0}
  ZeroPage = 0
  Empty = Empty
  NoOne = NoOne
  CallsMayFail = TRUE
  MaxOrphans = 0
  PoolSize = 1
  OnlyRefused = TRUE
PROPERTIES ServedUnlessStuck ImplementsIvyPage
CHECK_DEADLOCK FALSE
