SPECIFICATION Spec
CONSTANTS
  Node = {0, 1, 2}
  Loader = {0, 1, 2}
  Storer = {0, 1, 2}
  Call = {c1, c2, c3}
  Data = {0, 1}
  ZeroPage = 0
  Empty = Empty
  NoOne = NoOne
  CallsMayFail = FALSE
  MaxOrphans = 0
INVARIANT SingleWriter
CHECK_DEADLOCK FALSE
