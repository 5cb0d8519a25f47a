SPECIFICATION Spec
CONSTANTS
  Node = {0, 1, 2}
  Loader = {0}
  Storer = {0, 1, 2}
  Call = {c1, c2, c3}
  Data = {0}
  ZeroPage = 0
  Empty = Empty
  NoOne = NoOne
  CallsMayFail = TRUE
  MaxOrphans = 1
SYMMETRY CallSymmetry
INVARIANTS TypeOK SingleWorkerWriter IInv
CHECK_DEADLOCK FALSE
