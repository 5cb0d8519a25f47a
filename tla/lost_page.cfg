SPECIFICATION Spec
CONSTANTS
  Node = {0, 1, 2}
  Loader = {1, 2}
  Storer = {1, 2}
  Call = {c1, c2, c3, c4}
  Data = {0, 1}
  ZeroPage = 0
  Empty = Empty
  NoOne = NoOne
  CallsMayFail = TRUE
  MaxOrphans = 1
SYMMETRY CallSymmetry
INVARIANT EmptyAnswerMeansCopy
CHECK_DEADLOCK FALSE
