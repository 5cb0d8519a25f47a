SPECIFICATION Spec
CONSTANTS
  Node = {0, 1, 2, 3}
  Loader = {1, 2, 3}
  Storer = {1, 2, 3}
  Call = {c1, c2, c3, c4}
  Data = {0, 1}
  ZeroPage = 0
  Empty = Empty
  NoOne = NoOne
  CallsMayFail = FALSE
  MaxOrphans = 0
SYMMETRY CallSymmetry
INVARIANTS CohInv ReadersXorWriter LoadsLatest CopiesKnown GrantIsExclusive EmptyAnswerMeansCopy
PROPERTY IsCoherent
CHECK_DEADLOCK FALSE
