SPECIFICATION FairSpec
CONSTANTS
  NODES_WORKER = 2
  Number = {1, 3}
  Length = {0, 4, 8}
  INT_MAX = 3
  Word = 16
INVARIANT PrintsProduct
PROPERTIES InputStays ResultsStay Completes
