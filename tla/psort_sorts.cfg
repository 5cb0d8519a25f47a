SPECIFICATION FairSpec
CONSTANTS
  NODES_WORKER = 2
  Number = {0, 1, 2}
  Length = {0, 2, 4, 6}
  INT_MAX = 2
INVARIANTS SortsFile WorkersAgree
PROPERTIES PartsStay Completes
