SPECIFICATION FairSpec
CONSTANTS
  WorkerCount = 2
  ITERATIONS = 50
INVARIANTS NoLostCount StopsInTime
PROPERTIES TakesTurns Completes
