SPECIFICATION FairSpec
CONSTANTS
  Programs <- MCPrograms
  Number <- MCNumber
  MaxLen = 2
  Trials = 2
  MaxRejects = 1
  MaxPasses = 3
INVARIANTS CalleeFailureIsReported
CHECK_DEADLOCK FALSE
