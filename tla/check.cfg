SPECIFICATION FairSpec
CONSTANTS
  Programs <- MCPrograms
  Number <- MCNumber
  MaxLen = 2
  Trials = 2
  MaxRejects = 1
  MaxPasses = 3
INVARIANTS CounterexampleFails DetailIsItsOwn CounterexampleIsMinimal OkMeansNoFailure
PROPERTIES CheckEnds
CHECK_DEADLOCK FALSE
