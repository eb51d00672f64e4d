SPECIFICATION FairSpec
CONSTANTS
  Nil = Nil
  Value = {Nil, v1}
  Programs <- AllPrograms
  Length = 3
  MaxSteps = 8
  MaxPrints = 2
INVARIANTS FailureIsReproduced
CHECK_DEADLOCK FALSE
