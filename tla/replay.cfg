SPECIFICATION FairSpec
CONSTANTS
  Nil = Nil
  Value = {Nil, v1}
  Programs <- AllPrograms
  Length = 3
  MaxSteps = 8
  MaxPrints = 2
INVARIANTS Lockstep CapturedIsReproduced
PROPERTY ReplayEnds
CHECK_DEADLOCK FALSE
