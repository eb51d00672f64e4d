SPECIFICATION FairSpec
CONSTANTS
  Main = Main  A = A  B = B  C = C  Fiber = {Main, A, B, C}
  Worker0 = w0  Worker = {w0, w1, w2}  Started = {w0, w1, w2}
  Inner = Inner  Outer = Outer  Nursery = {Inner, Outer}
  x = x  y = y  Channel = {x, y}
  Capacity <- Cap1
  Code <- Failing
  NoFiber = NoFiber  NoNursery = NoNursery
INVARIANTS OneInterpreter EnqueuedOnce LiveCounts FreedAfterFinish
PROPERTIES CancelledGroupUnwinds FailureEndsRun
