SPECIFICATION Spec
CONSTANTS
  Main = Main  A = A  B = B  C = C  Fiber = {Main, A, B, C}
  Worker0 = w0  Worker = {w0, w1}  Started = {w0, w1}
  Inner = Inner  Outer = Outer  Nursery = {Inner, Outer}
  x = x  y = y  Channel = {x, y}
  Capacity <- Cap1
  Code <- Passing
  NoFiber = NoFiber  NoNursery = NoNursery
INVARIANTS FreedAfterUse
