SPECIFICATION Spec
CONSTANTS
  Main = Main  A = A  B = B  C = C  Thread = {Main, A, B, C}
  Inner = Inner  Outer = Outer  Nursery = {Inner, Outer}
  x = x  y = y  Channel = {x, y}
  Capacity <- Caps
  Setups <- ReturnInBody
  NoThread = NoThread  NoNursery = NoNursery
INVARIANTS TasksEndFirst
