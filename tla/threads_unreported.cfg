SPECIFICATION FairSpec
CONSTANTS
  Main = Main  A = A  B = B  C = C  Thread = {Main, A, B, C}
  Inner = Inner  Outer = Outer  Nursery = {Inner, Outer}
  x = x  y = y  Channel = {x, y}
  Capacity <- Caps
  Setups <- OneFinished
  NoThread = NoThread  NoNursery = NoNursery
PROPERTIES EndsOrReported
