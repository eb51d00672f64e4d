SPECIFICATION FairSpec
CONSTANTS
  Main = Main  A = A  B = B  C = C  Thread = {Main, A, B, C}
  Inner = Inner  Outer = Outer  Nursery = {Inner, Outer}
  x = x  y = y  Channel = {x, y}
  Capacity <- Caps
  Setups <- Sound
  NoThread = NoThread  NoNursery = NoNursery
INVARIANTS WakeupsSuffice VerdictIsReal
PROPERTIES ChannelsAreQueues EndsOrReported
