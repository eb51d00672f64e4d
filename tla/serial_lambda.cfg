SPECIFICATION Spec
CONSTANTS
  Main = Main A = A B = B C = C D = D
  x = x y = y
  Outer = Outer Inner = Inner Other = Other
  NoNursery = NoNursery
  Task = {Main, A, B, C, D}
  Nursery = {Outer, Inner, Other}
  Channel = {x, y}
  Capacity <- Caps
  MaxTasks = 3
  MaxDepth = 3
  Programs <- Lambda
INVARIANT TasksEndFirst
