SPECIFICATION Spec
CONSTANTS
  Main = Main A = A B = B
  Chan = Chan p = p q = q r = r
  Ctx = {Main, A, B}
  Block = {Chan, p, q, r}
  Capacity = 1
  Drains = TRUE
  MaxMade = 4
  MaxRefs = 2
SYMMETRY Interchangeable
INVARIANTS OwnArenaUnlessReused ReachableIsLinked CountsExact OneList
