SPECIFICATION Spec
CONSTANTS
  Binding = {b1}
  MaxText = 7
CHECK_DEADLOCK FALSE
INVARIANTS UseLive NothingLeaks OwnedOnce
