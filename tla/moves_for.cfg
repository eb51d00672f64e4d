SPECIFICATION Spec
CONSTANTS
  Binding = {b1}
  MaxText = 6
CHECK_DEADLOCK FALSE
INVARIANT NeverCrashes
