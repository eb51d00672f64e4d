SPECIFICATION Spec
CONSTANTS
  Binding = {b1}
  MaxText = 8
CHECK_DEADLOCK FALSE
INVARIANT NeverCrashesUnassigned
