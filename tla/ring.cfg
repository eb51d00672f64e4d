SPECIFICATION Spec
CONSTANTS
  Msg = {v1, v2}
  Requested = 3
  MaxOwners = 2
INVARIANTS TypeOK
PROPERTIES IsQueue
CHECK_DEADLOCK FALSE
