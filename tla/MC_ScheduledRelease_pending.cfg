SPECIFICATION Spec
CONSTANTS
  Deliveries = {d1}
  Jobs = {j1}
  Limit = 1
  PoliciesBind = FALSE
  MaxTime = 0
  MaxEdits = 0
  MaxDeletes = 0
PROPERTY
  ReadyIsPending
CHECK_DEADLOCK FALSE
