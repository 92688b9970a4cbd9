SPECIFICATION JobsSpec
CONSTANTS
  Deliveries = {d1, d2}
  Jobs = {j1, j2}
  Limit = 1
  PoliciesBind = FALSE
  MaxTime = 1
  MaxEdits = 1
  MaxDeletes = 1
  MaxDisturbances = 2
  Tokens = {1, 2, 3}
  Supports = {s1}
  Workers = {w1, w2}
  Refresh = 1
  Retention = 1
  SessionTime = 3
INVARIANTS
  ReadyOnce
  ReleasedIsAnnounced
  ReplayRefused
PROPERTIES
  DueIsReleased
  ExpiredIsClosed
CHECK_DEADLOCK FALSE
