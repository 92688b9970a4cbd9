SPECIFICATION Spec
CONSTANTS
  Notices = {n1, n2}
  External = {n2}
  Workers = {w1, w2}
  MaxRetries = 1
  PoliciesBind = FALSE
  Conditions <- Mixed
INVARIANTS
  NoTaskBeforeCommit
  AttemptsNumbered
  SentIsRecorded
PROPERTIES
  SentIsFinal
  CommittedIsSent
CHECK_DEADLOCK FALSE
