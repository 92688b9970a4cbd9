SPECIFICATION Spec
CONSTANTS
  Uploads = {u1}
  Workers = {w1}
INVARIANT
  CompletionRecorded
CHECK_DEADLOCK FALSE
