SPECIFICATION Spec
CONSTANTS
  Notices = {n1}
  External = {n1}
  Workers = {w1}
  MaxRetries = 1
  PoliciesBind = FALSE
  Conditions <- Quiet
INVARIANT
  AttemptsLogged
CHECK_DEADLOCK FALSE
