SPECIFICATION Spec
CONSTANTS
  Branches = {b1, b2}
  Workers = {w1, w2}
PROPERTY
  DefaultStaysActive
CHECK_DEADLOCK FALSE
