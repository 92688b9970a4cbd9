SPECIFICATION ApiSpec
CONSTANTS
  Deliveries = {d1}
  Couriers = {c1, c2}
  Branches = {b1}
  None = None
  Workers = {w1}
  Loads <- StatusOnly
  Editable = {}
  MaxEdits = 0
PROPERTY
  StatusLocked
CHECK_DEADLOCK FALSE
