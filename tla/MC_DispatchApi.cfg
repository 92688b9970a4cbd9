SPECIFICATION ApiSpec
CONSTANTS
  Deliveries = {d1}
  Couriers = {c1, c2}
  Branches = {b1, b2}
  None = None
  Workers = {w1, w2}
  Loads <- EditsAndActions
  Editable = {}
  MaxEdits = 2
SYMMETRY Symmetry
INVARIANTS
  StampsTellStatus
  TimelineCoversRow
  CourierExistsInBranch
PROPERTIES
  OwnTransitionByHolder
  StatusLockHeld
CHECK_DEADLOCK FALSE
