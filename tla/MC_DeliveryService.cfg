SPECIFICATION Spec
CONSTANTS
  Deliveries = {d1, d2}
  Couriers = {c1, c2}
  Branches = {b1, b2}
  None = None
SYMMETRY Symmetry
INVARIANTS
  TimelineTellsStatus
  OneOutcomeNotice
  OfferedToItsCourier
  SameBranch
PROPERTIES
  TerminalIsFinal
  ImplementsLifecycle
CHECK_DEADLOCK FALSE
