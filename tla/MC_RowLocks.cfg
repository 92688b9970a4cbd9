SPECIFICATION LockSpec
CONSTANTS
  Deliveries = {d1}
  Couriers = {c1, c2}
  Branches = {}
  None = None
  Sessions = {s1, s2}
  Targets = {"accepted", "cancelled"}
  Interval = 1
  MaxTime = 1
INVARIANTS
  CopyIsCurrent
  Throttled
PROPERTIES
  CallsAreAtomic
  EveryCallEnds
CHECK_DEADLOCK FALSE
