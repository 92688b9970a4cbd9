SPECIFICATION Spec
CONSTANTS
  Customers = {1, 2}
  Orders = {o1, o2}
  Phones = {"p1"}
  Addresses = {}
  None = None
  NotPlaced = NotPlaced
  Workers = {w1, w2}
  Kinds = {"order"}
  MaxEdits = 0
  MaxDeletes = 0
INVARIANT
  SingleProfile
CHECK_DEADLOCK FALSE
