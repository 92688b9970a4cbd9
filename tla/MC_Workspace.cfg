SPECIFICATION WorkspaceSpec
CONSTANTS
  Customers = {1, 2}
  Orders = {o1}
  Phones = {"p1"}
  Addresses = {"a1"}
  None = None
  NotPlaced = NotPlaced
  Workers = {w1, w2}
  Kinds = {"order", "create", "graphql", "edit"}
  MaxEdits = 1
  MaxDeletes = 1
  Branches = {b1, b2, b3}
  Names = {n1, n2}
  Orgs = {g1, g2}
  Members = {u1, u2}
  Messages = {1, 2}
  PageSize = 1
  MaxFailures = 2
  Lockout = 1
  MaxUpdates = 3
  MaxPageDeletes = 1
  MaxMessageEdits = 1
  MaxCrashes = 1
  MaxDepth = 3
  MaxTime = 2
  MaxLogins = 5
  MaxChanges = 2
  MaxStaffEdits = 2
  MaxSignupCrashes = 1
  MaxKeyEdits = 2
SYMMETRY Symmetry
INVARIANTS
  SeenIsReused
  AddressOnce
  OneDefault
  AreasOfOneUpdate
  
  
  IdleIsClean
  MemberKeepsOrg
  FailuresLock
  EnabledIsConfirmed
  PasswordStands
  StaffedUnlessAbandoned
  RevokedIsRefused
PROPERTIES
  LockEndsByTime
  SuspensionStands
CHECK_DEADLOCK FALSE
