\* One user, two requests that change it, two requests for decisions; any two of
\* the four at a time.
SPECIFICATION Spec
CONSTANTS
  u1 = u1
  h1 = h1
  h2 = h2
  r1 = r1
  b1 = b1
  i1 = i1
  i2 = i2
  i3 = i3
  User <- MCUser
  Handler <- MCHandler
  Wanted <- MCWanted
  FailsAgain = FALSE
  MaxServed = 2
  Request <- MCRequest
  Batch <- MCBatch
  Item <- MCItem
  Asked <- MCAsked
  NoUser = none
  BatchSize = 2
  Faults = {"casbin", "database", "restart"}
SYMMETRY UserAccessSymmetry
INVARIANTS
  TypeOK
  QuietCacheAgrees
  OwedIsTorn
  FewLeftUnanswered
  OneUpdatePerUser
  RolesAgree
  DeletedIsPowerless
PROPERTIES
  ImplementsEnforcerCache
CHECK_DEADLOCK FALSE
