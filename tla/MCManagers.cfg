SPECIFICATION MCManagersSpec
CONSTANTS
  u1 = u1
  u2 = u2
  p1 = p1
  p2 = p2
  g1 = g1
  g2 = g2
  UserName <- MCUserName
  Password <- MCPassword
  GroupName <- MCGroupName
  QUEUE_SIZE = 3
  NotFound = NotFound
  NULL = NULL
  AllocMayFail = TRUE
  WildBytes <- MCWildBytes
SYMMETRY MCSymmetry
INVARIANTS UsrMngTypeOK GrpMngTypeOK Capacity
PROPERTIES AccountsAreKeptAlways AddressIsKeptAlways
