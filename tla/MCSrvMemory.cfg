SPECIFICATION MemSpec
CONSTANTS
  u1 = u1
  u2 = u2
  p1 = p1
  g1 = g1
  g2 = g2
  b1 = b1
  b2 = b2
  b3 = b3
  b4 = b4
  b5 = b5
  b6 = b6
  UserName <- MCUserName
  Password <- MCPassword
  GroupName <- MCGroupName
  Block <- MCBlock
  Free = Free
  QUEUE_SIZE = 2
  NotFound = NotFound
  NULL = NULL
  AllocMayFail = FALSE
  WildBytes <- MCWildBytes
SYMMETRY MCSymmetry
INVARIANTS MemTypeOK KeysAreOwned
PROPERTY ImplementsNames
CHECK_DEADLOCK FALSE
