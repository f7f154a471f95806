SPECIFICATION IpcSpec
CONSTANTS
  c1 = c1
  c2 = c2
  u1 = u1
  p1 = p1
  p2 = p2
  g1 = g1
  Client <- MCClient
  UserName <- MCUserName
  Password <- MCPassword
  GroupName <- MCGroupName
  QUEUE_SIZE = 1
  NotFound = NotFound
  NULL = NULL
  AllocMayFail = FALSE
  WildBytes <- MCNoWildBytes
  MaxInFlight = 2
  MaxName = 29
  SendMayFail = TRUE
SYMMETRY MCSymmetry
INVARIANTS CleanExitsKeepServerUp OwnAnswer
PROPERTY NoPageWithoutPasswordAlways
CHECK_DEADLOCK FALSE
