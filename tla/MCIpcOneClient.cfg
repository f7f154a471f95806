SPECIFICATION FairIpcSpec
CONSTANTS
  c1 = c1
  c2 = c2
  u1 = u1
  p1 = p1
  p2 = p2
  g1 = g1
  Client <- MCOneClient
  UserName <- MCUserName
  Password <- MCPassword
  GroupName <- MCGroupName
  QUEUE_SIZE = 1
  NotFound = NotFound
  NULL = NULL
  AllocMayFail = FALSE
  WildBytes <- MCWildBytes
  MaxInFlight = 3
  MaxName = 29
  SendMayFail = TRUE
INVARIANT IpcTypeOK
PROPERTY AnsweredIfNoJunk
CHECK_DEADLOCK FALSE
