SPECIFICATION ServerNetSpec
CONSTANTS
  OPEN_MAX = 7
  WordBits = 6
  BACKLOG = 1
  AllocMayFail = FALSE
PROPERTY TimeoutIfNotInUseAlways
CHECK_DEADLOCK FALSE
