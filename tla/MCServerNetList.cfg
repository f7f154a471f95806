SPECIFICATION ServerNetSpec
CONSTANTS
  OPEN_MAX = 7
  WordBits = 6
  BACKLOG = 1
  AllocMayFail = TRUE
INVARIANT ErasedFromList
CHECK_DEADLOCK FALSE
