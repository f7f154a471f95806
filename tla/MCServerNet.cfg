SPECIFICATION FairServerNetSpec
CONSTANTS
  OPEN_MAX = 8
  WordBits = 6
  BACKLOG = 1
  AllocMayFail = FALSE
INVARIANTS ServerNetTypeOK BooksAreRight RecvNeverBlocks NothingLeftOpen
PROPERTY FirstWordServed
CHECK_DEADLOCK FALSE
