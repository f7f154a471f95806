SPECIFICATION WireSpec
CONSTANTS
  Name <- MCName
  Ip <- MCIp
  Names <- MCNames
  BufferSize = 132
  MemorySize = 130
  Leftover <- MCLeftover
  MaxSent = 2
INVARIANTS FrontIsUnpacked ShortListIsUnpacked
CHECK_DEADLOCK FALSE
