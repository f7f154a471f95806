SPECIFICATION WireSpec
CONSTANTS
  Name <- MCName
  Ip <- MCIp
  Names <- MCNames
  BufferSize = 132
  MemorySize = 130
  Leftover <- MCLeftover
  MaxSent = 1
INVARIANT LayoutAsCommented
CHECK_DEADLOCK FALSE
