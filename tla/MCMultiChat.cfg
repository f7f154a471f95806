SPECIFICATION ChatSpec
CONSTANTS
  caller1 = caller1
  caller2 = caller2
  file1 = file1
  file2 = file2
  pid1 = pid1
  pid2 = pid2
  pid3 = pid3
  Caller <- MCCaller
  File <- MCFile
  PortArgument <- MCPortArgument
  Pid <- MCPid
  MaxProcesses = 3
  NoFile = NoFile
SYMMETRY MCSymmetry
INVARIANT ChatTypeOK
PROPERTIES KillsOwnOrReusedAlways EndsWhatItCanAlways LostByCreateOnlyAlways
CHECK_DEADLOCK FALSE
