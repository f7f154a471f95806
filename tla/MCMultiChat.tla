----------------------------- MODULE MCMultiChat -----------------------------
(* Model values for MultiChat: callers, files and pids are each            *)
(* interchangeable.                                                        *)
EXTENDS MultiChat, TLC

CONSTANTS caller1, caller2, file1, file2, pid1, pid2, pid3

MCCaller == {caller1, caller2}
MCFile == {file1, file2}
MCPid == {pid1, pid2, pid3}
MCPortArgument == {2021, 2025}
MCSymmetry ==
  Permutations(MCCaller) \cup Permutations(MCFile) \cup Permutations(MCPid)
==============================================================================
