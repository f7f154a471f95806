---------------------------- MODULE MCSrvMemory ----------------------------
(* Model values for SrvMemory: the blocks are interchangeable.             *)
EXTENDS SrvMemory, TLC

CONSTANTS u1, u2, p1, g1, g2, b1, b2, b3, b4, b5, b6

MCUserName == {u1, u2}
MCPassword == {p1}
MCGroupName == {g1, g2}
MCWildBytes == {}
MCBlock == {b1, b2, b3, b4, b5, b6}
MCSymmetry == Permutations(MCBlock)
=============================================================================
