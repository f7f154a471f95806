------------------------------ MODULE MCManagers ------------------------------
(* The two managers called in any order, as SrvMng may and beyond: neither *)
(* knows of the other, so a step is a step of one of them.                 *)
EXTENDS UsrMng, GrpMng, TLC

CONSTANTS u1, u2, p1, p2, g1, g2

MCUserName == {u1, u2}
MCPassword == {p1, p2}
MCGroupName == {g1, g2}
MCWildBytes == {}
MCSymmetry == Permutations(MCUserName) \cup Permutations(MCGroupName)

MCManagersInit == UsrMngInit /\ GrpMngInit

MCManagersNext ==
  \/ UsrMngNext /\ UNCHANGED grpVars
  \/ GrpMngNext /\ UNCHANGED m_userMap

MCManagersSpec == MCManagersInit /\ [][MCManagersNext]_<<m_userMap, grpVars>>
===============================================================================
