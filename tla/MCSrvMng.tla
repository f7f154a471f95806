------------------------------ MODULE MCSrvMng ------------------------------
(***************************************************************************)
(* Model values for SrvMng.  Two users, one of whose requests may have     *)
(* been left in memory, two passwords, so that a wrong one can be typed,   *)
(* and as many groups as it takes to run out of addresses.                 *)
(***************************************************************************)
EXTENDS SrvMng, TLC

CONSTANTS u1, u2, p1, p2, g1, g2

MCUserName == {u1, u2}
MCPassword == {p1, p2}
MCGroupName == {g1, g2}
MCWildBytes ==
  {[m_tag |-> "GROUP_CREATE_REQUEST", m_username |-> u1, m_groupName |-> g1],
   [m_tag |-> "LOGOUT_REQUEST", m_username |-> u1]}
MCSymmetry == Permutations(MCPassword)
=============================================================================
