----------------------------- MODULE MCIpcSystem -----------------------------
(* Model values for IpcSystem: two clients and two passwords, so that a    *)
(* wrong one can be typed, each interchangeable.                           *)
EXTENDS IpcSystem, TLC

CONSTANTS c1, c2, u1, p1, p2, g1

MCClient == {c1, c2}
MCOneClient == {c1}
MCUserName == {u1}
MCPassword == {p1, p2}
MCGroupName == {g1}
MCNoWildBytes == {}
MCWildBytes == {[m_tag |-> "LOGOUT_REQUEST", m_username |-> u1]}
MCSymmetry == Permutations(MCClient) \cup Permutations(MCPassword)
=============================================================================
