---------------------------- MODULE UsrMngProofs ----------------------------
(* Proofs about the user manager, for any users, passwords and groups.     *)
EXTENDS UsrMng, TLAPS

(***************************************************************************)
(* What every step of the manager leaves alone: the map stays a map of     *)
(* well-formed entries and every account stays the same account.  The      *)
(* server manager's proofs use it for each of its own calls.               *)
(***************************************************************************)
UserStepOK == UsrMngTypeOK' /\ AccountsAreKept

(* The operations on one record give a record with the same password.      *)
LEMMA UserRecords ==
  ASSUME NEW user \in User
  PROVE  /\ user # NULL
         /\ ActivateUser(user) \in User
         /\ ActivateUser(user).m_password = user.m_password
         /\ DeactivateUser(user) \in User
         /\ DeactivateUser(user).m_password = user.m_password
         /\ \A v \in RemoveAllGroups(user) :
              v \in User /\ v.m_password = user.m_password
<1>1. user # NULL
  BY UserAssumption
<1>2. ActivateUser(user) \in User /\ ActivateUser(user).m_password = user.m_password
  BY DEF User, ActivateUser
<1>3. DeactivateUser(user) \in User /\ DeactivateUser(user).m_password = user.m_password
  BY <1>1 DEF User, DeactivateUser
<1>4. ASSUME NEW v \in RemoveAllGroups(user)
      PROVE  v \in User /\ v.m_password = user.m_password
  <2>1. PICK g \in {{}, NULL} : v = [user EXCEPT !.m_groups = g]
    BY <1>1, <1>4 DEF RemoveAllGroups, IfAllocFails
  <2>. QED BY <2>1 DEF User
<1>. QED BY <1>1, <1>2, <1>3, <1>4

(* Storing an acceptable entry under one name is an acceptable step.       *)
LEMMA StoreUser ==
  ASSUME UsrMngTypeOK,
         NEW u \in UserName,
         NEW entry \in User \cup {NotFound, NULL},
         m_userMap' = [m_userMap EXCEPT ![u] = entry],
         \/ ~Registered(u) /\ entry # NotFound
         \/ m_userMap[u] = NULL /\ entry = NULL
         \/ /\ m_userMap[u] \in User /\ entry \in User
            /\ entry.m_password = m_userMap[u].m_password
  PROVE  UserStepOK
<1>1. UsrMngTypeOK'
  BY DEF UsrMngTypeOK
<1>2. ASSUME NEW v \in UserName, Registered(v)
      PROVE  /\ m_userMap'[v] # NotFound
             /\ (m_userMap[v] = NULL) <=> (m_userMap'[v] = NULL)
             /\ m_userMap[v] # NULL => m_userMap'[v].m_password = m_userMap[v].m_password
  <2>1. CASE v # u
    BY <2>1, <1>2 DEF UsrMngTypeOK, Registered
  <2>2. CASE v = u
    BY <2>2, <1>2, UserAssumption, DataAssumption DEF UsrMngTypeOK, Registered
  <2>. QED BY <2>1, <2>2
<1>. QED BY <1>1, <1>2 DEF UserStepOK, AccountsAreKept

LEMMA KeepUsers ==
  ASSUME UsrMngTypeOK, UNCHANGED m_userMap
  PROVE  UserStepOK
BY DEF UserStepOK, UsrMngTypeOK, AccountsAreKept, Registered

LEMMA RegisterStep ==
  ASSUME UsrMngTypeOK, NEW u \in UserName, NEW p \in Password, NEW res,
         RegisterNewUser(u, p, res)
  PROVE  UserStepOK
<1>1. CASE UNCHANGED m_userMap
  BY <1>1, KeepUsers
<1>2. ASSUME ~Registered(u),
             NEW user \in {UserCreate(p)} \cup IfAllocFails({NULL}),
             m_userMap' = [m_userMap EXCEPT ![u] = user]
      PROVE  UserStepOK
  <2>1. UserCreate(p) \in User
    BY DEF UserCreate, User
  <2>2. user \in User \cup {NULL}
    BY <2>1, <1>2 DEF IfAllocFails
  <2>3. user # NotFound
    BY <2>2, UserAssumption, DataAssumption
  <2>. QED BY <1>2, <2>2, <2>3, StoreUser
<1>. QED BY <1>1, <1>2 DEF RegisterNewUser

LEMMA LogInStep ==
  ASSUME UsrMngTypeOK, NEW u \in UserName, NEW p \in Password, NEW res,
         LogInUser(u, p, res)
  PROVE  UserStepOK
<1>1. CASE UNCHANGED m_userMap
  BY <1>1, KeepUsers
<1>2. CASE /\ m_userMap[u] \notin {NotFound, NULL}
           /\ m_userMap' = [m_userMap EXCEPT ![u] = ActivateUser(@)]
  <2>1. m_userMap[u] \in User
    BY <1>2 DEF UsrMngTypeOK
  <2>. QED BY <1>2, <2>1, UserRecords, StoreUser
<1>. QED BY <1>1, <1>2 DEF LogInUser

LEMMA LogOutStep ==
  ASSUME UsrMngTypeOK, NEW u \in UserName, NEW res, LogOutUser(u, res)
  PROVE  UserStepOK
<1>1. CASE UNCHANGED m_userMap
  BY <1>1, KeepUsers
<1>2. CASE Registered(u) /\ m_userMap' = [m_userMap EXCEPT ![u] = DeactivateUser(@)]
  <2>1. CASE m_userMap[u] = NULL
    BY <1>2, <2>1, StoreUser DEF DeactivateUser
  <2>2. CASE m_userMap[u] \in User
    BY <1>2, <2>2, UserRecords, StoreUser
  <2>. QED BY <1>2, <2>1, <2>2 DEF UsrMngTypeOK, Registered
<1>. QED BY <1>1, <1>2 DEF LogOutUser

LEMMA RemoveAllGroupsStep ==
  ASSUME UsrMngTypeOK, NEW u \in UserName, NEW res, RemoveAllGroupsFromUser(u, res)
  PROVE  UserStepOK
<1>1. CASE UNCHANGED m_userMap
  BY <1>1, KeepUsers
<1>2. ASSUME Registered(u),
             NEW user \in RemoveAllGroups(m_userMap[u]),
             m_userMap' = [m_userMap EXCEPT ![u] = user]
      PROVE  UserStepOK
  <2>1. CASE m_userMap[u] = NULL
    BY <1>2, <2>1, StoreUser DEF RemoveAllGroups
  <2>2. CASE m_userMap[u] \in User
    BY <1>2, <2>2, UserRecords, StoreUser
  <2>. QED BY <1>2, <2>1, <2>2 DEF UsrMngTypeOK, Registered
<1>. QED BY <1>1, <1>2 DEF RemoveAllGroupsFromUser

LEMMA GroupListStep ==
  ASSUME UsrMngTypeOK, NEW u \in UserName, NEW g \in GroupName, NEW res,
         AddGroupToUser(g, u, res) \/ RemoveGroupFromUser(g, u, res)
  PROVE  UserStepOK
<1>1. CASE UNCHANGED m_userMap
  BY <1>1, KeepUsers
<1>2. ASSUME m_userMap[u] \notin {NotFound, NULL},
             m_userMap[u].m_groups # NULL,
             NEW G \in {m_userMap[u].m_groups \cup {g}, m_userMap[u].m_groups \ {g}},
             m_userMap' = [m_userMap EXCEPT ![u].m_groups = G]
      PROVE  UserStepOK
  <2>1. m_userMap[u] \in User
    BY <1>2 DEF UsrMngTypeOK
  <2>2. G \in SUBSET GroupName
    BY <2>1, <1>2 DEF User
  <2>3. [m_userMap[u] EXCEPT !.m_groups = G] \in User
    BY <2>1, <2>2 DEF User
  <2>4. [m_userMap[u] EXCEPT !.m_groups = G].m_password = m_userMap[u].m_password
    BY <2>1 DEF User
  <2>. QED BY <1>2, <2>1, <2>3, <2>4, StoreUser
<1>. QED BY <1>1, <1>2 DEF AddGroupToUser, RemoveGroupFromUser

LEMMA UsrMngStep ==
  ASSUME UsrMngTypeOK, UsrMngNext
  PROVE  UserStepOK
<1>1. PICK u \in UserName, res \in UserMngResult :
        \/ \E p \in Password : RegisterNewUser(u, p, res) \/ LogInUser(u, p, res)
        \/ \E g \in GroupName : AddGroupToUser(g, u, res) \/ RemoveGroupFromUser(g, u, res)
        \/ LogOutUser(u, res)
        \/ RemoveAllGroupsFromUser(u, res)
  BY DEF UsrMngNext
<1>2. CASE \E p \in Password : RegisterNewUser(u, p, res) \/ LogInUser(u, p, res)
  BY <1>2, RegisterStep, LogInStep
<1>3. CASE \E g \in GroupName : AddGroupToUser(g, u, res) \/ RemoveGroupFromUser(g, u, res)
  BY <1>3, GroupListStep
<1>4. CASE LogOutUser(u, res)
  BY <1>4, LogOutStep
<1>5. CASE RemoveAllGroupsFromUser(u, res)
  BY <1>5, RemoveAllGroupsStep
<1>. QED BY <1>1, <1>2, <1>3, <1>4, <1>5

LEMMA UsrMngStart == UsrMngInit => UsrMngTypeOK
BY DEF UsrMngInit, UsrMngTypeOK

-----------------------------------------------------------------------------
(* The user map always holds complete user records, absent keys, or the    *)
(* NULL of a failed UserCreate (usr_mng.c, user.c).                        *)
THEOREM UsrMngTypeCorrect == UsrMngSpec => []UsrMngTypeOK
<1>1. UsrMngTypeOK /\ [UsrMngNext]_m_userMap => UsrMngTypeOK'
  BY UsrMngStep, KeepUsers DEF UserStepOK
<1>. QED BY UsrMngStart, <1>1, PTL DEF UsrMngSpec

(* A registered name keeps its account and its password through any        *)
(* sequence of calls (usr_mng.c).                                          *)
THEOREM AccountsKept == UsrMngSpec => AccountsAreKeptAlways
<1>1. UsrMngTypeOK /\ [UsrMngNext]_m_userMap => [AccountsAreKept]_m_userMap
  BY UsrMngStep DEF UserStepOK
<1>. QED BY UsrMngTypeCorrect, <1>1, PTL DEF UsrMngSpec, AccountsAreKeptAlways
=============================================================================
