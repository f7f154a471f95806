---------------------------- MODULE SrvMngProofs ----------------------------
(***************************************************************************)
(* Proofs about the server manager, for any users, passwords and groups    *)
(* and any number of addresses.                                            *)
(***************************************************************************)
EXTENDS SrvMng, UsrMngProofs, GrpMngProofs

(* Only a failed allocation leaves a NULL in the user map.                 *)
NoNullUsers == ~AllocMayFail => \A u \in UserName : m_userMap[u] # NULL

(* The inductive invariant.  RepliesAreTrue is part of it because what a   *)
(* replayed request does depends on what its first execution left behind.  *)
SrvMngInv ==
  /\ SrvMngTypeOK
  /\ Capacity
  /\ NoNullUsers
  /\ AddressesApart
  /\ RepliesAreTrue

-----------------------------------------------------------------------------
(* The fields of a packet, by its tag.                                     *)
LEMMA PacketFields ==
  ASSUME NEW m \in Request \cup Wild
  PROVE  /\ m.m_tag \in {"REGISTER_REQUEST", "LOGIN_REQUEST"} =>
              m.m_username \in UserName /\ m.m_password \in Password
         /\ m.m_tag \in {"GROUP_CREATE_REQUEST", "GROUP_JOIN_REQUEST",
                         "GROUP_LEAVE_REQUEST"} =>
              m.m_username \in UserName /\ m.m_groupName \in GroupName
         /\ m.m_tag \in {"LOGOUT_REQUEST", "GROUP_ALL_AVAILABLE_REQUEST"} =>
              m.m_username \in UserName
         /\ m.m_tag \in DOMAIN ReplyTag \/ m.m_tag = "NO_CASE"
<1>1. m \in Request \/ m = Unhandled
  BY DataAssumption DEF Wild
<1>2. CASE m = Unhandled
  BY <1>2 DEF Unhandled
<1>3. CASE m \in RegisterOrLoginRequest
  BY <1>3 DEF RegisterOrLoginRequest, ReplyTag
<1>4. CASE m \in GrpReqStruct
  BY <1>4 DEF GrpReqStruct, ReplyTag
<1>5. CASE m \in LogOutOrSeeGroupsReq
  BY <1>5 DEF LogOutOrSeeGroupsReq, ReplyTag
<1>. QED BY <1>1, <1>2, <1>3, <1>4, <1>5 DEF Request

(* A step of the server executes one packet, which is then in the buffer.  *)
LEMMA ServerStep ==
  ASSUME SrvMngTypeOK, SrvMngNext
  PROVE  buffer' \in Request \cup Wild /\ GotMessage(buffer')
<1>1. CASE \E m \in Request \cup Wild : Received(m)
  BY <1>1 DEF Received
<1>2. CASE Replayed
  BY <1>2 DEF Replayed, SrvMngTypeOK
<1>. QED BY <1>1, <1>2 DEF SrvMngNext

-----------------------------------------------------------------------------
(* What a step does to the groups.                                         *)

Took == m_groupsID # <<>> /\ m_groupsID' = Tail(m_groupsID)

GroupEffect ==
  \/ UNCHANGED grpVars
  \/ Took /\ UNCHANGED m_groupMap
  \/ /\ Took
     /\ \E g \in GroupName \ Groups :
          m_groupMap' = [m_groupMap EXCEPT ![g] = GroupCreate(Head(m_groupsID))]
  \/ /\ UNCHANGED m_groupsID
     /\ \E g \in Groups, u \in UserName :
          m_groupMap' = [m_groupMap EXCEPT ![g] = AddUser(@, u)]
  \/ /\ UNCHANGED m_groupsID
     /\ \E g \in Groups, u \in UserName :
          m_groupMap' = [m_groupMap EXCEPT ![g] = RemoveUser(@, u)]
  \/ \E u \in UserName : RemoveUserFromAllGroups(u)

(* What the typing of the queue and AddressesApart say of its head.        *)
LEMMA HeadAndTail ==
  ASSUME GrpMngTypeOK, AddressesApart, m_groupsID # <<>>
  PROVE  /\ Head(m_groupsID) = m_groupsID[1]
         /\ Head(m_groupsID) \in Address
         /\ ReadIP(Head(m_groupsID)) = {Head(m_groupsID)}
         /\ 1 \in DOMAIN m_groupsID
         /\ \A i \in DOMAIN Tail(m_groupsID) :
              /\ i + 1 \in DOMAIN m_groupsID
              /\ i + 1 # 1
              /\ Tail(m_groupsID)[i] = m_groupsID[i + 1]
<1>1. /\ m_groupsID \in Seq(Address \cup {Stale})
      /\ Len(m_groupsID) \in Nat \ {0}
      /\ DOMAIN m_groupsID = 1 .. Len(m_groupsID)
  BY EmptySeq, LenProperties DEF GrpMngTypeOK
<1>2. Head(m_groupsID) = m_groupsID[1] /\ 1 \in DOMAIN m_groupsID
  BY <1>1
<1>3. Head(m_groupsID) \in Address
  BY <1>2 DEF AddressesApart
<1>4. ReadIP(Head(m_groupsID)) = {Head(m_groupsID)}
  BY <1>3, DataAssumption DEF ReadIP, Address, Stale
<1>5. /\ Tail(m_groupsID) \in Seq(Address \cup {Stale})
      /\ Len(Tail(m_groupsID)) = Len(m_groupsID) - 1
      /\ \A i \in 1 .. Len(Tail(m_groupsID)) : Tail(m_groupsID)[i] = m_groupsID[i + 1]
  BY <1>1, HeadTailProperties
<1>6. DOMAIN Tail(m_groupsID) = 1 .. Len(Tail(m_groupsID))
  BY <1>5, LenProperties
<1>. QED BY <1>1, <1>2, <1>3, <1>4, <1>5, <1>6

LEMMA GroupEffects ==
  ASSUME SrvMngInv, SrvMngNext
  PROVE  GroupEffect
<1>. DEFINE m == buffer'
<1>1. m \in Request \cup Wild /\ GotMessage(m)
  BY ServerStep DEF SrvMngInv
<1>. HIDE DEF m
<1>2. CASE UNCHANGED <<m_groupMap, m_groupsID>>
  BY <1>2 DEF GroupEffect, grpVars
<1>3. CASE m.m_tag = "LOGOUT_REQUEST" /\ GotLogout(m)
  BY <1>1, <1>3, PacketFields DEF GotLogout, GroupEffect
<1>4. CASE m.m_tag = "GROUP_CREATE_REQUEST" /\ GotCreate(m)
  <2>1. PICK res \in GroupMngResult, ip \in Address \cup {NoAddress} :
          AddNewGroup(m.m_groupName, res, ip)
    BY <1>4 DEF GotCreate
  <2>2. m.m_groupName \in GroupName
    BY <1>1, <1>4, PacketFields
  <2>3. m_groupsID # <<>> => ReadIP(Head(m_groupsID)) = {Head(m_groupsID)}
    BY HeadAndTail DEF SrvMngInv, SrvMngTypeOK
  <2>. QED BY <2>1, <2>2, <2>3 DEF AddNewGroup, GroupEffect, Took
<1>5. CASE m.m_tag = "GROUP_JOIN_REQUEST" /\ GotJoin(m)
  BY <1>1, <1>5, PacketFields DEF GotJoin, AddUserToGroup, GroupEffect, grpVars
<1>6. CASE m.m_tag = "GROUP_LEAVE_REQUEST" /\ GotLeave(m)
  BY <1>1, <1>6, PacketFields DEF GotLeave, RemoveUserFromGroup, GroupEffect, grpVars
<1>. QED BY <1>1, <1>2, <1>3, <1>4, <1>5, <1>6
     DEF GotMessage, GotRegister, GotLogin, GotSeeGroups, GetAllGroupNames, grpVars

-----------------------------------------------------------------------------
(* AddressesApart is kept by every effect a step can have on the groups.   *)

LEMMA ApartAfterTail ==
  ASSUME GrpMngTypeOK, AddressesApart, Took
  PROVE  /\ \A i, j \in DOMAIN m_groupsID' : m_groupsID'[i] = m_groupsID'[j] => i = j
         /\ \A i \in DOMAIN m_groupsID' :
              /\ m_groupsID'[i] \in Address
              /\ m_groupsID'[i] # Head(m_groupsID)
              /\ \A g \in Groups : m_groupMap[g].m_groupIP # m_groupsID'[i]
<1>1. m_groupsID # <<>> /\ m_groupsID' = Tail(m_groupsID)
  BY DEF Took
<1>2. /\ Head(m_groupsID) = m_groupsID[1]
      /\ 1 \in DOMAIN m_groupsID
      /\ \A i \in DOMAIN m_groupsID' :
           /\ i + 1 \in DOMAIN m_groupsID
           /\ i + 1 # 1
           /\ m_groupsID'[i] = m_groupsID[i + 1]
  BY <1>1, HeadAndTail
<1>3. DOMAIN m_groupsID' \subseteq Int
  <2>1. Tail(m_groupsID) \in Seq(Address \cup {Stale})
    BY <1>1, TakeAddress
  <2>. QED BY <1>1, <2>1, LenProperties
<1>4. ASSUME NEW i \in DOMAIN m_groupsID', NEW j \in DOMAIN m_groupsID',
             m_groupsID'[i] = m_groupsID'[j]
      PROVE  i = j
  <2>1. i + 1 = j + 1
    BY <1>2, <1>4 DEF AddressesApart
  <2>. QED BY <1>3, <2>1
<1>5. ASSUME NEW i \in DOMAIN m_groupsID'
      PROVE  /\ m_groupsID'[i] \in Address
             /\ m_groupsID'[i] # Head(m_groupsID)
             /\ \A g \in Groups : m_groupMap[g].m_groupIP # m_groupsID'[i]
  BY <1>2 DEF AddressesApart
<1>. QED BY <1>4, <1>5

(* A step that changes members only.                                       *)
LEMMA ApartAfterEdit ==
  ASSUME AddressesApart, UNCHANGED m_groupsID, Groups' = Groups,
         \A g \in Groups : m_groupMap'[g].m_groupIP = m_groupMap[g].m_groupIP
  PROVE  AddressesApart'
BY DEF AddressesApart

(* The three effects that change members keep the groups and addresses.    *)
LEMMA MembersOnly ==
  ASSUME GrpMngTypeOK,
         \/ \E g \in Groups, u \in UserName :
              m_groupMap' = [m_groupMap EXCEPT ![g] = AddUser(@, u)]
         \/ \E g \in Groups, u \in UserName :
              m_groupMap' = [m_groupMap EXCEPT ![g] = RemoveUser(@, u)]
         \/ \E u \in UserName : RemoveUserFromAllGroups(u)
  PROVE  /\ Groups' = Groups
         /\ \A g \in Groups : m_groupMap'[g].m_groupIP = m_groupMap[g].m_groupIP
<1>1. \A g \in Groups : g \in GroupName /\ m_groupMap[g] \in Group
  BY DEF Groups, GrpMngTypeOK
<1>2. ASSUME NEW g \in Groups, NEW group \in Group,
             group.m_groupIP = m_groupMap[g].m_groupIP,
             m_groupMap' = [m_groupMap EXCEPT ![g] = group]
      PROVE  /\ Groups' = Groups
             /\ \A h \in Groups : m_groupMap'[h].m_groupIP = m_groupMap[h].m_groupIP
  <2>1. Groups' = Groups
    BY <1>1, <1>2, GroupAssumption DEF Groups, GrpMngTypeOK
  <2>2. \A h \in Groups : m_groupMap'[h].m_groupIP = m_groupMap[h].m_groupIP
    BY <1>1, <1>2 DEF GrpMngTypeOK
  <2>. QED BY <2>1, <2>2
<1>3. CASE \E g \in Groups, u \in UserName :
              m_groupMap' = [m_groupMap EXCEPT ![g] = AddUser(@, u)]
  BY <1>1, <1>2, <1>3, GroupRecords
<1>4. CASE \E g \in Groups, u \in UserName :
              m_groupMap' = [m_groupMap EXCEPT ![g] = RemoveUser(@, u)]
  BY <1>1, <1>2, <1>4, GroupRecords
<1>5. ASSUME NEW u \in UserName, RemoveUserFromAllGroups(u)
      PROVE  /\ Groups' = Groups
             /\ \A g \in Groups : m_groupMap'[g].m_groupIP = m_groupMap[g].m_groupIP
  <2>1. \A g \in Groups : m_groupMap'[g] = RemoveUser(m_groupMap[g], u)
    BY <1>1, <1>5 DEF RemoveUserFromAllGroups
  <2>2. \A g \in GroupName \ Groups : m_groupMap'[g] = NotFound
    BY <1>5 DEF RemoveUserFromAllGroups
  <2>3. \A g \in Groups :
          /\ m_groupMap'[g] # NotFound
          /\ m_groupMap'[g].m_groupIP = m_groupMap[g].m_groupIP
    BY <1>1, <2>1, GroupRecords, GroupAssumption
  <2>4. Groups' = Groups
    BY <2>2, <2>3 DEF Groups
  <2>. QED BY <2>3, <2>4
<1>. QED BY <1>3, <1>4, <1>5

LEMMA ApartStep ==
  ASSUME GrpMngTypeOK, AddressesApart, GroupEffect
  PROVE  AddressesApart'
<1>1. CASE UNCHANGED grpVars
  BY <1>1 DEF AddressesApart, Groups, grpVars
<1>2. CASE Took /\ UNCHANGED m_groupMap
  <2>1. Groups' = Groups
    BY <1>2 DEF Groups
  <2>. QED BY <1>2, <2>1, ApartAfterTail DEF AddressesApart
<1>3. ASSUME Took, NEW g \in GroupName \ Groups,
             m_groupMap' = [m_groupMap EXCEPT ![g] = GroupCreate(Head(m_groupsID))]
      PROVE  AddressesApart'
  <2>1. Head(m_groupsID) \in Address /\ Head(m_groupsID) = m_groupsID[1]
        /\ 1 \in DOMAIN m_groupsID
    BY <1>3, HeadAndTail DEF Took
  <2>2. GroupCreate(Head(m_groupsID)) \in Group
    BY <2>1 DEF GroupCreate, Group
  <2>3. Groups' = Groups \cup {g}
    BY <1>3, <2>2, GroupAssumption DEF Groups, GrpMngTypeOK
  <2>4. /\ m_groupMap'[g].m_groupIP = Head(m_groupsID)
        /\ \A h \in Groups : m_groupMap'[h] = m_groupMap[h]
    BY <1>3 DEF Groups, GrpMngTypeOK, GroupCreate
  <2>5. \A h \in Groups : m_groupMap[h].m_groupIP # Head(m_groupsID)
    BY <2>1 DEF AddressesApart
  <2>6. ASSUME NEW h \in Groups'
        PROVE  /\ m_groupMap'[h].m_groupIP \in Address
               /\ \A i \in DOMAIN m_groupsID' : m_groupMap'[h].m_groupIP # m_groupsID'[i]
               /\ \A k \in Groups' :
                    m_groupMap'[h].m_groupIP = m_groupMap'[k].m_groupIP => h = k
    <3>1. CASE h = g
      BY <1>3, <2>1, <2>3, <2>4, <2>5, <3>1, ApartAfterTail
    <3>2. CASE h \in Groups
      BY <1>3, <2>3, <2>4, <2>5, <3>2, ApartAfterTail DEF AddressesApart
    <3>. QED BY <2>3, <2>6, <3>1, <3>2
  <2>. QED BY <1>3, <2>6, ApartAfterTail DEF AddressesApart
<1>4. CASE /\ UNCHANGED m_groupsID
           /\ \/ \E g \in Groups, u \in UserName :
                   m_groupMap' = [m_groupMap EXCEPT ![g] = AddUser(@, u)]
              \/ \E g \in Groups, u \in UserName :
                   m_groupMap' = [m_groupMap EXCEPT ![g] = RemoveUser(@, u)]
              \/ \E u \in UserName : RemoveUserFromAllGroups(u)
  BY <1>4, MembersOnly, ApartAfterEdit
<1>. QED BY <1>1, <1>2, <1>3, <1>4 DEF GroupEffect, RemoveUserFromAllGroups

-----------------------------------------------------------------------------
(* Every effect a step can have on the groups is a step of the directory.  *)

(* The mapped variables of SrvMng's Directory instance, by name.           *)
dAddress ==
  [g \in GroupName |-> IF g \in Groups THEN m_groupMap[g].m_groupIP ELSE NoAddress]
dMembers == [g \in GroupName |-> IF g \in Groups THEN m_groupMap[g].m_users ELSE {}]
dSpent == {a \in Address : \A i \in DOMAIN m_groupsID : m_groupsID[i] # a}

DirectoryStep ==
  \/ \E g \in GroupName, a \in Address :
       /\ dAddress[g] = NoAddress
       /\ a \notin dSpent
       /\ dAddress' = [dAddress EXCEPT ![g] = a]
       /\ dSpent' = dSpent \cup {a}
       /\ UNCHANGED dMembers
  \/ \E a \in Address :
       /\ a \notin dSpent
       /\ dSpent' = dSpent \cup {a}
       /\ UNCHANGED <<dAddress, dMembers>>
  \/ \E u \in UserName, g \in GroupName :
       \/ /\ dAddress[g] # NoAddress
          /\ dMembers' = [dMembers EXCEPT ![g] = @ \cup {u}]
          /\ UNCHANGED <<dAddress, dSpent>>
       \/ /\ dMembers' = [dMembers EXCEPT ![g] = @ \ {u}]
          /\ UNCHANGED <<dAddress, dSpent>>
  \/ \E u \in UserName :
       /\ dMembers' = [g \in GroupName |-> dMembers[g] \ {u}]
       /\ UNCHANGED <<dAddress, dSpent>>
  \/ UNCHANGED <<dAddress, dMembers, dSpent>>

LEMMA DirectoryStepIsNext ==
  DirectoryStep <=> [Directory!DirectoryNext]_(Directory!directoryVars)
BY DEF DirectoryStep, dAddress, dMembers, dSpent, Directory!DirectoryNext,
       Directory!Create, Directory!Waste, Directory!Join, Directory!Leave,
       Directory!LeaveAll, Directory!directoryVars

(* Taking the first address spends it.                                     *)
LEMMA TookSpends ==
  ASSUME GrpMngTypeOK, AddressesApart, Took
  PROVE  /\ Head(m_groupsID) \in Address
         /\ Head(m_groupsID) \notin dSpent
         /\ dSpent' = dSpent \cup {Head(m_groupsID)}
<1>1. m_groupsID # <<>> /\ m_groupsID' = Tail(m_groupsID)
  BY DEF Took
<1>2. /\ Head(m_groupsID) = m_groupsID[1]
      /\ Head(m_groupsID) \in Address
      /\ 1 \in DOMAIN m_groupsID
      /\ \A i \in DOMAIN m_groupsID' :
           /\ i + 1 \in DOMAIN m_groupsID
           /\ m_groupsID'[i] = m_groupsID[i + 1]
  BY <1>1, HeadAndTail
<1>3. \A i \in DOMAIN m_groupsID' : m_groupsID'[i] # Head(m_groupsID)
  BY ApartAfterTail
<1>4. \A j \in DOMAIN m_groupsID :
        j = 1 \/ \E i \in DOMAIN m_groupsID' : m_groupsID'[i] = m_groupsID[j]
  <2>1. /\ m_groupsID \in Seq(Address \cup {Stale})
        /\ m_groupsID' \in Seq(Address \cup {Stale})
        /\ Len(m_groupsID') = Len(m_groupsID) - 1
        /\ Len(m_groupsID) \in Nat
    BY <1>1, TakeAddress DEF GrpMngTypeOK
  <2>2. /\ DOMAIN m_groupsID = 1 .. Len(m_groupsID)
        /\ DOMAIN m_groupsID' = 1 .. Len(m_groupsID')
    BY <2>1, LenProperties
  <2>3. ASSUME NEW j \in DOMAIN m_groupsID, j # 1
        PROVE  \E i \in DOMAIN m_groupsID' : m_groupsID'[i] = m_groupsID[j]
    <3>1. j - 1 \in DOMAIN m_groupsID' /\ (j - 1) + 1 = j
      BY <2>1, <2>2, <2>3
    <3>. QED BY <1>2, <3>1
  <2>. QED BY <2>3
<1>. QED BY <1>2, <1>3, <1>4 DEF dSpent

(* Editing the members of one group.                                       *)
LEMMA EditIsDirectoryEdit ==
  ASSUME GrpMngTypeOK, UNCHANGED m_groupsID,
         NEW g \in Groups, NEW G \in SUBSET UserName,
         m_groupMap' = [m_groupMap EXCEPT ![g] = [@ EXCEPT !.m_users = G]]
  PROVE  /\ UNCHANGED <<dAddress, dSpent>>
         /\ dMembers[g] = m_groupMap[g].m_users
         /\ dMembers' = [dMembers EXCEPT ![g] = G]
<1>1. g \in GroupName /\ m_groupMap[g] \in Group
  BY DEF Groups, GrpMngTypeOK
<1>2. [m_groupMap[g] EXCEPT !.m_users = G] \in Group
  BY <1>1 DEF Group
<1>3. Groups' = Groups
  BY <1>1, <1>2, GroupAssumption DEF Groups, GrpMngTypeOK
<1>4. /\ m_groupMap'[g].m_groupIP = m_groupMap[g].m_groupIP
      /\ m_groupMap'[g].m_users = G
      /\ \A h \in GroupName : h # g => m_groupMap'[h] = m_groupMap[h]
  BY <1>1 DEF GrpMngTypeOK, Group
<1>5. dAddress' = dAddress
  BY <1>3, <1>4 DEF dAddress
<1>6. dMembers' = [dMembers EXCEPT ![g] = G] /\ dMembers[g] = m_groupMap[g].m_users
  <2>1. dMembers[g] = m_groupMap[g].m_users
    BY <1>1 DEF dMembers
  <2>2. dMembers'[g] = G
    BY <1>1, <1>3, <1>4 DEF dMembers
  <2>3. \A h \in GroupName : h # g => dMembers'[h] = dMembers[h]
    BY <1>3, <1>4 DEF dMembers
  <2>4. /\ dMembers = [h \in GroupName |-> dMembers[h]]
        /\ dMembers' = [h \in GroupName |-> dMembers'[h]]
    BY DEF dMembers
  <2>. QED BY <2>1, <2>2, <2>3, <2>4
<1>7. dSpent' = dSpent
  BY DEF dSpent
<1>. QED BY <1>5, <1>6, <1>7

LEMMA GroupEffectIsDirectoryStep ==
  ASSUME GrpMngTypeOK, AddressesApart, GroupEffect
  PROVE  DirectoryStep
<1>1. CASE UNCHANGED grpVars
  BY <1>1 DEF DirectoryStep, dAddress, dMembers, dSpent, Groups, grpVars
<1>2. CASE Took /\ UNCHANGED m_groupMap
  <2>1. UNCHANGED <<dAddress, dMembers>>
    BY <1>2 DEF dAddress, dMembers, Groups
  <2>. QED BY <1>2, <2>1, TookSpends DEF DirectoryStep
<1>3. ASSUME Took, NEW g \in GroupName \ Groups,
             m_groupMap' = [m_groupMap EXCEPT ![g] = GroupCreate(Head(m_groupsID))]
      PROVE  DirectoryStep
  <2>1. GroupCreate(Head(m_groupsID)) \in Group
    BY <1>3, TookSpends DEF GroupCreate, Group
  <2>2. Groups' = Groups \cup {g}
    BY <1>3, <2>1, GroupAssumption DEF Groups, GrpMngTypeOK
  <2>3. /\ m_groupMap'[g].m_groupIP = Head(m_groupsID)
        /\ m_groupMap'[g].m_users = {}
        /\ \A h \in GroupName : h # g => m_groupMap'[h] = m_groupMap[h]
    BY <1>3 DEF GrpMngTypeOK, GroupCreate
  <2>4. dAddress[g] = NoAddress /\ dAddress' = [dAddress EXCEPT ![g] = Head(m_groupsID)]
    <3>1. dAddress[g] = NoAddress
      BY <1>3 DEF dAddress
    <3>2. dAddress'[g] = Head(m_groupsID)
      BY <2>2, <2>3 DEF dAddress
    <3>3. \A h \in GroupName : h # g => dAddress'[h] = dAddress[h]
      BY <2>2, <2>3 DEF dAddress
    <3>4. /\ dAddress = [h \in GroupName |-> dAddress[h]]
          /\ dAddress' = [h \in GroupName |-> dAddress'[h]]
      BY DEF dAddress
    <3>. QED BY <3>1, <3>2, <3>3, <3>4
  <2>5. UNCHANGED dMembers
    BY <1>3, <2>2, <2>3 DEF dMembers
  <2>. QED BY <1>3, <2>4, <2>5, TookSpends DEF DirectoryStep
<1>4. ASSUME UNCHANGED m_groupsID, NEW g \in Groups, NEW u \in UserName,
             m_groupMap' = [m_groupMap EXCEPT ![g] = AddUser(@, u)]
      PROVE  DirectoryStep
  <2>1. g \in GroupName /\ m_groupMap[g] \in Group
    BY DEF Groups, GrpMngTypeOK
  <2>2. m_groupMap[g].m_users \cup {u} \in SUBSET UserName
    BY <2>1 DEF Group
  <2>3. /\ UNCHANGED <<dAddress, dSpent>>
        /\ dMembers[g] = m_groupMap[g].m_users
        /\ dMembers' = [dMembers EXCEPT ![g] = m_groupMap[g].m_users \cup {u}]
    BY <1>4, <2>2, EditIsDirectoryEdit DEF AddUser
  <2>4. dAddress[g] # NoAddress
    BY <2>1, DataAssumption DEF dAddress, AddressesApart, Address, NoAddress
  <2>. QED BY <2>1, <2>3, <2>4 DEF DirectoryStep
<1>5. ASSUME UNCHANGED m_groupsID, NEW g \in Groups, NEW u \in UserName,
             m_groupMap' = [m_groupMap EXCEPT ![g] = RemoveUser(@, u)]
      PROVE  DirectoryStep
  <2>1. g \in GroupName /\ m_groupMap[g] \in Group
    BY DEF Groups, GrpMngTypeOK
  <2>2. m_groupMap[g].m_users \ {u} \in SUBSET UserName
    BY <2>1 DEF Group
  <2>3. /\ UNCHANGED <<dAddress, dSpent>>
        /\ dMembers[g] = m_groupMap[g].m_users
        /\ dMembers' = [dMembers EXCEPT ![g] = m_groupMap[g].m_users \ {u}]
    BY <1>5, <2>2, EditIsDirectoryEdit DEF RemoveUser
  <2>. QED BY <2>1, <2>3 DEF DirectoryStep
<1>6. ASSUME NEW u \in UserName, RemoveUserFromAllGroups(u)
      PROVE  DirectoryStep
  <2>1. /\ Groups' = Groups
        /\ \A g \in Groups : m_groupMap'[g].m_groupIP = m_groupMap[g].m_groupIP
    BY <1>6, MembersOnly
  <2>2. \A g \in Groups : m_groupMap'[g].m_users = m_groupMap[g].m_users \ {u}
    <3>1. ASSUME NEW g \in Groups
          PROVE  m_groupMap'[g].m_users = m_groupMap[g].m_users \ {u}
      <4>1. m_groupMap'[g] = RemoveUser(m_groupMap[g], u) /\ m_groupMap[g] \in Group
        BY <1>6 DEF RemoveUserFromAllGroups, Groups, GrpMngTypeOK
      <4>. QED BY <4>1 DEF RemoveUser, Group
    <3>. QED BY <3>1
  <2>3. dMembers' = [g \in GroupName |-> dMembers[g] \ {u}]
    BY <2>1, <2>2 DEF dMembers
  <2>4. UNCHANGED <<dAddress, dSpent>>
    BY <1>6, <2>1 DEF dAddress, dSpent, RemoveUserFromAllGroups
  <2>. QED BY <2>3, <2>4 DEF DirectoryStep
<1>. QED BY <1>1, <1>2, <1>3, <1>4, <1>5, <1>6 DEF GroupEffect

LEMMA DirectoryStart == SrvMngInit => Directory!DirectoryInit
<1>. SUFFICES ASSUME SrvMngInit PROVE Directory!DirectoryInit
  OBVIOUS
<1>1. Groups = {}
  BY DEF SrvMngInit, GrpMngInit, Groups
<1>2. dSpent = {}
  BY DataAssumption DEF SrvMngInit, GrpMngInit, dSpent, Address
<1>. QED BY <1>1, <1>2 DEF Directory!DirectoryInit, dSpent

-----------------------------------------------------------------------------
(* What a step does to the users.                                          *)

UserEffect ==
  \/ UNCHANGED m_userMap
  \/ \E u \in UserName, p \in Password :
       \E user \in {UserCreate(p)} \cup IfAllocFails({NULL}) :
         /\ ~Registered(u)
         /\ m_userMap' = [m_userMap EXCEPT ![u] = user]
  \/ \E u \in UserName :
       /\ m_userMap[u] \in User
       /\ buffer'.m_tag = "LOGIN_REQUEST"
       /\ buffer'.m_username = u
       /\ buffer'.m_password = m_userMap[u].m_password
       /\ m_userMap' = [m_userMap EXCEPT ![u] = ActivateUser(m_userMap[u])]
  \/ \E u \in UserName :
       /\ Registered(u)
       /\ buffer'.m_tag = "LOGOUT_REQUEST"
       /\ buffer'.m_username = u
       /\ \E user \in RemoveAllGroups(DeactivateUser(m_userMap[u])) :
            m_userMap' = [m_userMap EXCEPT ![u] = user]

LEMMA UserEffects ==
  ASSUME SrvMngTypeOK, SrvMngNext
  PROVE  UserEffect
<1>. DEFINE m == buffer'
<1>1. m \in Request \cup Wild /\ GotMessage(m)
  BY ServerStep
<1>. HIDE DEF m
<1>2. CASE UNCHANGED m_userMap
  BY <1>2 DEF UserEffect
<1>3. CASE m.m_tag = "REGISTER_REQUEST" /\ GotRegister(m)
  BY <1>1, <1>3, PacketFields DEF GotRegister, RegisterNewUser, UserEffect
<1>4. CASE m.m_tag = "LOGIN_REQUEST" /\ GotLogin(m)
  <2>1. m.m_username \in UserName
    BY <1>1, <1>4, PacketFields
  <2>2. PICK res \in UserMngResult : LogInUser(m.m_username, m.m_password, res)
    BY <1>4 DEF GotLogin
  <2>3. CASE /\ m_userMap[m.m_username] \notin {NotFound, NULL}
             /\ m_userMap[m.m_username].m_password = m.m_password
             /\ m_userMap' = [m_userMap EXCEPT ![m.m_username] = ActivateUser(@)]
    <3>1. m_userMap[m.m_username] \in User
      BY <2>1, <2>3 DEF SrvMngTypeOK, UsrMngTypeOK
    <3>. QED BY <1>4, <2>1, <2>3, <3>1 DEF UserEffect, m
  <2>. QED BY <1>2, <2>2, <2>3 DEF LogInUser
<1>5. CASE m.m_tag = "LOGOUT_REQUEST" /\ GotLogout(m)
  <2>1. m.m_username \in UserName
    BY <1>1, <1>5, PacketFields
  <2>2. CASE LogOutUser(m.m_username, "USERMNG_USER_NOT_FOUND")
    BY <1>2, <2>2 DEF LogOutUser
  <2>3. CASE /\ Registered(m.m_username)
             /\ \E user \in RemoveAllGroups(DeactivateUser(m_userMap[m.m_username])) :
                  m_userMap' = [m_userMap EXCEPT ![m.m_username] = user]
    BY <1>5, <2>1, <2>3 DEF UserEffect, m
  <2>. QED BY <1>5, <2>2, <2>3 DEF GotLogout
<1>. QED BY <1>1, <1>2, <1>3, <1>4, <1>5
     DEF GotMessage, GotCreate, GotJoin, GotLeave, GotSeeGroups

(* What logging out makes of an entry.                                     *)
LEMMA LogoutRecords ==
  ASSUME NEW entry \in User \cup {NULL},
         NEW user \in RemoveAllGroups(DeactivateUser(entry))
  PROVE  /\ entry = NULL => user = NULL
         /\ entry \in User =>
              /\ user \in User
              /\ user.m_password = entry.m_password
              /\ user.m_isActive = FALSE
              /\ ~AllocMayFail => user = [entry EXCEPT !.m_isActive = FALSE, !.m_groups = {}]
<1>1. CASE entry = NULL
  BY <1>1, UserAssumption DEF DeactivateUser, RemoveAllGroups
<1>2. CASE entry \in User
  <2>1. /\ DeactivateUser(entry) \in User
        /\ DeactivateUser(entry) # NULL
        /\ DeactivateUser(entry) = [entry EXCEPT !.m_isActive = FALSE]
    <3>1. entry # NULL
      BY <1>2, UserAssumption
    <3>2. DeactivateUser(entry) \in User
      BY <1>2, UserRecords
    <3>. QED BY <3>1, <3>2, UserAssumption DEF DeactivateUser
  <2>2. PICK G \in {{}} \cup IfAllocFails({NULL}) :
          user = [DeactivateUser(entry) EXCEPT !.m_groups = G]
    BY <2>1 DEF RemoveAllGroups
  <2>3. G \in {{}, NULL} /\ (~AllocMayFail => G = {})
    BY <2>2 DEF IfAllocFails
  <2>4. user \in User /\ user.m_password = entry.m_password /\ user.m_isActive = FALSE
    BY <1>2, <2>1, <2>2, <2>3 DEF User
  <2>5. ~AllocMayFail => user = [entry EXCEPT !.m_isActive = FALSE, !.m_groups = {}]
    BY <1>2, <2>1, <2>2, <2>3 DEF User
  <2>6. entry # NULL
    BY <1>2, UserAssumption
  <2>. QED BY <1>2, <2>4, <2>5, <2>6
<1>. QED BY <1>1, <1>2

LEMMA UserStep ==
  ASSUME SrvMngTypeOK, NoNullUsers, UserEffect
  PROVE  UserStepOK /\ NoNullUsers'
<1>. USE DEF SrvMngTypeOK
<1>1. CASE UNCHANGED m_userMap
  BY <1>1, KeepUsers DEF NoNullUsers
<1>2. ASSUME NEW u \in UserName, NEW p \in Password,
             NEW user \in {UserCreate(p)} \cup IfAllocFails({NULL}),
             ~Registered(u), m_userMap' = [m_userMap EXCEPT ![u] = user]
      PROVE  UserStepOK /\ NoNullUsers'
  <2>1. UserCreate(p) \in User
    BY DEF UserCreate, User
  <2>2. user \in User \cup {NULL} /\ (~AllocMayFail => user \in User)
    BY <2>1, <1>2 DEF IfAllocFails
  <2>3. user # NotFound
    BY <2>2, UserAssumption, DataAssumption
  <2>4. UserStepOK
    BY <1>2, <2>2, <2>3, StoreUser
  <2>5. NoNullUsers'
    BY <1>2, <2>2, UserAssumption DEF NoNullUsers, UsrMngTypeOK
  <2>. QED BY <2>4, <2>5
<1>3. ASSUME NEW u \in UserName, m_userMap[u] \in User,
             m_userMap' = [m_userMap EXCEPT ![u] = ActivateUser(m_userMap[u])]
      PROVE  UserStepOK /\ NoNullUsers'
  <2>1. /\ ActivateUser(m_userMap[u]) \in User
        /\ ActivateUser(m_userMap[u]).m_password = m_userMap[u].m_password
    BY <1>3, UserRecords
  <2>2. UserStepOK
    BY <1>3, <2>1, StoreUser
  <2>3. NoNullUsers'
    BY <1>3, <2>1, UserAssumption DEF NoNullUsers, UsrMngTypeOK
  <2>. QED BY <2>2, <2>3
<1>4. ASSUME NEW u \in UserName, Registered(u),
             NEW user \in RemoveAllGroups(DeactivateUser(m_userMap[u])),
             m_userMap' = [m_userMap EXCEPT ![u] = user]
      PROVE  UserStepOK /\ NoNullUsers'
  <2>1. m_userMap[u] \in User \cup {NULL}
    BY <1>4 DEF UsrMngTypeOK, Registered
  <2>2. /\ m_userMap[u] = NULL => user = NULL
        /\ m_userMap[u] \in User =>
             user \in User /\ user.m_password = m_userMap[u].m_password
    BY <1>4, <2>1, LogoutRecords
  <2>3. UserStepOK
    BY <1>4, <2>1, <2>2, StoreUser
  <2>4. NoNullUsers'
    BY <1>4, <2>1, <2>2, UserAssumption DEF NoNullUsers, UsrMngTypeOK
  <2>. QED BY <2>3, <2>4
<1>. QED BY <1>1, <1>2, <1>3, <1>4 DEF UserEffect

-----------------------------------------------------------------------------
(* What a step leaves of the group manager's invariant.                    *)
LEMMA GroupStep ==
  ASSUME GrpMngInv, SrvMngTypeOK, SrvMngNext
  PROVE  GroupStepOK
<1>. DEFINE m == buffer'
<1>1. m \in Request \cup Wild /\ GotMessage(m)
  BY ServerStep
<1>. HIDE DEF m
<1>2. CASE UNCHANGED <<m_groupMap, m_groupsID>>
  BY <1>2, KeepGroups DEF grpVars
<1>3. CASE m.m_tag = "LOGOUT_REQUEST" /\ GotLogout(m)
  BY <1>1, <1>2, <1>3, PacketFields, RemoveUserFromAllStep DEF GotLogout, grpVars
<1>4. CASE m.m_tag = "GROUP_CREATE_REQUEST" /\ GotCreate(m)
  BY <1>1, <1>4, PacketFields, AddNewGroupStep DEF GotCreate
<1>5. CASE m.m_tag = "GROUP_JOIN_REQUEST" /\ GotJoin(m)
  BY <1>1, <1>5, PacketFields, AddUserStep DEF GotJoin
<1>6. CASE m.m_tag = "GROUP_LEAVE_REQUEST" /\ GotLeave(m)
  BY <1>1, <1>6, PacketFields, RemoveUserStep DEF GotLeave
<1>. QED BY <1>1, <1>2, <1>3, <1>4, <1>5, <1>6
     DEF GotMessage, GotRegister, GotLogin, GotSeeGroups, GetAllGroupNames, grpVars

(* Every reply is one of the packets of protocol.h.                        *)
LEMMA ReplyStep ==
  ASSUME SrvMngNext, SrvMngTypeOK
  PROVE  reply' \in AnyReply \cup {NoReply}
<1>. DEFINE m == buffer'
<1>1. GotMessage(m)
  BY ServerStep
<1>. HIDE DEF m
<1>3. CASE GotRegister(m)
  BY <1>3 DEF GotRegister, Outcome, AnyReply, Reply
<1>4. CASE GotLogin(m)
  BY <1>4 DEF GotLogin, Outcome, AnyReply, Reply
<1>5. CASE GotLogout(m)
  BY <1>5 DEF GotLogout, AnyReply, Reply
<1>6. CASE GotCreate(m)
  BY <1>6 DEF GotCreate, Outcome, AnyReply, GroupCreateReply
<1>7. CASE GotJoin(m)
  BY <1>7 DEF GotJoin, Outcome, AnyReply, GroupCreateReply
<1>8. CASE GotLeave(m)
  BY <1>8 DEF GotLeave, Outcome, AnyReply, Reply
<1>9. CASE GotSeeGroups(m)
  BY <1>9 DEF GotSeeGroups, AnyReply, SeeAllGroupsReply
<1>. QED BY <1>1, <1>3, <1>4, <1>5, <1>6, <1>7, <1>8, <1>9 DEF GotMessage

-----------------------------------------------------------------------------
(* One lemma per request: its reply is true of the state after it.         *)

LEMMA RegisterIsTrue ==
  ASSUME SrvMngTypeOK, buffer' \in Request \cup Wild,
         ~AllocMayFail, buffer'.m_tag = "REGISTER_REQUEST", GotRegister(buffer')
  PROVE  reply'.m_tag = "REGISTER_REPLY" /\ TrueOf(buffer)'
<1>. DEFINE u == buffer'.m_username
            p == buffer'.m_password
<1>1. u \in UserName /\ p \in Password
  BY PacketFields
<1>2. PICK res \in UserMngResult : RegisterNewUser(u, p, res)
  BY DEF GotRegister
<1>3. m_userMap'[u] # NotFound
  <2>1. CASE Registered(u) /\ UNCHANGED m_userMap
    BY <2>1 DEF Registered
  <2>2. CASE m_userMap' = [m_userMap EXCEPT ![u] = UserCreate(p)]
    <3>1. UserCreate(p) \in User
      BY <1>1 DEF UserCreate, User
    <3>. QED BY <1>1, <2>2, <3>1, UserAssumption DEF SrvMngTypeOK, UsrMngTypeOK
  <2>. QED BY <1>2, <2>1, <2>2 DEF RegisterNewUser, IfAllocFails
<1>4. reply'.m_tag = "REGISTER_REPLY"
  BY DEF GotRegister
<1>. QED BY <1>3, <1>4 DEF TrueOf, Registered

LEMMA LoginIsTrue ==
  ASSUME SrvMngTypeOK, NoNullUsers, buffer' \in Request \cup Wild,
         ~AllocMayFail, buffer'.m_tag = "LOGIN_REQUEST", GotLogin(buffer')
  PROVE  reply'.m_tag = "LOGIN_REPLY" /\ TrueOf(buffer)'
<1>. DEFINE u == buffer'.m_username
            p == buffer'.m_password
            ok == /\ Registered(u)
                  /\ m_userMap[u].m_password = p
<1>1. u \in UserName /\ p \in Password
  BY PacketFields
<1>2. PICK res \in UserMngResult :
        /\ LogInUser(u, p, res)
        /\ reply' = [m_tag |-> "LOGIN_REPLY", m_reply |-> Outcome(res = "USERMNG_SUCCESS")]
  BY DEF GotLogin
<1>3. (reply'.m_reply = SUCCESS) <=> res = "USERMNG_SUCCESS"
  BY <1>2 DEF Outcome, SUCCESS, FAILURE
<1>4. m_userMap[u] # NULL
  BY <1>1 DEF NoNullUsers
<1>5. CASE ~Registered(u)
  BY <1>2, <1>3, <1>4, <1>5 DEF LogInUser, TrueOf, Registered
<1>6. CASE Registered(u) /\ m_userMap[u].m_password # p
  BY <1>2, <1>3, <1>4, <1>6 DEF LogInUser, TrueOf, Registered
<1>7. CASE Registered(u) /\ m_userMap[u].m_password = p
  <2>1. /\ res = "USERMNG_SUCCESS"
        /\ m_userMap' = [m_userMap EXCEPT ![u] = ActivateUser(@)]
    BY <1>2, <1>4, <1>7 DEF LogInUser, Registered
  <2>2. m_userMap[u] \in User
    BY <1>1, <1>4, <1>7 DEF SrvMngTypeOK, UsrMngTypeOK, Registered
  <2>3. m_userMap'[u] = [m_userMap[u] EXCEPT !.m_isActive = TRUE]
    BY <1>1, <2>1 DEF SrvMngTypeOK, UsrMngTypeOK, ActivateUser
  <2>4. /\ m_userMap'[u] \in User
        /\ m_userMap'[u].m_isActive
        /\ m_userMap'[u].m_password = p
    BY <1>7, <2>2, <2>3 DEF User
  <2>5. m_userMap'[u] \notin {NotFound, NULL}
    BY <2>4, UserAssumption
  <2>. QED BY <1>2, <1>3, <2>1, <2>4, <2>5 DEF TrueOf, Registered, Active
<1>. QED BY <1>5, <1>6, <1>7

LEMMA LogoutIsTrue ==
  ASSUME SrvMngTypeOK, NoNullUsers, buffer' \in Request \cup Wild,
         ~AllocMayFail, buffer'.m_tag = "LOGOUT_REQUEST", GotLogout(buffer')
  PROVE  reply'.m_tag = "LOGOUT_REPLY" /\ TrueOf(buffer)'
<1>. DEFINE u == buffer'.m_username
<1>1. u \in UserName
  BY PacketFields
<1>2. CASE /\ ~Registered(u)
           /\ UNCHANGED m_userMap
           /\ reply' = [m_tag |-> "LOGOUT_REPLY", m_reply |-> FAILURE]
  BY <1>2 DEF TrueOf, Registered, SUCCESS, FAILURE
<1>3. ASSUME Registered(u),
             NEW user \in RemoveAllGroups(DeactivateUser(m_userMap[u])),
             m_userMap' = [m_userMap EXCEPT ![u] = user],
             RemoveUserFromAllGroups(u),
             reply' = [m_tag |-> "LOGOUT_REPLY", m_reply |-> SUCCESS]
      PROVE  reply'.m_tag = "LOGOUT_REPLY" /\ TrueOf(buffer)'
  <2>1. m_userMap[u] \in User
    BY <1>1, <1>3 DEF SrvMngTypeOK, UsrMngTypeOK, NoNullUsers, Registered
  <2>2. /\ user \in User
        /\ user = [m_userMap[u] EXCEPT !.m_isActive = FALSE, !.m_groups = {}]
    BY <1>3, <2>1, LogoutRecords
  <2>3. m_userMap'[u] = user
    BY <1>1, <1>3 DEF SrvMngTypeOK, UsrMngTypeOK
  <2>4. m_userMap'[u] # NotFound /\ ~m_userMap'[u].m_isActive /\ m_userMap'[u].m_groups = {}
    BY <2>1, <2>2, <2>3, UserAssumption DEF User
  <2>5. \A g \in GroupName : ~(m_groupMap'[g] # NotFound /\ u \in m_groupMap'[g].m_users)
    <3>1. ASSUME NEW g \in GroupName, m_groupMap'[g] # NotFound
          PROVE  u \notin m_groupMap'[g].m_users
      <4>1. g \in Groups /\ m_groupMap'[g] = RemoveUser(m_groupMap[g], u)
        BY <1>3, <3>1 DEF RemoveUserFromAllGroups
      <4>2. m_groupMap[g] \in Group
        BY <4>1 DEF SrvMngTypeOK, GrpMngTypeOK, Groups
      <4>. QED BY <4>1, <4>2 DEF RemoveUser, Group
    <3>. QED BY <3>1
  <2>. QED BY <1>3, <2>4, <2>5 DEF TrueOf, Registered, Active, MemberOf, Groups
<1>. QED BY <1>2, <1>3 DEF GotLogout, LogOutUser

LEMMA CreateIsTrue ==
  ASSUME SrvMngTypeOK, AddressesApart, buffer' \in Request \cup Wild,
         ~AllocMayFail, buffer'.m_tag = "GROUP_CREATE_REQUEST", GotCreate(buffer')
  PROVE  reply'.m_tag = "GROUP_CREATE_REPLY" /\ TrueOf(buffer)'
<1>. DEFINE g == buffer'.m_groupName
<1>1. g \in GroupName
  BY PacketFields
<1>2. PICK res \in GroupMngResult, ip \in Address \cup {NoAddress} :
        /\ AddNewGroup(g, res, ip)
        /\ reply' = [m_tag |-> "GROUP_CREATE_REPLY",
                     m_reply |-> Outcome(res = "GROUPMNG_SUCCESS"), m_ip |-> ip]
  BY DEF GotCreate
<1>3. (reply'.m_reply = SUCCESS) <=> res = "GROUPMNG_SUCCESS"
  BY <1>2 DEF Outcome, SUCCESS, FAILURE
<1>4. CASE m_groupsID = <<>> /\ res # "GROUPMNG_SUCCESS" /\ UNCHANGED grpVars
  BY <1>2, <1>3, <1>4 DEF TrueOf, grpVars
<1>5. CASE g \in Groups /\ res # "GROUPMNG_SUCCESS" /\ UNCHANGED m_groupMap
  BY <1>2, <1>3, <1>5 DEF TrueOf, Groups
<1>6. ASSUME m_groupsID # <<>>, res = "GROUPMNG_SUCCESS",
             ip \in ReadIP(Head(m_groupsID)),
             NEW stored \in ReadIP(Head(m_groupsID)),
             m_groupMap' = [m_groupMap EXCEPT ![g] = GroupCreate(stored)]
      PROVE  TrueOf(buffer)'
  <2>1. stored = ip /\ ip \in Address
    BY <1>6, HeadAndTail DEF SrvMngTypeOK
  <2>2. m_groupMap'[g] = GroupCreate(ip)
    BY <1>1, <1>6, <2>1 DEF SrvMngTypeOK, GrpMngTypeOK
  <2>3. GroupCreate(ip) \in Group
    BY <2>1 DEF GroupCreate, Group
  <2>4. g \in Groups'
    BY <1>1, <2>2, <2>3, GroupAssumption DEF Groups
  <2>. QED BY <1>2, <1>3, <1>6, <2>2, <2>4 DEF TrueOf, GroupCreate
<1>. QED BY <1>2, <1>4, <1>5, <1>6 DEF AddNewGroup

LEMMA JoinIsTrue ==
  ASSUME SrvMngTypeOK, buffer' \in Request \cup Wild,
         ~AllocMayFail, buffer'.m_tag = "GROUP_JOIN_REQUEST", GotJoin(buffer')
  PROVE  reply'.m_tag = "GROUP_JOIN_REPLY" /\ TrueOf(buffer)'
<1>. DEFINE u == buffer'.m_username
            g == buffer'.m_groupName
<1>1. u \in UserName /\ g \in GroupName
  BY PacketFields
<1>2. PICK res \in GroupMngResult, ip \in Address \cup {NoAddress} :
        /\ AddUserToGroup(u, g, res, ip)
        /\ reply' = [m_tag |-> "GROUP_JOIN_REPLY",
                     m_reply |-> Outcome(res = "GROUPMNG_SUCCESS"), m_ip |-> ip]
  BY DEF GotJoin
<1>3. (reply'.m_reply = SUCCESS) <=> res = "GROUPMNG_SUCCESS"
  BY <1>2 DEF Outcome, SUCCESS, FAILURE
<1>4. CASE g \notin Groups /\ res # "GROUPMNG_SUCCESS" /\ UNCHANGED grpVars
  BY <1>2, <1>3, <1>4 DEF TrueOf, grpVars, Groups, MemberOf
<1>5. CASE /\ g \in Groups
           /\ u \in m_groupMap[g].m_users
           /\ res # "GROUPMNG_SUCCESS"
           /\ UNCHANGED grpVars
  BY <1>2, <1>3, <1>5 DEF TrueOf, grpVars, Groups, MemberOf
<1>6. CASE /\ g \in Groups
           /\ ip = m_groupMap[g].m_groupIP
           /\ m_groupMap' = [m_groupMap EXCEPT ![g] = AddUser(@, u)]
  <2>1. m_groupMap[g] \in Group
    BY <1>6 DEF SrvMngTypeOK, GrpMngTypeOK, Groups
  <2>2. m_groupMap'[g] = AddUser(m_groupMap[g], u)
    BY <1>1, <1>6 DEF SrvMngTypeOK, GrpMngTypeOK
  <2>3. m_groupMap'[g].m_groupIP = ip /\ u \in m_groupMap'[g].m_users
    BY <1>6, <2>1, <2>2 DEF AddUser, Group
  <2>4. g \in Groups'
    BY <1>1, <2>1, <2>2, GroupRecords, GroupAssumption DEF Groups
  <2>. QED BY <1>2, <2>3, <2>4 DEF TrueOf, MemberOf
<1>. QED BY <1>2, <1>4, <1>5, <1>6 DEF AddUserToGroup

LEMMA LeaveIsTrue ==
  ASSUME SrvMngTypeOK, buffer' \in Request \cup Wild,
         ~AllocMayFail, buffer'.m_tag = "GROUP_LEAVE_REQUEST", GotLeave(buffer')
  PROVE  reply'.m_tag = "GROUP_LEAVE_REPLY" /\ TrueOf(buffer)'
<1>. DEFINE u == buffer'.m_username
            g == buffer'.m_groupName
<1>1. u \in UserName /\ g \in GroupName
  BY PacketFields
<1>2. reply'.m_tag = "GROUP_LEAVE_REPLY"
  BY DEF GotLeave
<1>3. CASE g \notin Groups /\ UNCHANGED grpVars
  BY <1>2, <1>3 DEF TrueOf, grpVars, Groups, MemberOf
<1>4. CASE u \notin m_groupMap[g].m_users /\ UNCHANGED grpVars
  BY <1>2, <1>4 DEF TrueOf, grpVars, Groups, MemberOf
<1>5. CASE g \in Groups /\ m_groupMap' = [m_groupMap EXCEPT ![g] = RemoveUser(@, u)]
  <2>1. m_groupMap[g] \in Group
    BY <1>5 DEF SrvMngTypeOK, GrpMngTypeOK, Groups
  <2>2. u \notin m_groupMap'[g].m_users
    BY <1>1, <1>5, <2>1 DEF SrvMngTypeOK, GrpMngTypeOK, RemoveUser, Group
  <2>. QED BY <1>2, <2>2 DEF TrueOf, MemberOf
<1>. QED BY <1>3, <1>4, <1>5 DEF GotLeave, RemoveUserFromGroup

LEMMA SeeIsTrue ==
  ASSUME GrpMngInv, ~AllocMayFail,
         buffer'.m_tag = "GROUP_ALL_AVAILABLE_REQUEST", GotSeeGroups(buffer')
  PROVE  reply'.m_tag = "GROUP_ALL_AVAILABLE_REPLY" /\ TrueOf(buffer)'
<1>1. PICK names \in SUBSET GroupName :
        /\ GetAllGroupNames(names)
        /\ reply' = [m_tag |-> "GROUP_ALL_AVAILABLE_REPLY",
                     m_reply |-> SUCCESS, m_allGroupNames |-> names]
  BY DEF GotSeeGroups
<1>2. names = Groups
  BY <1>1, NamesAreComplete
<1>3. Groups' = Groups
  BY <1>1 DEF GetAllGroupNames, grpVars, Groups
<1>. QED BY <1>1, <1>2, <1>3 DEF TrueOf

(* Together: whatever is answered, the answer is true.                     *)
LEMMA ReplyIsTrue ==
  ASSUME SrvMngInv, SrvMngNext
  PROVE  RepliesAreTrue'
<1>. SUFFICES ASSUME ~AllocMayFail, reply' # NoReply
              PROVE  /\ buffer'.m_tag # "NO_CASE"
                     /\ reply'.m_tag = ReplyTag[buffer'.m_tag]
                     /\ TrueOf(buffer)'
  BY DEF RepliesAreTrue
<1>. USE DEF SrvMngInv
<1>1. buffer' \in Request \cup Wild /\ GotMessage(buffer')
  BY ServerStep
<1>2. GrpMngInv
  BY DEF GrpMngInv, SrvMngTypeOK
<1>3. CASE buffer'.m_tag = "REGISTER_REQUEST" /\ GotRegister(buffer')
  BY <1>1, <1>3, RegisterIsTrue DEF ReplyTag
<1>4. CASE buffer'.m_tag = "LOGIN_REQUEST" /\ GotLogin(buffer')
  BY <1>1, <1>4, LoginIsTrue DEF ReplyTag
<1>5. CASE buffer'.m_tag = "LOGOUT_REQUEST" /\ GotLogout(buffer')
  BY <1>1, <1>5, LogoutIsTrue DEF ReplyTag
<1>6. CASE buffer'.m_tag = "GROUP_CREATE_REQUEST" /\ GotCreate(buffer')
  BY <1>1, <1>6, CreateIsTrue DEF ReplyTag
<1>7. CASE buffer'.m_tag = "GROUP_JOIN_REQUEST" /\ GotJoin(buffer')
  BY <1>1, <1>7, JoinIsTrue DEF ReplyTag
<1>8. CASE buffer'.m_tag = "GROUP_ALL_AVAILABLE_REQUEST" /\ GotSeeGroups(buffer')
  BY <1>2, <1>8, SeeIsTrue DEF ReplyTag
<1>9. CASE buffer'.m_tag = "GROUP_LEAVE_REQUEST" /\ GotLeave(buffer')
  BY <1>1, <1>9, LeaveIsTrue DEF ReplyTag
<1>. QED BY <1>1, <1>3, <1>4, <1>5, <1>6, <1>7, <1>8, <1>9 DEF GotMessage

-----------------------------------------------------------------------------
(* The invariant is inductive.                                             *)

LEMMA SrvMngStart == SrvMngInit => SrvMngInv
<1>. SUFFICES ASSUME SrvMngInit PROVE SrvMngInv
  OBVIOUS
<1>1. UsrMngTypeOK /\ NoNullUsers
  BY UsrMngStart, DataAssumption DEF SrvMngInit, UsrMngInit, NoNullUsers
<1>2. GrpMngTypeOK /\ Capacity
  BY GrpMngStart DEF SrvMngInit, GrpMngInv
<1>3. buffer \in Request \cup Wild /\ reply \in AnyReply \cup {NoReply}
  BY DEF SrvMngInit
<1>4. AddressesApart
  <2>1. Groups = {}
    BY DEF SrvMngInit, GrpMngInit, Groups
  <2>. QED BY <2>1 DEF SrvMngInit, GrpMngInit, AddressesApart, Address
<1>5. RepliesAreTrue
  BY DEF SrvMngInit, RepliesAreTrue
<1>. QED BY <1>1, <1>2, <1>3, <1>4, <1>5 DEF SrvMngInv, SrvMngTypeOK

LEMMA SrvMngStep ==
  ASSUME SrvMngInv, SrvMngNext
  PROVE  SrvMngInv'
<1>1. SrvMngTypeOK /\ GrpMngInv /\ NoNullUsers /\ AddressesApart
  BY DEF SrvMngInv, SrvMngTypeOK, GrpMngInv
<1>2. UsrMngTypeOK' /\ NoNullUsers'
  BY <1>1, UserEffects, UserStep DEF UserStepOK
<1>3. GrpMngTypeOK' /\ Capacity'
  BY <1>1, GroupStep DEF GroupStepOK, GrpMngInv
<1>4. buffer' \in Request \cup Wild /\ reply' \in AnyReply \cup {NoReply}
  BY <1>1, ServerStep, ReplyStep
<1>5. AddressesApart'
  BY <1>1, GroupEffects, ApartStep DEF GrpMngInv
<1>6. RepliesAreTrue'
  BY ReplyIsTrue
<1>. QED BY <1>2, <1>3, <1>4, <1>5, <1>6 DEF SrvMngInv, SrvMngTypeOK

LEMMA SrvMngStutter ==
  ASSUME SrvMngInv, UNCHANGED srvVars
  PROVE  SrvMngInv'
<1>. USE DEF srvVars
<1>1. SrvMngTypeOK' /\ Capacity' /\ NoNullUsers' /\ AddressesApart'
  BY DEF SrvMngInv, SrvMngTypeOK, UsrMngTypeOK, GrpMngTypeOK, Capacity,
         NoNullUsers, AddressesApart, Groups
<1>2. RepliesAreTrue'
  BY DEF SrvMngInv, RepliesAreTrue, TrueOf, Registered, Active, MemberOf, Groups
<1>. QED BY <1>1, <1>2 DEF SrvMngInv

LEMMA SrvMngInvariant == SrvMngSpec => []SrvMngInv
<1>1. SrvMngInv /\ [SrvMngNext]_srvVars => SrvMngInv'
  BY SrvMngStep, SrvMngStutter
<1>. QED BY <1>1, SrvMngStart, PTL DEF SrvMngSpec

(* The user map, the group map, the address queue, the buffer of RunServer *)
(* and the reply hold what their C types mean them to hold, whatever       *)
(* packets arrive, are replayed or are read from stale memory (srv_mng.c). *)
THEOREM SrvMngTypeCorrect == SrvMngSpec => []SrvMngTypeOK
BY SrvMngInvariant, PTL DEF SrvMngInv

(* No two groups ever share a multicast address, and no address is handed  *)
(* out twice (grp_mng.c, AddNewGroup).                                     *)
THEOREM AddressesStayApart == SrvMngSpec => []AddressesApart
BY SrvMngInvariant, PTL DEF SrvMngInv

(* Every reply of GotMessage is true of the state it leaves (srv_mng.c).   *)
THEOREM RepliesStayTrue == SrvMngSpec => []RepliesAreTrue
BY SrvMngInvariant, PTL DEF SrvMngInv

(* For any groups the server behaves as the group directory (grp_mng.c).   *)
THEOREM DirectoryImplemented == SrvMngSpec => ImplementsDirectory
<1>1. SrvMngInv /\ [SrvMngNext]_srvVars => [Directory!DirectoryNext]_(Directory!directoryVars)
  <2>1. ASSUME SrvMngInv, SrvMngNext
        PROVE  DirectoryStep
    BY <2>1, GroupEffects, GroupEffectIsDirectoryStep DEF SrvMngInv, SrvMngTypeOK
  <2>2. ASSUME UNCHANGED srvVars
        PROVE  DirectoryStep
    BY <2>2 DEF srvVars, DirectoryStep, dAddress, dMembers, dSpent, Groups
  <2>. QED BY <2>1, <2>2, DirectoryStepIsNext
<1>. QED BY <1>1, SrvMngInvariant, DirectoryStart, PTL
     DEF SrvMngSpec, ImplementsDirectory, Directory!DirectorySpec

-----------------------------------------------------------------------------
(* What an answered request does when it is executed once more.            *)

LEMMA LoginAgain ==
  ASSUME SrvMngInv, ~AllocMayFail, TrueOf(buffer),
         buffer.m_tag = "LOGIN_REQUEST", GotLogin(buffer)
  PROVE  UNCHANGED m_userMap
<1>. DEFINE u == buffer.m_username
<1>1. u \in UserName
  BY PacketFields DEF SrvMngInv, SrvMngTypeOK
<1>2. PICK res \in UserMngResult : LogInUser(u, buffer.m_password, res)
  BY DEF GotLogin
<1>3. CASE /\ m_userMap[u] \notin {NotFound, NULL}
           /\ m_userMap[u].m_password = buffer.m_password
           /\ m_userMap' = [m_userMap EXCEPT ![u] = ActivateUser(@)]
  <2>1. Active(u)
    BY <1>3 DEF TrueOf, Registered
  <2>2. m_userMap[u] \in User /\ m_userMap[u].m_isActive
    BY <1>1, <1>3, <2>1 DEF SrvMngInv, SrvMngTypeOK, UsrMngTypeOK, Active
  <2>3. ActivateUser(m_userMap[u]) = m_userMap[u]
    BY <2>2 DEF ActivateUser, User
  <2>. QED BY <1>1, <1>3, <2>3 DEF SrvMngInv, SrvMngTypeOK, UsrMngTypeOK
<1>. QED BY <1>2, <1>3 DEF LogInUser

LEMMA LogoutAgain ==
  ASSUME SrvMngInv, ~AllocMayFail, TrueOf(buffer),
         buffer.m_tag = "LOGOUT_REQUEST", GotLogout(buffer)
  PROVE  UNCHANGED <<m_userMap, m_groupMap>>
<1>. DEFINE u == buffer.m_username
<1>. USE DEF SrvMngInv, SrvMngTypeOK
<1>1. u \in UserName
  BY PacketFields
<1>2. CASE ~Registered(u)
  BY <1>2 DEF GotLogout, LogOutUser, grpVars
<1>3. CASE Registered(u)
  <2>1. m_userMap[u] \in User
    BY <1>1, <1>3 DEF UsrMngTypeOK, NoNullUsers, Registered
  <2>2. /\ ~Active(u)
        /\ m_userMap[u].m_groups = {}
        /\ \A g \in GroupName : ~MemberOf(u, g)
    BY <1>3 DEF TrueOf
  <2>3. PICK user \in RemoveAllGroups(DeactivateUser(m_userMap[u])) :
          m_userMap' = [m_userMap EXCEPT ![u] = user]
    BY <1>3 DEF GotLogout, LogOutUser
  <2>4. user = [m_userMap[u] EXCEPT !.m_isActive = FALSE, !.m_groups = {}]
    BY <2>1, <2>3, LogoutRecords
  <2>5. m_userMap[u].m_isActive = FALSE
    BY <2>1, <2>2, UserAssumption DEF Active, User
  <2>6. user = m_userMap[u]
    BY <2>1, <2>2, <2>4, <2>5 DEF User
  <2>7. UNCHANGED m_userMap
    BY <1>1, <2>3, <2>6 DEF UsrMngTypeOK
  <2>8. RemoveUserFromAllGroups(u)
    BY <1>3 DEF GotLogout, LogOutUser
  <2>9. \A g \in GroupName : m_groupMap'[g] = m_groupMap[g]
    <3>1. ASSUME NEW g \in Groups
          PROVE  m_groupMap'[g] = m_groupMap[g]
      <4>1. g \in GroupName /\ m_groupMap[g] \in Group /\ u \notin m_groupMap[g].m_users
        BY <2>2 DEF Groups, GrpMngTypeOK, MemberOf
      <4>2. RemoveUser(m_groupMap[g], u) = m_groupMap[g]
        BY <4>1 DEF RemoveUser, Group
      <4>. QED BY <2>8, <4>1, <4>2 DEF RemoveUserFromAllGroups
    <3>. QED BY <2>8, <3>1 DEF RemoveUserFromAllGroups, Groups
  <2>10. m_groupMap' = [g \in GroupName |-> m_groupMap'[g]]
    BY <2>8 DEF RemoveUserFromAllGroups
  <2>11. UNCHANGED m_groupMap
    BY <2>9, <2>10 DEF GrpMngTypeOK
  <2>. QED BY <2>7, <2>11
<1>. QED BY <1>2, <1>3

LEMMA JoinAgain ==
  ASSUME SrvMngInv, ~AllocMayFail, TrueOf(buffer),
         buffer.m_tag = "GROUP_JOIN_REQUEST", GotJoin(buffer)
  PROVE  UNCHANGED <<m_userMap, m_groupMap>>
BY DEF TrueOf, GotJoin, AddUserToGroup, MemberOf, grpVars

LEMMA ReplayStep ==
  ASSUME SrvMngInv, SrvMngNext
  PROVE  ReplayIsHarmless
<1>. SUFFICES ASSUME ~AllocMayFail, reply # NoReply, buffer' = buffer
              PROVE  UNCHANGED <<m_userMap, m_groupMap>>
  BY DEF ReplayIsHarmless
<1>1. GotMessage(buffer)
  BY ServerStep DEF SrvMngInv
<1>2. TrueOf(buffer)
  BY DEF SrvMngInv, RepliesAreTrue
<1>3. CASE buffer.m_tag = "REGISTER_REQUEST" /\ GotRegister(buffer)
  BY <1>2, <1>3 DEF TrueOf, GotRegister, RegisterNewUser, grpVars
<1>4. CASE buffer.m_tag = "LOGIN_REQUEST" /\ GotLogin(buffer)
  BY <1>2, <1>4, LoginAgain DEF GotLogin, grpVars
<1>5. CASE buffer.m_tag = "LOGOUT_REQUEST" /\ GotLogout(buffer)
  BY <1>2, <1>5, LogoutAgain
<1>6. CASE buffer.m_tag = "GROUP_CREATE_REQUEST" /\ GotCreate(buffer)
  BY <1>2, <1>6 DEF TrueOf, GotCreate, AddNewGroup, grpVars
<1>7. CASE buffer.m_tag = "GROUP_JOIN_REQUEST" /\ GotJoin(buffer)
  BY <1>2, <1>7, JoinAgain
<1>8. CASE buffer.m_tag = "GROUP_ALL_AVAILABLE_REQUEST" /\ GotSeeGroups(buffer)
  BY <1>8 DEF GotSeeGroups, GetAllGroupNames, grpVars
<1>9. CASE buffer.m_tag = "GROUP_LEAVE_REQUEST" /\ GotLeave(buffer)
  BY <1>2, <1>9 DEF TrueOf, GotLeave, RemoveUserFromGroup, MemberOf, grpVars
<1>. QED BY <1>1, <1>3, <1>4, <1>5, <1>6, <1>7, <1>8, <1>9 DEF GotMessage

(* Executing an answered request again, as RunServer does when a           *)
(* connection ends, changes no user and no group (server_net.c).           *)
THEOREM ReplayHarmless == SrvMngSpec => ReplayIsHarmlessAlways
<1>1. SrvMngInv /\ [SrvMngNext]_srvVars => [ReplayIsHarmless]_srvVars
  BY ReplayStep
<1>. QED BY <1>1, SrvMngInvariant, PTL DEF SrvMngSpec, ReplayIsHarmlessAlways

-----------------------------------------------------------------------------
(* Which steps start and end a session.                                    *)
LEMMA SessionStep ==
  ASSUME SrvMngTypeOK, NoNullUsers, UserEffect
  PROVE  SessionsByPassword
<1>. USE DEF SrvMngTypeOK, UsrMngTypeOK
<1>. SUFFICES ASSUME NEW u \in UserName
              PROVE  /\ ~Active(u) /\ Active(u)' =>
                          /\ buffer'.m_tag = "LOGIN_REQUEST"
                          /\ buffer'.m_username = u
                          /\ buffer'.m_password = m_userMap[u].m_password
                     /\ Active(u) /\ ~Active(u)' =>
                          /\ buffer'.m_tag = "LOGOUT_REQUEST"
                          /\ buffer'.m_username = u
  BY DEF SessionsByPassword
<1>1. CASE UNCHANGED m_userMap
  BY <1>1 DEF Active
<1>2. ASSUME NEW v \in UserName, NEW p \in Password,
             NEW user \in {UserCreate(p)} \cup IfAllocFails({NULL}),
             ~Registered(v), m_userMap' = [m_userMap EXCEPT ![v] = user]
      PROVE  Active(u)' = Active(u)
  <2>1. user = NULL \/ user.m_isActive = FALSE
    BY <1>2 DEF UserCreate, IfAllocFails
  <2>. QED BY <1>2, <2>1 DEF Active, Registered
<1>3. ASSUME NEW v \in UserName, m_userMap[v] \in User,
             buffer'.m_tag = "LOGIN_REQUEST",
             buffer'.m_username = v,
             buffer'.m_password = m_userMap[v].m_password,
             m_userMap' = [m_userMap EXCEPT ![v] = ActivateUser(m_userMap[v])]
      PROVE  /\ ~Active(u) /\ Active(u)' => v = u
             /\ Active(u) => Active(u)'
  <2>1. ActivateUser(m_userMap[v]).m_isActive /\ ActivateUser(m_userMap[v]) \in User
    BY <1>3, UserRecords DEF ActivateUser, User
  <2>. QED BY <1>3, <2>1, UserAssumption DEF Active
<1>4. ASSUME NEW v \in UserName, Registered(v),
             NEW user \in RemoveAllGroups(DeactivateUser(m_userMap[v])),
             m_userMap' = [m_userMap EXCEPT ![v] = user]
      PROVE  /\ Active(u)' => Active(u)
             /\ Active(u) /\ ~Active(u)' => v = u
  <2>1. m_userMap[v] \in User \cup {NULL}
    BY <1>4 DEF Registered
  <2>2. user = NULL \/ user.m_isActive = FALSE
    BY <1>4, <2>1, LogoutRecords
  <2>. QED BY <1>4, <2>2 DEF Active
<1>. QED BY <1>1, <1>2, <1>3, <1>4 DEF UserEffect

(* Only the right password starts a session and only a logout ends it      *)
(* (srv_mng.c, usr_mng.c).                                                 *)
THEOREM SessionsNeedPassword == SrvMngSpec => SessionsByPasswordAlways
<1>1. SrvMngInv /\ [SrvMngNext]_srvVars => [SessionsByPassword]_srvVars
  BY UserEffects, SessionStep DEF SrvMngInv
<1>. QED BY <1>1, SrvMngInvariant, PTL DEF SrvMngSpec, SessionsByPasswordAlways

-----------------------------------------------------------------------------
(* A logout that is answered with success, whatever memory runs out.       *)
LEMMA LogoutStep ==
  ASSUME SrvMngTypeOK, SrvMngNext
  PROVE  LogoutClears'
<1>. SUFFICES ASSUME buffer'.m_tag = "LOGOUT_REQUEST", reply'.m_reply = SUCCESS
              PROVE  /\ ~Active(buffer.m_username)'
                     /\ \A g \in GroupName : ~MemberOf(buffer.m_username, g)'
  BY DEF LogoutClears
<1>. DEFINE u == buffer'.m_username
<1>1. u \in UserName /\ GotLogout(buffer')
  BY ServerStep, PacketFields DEF GotMessage
<1>2. PICK user \in RemoveAllGroups(DeactivateUser(m_userMap[u])) :
        /\ Registered(u)
        /\ m_userMap' = [m_userMap EXCEPT ![u] = user]
        /\ RemoveUserFromAllGroups(u)
  BY <1>1 DEF GotLogout, SUCCESS, FAILURE
<1>3. user = NULL \/ user.m_isActive = FALSE
  <2>1. m_userMap[u] \in User \cup {NULL}
    BY <1>1, <1>2 DEF SrvMngTypeOK, UsrMngTypeOK, Registered
  <2>. QED BY <2>1, LogoutRecords
<1>4. ~Active(buffer.m_username)'
  BY <1>1, <1>2, <1>3 DEF Active, SrvMngTypeOK, UsrMngTypeOK
<1>5. ASSUME NEW g \in GroupName, m_groupMap'[g] # NotFound
      PROVE  u \notin m_groupMap'[g].m_users
  <2>1. g \in Groups /\ m_groupMap'[g] = RemoveUser(m_groupMap[g], u)
    BY <1>2, <1>5 DEF RemoveUserFromAllGroups
  <2>2. m_groupMap[g] \in Group
    BY <2>1 DEF SrvMngTypeOK, GrpMngTypeOK, Groups
  <2>. QED BY <2>1, <2>2 DEF RemoveUser, Group
<1>. QED BY <1>4, <1>5 DEF MemberOf, Groups

(* A user whose logout succeeded is in no session and in no group, even if *)
(* the server ran out of memory while logging out (srv_mng.c, user.c).     *)
THEOREM LogoutLeavesNothing == SrvMngSpec => []LogoutClears
<1>1. SrvMngInit => LogoutClears
  BY DEF SrvMngInit, LogoutClears, NoReply
<1>2. SrvMngInv /\ LogoutClears /\ [SrvMngNext]_srvVars => LogoutClears'
  <2>1. SrvMngInv /\ SrvMngNext => LogoutClears'
    BY LogoutStep DEF SrvMngInv
  <2>2. LogoutClears /\ UNCHANGED srvVars => LogoutClears'
    BY DEF LogoutClears, srvVars, Active, MemberOf, Groups
  <2>. QED BY <2>1, <2>2
<1>. QED BY <1>1, <1>2, SrvMngInvariant, PTL DEF SrvMngSpec
=============================================================================
