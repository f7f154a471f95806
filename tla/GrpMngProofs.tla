---------------------------- MODULE GrpMngProofs ----------------------------
(* Proofs about the group manager, for any users, any group names (even    *)
(* infinitely many) and any number of addresses.                           *)
EXTENDS GrpMng, FiniteSetTheorems, SequenceTheorems, TLAPS

GrpMngInv == GrpMngTypeOK /\ Capacity

GroupStepOK == GrpMngInv' /\ AddressIsKept

(* The operations on one record keep the address.                          *)
LEMMA GroupRecords ==
  ASSUME NEW group \in Group, NEW u \in UserName
  PROVE  /\ AddUser(group, u) \in Group
         /\ AddUser(group, u).m_groupIP = group.m_groupIP
         /\ RemoveUser(group, u) \in Group
         /\ RemoveUser(group, u).m_groupIP = group.m_groupIP
<1>1. /\ AddUser(group, u) \in Group
      /\ AddUser(group, u).m_groupIP = group.m_groupIP
  BY DEF Group, AddUser
<1>2. /\ RemoveUser(group, u) \in Group
      /\ RemoveUser(group, u).m_groupIP = group.m_groupIP
  BY DEF Group, RemoveUser
<1>. QED BY <1>1, <1>2

LEMMA KeepGroups ==
  ASSUME GrpMngInv, UNCHANGED grpVars
  PROVE  GroupStepOK
BY DEF GroupStepOK, GrpMngInv, GrpMngTypeOK, Capacity, AddressIsKept, Groups, grpVars

(* A step that rewrites some groups and keeps their addresses.             *)
LEMMA EditGroups ==
  ASSUME GrpMngInv,
         UNCHANGED m_groupsID,
         m_groupMap' \in [GroupName -> {NotFound} \cup Group],
         \A g \in GroupName :
           /\ (m_groupMap[g] = NotFound) <=> (m_groupMap'[g] = NotFound)
           /\ m_groupMap[g] # NotFound => m_groupMap'[g].m_groupIP = m_groupMap[g].m_groupIP
  PROVE  GroupStepOK
<1>1. Groups' = Groups
  BY DEF Groups
<1>. QED BY <1>1 DEF GroupStepOK, GrpMngInv, GrpMngTypeOK, Capacity, AddressIsKept, Groups

(* A step that rewrites one group and keeps its address.                   *)
LEMMA EditGroup ==
  ASSUME GrpMngInv,
         UNCHANGED m_groupsID,
         NEW g \in Groups,
         NEW group \in Group,
         group.m_groupIP = m_groupMap[g].m_groupIP,
         m_groupMap' = [m_groupMap EXCEPT ![g] = group]
  PROVE  GroupStepOK
<1>1. m_groupMap' \in [GroupName -> {NotFound} \cup Group]
  BY DEF GrpMngInv, GrpMngTypeOK, Groups
<1>2. ASSUME NEW h \in GroupName
      PROVE  /\ (m_groupMap[h] = NotFound) <=> (m_groupMap'[h] = NotFound)
             /\ m_groupMap[h] # NotFound =>
                  m_groupMap'[h].m_groupIP = m_groupMap[h].m_groupIP
  <2>1. CASE h = g
    BY <2>1, GroupAssumption DEF Groups, GrpMngInv, GrpMngTypeOK
  <2>2. CASE h # g
    BY <2>2 DEF Groups, GrpMngInv, GrpMngTypeOK
  <2>. QED BY <2>1, <2>2
<1>. QED BY <1>1, <1>2, EditGroups

(* What is known of the queue after its first pointer was taken.           *)
LEMMA TakeAddress ==
  ASSUME GrpMngTypeOK, m_groupsID # <<>>
  PROVE  /\ Head(m_groupsID) \in Address \cup {Stale}
         /\ Tail(m_groupsID) \in Seq(Address \cup {Stale})
         /\ Len(m_groupsID) \in Nat \ {0}
         /\ Len(Tail(m_groupsID)) = Len(m_groupsID) - 1
         /\ ReadIP(Head(m_groupsID)) \subseteq Address \cup {NoAddress}
<1>. DEFINE S == Address \cup {Stale}
<1>1. m_groupsID \in Seq(S)
  BY DEF GrpMngTypeOK
<1>2. /\ Head(m_groupsID) \in S
      /\ Tail(m_groupsID) \in Seq(S)
      /\ Len(Tail(m_groupsID)) = Len(m_groupsID) - 1
  BY <1>1, HeadTailProperties
<1>3. Len(m_groupsID) \in Nat \ {0}
  BY <1>1, EmptySeq
<1>4. ReadIP(Head(m_groupsID)) \subseteq Address \cup {NoAddress}
  BY <1>2 DEF ReadIP
<1>. QED BY <1>2, <1>3, <1>4

LEMMA AddNewGroupStep ==
  ASSUME GrpMngInv, NEW g \in GroupName, NEW res, NEW ip, AddNewGroup(g, res, ip)
  PROVE  GroupStepOK
<1>1. CASE UNCHANGED grpVars
  BY <1>1, KeepGroups
<1>2. ASSUME m_groupsID # <<>>, m_groupsID' = Tail(m_groupsID), UNCHANGED m_groupMap
      PROVE  GroupStepOK
  <2>1. Groups' = Groups /\ Cardinality(Groups) \in Nat
    BY <1>2, FS_CardinalityType DEF Groups, GrpMngInv, Capacity
  <2>2. Capacity'
    BY <1>2, <2>1, TakeAddress, DataAssumption DEF GrpMngInv, Capacity
  <2>3. GrpMngTypeOK'
    BY <1>2, TakeAddress DEF GrpMngInv, GrpMngTypeOK
  <2>. QED BY <1>2, <2>2, <2>3 DEF GroupStepOK, GrpMngInv, AddressIsKept, Groups
<1>3. ASSUME m_groupsID # <<>>, m_groupsID' = Tail(m_groupsID), g \notin Groups,
             NEW stored \in ReadIP(Head(m_groupsID)),
             m_groupMap' = [m_groupMap EXCEPT ![g] = GroupCreate(stored)]
      PROVE  GroupStepOK
  <2>1. GroupCreate(stored) \in Group
    BY <1>3, TakeAddress DEF GrpMngInv, GroupCreate, Group
  <2>2. GrpMngTypeOK'
    BY <1>3, <2>1, TakeAddress DEF GrpMngInv, GrpMngTypeOK
  <2>3. Groups' = Groups \cup {g}
    BY <1>3, <2>1, GroupAssumption DEF Groups, GrpMngInv, GrpMngTypeOK
  <2>4. /\ IsFiniteSet(Groups')
        /\ Cardinality(Groups') = Cardinality(Groups) + 1
        /\ Cardinality(Groups) \in Nat
    BY <1>3, <2>3, FS_AddElement, FS_CardinalityType DEF GrpMngInv, Capacity
  <2>5. Capacity'
    BY <1>3, <2>4, TakeAddress, DataAssumption DEF GrpMngInv, Capacity
  <2>6. AddressIsKept
    BY <1>3 DEF AddressIsKept, Groups, GrpMngInv, GrpMngTypeOK
  <2>. QED BY <2>2, <2>5, <2>6 DEF GroupStepOK, GrpMngInv
<1>. QED BY <1>1, <1>2, <1>3 DEF AddNewGroup

LEMMA DeleteGroupStep ==
  ASSUME GrpMngInv, NEW g \in GroupName, NEW res, DeleteGroup(g, res)
  PROVE  GroupStepOK
<1>1. CASE UNCHANGED grpVars
  BY <1>1, KeepGroups
<1>2. CASE /\ g \in Groups
           /\ m_groupMap' = [m_groupMap EXCEPT ![g] = NotFound]
           /\ m_groupsID' = QueueInsert(m_groupsID, Stale)
  <2>1. Groups' = Groups \ {g}
    BY <1>2 DEF Groups, GrpMngInv, GrpMngTypeOK
  <2>2. /\ IsFiniteSet(Groups')
        /\ Cardinality(Groups') = Cardinality(Groups) - 1
        /\ Cardinality(Groups) \in Nat
    BY <1>2, <2>1, FS_RemoveElement, FS_CardinalityType DEF GrpMngInv, Capacity
  <2>3. /\ m_groupsID \in Seq(Address \cup {Stale})
        /\ Len(m_groupsID) \in Nat
    BY LenProperties DEF GrpMngInv, GrpMngTypeOK
  <2>4. /\ m_groupsID' \in Seq(Address \cup {Stale})
        /\ Len(m_groupsID') <= Len(m_groupsID) + 1
        /\ Len(m_groupsID') \in Nat
    <3>1. CASE Len(m_groupsID) < QUEUE_SIZE
      BY <1>2, <2>3, <3>1, AppendProperties DEF QueueInsert
    <3>2. CASE ~(Len(m_groupsID) < QUEUE_SIZE)
      BY <1>2, <2>3, <3>2 DEF QueueInsert
    <3>. QED BY <3>1, <3>2
  <2>5. Capacity'
    BY <2>2, <2>3, <2>4, DataAssumption DEF GrpMngInv, Capacity
  <2>6. GrpMngTypeOK'
    BY <1>2, <2>4 DEF GrpMngInv, GrpMngTypeOK
  <2>7. AddressIsKept
    BY <1>2 DEF AddressIsKept, Groups, GrpMngInv, GrpMngTypeOK
  <2>. QED BY <2>5, <2>6, <2>7 DEF GroupStepOK, GrpMngInv
<1>. QED BY <1>1, <1>2 DEF DeleteGroup

LEMMA GroupIsRecord ==
  ASSUME GrpMngInv, NEW g \in Groups
  PROVE  g \in GroupName /\ m_groupMap[g] \in Group
BY DEF GrpMngInv, GrpMngTypeOK, Groups

LEMMA AddUserStep ==
  ASSUME GrpMngInv, NEW u \in UserName, NEW g \in GroupName, NEW res, NEW ip,
         AddUserToGroup(u, g, res, ip)
  PROVE  GroupStepOK
<1>1. CASE UNCHANGED grpVars
  BY <1>1, KeepGroups
<1>2. CASE /\ g \in Groups
           /\ m_groupMap' = [m_groupMap EXCEPT ![g] = AddUser(@, u)]
           /\ UNCHANGED m_groupsID
  BY <1>2, GroupIsRecord, GroupRecords, EditGroup
<1>. QED BY <1>1, <1>2 DEF AddUserToGroup, grpVars

LEMMA RemoveUserStep ==
  ASSUME GrpMngInv, NEW u \in UserName, NEW g \in GroupName, NEW res,
         RemoveUserFromGroup(u, g, res)
  PROVE  GroupStepOK
<1>1. CASE UNCHANGED grpVars
  BY <1>1, KeepGroups
<1>2. CASE /\ g \in Groups
           /\ m_groupMap' = [m_groupMap EXCEPT ![g] = RemoveUser(@, u)]
           /\ UNCHANGED m_groupsID
  BY <1>2, GroupIsRecord, GroupRecords, EditGroup
<1>. QED BY <1>1, <1>2 DEF RemoveUserFromGroup

LEMMA RemoveUserFromAllStep ==
  ASSUME GrpMngInv, NEW u \in UserName, RemoveUserFromAllGroups(u)
  PROVE  GroupStepOK
<1>. DEFINE after(g) == IF g \in Groups THEN RemoveUser(m_groupMap[g], u) ELSE NotFound
<1>1. UNCHANGED m_groupsID /\ m_groupMap' = [g \in GroupName |-> after(g)]
  BY DEF RemoveUserFromAllGroups
<1>2. ASSUME NEW g \in GroupName
      PROVE  /\ after(g) \in {NotFound} \cup Group
             /\ (m_groupMap[g] = NotFound) <=> (after(g) = NotFound)
             /\ m_groupMap[g] # NotFound => after(g).m_groupIP = m_groupMap[g].m_groupIP
  <2>1. CASE g \in Groups
    <3>1. after(g) = RemoveUser(m_groupMap[g], u)
      BY <2>1
    <3>2. after(g) \in Group /\ after(g).m_groupIP = m_groupMap[g].m_groupIP
      BY <2>1, <3>1, GroupIsRecord, GroupRecords
    <3>. QED BY <2>1, <3>2, GroupAssumption DEF Groups
  <2>2. CASE g \notin Groups
    BY <2>2 DEF Groups
  <2>. QED BY <2>1, <2>2
<1>. HIDE DEF after
<1>. QED BY <1>1, <1>2, EditGroups

(* With memory for the vector, Capacity leaves a place for every name.     *)
LEMMA NamesAreComplete ==
  ASSUME GrpMngInv, ~AllocMayFail, NEW names, GetAllGroupNames(names)
  PROVE  names = Groups
<1>1. /\ names \in SUBSET Groups
      /\ Cardinality(names) = IF Cardinality(Groups) < QUEUE_SIZE
                              THEN Cardinality(Groups) ELSE QUEUE_SIZE
  BY DEF GetAllGroupNames, VectorCapacity
<1>2. Cardinality(Groups) \in Nat /\ Len(m_groupsID) \in Nat
  BY FS_CardinalityType, LenProperties DEF GrpMngInv, Capacity, GrpMngTypeOK
<1>3. Cardinality(names) = Cardinality(Groups)
  BY <1>1, <1>2, DataAssumption DEF GrpMngInv, Capacity
<1>. QED BY <1>1, <1>3, FS_Subset DEF GrpMngInv, Capacity

LEMMA GrpMngStep ==
  ASSUME GrpMngInv, GrpMngNext
  PROVE  GroupStepOK
<1>1. PICK res \in GroupMngResult, g \in GroupName :
        \/ \E ip \in Address \cup {NoAddress} : AddNewGroup(g, res, ip)
        \/ DeleteGroup(g, res)
        \/ \E u \in UserName, ip \in Address \cup {NoAddress} : AddUserToGroup(u, g, res, ip)
        \/ \E u \in UserName : RemoveUserFromGroup(u, g, res) \/ RemoveUserFromAllGroups(u)
        \/ \E names \in SUBSET GroupName : GetAllGroupNames(names)
  BY DEF GrpMngNext
<1>2. CASE \E ip \in Address \cup {NoAddress} : AddNewGroup(g, res, ip)
  BY <1>2, AddNewGroupStep
<1>3. CASE DeleteGroup(g, res)
  BY <1>3, DeleteGroupStep
<1>4. CASE \E u \in UserName, ip \in Address \cup {NoAddress} : AddUserToGroup(u, g, res, ip)
  BY <1>4, AddUserStep
<1>5. CASE \E u \in UserName : RemoveUserFromGroup(u, g, res) \/ RemoveUserFromAllGroups(u)
  BY <1>5, RemoveUserStep, RemoveUserFromAllStep
<1>6. CASE \E names \in SUBSET GroupName : GetAllGroupNames(names)
  BY <1>6, KeepGroups DEF GetAllGroupNames
<1>. QED BY <1>1, <1>2, <1>3, <1>4, <1>5, <1>6

LEMMA GrpMngStart == GrpMngInit => GrpMngInv
<1>. SUFFICES ASSUME GrpMngInit PROVE GrpMngInv
  OBVIOUS
<1>1. Groups = {}
  BY DEF GrpMngInit, Groups
<1>2. m_groupsID \in Seq(Address \cup {Stale}) /\ Len(m_groupsID) = QUEUE_SIZE
  BY DataAssumption DEF GrpMngInit, Address
<1>3. Capacity
  BY <1>1, <1>2, FS_EmptySet, DataAssumption DEF Capacity
<1>. QED BY <1>2, <1>3 DEF GrpMngInit, GrpMngInv, GrpMngTypeOK

-----------------------------------------------------------------------------
(* GrpMngInv is inductive.                                                 *)
LEMMA GrpMngInvariant == GrpMngSpec => []GrpMngInv
<1>1. GrpMngInv /\ [GrpMngNext]_grpVars => GrpMngInv'
  BY GrpMngStep, KeepGroups DEF GroupStepOK
<1>. QED BY GrpMngStart, <1>1, PTL DEF GrpMngSpec

(* The group map holds complete records or absent keys and the queue       *)
(* nothing but addresses and freed pointers (grp_mng.c, group.c).          *)
THEOREM GrpMngTypeCorrect == GrpMngSpec => []GrpMngTypeOK
BY GrpMngInvariant, PTL DEF GrpMngInv

(* However groups are created and deleted, there are never more addresses  *)
(* and groups than the queue of grp_mng.c has places.                      *)
THEOREM CapacityHolds == GrpMngSpec => []Capacity
BY GrpMngInvariant, PTL DEF GrpMngInv

(* A group never changes its address (grp_mng.c, group.c).                 *)
THEOREM AddressKept == GrpMngSpec => AddressIsKeptAlways
<1>1. GrpMngInv /\ [GrpMngNext]_grpVars => [AddressIsKept]_grpVars
  BY GrpMngStep DEF GroupStepOK
<1>. QED BY GrpMngInvariant, <1>1, PTL DEF GrpMngSpec, AddressIsKeptAlways
=============================================================================
