--------------------------- MODULE SrvMemoryProofs ---------------------------
(***************************************************************************)
(* Proofs about the memory that names live in, for any number of blocks,   *)
(* users, passwords and groups.                                            *)
(***************************************************************************)
EXTENDS SrvMemory, FiniteSetTheorems, SequenceTheorems, TLAPS

(* KeysAreOwned, map by map.                                               *)
UserKeysOK ==
  /\ \A k \in Keys(m_userMap) : memory[k] \in UserName
  /\ Unambiguous(Keys(m_userMap))

GroupKeysOK ==
  /\ \A k \in Keys(m_groupMap) : memory[k] \in GroupName
  /\ Unambiguous(Keys(m_groupMap))

MembersOK ==
  /\ \A k \in Keys(m_groupMap) :
       /\ \A b \in m_groupMap[k].m_users : memory[b] \in UserName
       /\ Unambiguous(m_groupMap[k].m_users)
  /\ \A k, l \in Keys(m_groupMap) :
       k # l => m_groupMap[k].m_users \cap m_groupMap[l].m_users = {}

MapsApart ==
  \A k \in Keys(m_groupMap) : Keys(m_userMap) \cap m_groupMap[k].m_users = {}

LEMMA OwnedInParts ==
  /\ KeysAreOwned <=> UserKeysOK /\ GroupKeysOK /\ MembersOK /\ MapsApart
  /\ KeysAreOwned' <=> UserKeysOK' /\ GroupKeysOK' /\ MembersOK' /\ MapsApart'
<1>1. /\ \A b : b \in Members <=> \E k \in Keys(m_groupMap) : b \in m_groupMap[k].m_users
      /\ \A b : b \in Members' <=> \E k \in Keys(m_groupMap)' : b \in m_groupMap'[k].m_users
  BY DEF Members
<1>2. KeysAreOwned <=> UserKeysOK /\ GroupKeysOK /\ MembersOK /\ MapsApart
  BY <1>1 DEF KeysAreOwned, UserKeysOK, GroupKeysOK, MembersOK, MapsApart
<1>3. KeysAreOwned' <=> UserKeysOK' /\ GroupKeysOK' /\ MembersOK' /\ MapsApart'
  BY <1>1 DEF KeysAreOwned, UserKeysOK, GroupKeysOK, MembersOK, MapsApart
<1>. QED BY <1>2, <1>3

-----------------------------------------------------------------------------
(* What a step may do to the blocks and to the keys.                       *)

(* Only a free block gets a new content.                                   *)
Frozen == \A b \in Block : memory[b] # Free => memory'[b] = memory[b]

(* An address is taken from the front of the queue.                        *)
Took == m_groupsID # <<>> /\ m_groupsID' = Tail(m_groupsID)

KeysStay == Keys(m_userMap)' = Keys(m_userMap)

MembersShrink ==
  /\ Keys(m_groupMap)' = Keys(m_groupMap)
  /\ \A k \in Keys(m_groupMap) : m_groupMap'[k].m_users \subseteq m_groupMap[k].m_users

UserAdded(n, u) ==
  /\ n \in Block /\ memory[n] = Free /\ memory'[n] = u
  /\ u \in UserName /\ HashMapFind(m_userMap, u) = {}
  /\ Keys(m_userMap)' = Keys(m_userMap) \cup {n}

GroupAdded(n, g) ==
  /\ n \in Block /\ memory[n] = Free /\ memory'[n] = g
  /\ g \in GroupName /\ HashMapFind(m_groupMap, g) = {}
  /\ Keys(m_groupMap)' = Keys(m_groupMap) \cup {n}
  /\ m_groupMap'[n].m_users = {}
  /\ Took
  /\ \A k \in Keys(m_groupMap) : m_groupMap'[k] = m_groupMap[k]

MemberAdded(k, r, u) ==
  /\ k \in Keys(m_groupMap)
  /\ r \in Block /\ memory[r] = Free /\ memory'[r] = u
  /\ u \in UserName /\ EqualTo(u, m_groupMap[k].m_users) = {}
  /\ Keys(m_groupMap)' = Keys(m_groupMap)
  /\ m_groupMap'[k].m_users = m_groupMap[k].m_users \cup {r}
  /\ \A l \in Keys(m_groupMap) \ {k} : m_groupMap'[l] = m_groupMap[l]

KeyEffect ==
  /\ Frozen
  /\ UNCHANGED m_groupsID \/ Took
  /\ \/ MembersShrink /\ (KeysStay \/ \E n, u : UserAdded(n, u))
     \/ KeysStay /\ \E n, g : GroupAdded(n, g)
     \/ KeysStay /\ \E k, r, u : MemberAdded(k, r, u)

(* Keys are not free blocks, so their content stays.                       *)
LEMMA KeysKeepNames ==
  ASSUME MemTypeOK, KeysAreOwned, Frozen
  PROVE  /\ \A k \in Keys(m_userMap) :
              k \in Block /\ memory[k] # Free /\ memory'[k] = memory[k]
         /\ \A k \in Keys(m_groupMap) :
              /\ k \in Block /\ memory[k] # Free /\ memory'[k] = memory[k]
              /\ m_groupMap[k] \in GroupStruct
              /\ \A b \in m_groupMap[k].m_users :
                   b \in Block /\ memory[b] # Free /\ memory'[b] = memory[b]
<1>1. UserKeysOK /\ GroupKeysOK /\ MembersOK
  BY OwnedInParts
<1>2. \A k \in Keys(m_userMap) : k \in Block /\ memory[k] # Free /\ memory'[k] = memory[k]
  BY <1>1, MemoryAssumption DEF UserKeysOK, Frozen, Keys
<1>3. ASSUME NEW k \in Keys(m_groupMap)
      PROVE  /\ k \in Block /\ memory[k] # Free /\ memory'[k] = memory[k]
             /\ m_groupMap[k] \in GroupStruct
  BY <1>1, MemoryAssumption DEF GroupKeysOK, Frozen, Keys, MemTypeOK
<1>4. ASSUME NEW k \in Keys(m_groupMap), NEW b \in m_groupMap[k].m_users
      PROVE  b \in Block /\ memory[b] # Free /\ memory'[b] = memory[b]
  <2>1. b \in Block
    BY <1>3 DEF GroupStruct
  <2>. QED BY <1>1, <2>1, MemoryAssumption DEF MembersOK, Frozen
<1>. QED BY <1>2, <1>3, <1>4

LEMMA KeysStayOwned ==
  ASSUME MemTypeOK, KeysAreOwned, KeyEffect
  PROVE  KeysAreOwned'
<1>1. UserKeysOK /\ GroupKeysOK /\ MembersOK /\ MapsApart /\ Frozen
  BY OwnedInParts DEF KeyEffect
<1>2. UserKeysOK'
  <2>1. CASE KeysStay
    BY <1>1, <2>1, KeysKeepNames DEF UserKeysOK, KeysStay, Unambiguous
  <2>2. ASSUME NEW n, NEW u, UserAdded(n, u) PROVE UserKeysOK'
    <3>1. \A k \in Keys(m_userMap) : memory'[k] = memory[k] /\ memory[k] # u
      BY <1>1, <2>2, KeysKeepNames DEF UserAdded, HashMapFind, EqualTo
    <3>. QED BY <1>1, <2>2, <3>1 DEF UserKeysOK, UserAdded, Unambiguous
  <2>. QED BY <2>1, <2>2 DEF KeyEffect
<1>3. GroupKeysOK'
  <2>1. CASE Keys(m_groupMap)' = Keys(m_groupMap)
    BY <1>1, <2>1, KeysKeepNames DEF GroupKeysOK, Unambiguous
  <2>2. ASSUME NEW n, NEW g, GroupAdded(n, g) PROVE GroupKeysOK'
    <3>1. \A k \in Keys(m_groupMap) : memory'[k] = memory[k] /\ memory[k] # g
      BY <1>1, <2>2, KeysKeepNames DEF GroupAdded, HashMapFind, EqualTo
    <3>. QED BY <1>1, <2>2, <3>1 DEF GroupKeysOK, GroupAdded, Unambiguous
  <2>. QED BY <2>1, <2>2 DEF KeyEffect, MembersShrink, MemberAdded
<1>4. MembersOK' /\ MapsApart'
  <2>1. CASE MembersShrink /\ KeysStay
    BY <1>1, <2>1, KeysKeepNames DEF MembersOK, MapsApart, MembersShrink, KeysStay, Unambiguous
  <2>2. ASSUME MembersShrink, NEW n, NEW u, UserAdded(n, u) PROVE MembersOK' /\ MapsApart'
    <3>1. MembersOK'
      BY <1>1, <2>2, KeysKeepNames DEF MembersOK, MembersShrink, Unambiguous
    <3>2. \A k \in Keys(m_groupMap) : n \notin m_groupMap[k].m_users
      BY <1>1, <2>2, KeysKeepNames DEF UserAdded
    <3>. QED BY <1>1, <2>2, <3>1, <3>2 DEF MapsApart, MembersShrink, UserAdded
  <2>3. ASSUME KeysStay, NEW n, NEW g, GroupAdded(n, g) PROVE MembersOK' /\ MapsApart'
    <3>1. \A k \in Keys(m_groupMap)' :
            \/ k \in Keys(m_groupMap) /\ m_groupMap'[k] = m_groupMap[k]
            \/ k = n /\ m_groupMap'[k].m_users = {}
      BY <2>3 DEF GroupAdded
    <3>2. MembersOK'
      BY <1>1, <3>1, KeysKeepNames DEF MembersOK, Unambiguous
    <3>. QED BY <1>1, <2>3, <3>1, <3>2 DEF MapsApart, KeysStay
  <2>4. ASSUME KeysStay, NEW k, NEW r, NEW u, MemberAdded(k, r, u)
        PROVE  MembersOK' /\ MapsApart'
    <3>1. \A l \in Keys(m_groupMap) :
            r \notin m_groupMap[l].m_users /\ r \notin Keys(m_userMap)
      BY <1>1, <2>4, KeysKeepNames DEF MemberAdded
    <3>2. \A b \in m_groupMap[k].m_users : memory[b] # u
      BY <2>4 DEF MemberAdded, EqualTo
    <3>3. \A l \in Keys(m_groupMap)' :
            /\ l \in Keys(m_groupMap)
            /\ IF l = k THEN m_groupMap'[l].m_users = m_groupMap[l].m_users \cup {r}
                        ELSE m_groupMap'[l].m_users = m_groupMap[l].m_users
      BY <2>4 DEF MemberAdded
    <3>4. \A l \in Keys(m_groupMap)' :
            (\A b \in m_groupMap'[l].m_users : memory'[b] \in UserName)
      BY <1>1, <2>4, <3>3, KeysKeepNames DEF MembersOK, MemberAdded
    <3>5. ASSUME NEW l \in Keys(m_groupMap)' PROVE Unambiguous(m_groupMap[l].m_users)'
      BY <1>1, <2>4, <3>2, <3>3, KeysKeepNames DEF MembersOK, MemberAdded, Unambiguous
    <3>6. \A l, h \in Keys(m_groupMap)' :
            l # h => m_groupMap'[l].m_users \cap m_groupMap'[h].m_users = {}
      BY <1>1, <3>1, <3>3 DEF MembersOK
    <3>7. MapsApart'
      BY <1>1, <2>4, <3>1, <3>3 DEF MapsApart, KeysStay
    <3>. QED BY <3>4, <3>5, <3>6, <3>7 DEF MembersOK
  <2>. QED BY <2>1, <2>2, <2>3, <2>4 DEF KeyEffect
<1>. QED BY <1>2, <1>3, <1>4, OwnedInParts
-----------------------------------------------------------------------------
(* The cases of GotMessage: types, and what happens to the keys.           *)

(* The fields of a request, by its tag.                                    *)
LEMMA RequestFields ==
  ASSUME NEW m \in Request \cup {Unhandled} \cup WildBytes
  PROVE  /\ m.m_tag \in {"REGISTER_REQUEST", "LOGIN_REQUEST"} =>
              m.m_username \in UserName /\ m.m_password \in Password
         /\ m.m_tag = "LOGOUT_REQUEST" => m.m_username \in UserName
         /\ m.m_tag \in {"GROUP_CREATE_REQUEST", "GROUP_JOIN_REQUEST", "GROUP_LEAVE_REQUEST"} =>
              m.m_username \in UserName /\ m.m_groupName \in GroupName
BY DataAssumption
   DEF Request, RegisterOrLoginRequest, GrpReqStruct, LogOutOrSeeGroupsReq, Unhandled

MapsTypeOK ==
  /\ memory \in [Block -> {Free} \cup UserName \cup GroupName]
  /\ m_userMap \in [Block -> {NotFound, NULL} \cup Account]
  /\ m_groupMap \in [Block -> {NotFound} \cup GroupStruct]
  /\ m_groupsID \in Seq(Address)

StepOK == MapsTypeOK' /\ KeyEffect /\ reply' \in AnyReply \cup {NoReply}

LEMMA PutName ==
  ASSUME MemTypeOK, NEW r \in Malloc({}), NEW name \in {Free} \cup UserName \cup GroupName
  PROVE  /\ Put(r, name) \in [Block -> {Free} \cup UserName \cup GroupName]
         /\ r \in Block /\ memory[r] = Free /\ Put(r, name)[r] = name
         /\ \A b \in Block \ {r} : Put(r, name)[b] = memory[b]
         /\ memory' = Put(r, name) => Frozen /\ memory'[r] = name
         /\ Put(r, Free) = memory
BY DEF MemTypeOK, Malloc, Put, Frozen

LEMMA MapsUntouched ==
  ASSUME MemTypeOK, UNCHANGED m_groupMap
  PROVE  MembersShrink
BY DEF MembersShrink, Keys

LEMMA RegisterOK ==
  ASSUME MemTypeOK, KeysAreOwned, NEW m, m.m_username \in UserName, m.m_password \in Password,
         NEW r \in Malloc({}), GotRegister(m, r)
  PROVE  StepOK
<1>. DEFINE u == m.m_username
<1>1. reply' \in AnyReply /\ UNCHANGED <<m_groupMap, m_groupsID>>
  BY DEF GotRegister, Result, AnyReply, Reply
<1>2. ASSUME NEW n \in Malloc({r}), memory' = [Put(r, u) EXCEPT ![n] = u]
      PROVE  /\ n \in Block /\ memory[n] = Free /\ memory'[n] = u /\ Frozen
             /\ memory' \in [Block -> {Free} \cup UserName \cup GroupName]
  <2>1. n \in Block /\ n # r /\ memory[n] = Free
    BY DEF Malloc
  <2>. QED BY <1>2, <2>1, PutName DEF Frozen
<1>3. ASSUME NEW n \in Malloc({r}), memory' = [Put(r, u) EXCEPT ![n] = u],
             UNCHANGED m_userMap
      PROVE  StepOK
  BY <1>1, <1>2, <1>3, MapsUntouched
  DEF StepOK, MapsTypeOK, MemTypeOK, KeyEffect, KeysStay, Keys
<1>4. ASSUME NEW n \in Malloc({r}), memory' = [Put(r, u) EXCEPT ![n] = u],
             HashMapFind(m_userMap, u) = {},
             NEW user \in {NULL, [m_password |-> m.m_password, m_isActive |-> FALSE]},
             m_userMap' = [m_userMap EXCEPT ![n] = user]
      PROVE  StepOK
  <2>1. user \in {NULL} \cup Account /\ user # NotFound
    <3>1. user = NULL \/ user = [m_password |-> m.m_password, m_isActive |-> FALSE]
      BY <1>4
    <3>2. [m_password |-> m.m_password, m_isActive |-> FALSE] \in Account
      BY DEF Account
    <3>. QED BY <3>1, <3>2, MemoryAssumption, DataAssumption
  <2>2. m_userMap' \in [Block -> {NotFound, NULL} \cup Account]
    BY <1>2, <1>4, <2>1 DEF MemTypeOK
  <2>3. Keys(m_userMap)' = Keys(m_userMap) \cup {n}
    BY <1>2, <1>4, <2>1 DEF Keys, MemTypeOK
  <2>4. UserAdded(n, u)
    BY <1>2, <1>4, <2>3 DEF UserAdded
  <2>. QED BY <1>1, <1>2, <1>4, <2>2, <2>4, MapsUntouched DEF StepOK, MapsTypeOK, MemTypeOK, KeyEffect
<1>5. CASE memory' = Put(r, u) /\ UNCHANGED m_userMap
  BY <1>1, <1>5, PutName, MapsUntouched
  DEF StepOK, MapsTypeOK, MemTypeOK, KeyEffect, KeysStay, Keys
<1>. QED BY <1>3, <1>4, <1>5 DEF GotRegister

(* An account that logs in or out stays where it is.                       *)
LEMMA SetActive ==
  ASSUME MemTypeOK, NEW keys \in SUBSET Accounts(Keys(m_userMap)), NEW active \in BOOLEAN,
         m_userMap' = [k \in Block |->
           IF k \in keys THEN [m_userMap[k] EXCEPT !.m_isActive = active] ELSE m_userMap[k]]
  PROVE  m_userMap' \in [Block -> {NotFound, NULL} \cup Account] /\ KeysStay
<1>1. \A k \in keys : [m_userMap[k] EXCEPT !.m_isActive = active] \in Account
  BY DEF MemTypeOK, Keys, Accounts, Account
<1>2. m_userMap' \in [Block -> {NotFound, NULL} \cup Account]
  BY <1>1 DEF MemTypeOK
<1>3. \A k \in Block : m_userMap'[k] # NotFound <=> m_userMap[k] # NotFound
  <2>1. \A k \in keys : m_userMap'[k] = [m_userMap[k] EXCEPT !.m_isActive = active]
    BY DEF Accounts, Keys
  <2>2. \A k \in keys : m_userMap'[k] # NotFound /\ m_userMap[k] # NotFound
    BY <1>1, <2>1, MemoryAssumption DEF Accounts, Keys
  <2>3. \A k \in Block \ keys : m_userMap'[k] = m_userMap[k]
    OBVIOUS
  <2>. QED BY <2>2, <2>3
<1>. QED BY <1>2, <1>3 DEF KeysStay, Keys

LEMMA LoginOK ==
  ASSUME MemTypeOK, NEW m, NEW r \in Malloc({}), GotLogin(m, r)
  PROVE  StepOK
<1>1. \E keys \in SUBSET Accounts(Keys(m_userMap)) :
        m_userMap' = [k \in Block |->
          IF k \in keys THEN [m_userMap[k] EXCEPT !.m_isActive = TRUE] ELSE m_userMap[k]]
  BY DEF GotLogin, HashMapFind, EqualTo, Accounts
<1>2. m_userMap' \in [Block -> {NotFound, NULL} \cup Account] /\ KeysStay
  BY <1>1, SetActive
<1>3. memory' = memory /\ UNCHANGED <<m_groupMap, m_groupsID>>
  BY PutName DEF GotLogin
<1>4. reply' \in AnyReply
  BY DEF GotLogin, Result, AnyReply, Reply
<1>. QED BY <1>2, <1>3, <1>4, MapsUntouched DEF StepOK, MapsTypeOK, MemTypeOK, KeyEffect, Frozen

(* A group of which members are struck off stays where it is.              *)
LEMMA StrikeOff ==
  ASSUME MemTypeOK, NEW u, NEW keys \in SUBSET Keys(m_groupMap),
         m_groupMap' = [k \in Block |-> IF k \in keys
           THEN [m_groupMap[k] EXCEPT !.m_users = @ \ EqualTo(u, @)] ELSE m_groupMap[k]]
  PROVE  m_groupMap' \in [Block -> {NotFound} \cup GroupStruct] /\ MembersShrink
<1>1. \A k \in keys :
        /\ [m_groupMap[k] EXCEPT !.m_users = @ \ EqualTo(u, @)] \in GroupStruct
        /\ [m_groupMap[k] EXCEPT !.m_users = @ \ EqualTo(u, @)].m_users \subseteq m_groupMap[k].m_users
  BY DEF MemTypeOK, Keys, GroupStruct
<1>2. m_groupMap' \in [Block -> {NotFound} \cup GroupStruct]
  BY <1>1 DEF MemTypeOK
<1>3. \A k \in Block : m_groupMap'[k] # NotFound <=> m_groupMap[k] # NotFound
  BY <1>1, MemoryAssumption DEF MemTypeOK, Keys
<1>4. \A k \in Keys(m_groupMap) : m_groupMap'[k].m_users \subseteq m_groupMap[k].m_users
  BY <1>1 DEF Keys
<1>. QED BY <1>2, <1>3, <1>4 DEF MembersShrink, Keys

LEMMA LogoutOK ==
  ASSUME MemTypeOK, NEW m, NEW r \in Malloc({}), GotLogout(m, r)
  PROVE  StepOK
<1>1. \E keys \in SUBSET Accounts(Keys(m_userMap)) :
        m_userMap' = [k \in Block |->
          IF k \in keys THEN [m_userMap[k] EXCEPT !.m_isActive = FALSE] ELSE m_userMap[k]]
  BY DEF GotLogout, HashMapFind, EqualTo, Accounts
<1>2. m_userMap' \in [Block -> {NotFound, NULL} \cup Account] /\ KeysStay
  BY <1>1, SetActive
<1>3. memory' = memory /\ UNCHANGED m_groupsID
  BY PutName DEF GotLogout
<1>4. m_groupMap' \in [Block -> {NotFound} \cup GroupStruct] /\ MembersShrink
  <2>1. CASE UNCHANGED m_groupMap
    BY <2>1, MapsUntouched DEF MemTypeOK
  <2>2. CASE m_groupMap' = [k \in Block |-> IF k \in Keys(m_groupMap)
          THEN [m_groupMap[k] EXCEPT !.m_users = @ \ EqualTo(m.m_username, @)] ELSE NotFound]
    <3>1. m_groupMap' = [k \in Block |-> IF k \in Keys(m_groupMap)
            THEN [m_groupMap[k] EXCEPT !.m_users = @ \ EqualTo(m.m_username, @)] ELSE m_groupMap[k]]
      BY <2>2 DEF Keys
    <3>. QED BY <3>1, StrikeOff
  <2>. QED BY <2>1, <2>2 DEF GotLogout
<1>5. reply' \in AnyReply
  BY DEF GotLogout, Result, AnyReply, Reply
<1>. QED BY <1>2, <1>3, <1>4, <1>5 DEF StepOK, MapsTypeOK, MemTypeOK, KeyEffect, Frozen

LEMMA CreateOK ==
  ASSUME MemTypeOK, KeysAreOwned, NEW m, m.m_username \in UserName, m.m_groupName \in GroupName,
         NEW r \in Malloc({}), GotCreate(m, r)
  PROVE  StepOK
<1>. DEFINE g == m.m_groupName
<1>1. /\ UNCHANGED m_userMap
      /\ m_groupsID # <<>> => Head(m_groupsID) \in Address /\ Tail(m_groupsID) \in Seq(Address)
      /\ UNCHANGED m_groupsID \/ Took
  <2>1. m_groupsID \in Seq(Address)
    BY DEF MemTypeOK
  <2>2. m_groupsID # <<>> => Head(m_groupsID) \in Address /\ Tail(m_groupsID) \in Seq(Address)
    BY <2>1
  <2>. QED BY <2>2 DEF GotCreate, Took
<1>2. m_groupsID' \in Seq(Address) /\ KeysStay
  BY <1>1 DEF MemTypeOK, KeysStay, Keys, Took
<1>3. reply' \in AnyReply
  BY <1>1 DEF GotCreate, WithIP, AnyReply, GroupCreateReply
<1>4. CASE memory' = Put(r, m.m_username) /\ UNCHANGED m_groupMap
  BY <1>1, <1>2, <1>3, <1>4, PutName, MapsUntouched DEF StepOK, MapsTypeOK, MemTypeOK, KeyEffect
<1>5. ASSUME NEW n \in Malloc({r}), memory' = [Put(r, m.m_username) EXCEPT ![n] = g]
      PROVE  /\ n \in Block /\ memory[n] = Free /\ memory'[n] = g /\ Frozen
             /\ memory' \in [Block -> {Free} \cup UserName \cup GroupName]
  <2>1. n \in Block /\ n # r /\ memory[n] = Free
    BY DEF Malloc
  <2>. QED BY <1>5, <2>1, PutName DEF Frozen
<1>6. ASSUME NEW n \in Malloc({r}), memory' = [Put(r, m.m_username) EXCEPT ![n] = g],
             UNCHANGED m_groupMap
      PROVE  StepOK
  BY <1>1, <1>2, <1>3, <1>5, <1>6, MapsUntouched DEF StepOK, MapsTypeOK, MemTypeOK, KeyEffect
<1>7. ASSUME NEW n \in Malloc({r}), memory' = [Put(r, m.m_username) EXCEPT ![n] = g],
             HashMapFind(m_groupMap, g) = {}, Took,
             m_groupMap' = [m_groupMap EXCEPT ![n] = GroupCreate(Head(m_groupsID))]
      PROVE  StepOK
  <2>1. PICK group \in GroupStruct : group = GroupCreate(Head(m_groupsID)) /\ group.m_users = {}
    <3>1. GroupCreate(Head(m_groupsID)) \in GroupStruct
      BY <1>1, <1>7 DEF GroupCreate, GroupStruct, Took
    <3>. QED BY <3>1 DEF GroupCreate
  <2>2. /\ m_groupMap' \in [Block -> {NotFound} \cup GroupStruct]
        /\ m_groupMap'[n] = group
        /\ \A k \in Block \ {n} : m_groupMap'[k] = m_groupMap[k]
    BY <1>5, <1>7, <2>1 DEF MemTypeOK
  <2>3. Keys(m_groupMap)' = Keys(m_groupMap) \cup {n}
    BY <1>5, <1>7, <2>2, MemoryAssumption DEF Keys
  <2>4. \A k \in Keys(m_groupMap) : m_groupMap'[k] = m_groupMap[k]
    <3>1. n \notin Keys(m_groupMap)
      BY <1>5, <1>7, OwnedInParts, MemoryAssumption DEF GroupKeysOK
    <3>. QED BY <2>2, <3>1 DEF Keys
  <2>5. GroupAdded(n, g)
    BY <1>5, <1>7, <2>1, <2>2, <2>3, <2>4 DEF GroupAdded
  <2>. QED BY <1>1, <1>2, <1>3, <1>5, <1>7, <2>2, <2>5 DEF StepOK, MapsTypeOK, MemTypeOK, KeyEffect
<1>. QED BY <1>4, <1>6, <1>7 DEF GotCreate, Took

LEMMA JoinOK ==
  ASSUME MemTypeOK, NEW m, m.m_username \in UserName,
         NEW r \in Malloc({}), GotJoin(m, r)
  PROVE  StepOK
<1>. DEFINE u == m.m_username
<1>1. memory' = Put(r, u) /\ UNCHANGED <<m_userMap, m_groupsID>> /\ KeysStay
  BY DEF GotJoin, KeysStay, Keys
<1>2. CASE UNCHANGED m_groupMap /\ reply' \in AnyReply
  BY <1>1, <1>2, PutName, MapsUntouched DEF StepOK, MapsTypeOK, MemTypeOK, KeyEffect
<1>3. WithIP("GROUP_JOIN_REPLY", FALSE, NoAddress) \in AnyReply
  BY DEF WithIP, AnyReply, GroupCreateReply
<1>4. ASSUME NEW k \in HashMapFind(m_groupMap, m.m_groupName),
             EqualTo(u, m_groupMap[k].m_users) = {},
             m_groupMap' = [m_groupMap EXCEPT ![k].m_users = @ \cup {r}],
             reply' = WithIP("GROUP_JOIN_REPLY", TRUE, m_groupMap[k].m_groupIP)
      PROVE  StepOK
  <2>1. k \in Keys(m_groupMap) /\ k \in Block /\ m_groupMap[k] \in GroupStruct
    BY <1>4 DEF HashMapFind, EqualTo, Keys, MemTypeOK
  <2>2. r \in Block /\ memory[r] = Free /\ memory'[r] = u /\ Frozen
    BY <1>1, PutName
  <2>3. PICK group \in GroupStruct :
          /\ group = [m_groupMap[k] EXCEPT !.m_users = @ \cup {r}]
          /\ group.m_users = m_groupMap[k].m_users \cup {r}
    <3>1. [m_groupMap[k] EXCEPT !.m_users = @ \cup {r}] \in GroupStruct
      BY <2>1, <2>2 DEF GroupStruct
    <3>2. [m_groupMap[k] EXCEPT !.m_users = @ \cup {r}].m_users = m_groupMap[k].m_users \cup {r}
      BY <2>1 DEF GroupStruct
    <3>. QED BY <3>1, <3>2
  <2>4. m_groupMap' = [m_groupMap EXCEPT ![k] = group]
    BY <1>4, <2>1, <2>3 DEF MemTypeOK
  <2>5. /\ m_groupMap' \in [Block -> {NotFound} \cup GroupStruct]
        /\ m_groupMap'[k] = group
        /\ \A l \in Block \ {k} : m_groupMap'[l] = m_groupMap[l]
    BY <2>1, <2>4 DEF MemTypeOK
  <2>6. Keys(m_groupMap)' = Keys(m_groupMap)
    BY <2>1, <2>5, MemoryAssumption DEF Keys
  <2>7. MemberAdded(k, r, u)
    BY <1>4, <2>1, <2>2, <2>3, <2>5, <2>6 DEF MemberAdded, Keys
  <2>8. reply' \in AnyReply
    BY <1>4, <2>1 DEF WithIP, AnyReply, GroupCreateReply, GroupStruct
  <2>9. memory' \in [Block -> {Free} \cup UserName \cup GroupName]
    BY <1>1, PutName
  <2>. QED BY <1>1, <2>2, <2>5, <2>7, <2>8, <2>9 DEF StepOK, MapsTypeOK, MemTypeOK, KeyEffect
<1>5. ASSUME NEW k \in HashMapFind(m_groupMap, m.m_groupName), UNCHANGED m_groupMap,
             reply' = WithIP("GROUP_JOIN_REPLY", TRUE, m_groupMap[k].m_groupIP)
      PROVE  StepOK
  <2>1. m_groupMap[k] \in GroupStruct
    BY DEF HashMapFind, EqualTo, Keys, MemTypeOK
  <2>2. reply' \in AnyReply
    BY <1>5, <2>1 DEF WithIP, AnyReply, GroupCreateReply, GroupStruct
  <2>. QED BY <1>2, <1>5, <2>2
<1>. QED BY <1>2, <1>3, <1>4, <1>5 DEF GotJoin, AddUser

LEMMA LeaveOK ==
  ASSUME MemTypeOK, NEW m, m.m_username \in UserName,
         NEW r \in Malloc({}), GotLeave(m, r)
  PROVE  StepOK
<1>. DEFINE u == m.m_username
<1>1. memory' = Put(r, u) /\ UNCHANGED <<m_userMap, m_groupsID>> /\ KeysStay
  BY DEF GotLeave, KeysStay, Keys
<1>2. \E keys \in SUBSET Keys(m_groupMap) :
        m_groupMap' = [k \in Block |-> IF k \in keys
          THEN [m_groupMap[k] EXCEPT !.m_users = @ \ EqualTo(u, @)] ELSE m_groupMap[k]]
  BY DEF GotLeave, HashMapFind, EqualTo
<1>3. m_groupMap' \in [Block -> {NotFound} \cup GroupStruct] /\ MembersShrink
  BY <1>2, StrikeOff
<1>4. reply' \in AnyReply
  BY DEF GotLeave, Result, AnyReply, Reply
<1>. QED BY <1>1, <1>3, <1>4, PutName DEF StepOK, MapsTypeOK, MemTypeOK, KeyEffect

LEMMA NothingHappens ==
  ASSUME MemTypeOK, UNCHANGED <<memory, m_userMap, m_groupMap, m_groupsID>>
  PROVE  MapsTypeOK' /\ KeyEffect
BY MapsUntouched DEF MapsTypeOK, MemTypeOK, KeyEffect, Frozen, KeysStay, Keys

LEMMA SeeGroupsOK ==
  ASSUME MemTypeOK, KeysAreOwned, GotSeeGroups
  PROVE  StepOK
<1>1. {memory[k] : k \in Keys(m_groupMap)} \in SUBSET GroupName
  BY OwnedInParts DEF GroupKeysOK
<1>2. reply' \in AnyReply \cup {NoReply}
  BY <1>1 DEF GotSeeGroups, AnyReply, SeeAllGroupsReply
<1>. QED BY <1>2, NothingHappens DEF GotSeeGroups, StepOK

LEMMA MessageOK ==
  ASSUME MemTypeOK, KeysAreOwned,
         NEW m \in Request \cup {Unhandled} \cup WildBytes, GotMessage(m)
  PROVE  StepOK
<1>1. ASSUME NEW r \in Malloc({}),
             \/ m.m_tag = "REGISTER_REQUEST"     /\ GotRegister(m, r)
             \/ m.m_tag = "LOGIN_REQUEST"        /\ GotLogin(m, r)
             \/ m.m_tag = "LOGOUT_REQUEST"       /\ GotLogout(m, r)
             \/ m.m_tag = "GROUP_CREATE_REQUEST" /\ GotCreate(m, r)
             \/ m.m_tag = "GROUP_JOIN_REQUEST"   /\ GotJoin(m, r)
             \/ m.m_tag = "GROUP_LEAVE_REQUEST"  /\ GotLeave(m, r)
      PROVE  StepOK
  BY <1>1, RequestFields, RegisterOK, LoginOK, LogoutOK, CreateOK, JoinOK, LeaveOK
<1>2. CASE reply' = NoReply /\ UNCHANGED <<memory, m_userMap, m_groupMap, m_groupsID>>
  BY <1>2, NothingHappens DEF StepOK
<1>. QED BY <1>1, <1>2, SeeGroupsOK DEF GotMessage

-----------------------------------------------------------------------------
LEMMA MemStart == MemInit => MemTypeOK /\ KeysAreOwned
<1>1. MemInit => MemTypeOK
  <2>1. [i \in 1 .. QUEUE_SIZE |-> i] \in Seq(Address)
    BY DataAssumption DEF Address
  <2>. QED BY <2>1 DEF MemInit, MemTypeOK
<1>2. MemInit => KeysAreOwned
  BY DEF MemInit, KeysAreOwned, Keys, Members, Unambiguous
<1>. QED BY <1>1, <1>2

LEMMA MemStep ==
  ASSUME MemTypeOK, KeysAreOwned, [MemNext]_memVars
  PROVE  MemTypeOK' /\ KeysAreOwned'
<1>1. CASE UNCHANGED memVars
  <2>1. MemTypeOK' /\ KeyEffect
    BY <1>1, NothingHappens DEF memVars, MemTypeOK, MapsTypeOK
  <2>. QED BY <2>1, KeysStayOwned
<1>2. ASSUME NEW m \in Request \cup {Unhandled} \cup WildBytes, GotMessage(m), buffer' = m
      PROVE  MemTypeOK' /\ KeysAreOwned'
  <2>1. StepOK
    BY <1>2, MessageOK
  <2>2. MemTypeOK'
    BY <1>2, <2>1 DEF StepOK, MapsTypeOK, MemTypeOK
  <2>. QED BY <2>1, <2>2, KeysStayOwned DEF StepOK
<1>. QED BY <1>1, <1>2 DEF MemNext, Received, Replayed, MemTypeOK

LEMMA MemInvariant == MemSpec => [](MemTypeOK /\ KeysAreOwned)
<1>1. MemTypeOK /\ KeysAreOwned /\ [MemNext]_memVars => (MemTypeOK /\ KeysAreOwned)'
  BY MemStep
<1>. QED BY <1>1, MemStart, PTL DEF MemSpec

(* Blocks, maps and replies keep their types (srv_mng.c, HashMap.h).       *)
THEOREM MemTypeCorrect == MemSpec => []MemTypeOK
BY MemInvariant, PTL

(* However requests are kept, freed and leaked, no key of a map is ever    *)
(* freed or shared (srv_mng.c, grp_mng.c, group.c).                        *)
THEOREM KeysStayReadable == MemSpec => []KeysAreOwned
BY MemInvariant, PTL

-----------------------------------------------------------------------------
(* The maps by name.                                                       *)

MemInv == MemTypeOK /\ KeysAreOwned

NamedUser(account) ==
  IF account = NULL THEN NULL ELSE
  [m_password |-> account.m_password, m_isActive |-> account.m_isActive, m_groups |-> {}]

NamedGroup(group) ==
  [m_groupIP |-> group.m_groupIP, m_users |-> {memory[k] : k \in group.m_users}]

(* What is stored under a key is found by the name it holds.               *)
LEMMA UserFound ==
  ASSUME NEW u, NEW k
  PROVE  /\ MemInv /\ k \in Keys(m_userMap) /\ memory[k] = u =>
              HashMapFind(m_userMap, u) = {k} /\ UserOf(u) = NamedUser(m_userMap[k])
         /\ MemInv' /\ k \in Keys(m_userMap)' /\ memory'[k] = u =>
              UserOf(u)' = NamedUser(m_userMap[k])'
<1>1. ASSUME MemInv, k \in Keys(m_userMap), memory[k] = u
      PROVE  HashMapFind(m_userMap, u) = {k} /\ UserOf(u) = NamedUser(m_userMap[k])
  <2>1. HashMapFind(m_userMap, u) = {k}
    BY <1>1 DEF MemInv, KeysAreOwned, Unambiguous, HashMapFind, EqualTo
  <2>2. (CHOOSE l \in {k} : TRUE) = k
    OBVIOUS
  <2>. QED BY <2>1, <2>2 DEF UserOf, NamedUser
<1>2. ASSUME MemInv', k \in Keys(m_userMap)', memory'[k] = u
      PROVE  UserOf(u)' = NamedUser(m_userMap[k])'
  <2>1. HashMapFind(m_userMap, u)' = {k}
    BY <1>2 DEF MemInv, KeysAreOwned, Unambiguous, HashMapFind, EqualTo
  <2>2. (CHOOSE l \in {k} : TRUE) = k
    OBVIOUS
  <2>. QED BY <2>1, <2>2 DEF UserOf, NamedUser
<1>. QED BY <1>1, <1>2

LEMMA GroupFound ==
  ASSUME NEW g, NEW k
  PROVE  /\ MemInv /\ k \in Keys(m_groupMap) /\ memory[k] = g =>
              HashMapFind(m_groupMap, g) = {k} /\ GroupOf(g) = NamedGroup(m_groupMap[k])
         /\ MemInv' /\ k \in Keys(m_groupMap)' /\ memory'[k] = g =>
              GroupOf(g)' = NamedGroup(m_groupMap[k])'
<1>1. ASSUME MemInv, k \in Keys(m_groupMap), memory[k] = g
      PROVE  HashMapFind(m_groupMap, g) = {k} /\ GroupOf(g) = NamedGroup(m_groupMap[k])
  <2>1. HashMapFind(m_groupMap, g) = {k}
    BY <1>1 DEF MemInv, KeysAreOwned, Unambiguous, HashMapFind, EqualTo
  <2>2. (CHOOSE l \in {k} : TRUE) = k
    OBVIOUS
  <2>. QED BY <2>1, <2>2 DEF GroupOf, NamedGroup
<1>2. ASSUME MemInv', k \in Keys(m_groupMap)', memory'[k] = g
      PROVE  GroupOf(g)' = NamedGroup(m_groupMap[k])'
  <2>1. HashMapFind(m_groupMap, g)' = {k}
    BY <1>2 DEF MemInv, KeysAreOwned, Unambiguous, HashMapFind, EqualTo
  <2>2. (CHOOSE l \in {k} : TRUE) = k
    OBVIOUS
  <2>. QED BY <2>1, <2>2 DEF GroupOf, NamedGroup
<1>. QED BY <1>1, <1>2

(* A name under which nothing is stored is not found.                      *)
LEMMA NotStored ==
  ASSUME NEW name
  PROVE  /\ HashMapFind(m_userMap, name) = {} => UserOf(name) = NotFound
         /\ HashMapFind(m_groupMap, name) = {} => GroupOf(name) = NotFound
         /\ HashMapFind(m_userMap, name)' = {} => UserOf(name)' = NotFound
         /\ HashMapFind(m_groupMap, name)' = {} => GroupOf(name)' = NotFound
BY DEF UserOf, GroupOf

(* A name whose keys and entries stay is found as before.                  *)
LEMMA UserStays ==
  ASSUME MemInv, MemInv', Frozen, NEW u,
         HashMapFind(m_userMap, u)' = HashMapFind(m_userMap, u),
         \A k \in HashMapFind(m_userMap, u) : m_userMap'[k] = m_userMap[k]
  PROVE  UserOf(u)' = UserOf(u)
<1>1. CASE HashMapFind(m_userMap, u) = {}
  BY <1>1, NotStored
<1>2. ASSUME NEW k \in HashMapFind(m_userMap, u)
      PROVE  UserOf(u)' = UserOf(u)
  <2>1. k \in Keys(m_userMap) /\ memory[k] = u /\ k \in Keys(m_userMap)' /\ memory'[k] = u
    BY <1>2 DEF HashMapFind, EqualTo
  <2>2. UserOf(u) = NamedUser(m_userMap[k]) /\ UserOf(u)' = NamedUser(m_userMap[k])'
    BY <2>1, UserFound
  <2>. QED BY <1>2, <2>2 DEF NamedUser
<1>. QED BY <1>1, <1>2

LEMMA GroupStays ==
  ASSUME MemInv, MemInv', Frozen, NEW g,
         HashMapFind(m_groupMap, g)' = HashMapFind(m_groupMap, g),
         \A k \in HashMapFind(m_groupMap, g) : m_groupMap'[k] = m_groupMap[k]
  PROVE  GroupOf(g)' = GroupOf(g)
<1>1. CASE HashMapFind(m_groupMap, g) = {}
  BY <1>1, NotStored
<1>2. ASSUME NEW k \in HashMapFind(m_groupMap, g)
      PROVE  GroupOf(g)' = GroupOf(g)
  <2>1. k \in Keys(m_groupMap) /\ memory[k] = g /\ k \in Keys(m_groupMap)' /\ memory'[k] = g
    BY <1>2 DEF HashMapFind, EqualTo
  <2>2. GroupOf(g) = NamedGroup(m_groupMap[k]) /\ GroupOf(g)' = NamedGroup(m_groupMap[k])'
    BY <2>1, GroupFound
  <2>3. \A b \in m_groupMap[k].m_users : memory'[b] = memory[b]
    BY <2>1, KeysKeepNames DEF MemInv
  <2>. QED BY <1>2, <2>2, <2>3 DEF NamedGroup
<1>. QED BY <1>1, <1>2

(* Names are still found where they were.                                  *)
LEMMA FindStays ==
  ASSUME MemInv, Frozen, NEW name
  PROVE  /\ KeysStay => HashMapFind(m_userMap, name)' = HashMapFind(m_userMap, name)
         /\ Keys(m_groupMap)' = Keys(m_groupMap) =>
              HashMapFind(m_groupMap, name)' = HashMapFind(m_groupMap, name)
         /\ \A n : Keys(m_userMap)' = Keys(m_userMap) \cup {n} /\ memory'[n] # name =>
              HashMapFind(m_userMap, name)' = HashMapFind(m_userMap, name)
         /\ \A n : Keys(m_groupMap)' = Keys(m_groupMap) \cup {n} /\ memory'[n] # name =>
              HashMapFind(m_groupMap, name)' = HashMapFind(m_groupMap, name)
<1>1. /\ \A k \in Keys(m_userMap) : memory'[k] = memory[k]
      /\ \A k \in Keys(m_groupMap) : memory'[k] = memory[k]
  BY KeysKeepNames DEF MemInv
<1>2. KeysStay => HashMapFind(m_userMap, name)' = HashMapFind(m_userMap, name)
  BY <1>1 DEF KeysStay, HashMapFind, EqualTo
<1>3. Keys(m_groupMap)' = Keys(m_groupMap) =>
        HashMapFind(m_groupMap, name)' = HashMapFind(m_groupMap, name)
  BY <1>1 DEF HashMapFind, EqualTo
<1>4. \A n : Keys(m_userMap)' = Keys(m_userMap) \cup {n} /\ memory'[n] # name =>
        HashMapFind(m_userMap, name)' = HashMapFind(m_userMap, name)
  BY <1>1 DEF HashMapFind, EqualTo
<1>5. \A n : Keys(m_groupMap)' = Keys(m_groupMap) \cup {n} /\ memory'[n] # name =>
        HashMapFind(m_groupMap, name)' = HashMapFind(m_groupMap, name)
  BY <1>1 DEF HashMapFind, EqualTo
<1>. QED BY <1>2, <1>3, <1>4, <1>5

LEMMA UsersStay ==
  ASSUME MemInv, MemInv', Frozen, UNCHANGED m_userMap
  PROVE  UNCHANGED [u \in UserName |-> UserOf(u)]
<1>1. ASSUME NEW u \in UserName PROVE UserOf(u)' = UserOf(u)
  BY UserStays, FindStays DEF KeysStay, Keys
<1>. QED BY <1>1

LEMMA GroupsStay ==
  ASSUME MemInv, MemInv', Frozen, UNCHANGED m_groupMap
  PROVE  UNCHANGED [g \in GroupName |-> GroupOf(g)]
<1>1. ASSUME NEW g \in GroupName PROVE GroupOf(g)' = GroupOf(g)
  BY GroupStays, FindStays DEF Keys
<1>. QED BY <1>1

-----------------------------------------------------------------------------
(* Each case of GotMessage is the case of SrvMng.                          *)

LEMMA SameData ==
  /\ ByName!SUCCESS = SUCCESS /\ ByName!FAILURE = FAILURE
  /\ ByName!NoReply = NoReply /\ ByName!NoAddress = NoAddress /\ ByName!Address = Address
  /\ ByName!Request = Request /\ ByName!Unhandled = Unhandled
BY DEF ByName!SUCCESS, SUCCESS, ByName!FAILURE, FAILURE, ByName!NoReply, NoReply,
       ByName!NoAddress, NoAddress, ByName!Address, Address, ByName!Request, Request,
       ByName!RegisterOrLoginRequest, RegisterOrLoginRequest, ByName!GrpReqStruct, GrpReqStruct,
       ByName!LogOutOrSeeGroupsReq, LogOutOrSeeGroupsReq, ByName!Unhandled, Unhandled

LEMMA UserIsRecord ==
  ASSUME MemInv, NEW k \in Keys(m_userMap)
  PROVE  /\ NamedUser(m_userMap[k]) # NotFound
         /\ NamedUser(m_userMap[k]) = NULL <=> m_userMap[k] = NULL
         /\ m_userMap[k] # NULL => /\ m_userMap[k] \in Account
                                  /\ NamedUser(m_userMap[k]) \in ByName!User
<1>1. m_userMap[k] # NULL => m_userMap[k] \in Account
  BY DEF MemInv, MemTypeOK, Keys
<1>2. m_userMap[k] # NULL => NamedUser(m_userMap[k]) \in ByName!User
  BY <1>1 DEF NamedUser, Account, ByName!User
<1>3. m_userMap[k] = NULL => NamedUser(m_userMap[k]) = NULL
  BY DEF NamedUser
<1>. QED BY <1>1, <1>2, <1>3, NamesAssumption, DataAssumption

LEMMA RegisterByName ==
  ASSUME MemInv, MemInv', Frozen,
         NEW m, m.m_username \in UserName, m.m_password \in Password,
         NEW r \in Malloc({}), GotRegister(m, r)
  PROVE  ByName!GotRegister(m)
<1>1. PICK u \in UserName : u = m.m_username
  OBVIOUS
<1>2. PICK p \in Password : p = m.m_password
  OBVIOUS
<1>3. /\ UNCHANGED [g \in GroupName |-> GroupOf(g)] /\ UNCHANGED m_groupsID
  BY GroupsStay DEF GotRegister
<1>4. ASSUME UNCHANGED m_userMap,
             reply' = [m_tag |-> "REGISTER_REPLY", m_reply |-> FAILURE]
      PROVE  ByName!GotRegister(m)
  <2>1. ByName!RegisterNewUser(u, p, "USERMNG_GENERAL_ERROR")
    BY <1>4, UsersStay DEF ByName!RegisterNewUser
  <2>. QED BY <1>1, <1>2, <1>3, <1>4, <2>1, SameData
       DEF ByName!GotRegister, ByName!UserMngResult, ByName!Outcome, ByName!grpVars
<1>5. ASSUME NEW n \in Malloc({r}), memory' = [Put(r, u) EXCEPT ![n] = u],
             HashMapFind(m_userMap, u) = {},
             NEW user \in {NULL, [m_password |-> p, m_isActive |-> FALSE]},
             m_userMap' = [m_userMap EXCEPT ![n] = user],
             reply' = [m_tag |-> "REGISTER_REPLY", m_reply |-> SUCCESS]
      PROVE  ByName!GotRegister(m)
  <2>1. n \in Block /\ n # r /\ memory[n] = Free
    BY <1>5 DEF Malloc
  <2>2. memory'[n] = u
    BY <1>5, <2>1, PutName DEF MemInv
  <2>3. user \in {NULL} \cup Account /\ user # NotFound
    <3>1. user = NULL \/ user = [m_password |-> p, m_isActive |-> FALSE]
      BY <1>5
    <3>2. [m_password |-> p, m_isActive |-> FALSE] \in Account
      BY DEF Account
    <3>. QED BY <3>1, <3>2, MemoryAssumption, DataAssumption
  <2>4. /\ m_userMap'[n] = user
        /\ \A k \in Block \ {n} : m_userMap'[k] = m_userMap[k]
    BY <1>5, <2>1, <2>3 DEF MemInv, MemTypeOK
  <2>5. Keys(m_userMap)' = Keys(m_userMap) \cup {n} /\ n \notin Keys(m_userMap)
    <3>1. n \notin Keys(m_userMap)
      BY <2>1, KeysKeepNames DEF MemInv
    <3>. QED BY <2>1, <2>3, <2>4, <3>1 DEF Keys
  <2>6. UserOf(u)' \in {ByName!UserCreate(p)} \cup ByName!IfAllocFails({NULL})
    <3>1. UserOf(u)' = NamedUser(user)
      <4>1. UserOf(u)' = NamedUser(m_userMap[n])'
        BY <2>2, <2>5, UserFound
      <4>. QED BY <2>4, <4>1 DEF NamedUser
    <3>2. CASE user = NULL
      BY <3>1, <3>2 DEF NamedUser, ByName!IfAllocFails
    <3>3. CASE user # NULL /\ user = [m_password |-> p, m_isActive |-> FALSE]
      BY <3>1, <3>3 DEF NamedUser, ByName!UserCreate
    <3>. QED BY <3>2, <3>3
  <2>7. ASSUME NEW v \in UserName, v # u PROVE UserOf(v)' = UserOf(v)
    <3>1. HashMapFind(m_userMap, v)' = HashMapFind(m_userMap, v)
      BY <2>2, <2>5, <2>7, FindStays
    <3>2. \A k \in HashMapFind(m_userMap, v) : m_userMap'[k] = m_userMap[k]
      BY <2>4, <2>5 DEF HashMapFind, EqualTo, Keys
    <3>. QED BY <3>1, <3>2, UserStays
  <2>8. UserOf(u) = NotFound
    BY <1>5, NotStored
  <2>9. \E named \in {ByName!UserCreate(p)} \cup ByName!IfAllocFails({NULL}) :
          [v \in UserName |-> UserOf(v)]' = [[v \in UserName |-> UserOf(v)] EXCEPT ![u] = named]
    <3>1. PICK named : named = UserOf(u)'
      OBVIOUS
    <3>2. [v \in UserName |-> UserOf(v)]' = [[v \in UserName |-> UserOf(v)] EXCEPT ![u] = named]
      BY <2>7, <3>1
    <3>. QED BY <2>6, <3>1, <3>2
  <2>10. ByName!RegisterNewUser(u, p, "USERMNG_SUCCESS")
    BY <2>8, <2>9 DEF ByName!RegisterNewUser, ByName!Registered
  <2>. QED BY <1>1, <1>2, <1>3, <1>5, <2>10, SameData
       DEF ByName!GotRegister, ByName!UserMngResult, ByName!Outcome, ByName!grpVars
<1>. QED BY <1>1, <1>2, <1>4, <1>5 DEF GotRegister, Result

LEMMA RecordEdits ==
  /\ \A p, a, b, g : [[m_password |-> p, m_isActive |-> a, m_groups |-> g] EXCEPT !.m_isActive = b]
                       = [m_password |-> p, m_isActive |-> b, m_groups |-> g]
  /\ \A ip, us, u : [[m_groupIP |-> ip, m_users |-> us] EXCEPT !.m_users = @ \ {u}]
                      = [m_groupIP |-> ip, m_users |-> us \ {u}]
  /\ \A ip, us, u : [[m_groupIP |-> ip, m_users |-> us] EXCEPT !.m_users = @ \cup {u}]
                      = [m_groupIP |-> ip, m_users |-> us \cup {u}]
OBVIOUS

LEMMA ActiveByName ==
  ASSUME MemInv, MemInv', Frozen, KeysStay,
         NEW k \in Keys(m_userMap), NEW u \in UserName, memory[k] = u,
         m_userMap[k] # NULL, m_userMap'[k] # NULL,
         m_userMap'[k].m_password = m_userMap[k].m_password,
         \A l \in Block \ {k} : m_userMap'[l] = m_userMap[l]
  PROVE  [v \in UserName |-> UserOf(v)]' =
           [[v \in UserName |-> UserOf(v)] EXCEPT
              ![u] = [UserOf(u) EXCEPT !.m_isActive = m_userMap'[k].m_isActive]]
<1>1. UserOf(u)' = [UserOf(u) EXCEPT !.m_isActive = m_userMap'[k].m_isActive]
  <2>1. memory'[k] = u
    BY KeysKeepNames DEF MemInv
  <2>2. UserOf(u) = NamedUser(m_userMap[k]) /\ UserOf(u)' = NamedUser(m_userMap[k])'
    BY <2>1, UserFound DEF KeysStay
  <2>3. UserOf(u)' = [m_password |-> m_userMap[k].m_password,
                      m_isActive |-> m_userMap'[k].m_isActive, m_groups |-> {}]
    BY <2>2 DEF NamedUser
  <2>4. UserOf(u) = [m_password |-> m_userMap[k].m_password,
                     m_isActive |-> m_userMap[k].m_isActive, m_groups |-> {}]
    BY <2>2 DEF NamedUser
  <2>. QED BY <2>3, <2>4, RecordEdits
<1>2. ASSUME NEW v \in UserName, v # u PROVE UserOf(v)' = UserOf(v)
  <2>1. HashMapFind(m_userMap, v)' = HashMapFind(m_userMap, v)
    BY FindStays
  <2>2. \A l \in HashMapFind(m_userMap, v) : m_userMap'[l] = m_userMap[l]
    BY <1>2 DEF HashMapFind, EqualTo, Keys
  <2>. QED BY <2>1, <2>2, UserStays
<1>. QED BY <1>1, <1>2

LEMMA LoginByName ==
  ASSUME MemInv, MemInv', Frozen,
         NEW m, m.m_username \in UserName, m.m_password \in Password,
         NEW r \in Malloc({}), GotLogin(m, r)
  PROVE  ByName!GotLogin(m)
<1>1. PICK u \in UserName : u = m.m_username
  OBVIOUS
<1>2. PICK p \in Password : p = m.m_password
  OBVIOUS
<1>3. /\ UNCHANGED [g \in GroupName |-> GroupOf(g)] /\ UNCHANGED m_groupsID
  BY GroupsStay DEF GotLogin
<1>4. PICK right : right = {k \in Accounts(HashMapFind(m_userMap, u)) : m_userMap[k].m_password = p}
  OBVIOUS
<1>5. /\ m_userMap' = [k \in Block |->
           IF k \in right THEN [m_userMap[k] EXCEPT !.m_isActive = TRUE] ELSE m_userMap[k]]
      /\ \/ reply' = [m_tag |-> "LOGIN_REPLY", m_reply |-> IF right # {} THEN SUCCESS ELSE FAILURE]
         \/ /\ Accounts(HashMapFind(m_userMap, u)) # HashMapFind(m_userMap, u)
            /\ reply' = [m_tag |-> "LOGIN_REPLY", m_reply |-> SUCCESS]
  BY <1>1, <1>2, <1>4 DEF GotLogin, Result
<1>6. right = {} => UNCHANGED [v \in UserName |-> UserOf(v)]
  <2>1. right = {} => UNCHANGED m_userMap
    BY <1>5 DEF MemInv, MemTypeOK
  <2>. QED BY <2>1, UsersStay
<1>7. CASE HashMapFind(m_userMap, u) = {}
  <2>1. /\ right = {} /\ UserOf(u) = NotFound
        /\ Accounts(HashMapFind(m_userMap, u)) = HashMapFind(m_userMap, u)
    BY <1>4, <1>7, NotStored DEF Accounts
  <2>2. ByName!LogInUser(u, p, "USERMNG_USER_NOT_FOUND")
    BY <1>6, <2>1 DEF ByName!LogInUser, ByName!Registered
  <2>. QED BY <1>1, <1>2, <1>3, <1>5, <2>1, <2>2, SameData
       DEF ByName!GotLogin, ByName!UserMngResult, ByName!Outcome, ByName!grpVars
<1>8. ASSUME NEW k \in HashMapFind(m_userMap, u) PROVE ByName!GotLogin(m)
  <2>1. k \in Keys(m_userMap) /\ memory[k] = u
    BY <1>8 DEF HashMapFind, EqualTo
  <2>2. HashMapFind(m_userMap, u) = {k} /\ UserOf(u) = NamedUser(m_userMap[k])
    BY <2>1, UserFound
  <2>3. CASE m_userMap[k] = NULL
    <3>1. right = {} /\ UserOf(u) = NULL
      BY <1>4, <2>2, <2>3 DEF Accounts, NamedUser
    <3>2. /\ ByName!LogInUser(u, p, "USERMNG_SUCCESS")
          /\ ByName!LogInUser(u, p, "USERMNG_WRONG_PASSWORD")
      BY <1>6, <3>1 DEF ByName!LogInUser
    <3>3. reply' \in {[m_tag |-> "LOGIN_REPLY", m_reply |-> SUCCESS],
                     [m_tag |-> "LOGIN_REPLY", m_reply |-> FAILURE]}
      BY <1>5, <3>1
    <3>. QED BY <1>1, <1>2, <1>3, <3>2, <3>3, SameData
         DEF ByName!GotLogin, ByName!UserMngResult, ByName!Outcome, ByName!grpVars
  <2>4. /\ m_userMap[k] # NULL => UserOf(u) # NotFound /\ UserOf(u) # NULL
        /\ m_userMap[k] # NULL => UserOf(u).m_password = m_userMap[k].m_password
        /\ m_userMap[k] # NULL => Accounts(HashMapFind(m_userMap, u)) = {k}
    BY <2>1, <2>2, UserIsRecord DEF NamedUser, Accounts
  <2>5. m_userMap[k] # NULL =>
          reply' = [m_tag |-> "LOGIN_REPLY", m_reply |-> IF right # {} THEN SUCCESS ELSE FAILURE]
    BY <1>5, <2>2, <2>4
  <2>6. CASE m_userMap[k] # NULL /\ m_userMap[k].m_password = p
    <3>1. right = {k}
      BY <1>4, <2>4, <2>6
    <3>2. [v \in UserName |-> UserOf(v)]' =
            [[v \in UserName |-> UserOf(v)] EXCEPT ![u] = [UserOf(u) EXCEPT !.m_isActive = TRUE]]
      <4>1. k \in Block /\ m_userMap[k] \in Account
        BY <2>1, <2>6, UserIsRecord DEF Keys
      <4>2. /\ m_userMap'[k] = [m_userMap[k] EXCEPT !.m_isActive = TRUE]
            /\ \A l \in Block \ {k} : m_userMap'[l] = m_userMap[l]
        BY <1>5, <3>1, <4>1
      <4>3. /\ m_userMap'[k].m_password = m_userMap[k].m_password
            /\ m_userMap'[k].m_isActive = TRUE /\ m_userMap'[k] # NULL
        <5>1. [m_userMap[k] EXCEPT !.m_isActive = TRUE] \in Account
          BY <4>1 DEF Account
        <5>. QED BY <4>1, <4>2, <5>1, MemoryAssumption DEF Account
      <4>4. KeysStay
        BY <1>5, <2>1, <2>6, <3>1, SetActive DEF MemInv, Accounts
      <4>5. [v \in UserName |-> UserOf(v)]' =
              [[v \in UserName |-> UserOf(v)] EXCEPT
                 ![u] = [UserOf(u) EXCEPT !.m_isActive = m_userMap'[k].m_isActive]]
        BY <2>1, <2>6, <4>2, <4>3, <4>4, ActiveByName
      <4>. QED BY <4>3, <4>5
    <3>3. ByName!LogInUser(u, p, "USERMNG_SUCCESS")
      BY <2>4, <2>6, <3>2 DEF ByName!LogInUser, ByName!ActivateUser
    <3>. QED BY <1>1, <1>2, <1>3, <2>5, <2>6, <3>1, <3>3, SameData
         DEF ByName!GotLogin, ByName!UserMngResult, ByName!Outcome, ByName!grpVars
  <2>7. CASE m_userMap[k] # NULL /\ m_userMap[k].m_password # p
    <3>1. right = {}
      BY <1>4, <2>4, <2>7
    <3>2. ByName!LogInUser(u, p, "USERMNG_WRONG_PASSWORD")
      BY <1>6, <2>4, <2>7, <3>1 DEF ByName!LogInUser
    <3>. QED BY <1>1, <1>2, <1>3, <2>5, <2>7, <3>1, <3>2, SameData
         DEF ByName!GotLogin, ByName!UserMngResult, ByName!Outcome, ByName!grpVars
  <2>. QED BY <2>3, <2>6, <2>7
<1>. QED BY <1>7, <1>8

LEMMA GroupIsRecord ==
  ASSUME MemInv, NEW k \in Keys(m_groupMap)
  PROVE  NamedGroup(m_groupMap[k]) \in ByName!Group /\ NamedGroup(m_groupMap[k]) # NotFound
<1>1. m_groupMap[k] \in GroupStruct
  BY DEF MemInv, MemTypeOK, Keys
<1>2. {memory[b] : b \in m_groupMap[k].m_users} \subseteq UserName
  BY OwnedInParts DEF MemInv, MembersOK
<1>3. NamedGroup(m_groupMap[k]) \in ByName!Group
  BY <1>1, <1>2, SameData DEF NamedGroup, GroupStruct, ByName!Group
<1>. QED BY <1>3, NamesAssumption

(* A user struck off by key is struck off by name.                         *)
LEMMA StruckByName ==
  ASSUME MemInv, MemInv', Frozen, NEW u \in UserName, NEW keys \in SUBSET Keys(m_groupMap),
         m_groupMap' = [k \in Block |-> IF k \in keys
           THEN [m_groupMap[k] EXCEPT !.m_users = @ \ EqualTo(u, @)] ELSE m_groupMap[k]],
         NEW g \in GroupName
  PROVE  /\ \A k \in keys : memory[k] = g => GroupOf(g)' = ByName!RemoveUser(GroupOf(g), u)
         /\ (\A k \in keys : memory[k] # g) => GroupOf(g)' = GroupOf(g)
<1>1. Keys(m_groupMap)' = Keys(m_groupMap)
  BY StrikeOff DEF MemInv, MembersShrink
<1>2. ASSUME NEW k \in keys, memory[k] = g
      PROVE  GroupOf(g)' = ByName!RemoveUser(GroupOf(g), u)
  <2>1. k \in Block /\ m_groupMap[k] \in GroupStruct /\ memory'[k] = g
    BY <1>2, KeysKeepNames DEF MemInv
  <2>2. GroupOf(g) = NamedGroup(m_groupMap[k]) /\ GroupOf(g)' = NamedGroup(m_groupMap[k])'
    BY <1>1, <1>2, <2>1, GroupFound
  <2>3. PICK users : users = m_groupMap[k].m_users
    OBVIOUS
  <2>4. /\ m_groupMap'[k].m_users = users \ EqualTo(u, users)
        /\ m_groupMap'[k].m_groupIP = m_groupMap[k].m_groupIP
    BY <2>1, <2>3 DEF GroupStruct
  <2>5. \A b \in users : memory'[b] = memory[b]
    BY <2>3, KeysKeepNames DEF MemInv
  <2>6. {memory'[b] : b \in users \ EqualTo(u, users)} = {memory[b] : b \in users} \ {u}
    BY <2>5 DEF EqualTo
  <2>7. GroupOf(g)' = [m_groupIP |-> m_groupMap[k].m_groupIP,
                       m_users |-> {memory[b] : b \in users} \ {u}]
    BY <2>2, <2>4, <2>6 DEF NamedGroup
  <2>8. GroupOf(g) = [m_groupIP |-> m_groupMap[k].m_groupIP, m_users |-> {memory[b] : b \in users}]
    BY <2>2, <2>3 DEF NamedGroup
  <2>. QED BY <2>7, <2>8, RecordEdits DEF ByName!RemoveUser
<1>3. ASSUME \A k \in keys : memory[k] # g
      PROVE  GroupOf(g)' = GroupOf(g)
  <2>1. HashMapFind(m_groupMap, g)' = HashMapFind(m_groupMap, g)
    BY <1>1, FindStays
  <2>2. \A k \in HashMapFind(m_groupMap, g) : m_groupMap'[k] = m_groupMap[k]
    BY <1>3 DEF HashMapFind, EqualTo, Keys
  <2>. QED BY <2>1, <2>2, GroupStays
<1>. QED BY <1>2, <1>3

(* The groups there are by name.                                           *)
LEMMA GroupsByName ==
  ASSUME MemInv, NEW g \in GroupName
  PROVE  /\ g \in ByName!Groups <=> GroupOf(g) # NotFound
         /\ g \in ByName!Groups <=> \E k \in Keys(m_groupMap) : memory[k] = g
<1>1. g \in ByName!Groups <=> GroupOf(g) # NotFound
  BY DEF ByName!Groups
<1>2. ASSUME NEW k \in Keys(m_groupMap), memory[k] = g PROVE GroupOf(g) # NotFound
  BY <1>2, GroupFound, GroupIsRecord
<1>3. (\A k \in Keys(m_groupMap) : memory[k] # g) => GroupOf(g) = NotFound
  BY NotStored DEF HashMapFind, EqualTo
<1>. QED BY <1>1, <1>2, <1>3

(* Accounts have no groups of their own, so logging out only deactivates.  *)
LEMMA LoggedOut ==
  ASSUME MemInv, NEW k \in Keys(m_userMap), m_userMap[k] # NULL
  PROVE  LET entry == NamedUser(m_userMap[k]) IN
         [entry EXCEPT !.m_isActive = FALSE]
           \in ByName!RemoveAllGroups(ByName!DeactivateUser(entry))
<1>1. PICK p \in Password, a \in BOOLEAN :
        NamedUser(m_userMap[k]) = [m_password |-> p, m_isActive |-> a, m_groups |-> {}]
  <2>1. m_userMap[k] \in Account
    BY UserIsRecord
  <2>. QED BY <2>1 DEF NamedUser, Account
<1>2. PICK entry : entry = NamedUser(m_userMap[k])
  OBVIOUS
<1>3. PICK out : out = [m_password |-> p, m_isActive |-> FALSE, m_groups |-> {}]
  OBVIOUS
<1>4. out \in ByName!User /\ [out EXCEPT !.m_groups = {}] = out
  <2>1. out \in ByName!User
    BY <1>3 DEF ByName!User
  <2>2. out.m_groups = {} /\ [out EXCEPT !.m_groups = out.m_groups] = out
    BY <1>3
  <2>. QED BY <2>1, <2>2
<1>5. out # NULL /\ entry # NULL
  BY <1>2, <1>4, UserIsRecord, NamesAssumption
<1>6. [entry EXCEPT !.m_isActive = FALSE] = out
  <2>1. entry = [m_password |-> p, m_isActive |-> a, m_groups |-> {}]
    BY <1>1, <1>2
  <2>2. PICK no : no = FALSE
    OBVIOUS
  <2>3. out = [m_password |-> p, m_isActive |-> no, m_groups |-> {}]
    BY <1>3, <2>2
  <2>4. [entry EXCEPT !.m_isActive = no] = out
    BY <2>1, <2>3, RecordEdits
  <2>. QED BY <2>2, <2>4
<1>7. ByName!DeactivateUser(entry) = out
  BY <1>5, <1>6 DEF ByName!DeactivateUser
<1>8. out \in ByName!RemoveAllGroups(out)
  BY <1>4, <1>5 DEF ByName!RemoveAllGroups
<1>. QED BY <1>2, <1>6, <1>7, <1>8

LEMMA LogoutByName ==
  ASSUME MemInv, MemInv', Frozen, NEW m, m.m_username \in UserName,
         NEW r \in Malloc({}), GotLogout(m, r)
  PROVE  ByName!GotLogout(m)
<1>1. PICK u \in UserName : u = m.m_username
  OBVIOUS
<1>2. PICK user : user = HashMapFind(m_userMap, u)
  OBVIOUS
<1>3. /\ m_userMap' = [k \in Block |->
           IF k \in Accounts(user) THEN [m_userMap[k] EXCEPT !.m_isActive = FALSE] ELSE m_userMap[k]]
      /\ m_groupMap' = IF user = {} THEN m_groupMap ELSE
           [k \in Block |-> IF k \in Keys(m_groupMap)
              THEN [m_groupMap[k] EXCEPT !.m_users = @ \ EqualTo(u, @)] ELSE NotFound]
      /\ reply' = [m_tag |-> "LOGOUT_REPLY", m_reply |-> IF user # {} THEN SUCCESS ELSE FAILURE]
      /\ UNCHANGED m_groupsID
  BY <1>1, <1>2 DEF GotLogout, Result
<1>4. CASE user = {}
  <2>1. UNCHANGED m_userMap /\ UNCHANGED m_groupMap
    BY <1>3, <1>4 DEF MemInv, MemTypeOK, Accounts
  <2>2. UserOf(u) = NotFound
    BY <1>2, <1>4, NotStored
  <2>3. ByName!LogOutUser(u, "USERMNG_USER_NOT_FOUND")
    BY <2>1, <2>2, UsersStay DEF ByName!LogOutUser, ByName!Registered
  <2>4. UNCHANGED [g \in GroupName |-> GroupOf(g)]
    BY <2>1, GroupsStay
  <2>. QED BY <1>1, <1>3, <1>4, <2>3, <2>4, SameData DEF ByName!GotLogout, ByName!grpVars
<1>5. ASSUME NEW k \in user PROVE ByName!GotLogout(m)
  <2>1. k \in Keys(m_userMap) /\ memory[k] = u /\ k \in Block
    BY <1>2, <1>5 DEF HashMapFind, EqualTo, Keys
  <2>2. user = {k} /\ UserOf(u) = NamedUser(m_userMap[k])
    BY <1>2, <2>1, UserFound
  <2>3. ASSUME m_userMap[k] # NULL
        PROVE  [v \in UserName |-> UserOf(v)]' =
                 [[v \in UserName |-> UserOf(v)] EXCEPT ![u] = [UserOf(u) EXCEPT !.m_isActive = FALSE]]
    <3>1. m_userMap[k] \in Account /\ Accounts(user) = {k}
      BY <2>1, <2>2, <2>3, UserIsRecord DEF Accounts
    <3>2. /\ m_userMap'[k] = [m_userMap[k] EXCEPT !.m_isActive = FALSE]
          /\ \A l \in Block \ {k} : m_userMap'[l] = m_userMap[l]
      BY <1>3, <2>1, <3>1
    <3>3. /\ m_userMap'[k].m_password = m_userMap[k].m_password
          /\ m_userMap'[k].m_isActive = FALSE /\ m_userMap'[k] # NULL
      <4>1. [m_userMap[k] EXCEPT !.m_isActive = FALSE] \in Account
        BY <3>1 DEF Account
      <4>. QED BY <3>1, <3>2, <4>1, MemoryAssumption DEF Account
    <3>4. KeysStay
      BY <1>3, <2>1, <2>3, <3>1, SetActive DEF MemInv, Accounts
    <3>5. [v \in UserName |-> UserOf(v)]' =
            [[v \in UserName |-> UserOf(v)] EXCEPT
               ![u] = [UserOf(u) EXCEPT !.m_isActive = m_userMap'[k].m_isActive]]
      BY <2>1, <2>3, <3>2, <3>3, <3>4, ActiveByName
    <3>. QED BY <3>3, <3>5
  <2>4. \E out \in ByName!RemoveAllGroups(ByName!DeactivateUser(UserOf(u))) :
          [v \in UserName |-> UserOf(v)]' = [[v \in UserName |-> UserOf(v)] EXCEPT ![u] = out]
    <3>1. CASE m_userMap[k] # NULL
      <4>1. PICK out : out = [UserOf(u) EXCEPT !.m_isActive = FALSE]
        OBVIOUS
      <4>2. out \in ByName!RemoveAllGroups(ByName!DeactivateUser(UserOf(u)))
        BY <2>1, <2>2, <3>1, <4>1, LoggedOut
      <4>. QED BY <2>3, <3>1, <4>1, <4>2
    <3>2. CASE m_userMap[k] = NULL
      <4>1. UserOf(u) = NULL
        BY <2>2, <3>2 DEF NamedUser
      <4>2. UNCHANGED m_userMap
        BY <1>3, <2>2, <3>2 DEF Accounts, MemInv, MemTypeOK
      <4>3. [v \in UserName |-> UserOf(v)]' = [[v \in UserName |-> UserOf(v)] EXCEPT ![u] = NULL]
        BY <4>1, <4>2, UsersStay
      <4>4. NULL \in ByName!RemoveAllGroups(ByName!DeactivateUser(UserOf(u)))
        BY <4>1 DEF ByName!RemoveAllGroups, ByName!DeactivateUser
      <4>. QED BY <4>3, <4>4
    <3>. QED BY <3>1, <3>2
  <2>9. ByName!Registered(u)
    BY <2>1, <2>2, UserIsRecord DEF ByName!Registered
  <2>10. ByName!RemoveUserFromAllGroups(u)
    <3>1. PICK keys \in SUBSET Keys(m_groupMap) : keys = Keys(m_groupMap)
      OBVIOUS
    <3>2. m_groupMap' = [l \in Block |-> IF l \in keys
            THEN [m_groupMap[l] EXCEPT !.m_users = @ \ EqualTo(u, @)] ELSE m_groupMap[l]]
      BY <1>3, <1>5, <3>1 DEF Keys
    <3>3. ASSUME NEW g \in GroupName
          PROVE  GroupOf(g)' = IF g \in ByName!Groups THEN ByName!RemoveUser(GroupOf(g), u)
                               ELSE NotFound
      <4>1. /\ \A l \in keys : memory[l] = g => GroupOf(g)' = ByName!RemoveUser(GroupOf(g), u)
            /\ (\A l \in keys : memory[l] # g) => GroupOf(g)' = GroupOf(g)
        BY <3>2, StruckByName
      <4>. QED BY <3>1, <4>1, GroupsByName
    <3>. QED BY <1>3, <3>3 DEF ByName!RemoveUserFromAllGroups
  <2>. QED BY <1>1, <1>3, <1>5, <2>4, <2>9, <2>10, SameData DEF ByName!GotLogout
<1>. QED BY <1>4, <1>5

LEMMA LeaveByName ==
  ASSUME MemInv, MemInv', Frozen,
         NEW m, m.m_username \in UserName, m.m_groupName \in GroupName,
         NEW r \in Malloc({}), GotLeave(m, r)
  PROVE  ByName!GotLeave(m)
<1>1. PICK u \in UserName : u = m.m_username
  OBVIOUS
<1>2. PICK g \in GroupName : g = m.m_groupName
  OBVIOUS
<1>3. PICK left : left = {k \in HashMapFind(m_groupMap, g) : EqualTo(u, m_groupMap[k].m_users) # {}}
  OBVIOUS
<1>4. /\ m_groupMap' = [k \in Block |-> IF k \in left
           THEN [m_groupMap[k] EXCEPT !.m_users = @ \ EqualTo(u, @)] ELSE m_groupMap[k]]
      /\ reply' = [m_tag |-> "GROUP_LEAVE_REPLY", m_reply |-> IF left # {} THEN SUCCESS ELSE FAILURE]
      /\ UNCHANGED <<m_userMap, m_groupsID>>
  BY <1>1, <1>2, <1>3 DEF GotLeave, Result
<1>5. UNCHANGED [v \in UserName |-> UserOf(v)]
  BY <1>4, UsersStay
<1>6. left = {} => UNCHANGED [h \in GroupName |-> GroupOf(h)]
  <2>1. left = {} => UNCHANGED m_groupMap
    BY <1>4 DEF MemInv, MemTypeOK
  <2>. QED BY <2>1, GroupsStay
<1>. USE SameData
     DEF ByName!GotLeave, ByName!GroupMngResult, ByName!Outcome, ByName!grpVars
<1>7. CASE HashMapFind(m_groupMap, g) = {}
  <2>1. left = {} /\ g \notin ByName!Groups
    BY <1>3, <1>7, NotStored, GroupsByName
  <2>2. ByName!RemoveUserFromGroup(u, g, "GROUPMNG_GROUP_DOES_NOT_EXIST")
    BY <1>4, <1>6, <2>1 DEF ByName!RemoveUserFromGroup
  <2>. QED BY <1>1, <1>2, <1>4, <1>5, <2>1, <2>2
<1>8. ASSUME NEW k \in HashMapFind(m_groupMap, g) PROVE ByName!GotLeave(m)
  <2>1. k \in Keys(m_groupMap) /\ memory[k] = g
    BY <1>8 DEF HashMapFind, EqualTo
  <2>2. /\ HashMapFind(m_groupMap, g) = {k} /\ GroupOf(g) = NamedGroup(m_groupMap[k])
        /\ g \in ByName!Groups
    BY <2>1, GroupFound, GroupsByName
  <2>3. u \in GroupOf(g).m_users <=> EqualTo(u, m_groupMap[k].m_users) # {}
    BY <2>2 DEF NamedGroup, EqualTo
  <2>4. CASE u \notin GroupOf(g).m_users
    <3>1. left = {}
      BY <1>3, <2>2, <2>3, <2>4
    <3>2. ByName!RemoveUserFromGroup(u, g, "GROUPMNG_USER_DOES_NOT_EXIST")
      BY <1>4, <1>6, <2>2, <2>4, <3>1 DEF ByName!RemoveUserFromGroup
    <3>. QED BY <1>1, <1>2, <1>4, <1>5, <3>1, <3>2
  <2>5. CASE u \in GroupOf(g).m_users
    <3>1. left = {k}
      BY <1>3, <2>2, <2>3, <2>5
    <3>2. PICK keys \in SUBSET Keys(m_groupMap) : keys = left
      BY <2>1, <3>1
    <3>3. m_groupMap' = [l \in Block |-> IF l \in keys
            THEN [m_groupMap[l] EXCEPT !.m_users = @ \ EqualTo(u, @)] ELSE m_groupMap[l]]
      BY <1>4, <3>2
    <3>4. \A h \in GroupName :
            GroupOf(h)' = IF h = g THEN ByName!RemoveUser(GroupOf(h), u) ELSE GroupOf(h)
      <4>. SUFFICES ASSUME NEW h \in GroupName
                    PROVE  GroupOf(h)' = IF h = g THEN ByName!RemoveUser(GroupOf(h), u) ELSE GroupOf(h)
        OBVIOUS
      <4>1. /\ \A l \in keys : memory[l] = h => GroupOf(h)' = ByName!RemoveUser(GroupOf(h), u)
            /\ (\A l \in keys : memory[l] # h) => GroupOf(h)' = GroupOf(h)
        BY <3>3, StruckByName
      <4>. QED BY <2>1, <3>1, <3>2, <4>1
    <3>5. ByName!RemoveUserFromGroup(u, g, "GROUPMNG_SUCCESS")
      BY <1>4, <2>2, <2>5, <3>4 DEF ByName!RemoveUserFromGroup
    <3>. QED BY <1>1, <1>2, <1>4, <1>5, <3>1, <3>5
  <2>. QED BY <2>4, <2>5
<1>. QED BY <1>7, <1>8

LEMMA JoinByName ==
  ASSUME MemInv, MemInv', Frozen,
         NEW m, m.m_username \in UserName, m.m_groupName \in GroupName,
         NEW r \in Malloc({}), GotJoin(m, r)
  PROVE  ByName!GotJoin(m)
<1>1. PICK u \in UserName : u = m.m_username
  OBVIOUS
<1>2. PICK g \in GroupName : g = m.m_groupName
  OBVIOUS
<1>3. UNCHANGED m_groupsID /\ UNCHANGED [v \in UserName |-> UserOf(v)]
  BY UsersStay DEF GotJoin
<1>4. memory' = Put(r, u)
  BY <1>1 DEF GotJoin
<1>. USE SameData
     DEF ByName!GotJoin, ByName!GroupMngResult, ByName!Outcome, ByName!grpVars
<1>5. CASE HashMapFind(m_groupMap, g) = {}
  <2>1. /\ UNCHANGED m_groupMap
        /\ reply' = [m_tag |-> "GROUP_JOIN_REPLY", m_reply |-> FAILURE, m_ip |-> NoAddress]
    BY <1>2, <1>5 DEF GotJoin, WithIP
  <2>2. g \notin ByName!Groups
    BY <1>5, NotStored, GroupsByName
  <2>3. ByName!AddUserToGroup(u, g, "GROUPMNG_GROUP_DOES_NOT_EXIST", NoAddress)
    BY <1>3, <2>1, <2>2, GroupsStay DEF ByName!AddUserToGroup
  <2>. QED BY <1>1, <1>2, <1>3, <2>1, <2>3
<1>6. ASSUME NEW k \in HashMapFind(m_groupMap, g) PROVE ByName!GotJoin(m)
  <2>1. /\ k \in Keys(m_groupMap) /\ memory[k] = g
        /\ k \in Block /\ m_groupMap[k] \in GroupStruct
    BY <1>6 DEF HashMapFind, EqualTo, Keys, MemInv, MemTypeOK
  <2>2. /\ HashMapFind(m_groupMap, g) = {k} /\ GroupOf(g) = NamedGroup(m_groupMap[k])
        /\ g \in ByName!Groups
    BY <2>1, GroupFound, GroupsByName
  <2>3. u \in GroupOf(g).m_users <=> EqualTo(u, m_groupMap[k].m_users) # {}
    BY <2>2 DEF NamedGroup, EqualTo
  <2>4. CASE u \in GroupOf(g).m_users
    <3>1. /\ UNCHANGED m_groupMap
          /\ reply' = [m_tag |-> "GROUP_JOIN_REPLY", m_reply |-> FAILURE, m_ip |-> NoAddress]
      BY <1>1, <1>2, <2>2, <2>3, <2>4 DEF GotJoin, WithIP
    <3>2. ByName!AddUserToGroup(u, g, "GROUPMNG_DUPLICATE", NoAddress)
      BY <1>3, <2>2, <2>4, <3>1, GroupsStay DEF ByName!AddUserToGroup
    <3>. QED BY <1>1, <1>2, <1>3, <3>1, <3>2
  <2>5. CASE u \notin GroupOf(g).m_users
    <3>1. PICK ip, users : /\ ip \in Address /\ ip = m_groupMap[k].m_groupIP
                           /\ users = m_groupMap[k].m_users
      BY <2>1 DEF GroupStruct
    <3>2. /\ AddUser(k, r)
          /\ reply' = [m_tag |-> "GROUP_JOIN_REPLY", m_reply |-> SUCCESS, m_ip |-> ip]
      BY <1>1, <1>2, <2>2, <2>3, <2>5, <3>1 DEF GotJoin, WithIP
    <3>13. CASE UNCHANGED m_groupMap
      <4>1. ip = GroupOf(g).m_groupIP
        BY <2>2, <3>1 DEF NamedGroup
      <4>2. ByName!AddUserToGroup(u, g, "GROUPMNG_SUCCESS", ip)
        BY <1>3, <2>2, <2>5, <3>13, <4>1, GroupsStay DEF ByName!AddUserToGroup
      <4>. QED BY <1>1, <1>2, <1>3, <3>1, <3>2, <4>2
    <3>14. SUFFICES ASSUME m_groupMap' = [m_groupMap EXCEPT ![k].m_users = @ \cup {r}]
                    PROVE  ByName!GotJoin(m)
      BY <3>2, <3>13 DEF AddUser
    <3>3. /\ m_groupMap'[k] = [m_groupMap[k] EXCEPT !.m_users = users \cup {r}]
          /\ \A l \in Block \ {k} : m_groupMap'[l] = m_groupMap[l]
      BY <2>1, <3>1, <3>14 DEF MemInv, MemTypeOK
    <3>4. m_groupMap'[k].m_groupIP = ip /\ m_groupMap'[k].m_users = users \cup {r}
      BY <2>1, <3>1, <3>3 DEF GroupStruct
    <3>5. Keys(m_groupMap)' = Keys(m_groupMap)
      <4>1. m_groupMap'[k] \in GroupStruct \cup {NotFound}
        BY <2>1 DEF MemInv, MemTypeOK
      <4>2. m_groupMap'[k] # NotFound
        <5>1. [m_groupMap[k] EXCEPT !.m_users = users \cup {r}] \in GroupStruct
          BY <2>1, <3>1, PutName DEF GroupStruct, MemInv
        <5>. QED BY <3>3, <5>1, MemoryAssumption
      <4>. QED BY <2>1, <3>3, <4>2 DEF Keys
    <3>6. memory'[k] = g /\ memory'[r] = u /\ \A b \in users : memory'[b] = memory[b]
      BY <1>4, <2>1, <3>1, KeysKeepNames, PutName DEF MemInv
    <3>7. {memory'[b] : b \in users \cup {r}} = {memory[b] : b \in users} \cup {u}
      BY <3>6
    <3>8. GroupOf(g)' = [m_groupIP |-> ip, m_users |-> {memory[b] : b \in users} \cup {u}]
      <4>1. GroupOf(g)' = NamedGroup(m_groupMap[k])'
        BY <2>1, <3>5, <3>6, GroupFound
      <4>. QED BY <3>4, <3>7, <4>1 DEF NamedGroup
    <3>9. GroupOf(g) = [m_groupIP |-> ip, m_users |-> {memory[b] : b \in users}]
      BY <2>2, <3>1 DEF NamedGroup
    <3>10. GroupOf(g)' = ByName!AddUser(GroupOf(g), u)
      BY <3>8, <3>9, RecordEdits DEF ByName!AddUser
    <3>11. ASSUME NEW h \in GroupName, h # g PROVE GroupOf(h)' = GroupOf(h)
      <4>1. HashMapFind(m_groupMap, h)' = HashMapFind(m_groupMap, h)
        BY <3>5, FindStays
      <4>2. \A l \in HashMapFind(m_groupMap, h) : m_groupMap'[l] = m_groupMap[l]
        BY <2>1, <3>3, <3>11 DEF HashMapFind, EqualTo, Keys
      <4>. QED BY <4>1, <4>2, GroupStays
    <3>12. ByName!AddUserToGroup(u, g, "GROUPMNG_SUCCESS", ip)
      <4>1. [h \in GroupName |-> GroupOf(h)]' =
              [[h \in GroupName |-> GroupOf(h)] EXCEPT ![g] = ByName!AddUser(@, u)]
        BY <3>10, <3>11
      <4>2. ip = GroupOf(g).m_groupIP
        BY <3>9
      <4>. QED BY <1>3, <2>2, <2>5, <4>1, <4>2 DEF ByName!AddUserToGroup
    <3>. QED BY <1>1, <1>2, <1>3, <3>1, <3>2, <3>12
  <2>. QED BY <2>4, <2>5
<1>. QED BY <1>5, <1>6

LEMMA CreateByName ==
  ASSUME MemInv, MemInv', Frozen,
         NEW m, m.m_username \in UserName, m.m_groupName \in GroupName,
         NEW r \in Malloc({}), GotCreate(m, r)
  PROVE  ByName!GotCreate(m)
<1>1. PICK g \in GroupName : g = m.m_groupName
  OBVIOUS
<1>2. UNCHANGED [v \in UserName |-> UserOf(v)]
  BY UsersStay DEF GotCreate
<1>3. PICK refusal : refusal = [m_tag |-> "GROUP_CREATE_REPLY", m_reply |-> FAILURE, m_ip |-> NoAddress]
  OBVIOUS
<1>. USE SameData
     DEF ByName!GotCreate, ByName!GroupMngResult, ByName!Outcome
<1>4. ASSUME m_groupsID = <<>>, UNCHANGED <<m_groupMap, m_groupsID>>, reply' = refusal
      PROVE  ByName!GotCreate(m)
  <2>1. ByName!AddNewGroup(g, "GROUPMNG_GENERAL_ERROR", NoAddress)
    BY <1>4, GroupsStay DEF ByName!AddNewGroup, ByName!grpVars
  <2>. QED BY <1>1, <1>2, <1>3, <1>4, <2>1
<1>5. ASSUME Took, UNCHANGED m_groupMap, reply' = refusal
      PROVE  ByName!GotCreate(m)
  <2>1. ByName!AddNewGroup(g, "GROUPMNG_GENERAL_ERROR", NoAddress)
    BY <1>5, GroupsStay DEF ByName!AddNewGroup, Took
  <2>. QED BY <1>1, <1>2, <1>3, <1>5, <2>1
<1>6. ASSUME NEW n \in Malloc({r}), memory' = [Put(r, m.m_username) EXCEPT ![n] = g], Took,
             HashMapFind(m_groupMap, g) = {},
             m_groupMap' = [m_groupMap EXCEPT ![n] = GroupCreate(Head(m_groupsID))],
             reply' = [m_tag |-> "GROUP_CREATE_REPLY", m_reply |-> SUCCESS, m_ip |-> Head(m_groupsID)]
      PROVE  ByName!GotCreate(m)
  <2>1. PICK ip \in Address : ip = Head(m_groupsID)
    BY <1>6 DEF Took, MemInv, MemTypeOK
  <2>2. n \in Block /\ n # r /\ memory[n] = Free
    BY <1>6 DEF Malloc
  <2>3. memory'[n] = g
    BY <1>6, <2>2, PutName DEF MemInv
  <2>4. PICK group \in GroupStruct : group = [m_groupIP |-> ip, m_users |-> {}]
    BY DEF GroupStruct
  <2>5. /\ m_groupMap'[n] = group
        /\ \A k \in Block \ {n} : m_groupMap'[k] = m_groupMap[k]
    BY <1>6, <2>1, <2>2, <2>4 DEF MemInv, MemTypeOK, GroupCreate
  <2>6. Keys(m_groupMap)' = Keys(m_groupMap) \cup {n} /\ n \notin Keys(m_groupMap)
    <3>1. n \notin Keys(m_groupMap)
      BY <2>2, KeysKeepNames DEF MemInv
    <3>. QED BY <2>2, <2>4, <2>5, <3>1, MemoryAssumption DEF Keys
  <2>7. GroupOf(g)' = ByName!GroupCreate(ip)
    <3>1. GroupOf(g)' = NamedGroup(m_groupMap[n])'
      BY <2>3, <2>6, GroupFound
    <3>2. {memory'[b] : b \in {}} = {}
      OBVIOUS
    <3>3. group.m_groupIP = ip /\ group.m_users = {}
      BY <2>4
    <3>. QED BY <2>5, <3>1, <3>2, <3>3 DEF NamedGroup, ByName!GroupCreate
  <2>8. ASSUME NEW h \in GroupName, h # g PROVE GroupOf(h)' = GroupOf(h)
    <3>1. HashMapFind(m_groupMap, h)' = HashMapFind(m_groupMap, h)
      BY <2>3, <2>6, <2>8, FindStays
    <3>2. \A k \in HashMapFind(m_groupMap, h) : m_groupMap'[k] = m_groupMap[k]
      BY <2>5, <2>6 DEF HashMapFind, EqualTo, Keys
    <3>. QED BY <3>1, <3>2, GroupStays
  <2>9. g \notin ByName!Groups
    BY <1>6, NotStored, GroupsByName
  <2>10. ByName!ReadIP(ip) = {ip}
    BY DEF ByName!ReadIP, ByName!Stale, Address
  <2>11. [h \in GroupName |-> GroupOf(h)]' =
           [[h \in GroupName |-> GroupOf(h)] EXCEPT ![g] = ByName!GroupCreate(ip)]
    BY <2>7, <2>8
  <2>12. ByName!AddNewGroup(g, "GROUPMNG_SUCCESS", ip)
    BY <1>6, <2>1, <2>9, <2>10, <2>11 DEF ByName!AddNewGroup, Took
  <2>. QED BY <1>1, <1>2, <1>6, <2>1, <2>12
<1>. QED BY <1>1, <1>3, <1>4, <1>5, <1>6 DEF GotCreate, WithIP, Took

(* The groups there are grow by one at most, and take an address each.     *)
LEMMA GroupsGrow ==
  ASSUME MemInv, MemInv', KeyEffect
  PROVE  \/ ByName!Groups' = ByName!Groups /\ (UNCHANGED m_groupsID \/ Took)
         \/ Took /\ \E g : ByName!Groups' = ByName!Groups \cup {g}
<1>1. /\ ByName!Groups = {g \in GroupName : \E k \in Keys(m_groupMap) : memory[k] = g}
      /\ ByName!Groups' = {g \in GroupName : \E k \in Keys(m_groupMap)' : memory'[k] = g}
  <2>1. \A g \in GroupName : GroupOf(g) # NotFound <=> \E k \in Keys(m_groupMap) : memory[k] = g
    BY GroupsByName
  <2>2. \A g \in GroupName :
          GroupOf(g)' # NotFound <=> \E k \in Keys(m_groupMap)' : memory'[k] = g
    <3>1. ASSUME NEW k \in Keys(m_groupMap)' PROVE NamedGroup(m_groupMap[k])' # NotFound
      <4>1. m_groupMap'[k] \in GroupStruct
        BY DEF MemInv, MemTypeOK, Keys
      <4>2. {memory'[b] : b \in m_groupMap'[k].m_users} \subseteq UserName
        BY OwnedInParts DEF MemInv, MembersOK
      <4>3. NamedGroup(m_groupMap[k])' \in ByName!Group
        BY <4>1, <4>2, SameData DEF NamedGroup, GroupStruct, ByName!Group
      <4>. QED BY <4>3, NamesAssumption
    <3>. QED BY <3>1, GroupFound, NotStored DEF HashMapFind, EqualTo
  <2>. QED BY <2>1, <2>2 DEF ByName!Groups
<1>2. \A k \in Keys(m_groupMap) : memory'[k] = memory[k]
  BY KeysKeepNames DEF MemInv, KeyEffect
<1>3. CASE Keys(m_groupMap)' = Keys(m_groupMap)
  BY <1>1, <1>2, <1>3 DEF KeyEffect
<1>4. ASSUME NEW n, NEW g, GroupAdded(n, g)
      PROVE  Took /\ ByName!Groups' = ByName!Groups \cup {g}
  BY <1>1, <1>2, <1>4 DEF GroupAdded
<1>. QED BY <1>3, <1>4 DEF KeyEffect, MembersShrink, MemberAdded

(* SrvMng's finite sets and their sizes, seen through ByName, are ours.    *)
LEMMA SameFinite ==
  ASSUME NEW S
  PROVE  ByName!IsFiniteSet(S) <=> IsFiniteSet(S)
BY DEF ByName!IsFiniteSet, IsFiniteSet

LEMMA SameCardinality ==
  ASSUME NEW S
  PROVE  ByName!Cardinality(S) = Cardinality(S)
BY DEF ByName!Cardinality, Cardinality

LEMMA TailIsShorter ==
  ASSUME NEW q \in Seq(Address), q # <<>>
  PROVE  Len(Tail(q)) = Len(q) - 1 /\ Len(q) \in Nat
OBVIOUS

LEMMA CapacityStays ==
  ASSUME MemInv, MemInv', KeyEffect, ByName!Capacity
  PROVE  ByName!Capacity'
<1>1. m_groupsID \in Seq(Address) /\ Len(m_groupsID) \in Nat
  BY DEF MemInv, MemTypeOK
<1>2. PICK old : old = ByName!Groups
  OBVIOUS
<1>3. PICK new : new = ByName!Groups'
  OBVIOUS
<1>4. IsFiniteSet(old) /\ Cardinality(old) \in Nat /\ Len(m_groupsID) + Cardinality(old) <= QUEUE_SIZE
  BY <1>2, FS_CardinalityType, SameFinite, SameCardinality DEF ByName!Capacity
<1>5. Took => Len(m_groupsID') = Len(m_groupsID) - 1
  BY <1>1, TailIsShorter DEF Took
<1>6. IsFiniteSet(new) /\ Len(m_groupsID') + Cardinality(new) <= QUEUE_SIZE
  <2>1. CASE new = old /\ (UNCHANGED m_groupsID \/ Took)
    BY <1>1, <1>4, <1>5, <2>1, DataAssumption
  <2>2. ASSUME Took, NEW g, new = old \cup {g}
        PROVE  IsFiniteSet(new) /\ Len(m_groupsID') + Cardinality(new) <= QUEUE_SIZE
    <3>1. IsFiniteSet(new) /\ (Cardinality(new) = Cardinality(old) \/ Cardinality(new) = Cardinality(old) + 1)
      BY <1>4, <2>2, FS_AddElement
    <3>. QED BY <1>1, <1>4, <1>5, <2>2, <3>1, DataAssumption
  <2>. QED BY <1>2, <1>3, <2>1, <2>2, GroupsGrow
<1>. QED BY <1>3, <1>6, SameFinite, SameCardinality DEF ByName!Capacity

LEMMA SeeGroupsByName ==
  ASSUME MemInv, MemInv', Frozen, ByName!Capacity, GotSeeGroups, NEW m
  PROVE  ByName!GotSeeGroups(m)
<1>1. /\ UNCHANGED [v \in UserName |-> UserOf(v)]
      /\ UNCHANGED [g \in GroupName |-> GroupOf(g)]
      /\ UNCHANGED m_groupsID
  BY UsersStay, GroupsStay DEF GotSeeGroups
<1>2. CASE reply' = NoReply
  BY <1>1, <1>2, SameData DEF ByName!GotSeeGroups
<1>3. PICK names : names = {memory[k] : k \in Keys(m_groupMap)}
  OBVIOUS
<1>4. names = ByName!Groups /\ names \in SUBSET GroupName
  <2>1. names \subseteq GroupName
    BY <1>3, OwnedInParts DEF MemInv, GroupKeysOK
  <2>2. \A g \in GroupName : g \in ByName!Groups <=> g \in names
    BY <1>3, GroupsByName
  <2>. QED BY <2>1, <2>2 DEF ByName!Groups
<1>5. ByName!GetAllGroupNames(names)
  <2>1. Len(m_groupsID) \in Nat
    BY DEF MemInv, MemTypeOK
  <2>2. Cardinality(names) \in Nat /\ Cardinality(names) <= QUEUE_SIZE
    BY <1>4, <2>1, FS_CardinalityType, SameFinite, SameCardinality, DataAssumption DEF ByName!Capacity
  <2>3. Cardinality(names) = IF Cardinality(names) < QUEUE_SIZE THEN Cardinality(names) ELSE QUEUE_SIZE
    BY <2>2, DataAssumption
  <2>. QED BY <1>1, <1>4, <2>3, SameCardinality DEF ByName!GetAllGroupNames, ByName!VectorCapacity, ByName!grpVars
<1>. QED BY <1>1, <1>2, <1>3, <1>4, <1>5, SameData DEF GotSeeGroups, ByName!GotSeeGroups

LEMMA MessageByName ==
  ASSUME MemInv, MemInv', Frozen, ByName!Capacity,
         NEW m \in Request \cup {Unhandled} \cup WildBytes, GotMessage(m)
  PROVE  ByName!GotMessage(m)
<1>1. ASSUME NEW r \in Malloc({}),
             \/ m.m_tag = "REGISTER_REQUEST"     /\ GotRegister(m, r)
             \/ m.m_tag = "LOGIN_REQUEST"        /\ GotLogin(m, r)
             \/ m.m_tag = "LOGOUT_REQUEST"       /\ GotLogout(m, r)
             \/ m.m_tag = "GROUP_CREATE_REQUEST" /\ GotCreate(m, r)
             \/ m.m_tag = "GROUP_JOIN_REQUEST"   /\ GotJoin(m, r)
             \/ m.m_tag = "GROUP_LEAVE_REQUEST"  /\ GotLeave(m, r)
      PROVE  ByName!GotMessage(m)
  BY <1>1, RequestFields, RegisterByName, LoginByName, LogoutByName, CreateByName,
     JoinByName, LeaveByName DEF ByName!GotMessage
<1>2. CASE m.m_tag = "NO_CASE" /\ reply' = NoReply
           /\ UNCHANGED <<memory, m_userMap, m_groupMap, m_groupsID>>
  BY <1>2, UsersStay, GroupsStay, SameData DEF ByName!GotMessage
<1>3. CASE m.m_tag = "GROUP_ALL_AVAILABLE_REQUEST" /\ GotSeeGroups
  BY <1>3, SeeGroupsByName DEF ByName!GotMessage
<1>. QED BY <1>1, <1>2, <1>3 DEF GotMessage

LEMMA StepByName ==
  ASSUME MemInv, MemInv', ByName!Capacity, [MemNext]_memVars
  PROVE  [ByName!SrvMngNext]_(ByName!srvVars) /\ ByName!Capacity'
<1>1. CASE UNCHANGED memVars
  <2>1. KeyEffect
    BY <1>1, NothingHappens DEF memVars, MemInv
  <2>2. UNCHANGED ByName!srvVars
    BY <1>1, <2>1, UsersStay, GroupsStay DEF memVars, ByName!srvVars, KeyEffect
  <2>. QED BY <2>1, <2>2, CapacityStays
<1>2. ASSUME NEW m \in Request \cup {Unhandled} \cup WildBytes, GotMessage(m)
      PROVE  ByName!GotMessage(m) /\ ByName!Capacity'
  <2>1. KeyEffect /\ Frozen
    BY <1>2, MessageOK DEF StepOK, KeyEffect, MemInv
  <2>. QED BY <1>2, <2>1, MessageByName, CapacityStays
<1>3. ASSUME NEW m \in Request \cup {Unhandled} \cup WildBytes, Received(m)
      PROVE  [ByName!SrvMngNext]_(ByName!srvVars) /\ ByName!Capacity'
  BY <1>2, <1>3, SameData DEF Received, ByName!SrvMngNext, ByName!Received, ByName!Wild
<1>4. CASE Replayed
  BY <1>2, <1>4 DEF Replayed, ByName!SrvMngNext, ByName!Replayed, MemInv, MemTypeOK
<1>. QED BY <1>1, <1>3, <1>4 DEF MemNext

LEMMA StartByName ==
  ASSUME MemInit, MemInv
  PROVE  ByName!SrvMngInit /\ ByName!Capacity
<1>1. \A name : HashMapFind(m_userMap, name) = {} /\ HashMapFind(m_groupMap, name) = {}
  BY DEF MemInit, HashMapFind, EqualTo, Keys
<1>2. (\A u : UserOf(u) = NotFound) /\ (\A g : GroupOf(g) = NotFound)
  BY <1>1, NotStored
<1>3. ByName!SrvMngInit
  BY <1>2, SameData DEF MemInit, ByName!SrvMngInit, ByName!UsrMngInit, ByName!GrpMngInit, ByName!Wild
<1>4. ByName!Groups = {}
  BY <1>2 DEF ByName!Groups
<1>5. Len(m_groupsID) = QUEUE_SIZE /\ QUEUE_SIZE \in Nat
  BY DataAssumption DEF MemInit
<1>6. ByName!Capacity
  BY <1>4, <1>5, FS_EmptySet, SameFinite, SameCardinality DEF ByName!Capacity
<1>. QED BY <1>3, <1>6

(* For any blocks, users and groups the server whose maps borrow the       *)
(* pointers of the requests behaves as the server whose maps are functions *)
(* of names (srv_mng.c, HashMap.h).                                        *)
THEOREM NamesImplemented == MemSpec => ImplementsNames
<1>1. MemInit => MemInv /\ ByName!SrvMngInit /\ ByName!Capacity
  BY MemStart, StartByName DEF MemInv
<1>2. MemInv /\ ByName!Capacity /\ [MemNext]_memVars =>
        MemInv' /\ ByName!Capacity' /\ [ByName!SrvMngNext]_(ByName!srvVars)
  BY MemStep, StepByName DEF MemInv
<1>. QED BY <1>1, <1>2, PTL DEF MemSpec, ByName!SrvMngSpec, ImplementsNames

-----------------------------------------------------------------------------
(* So the theorems of SrvMng hold of the maps by name.                     *)

Named == INSTANCE SrvMngProofs WITH
  m_userMap <- [u \in UserName |-> UserOf(u)],
  m_groupMap <- [g \in GroupName |-> GroupOf(g)],
  AllocMayFail <- TRUE

LEMMA NamedAssumptions ==
  Named!DataAssumption /\ Named!UserAssumption /\ Named!GroupAssumption
<1>1. Named!Request = Request
  BY DEF Named!Request, Request, Named!RegisterOrLoginRequest, RegisterOrLoginRequest,
         Named!GrpReqStruct, GrpReqStruct, Named!LogOutOrSeeGroupsReq, LogOutOrSeeGroupsReq
<1>2. Named!DataAssumption
  BY <1>1, DataAssumption DEF Named!DataAssumption
<1>3. Named!User = ByName!User
  BY DEF Named!User, ByName!User
<1>4. Named!Group = ByName!Group
  BY DEF
       ByName!Group, Named!Group, ByName!Address, Named!Address,
       ByName!NoAddress, Named!NoAddress
<1>5. Named!UserAssumption /\ Named!GroupAssumption
  BY <1>3, <1>4, NamesAssumption DEF Named!UserAssumption, Named!GroupAssumption
<1>. QED BY <1>2, <1>5

LEMMA SameRegister ==
  ASSUME NEW m, ByName!GotRegister(m)
  PROVE  Named!GotRegister(m)
BY DEF
       ByName!GotRegister, Named!GotRegister, ByName!Outcome,
       Named!Outcome, ByName!RegisterNewUser, Named!RegisterNewUser,
       ByName!UserMngResult, Named!UserMngResult, ByName!grpVars,
       Named!grpVars, ByName!FAILURE, Named!FAILURE, ByName!SUCCESS,
       Named!SUCCESS, ByName!IfAllocFails, Named!IfAllocFails,
       ByName!Registered, Named!Registered, ByName!UserCreate,
       Named!UserCreate

LEMMA SameLogin ==
  ASSUME NEW m, ByName!GotLogin(m)
  PROVE  Named!GotLogin(m)
BY DEF
       ByName!GotLogin, Named!GotLogin, ByName!LogInUser, Named!LogInUser,
       ByName!Outcome, Named!Outcome, ByName!UserMngResult,
       Named!UserMngResult, ByName!grpVars, Named!grpVars,
       ByName!ActivateUser, Named!ActivateUser, ByName!Registered,
       Named!Registered, ByName!FAILURE, Named!FAILURE, ByName!SUCCESS,
       Named!SUCCESS

LEMMA SameLogout ==
  ASSUME NEW m, ByName!GotLogout(m)
  PROVE  Named!GotLogout(m)
BY DEF
       ByName!GotLogout, Named!GotLogout, ByName!DeactivateUser,
       Named!DeactivateUser, ByName!FAILURE, Named!FAILURE,
       ByName!LogOutUser, Named!LogOutUser, ByName!Registered,
       Named!Registered, ByName!RemoveAllGroups, Named!RemoveAllGroups,
       ByName!RemoveUserFromAllGroups, Named!RemoveUserFromAllGroups,
       ByName!SUCCESS, Named!SUCCESS, ByName!grpVars, Named!grpVars,
       ByName!IfAllocFails, Named!IfAllocFails, ByName!Groups,
       Named!Groups, ByName!RemoveUser, Named!RemoveUser

LEMMA SameCreate ==
  ASSUME NEW m, ByName!GotCreate(m)
  PROVE  Named!GotCreate(m)
BY DEF
       ByName!GotCreate, Named!GotCreate, ByName!AddNewGroup,
       Named!AddNewGroup, ByName!Address, Named!Address,
       ByName!GroupMngResult, Named!GroupMngResult, ByName!NoAddress,
       Named!NoAddress, ByName!Outcome, Named!Outcome, ByName!GroupCreate,
       Named!GroupCreate, ByName!Groups, Named!Groups, ByName!ReadIP,
       Named!ReadIP, ByName!grpVars, Named!grpVars, ByName!FAILURE,
       Named!FAILURE, ByName!SUCCESS, Named!SUCCESS, ByName!Stale,
       Named!Stale

LEMMA SameJoin ==
  ASSUME NEW m, ByName!GotJoin(m)
  PROVE  Named!GotJoin(m)
BY DEF
       ByName!GotJoin, Named!GotJoin, ByName!AddUserToGroup,
       Named!AddUserToGroup, ByName!Address, Named!Address,
       ByName!GroupMngResult, Named!GroupMngResult, ByName!NoAddress,
       Named!NoAddress, ByName!Outcome, Named!Outcome, ByName!AddUser,
       Named!AddUser, ByName!Groups, Named!Groups, ByName!grpVars,
       Named!grpVars, ByName!FAILURE, Named!FAILURE, ByName!SUCCESS,
       Named!SUCCESS

LEMMA SameSize ==
  ASSUME NEW S
  PROVE  ByName!Cardinality(S) = Named!Cardinality(S)
BY DEF ByName!Cardinality, Named!Cardinality

LEMMA SameSeeGroups ==
  ASSUME NEW m, ByName!GotSeeGroups(m)
  PROVE  Named!GotSeeGroups(m)
BY SameSize DEF
       ByName!GotSeeGroups, Named!GotSeeGroups, ByName!GetAllGroupNames,
       Named!GetAllGroupNames, ByName!NoReply, Named!NoReply,
       ByName!SUCCESS, Named!SUCCESS, ByName!Groups, Named!Groups,
       ByName!VectorCapacity, Named!VectorCapacity, ByName!grpVars,
       Named!grpVars

LEMMA SameLeave ==
  ASSUME NEW m, ByName!GotLeave(m)
  PROVE  Named!GotLeave(m)
BY DEF
       ByName!GotLeave, Named!GotLeave, ByName!GroupMngResult,
       Named!GroupMngResult, ByName!Outcome, Named!Outcome,
       ByName!RemoveUserFromGroup, Named!RemoveUserFromGroup,
       ByName!FAILURE, Named!FAILURE, ByName!SUCCESS, Named!SUCCESS,
       ByName!Groups, Named!Groups, ByName!RemoveUser, Named!RemoveUser,
       ByName!grpVars, Named!grpVars

LEMMA SameStep == ByName!SrvMngNext => Named!SrvMngNext
<1>1. ASSUME NEW m, ByName!GotMessage(m)
      PROVE  Named!GotMessage(m)
  <2>1. CASE m.m_tag = "NO_CASE" /\ reply' = ByName!NoReply
             /\ UNCHANGED <<[u \in UserName |-> UserOf(u)], [g \in GroupName |-> GroupOf(g)], m_groupsID>>
    BY <2>1 DEF Named!GotMessage, ByName!NoReply, Named!NoReply
  <2>. QED BY <1>1, <2>1, SameRegister, SameLogin, SameLogout, SameCreate, SameJoin,
              SameSeeGroups, SameLeave DEF ByName!GotMessage, Named!GotMessage
<1>2. Named!Request = ByName!Request /\ Named!Wild = ByName!Wild
  BY DEF
       ByName!Request, Named!Request, ByName!GrpReqStruct,
       Named!GrpReqStruct, ByName!LogOutOrSeeGroupsReq,
       Named!LogOutOrSeeGroupsReq, ByName!RegisterOrLoginRequest,
       Named!RegisterOrLoginRequest, ByName!Wild, Named!Wild,
       ByName!Unhandled, Named!Unhandled
<1>. QED BY <1>1, <1>2 DEF ByName!SrvMngNext, Named!SrvMngNext, ByName!Received,
              Named!Received, ByName!Replayed, Named!Replayed

LEMMA SameSpec == ByName!SrvMngSpec => Named!SrvMngSpec
<1>1. ByName!SrvMngInit => Named!SrvMngInit
  BY DEF
       ByName!SrvMngInit, Named!SrvMngInit, ByName!GrpMngInit,
       Named!GrpMngInit, ByName!NoReply, Named!NoReply, ByName!UsrMngInit,
       Named!UsrMngInit, ByName!Wild, Named!Wild, ByName!Unhandled,
       Named!Unhandled
<1>2. UNCHANGED ByName!srvVars => UNCHANGED Named!srvVars
  BY DEF ByName!srvVars, Named!srvVars
<1>. QED BY <1>1, <1>2, SameStep, PTL DEF ByName!SrvMngSpec, Named!SrvMngSpec

LEMMA SameProperties ==
  /\ Named!AddressesApart => ByName!AddressesApart
  /\ Named!LogoutClears => ByName!LogoutClears
  /\ Named!SessionsByPassword => ByName!SessionsByPassword
  /\ UNCHANGED Named!srvVars => UNCHANGED ByName!srvVars
<1>1. Named!AddressesApart => ByName!AddressesApart
  BY DEF
       ByName!AddressesApart, Named!AddressesApart, ByName!Address,
       Named!Address, ByName!Groups, Named!Groups
<1>2. Named!LogoutClears => ByName!LogoutClears
  BY DEF
       ByName!LogoutClears, Named!LogoutClears, ByName!Active,
       Named!Active, ByName!MemberOf, Named!MemberOf, ByName!SUCCESS,
       Named!SUCCESS, ByName!Groups, Named!Groups
<1>3. Named!SessionsByPassword => ByName!SessionsByPassword
  BY DEF
       ByName!SessionsByPassword, Named!SessionsByPassword, ByName!Active,
       Named!Active
<1>4. UNCHANGED Named!srvVars => UNCHANGED ByName!srvVars
  BY DEF Named!srvVars, ByName!srvVars
<1>. QED BY <1>1, <1>2, <1>3, <1>4

(* So the server keeps its promises to users although keys are borrowed    *)
(* and memory may run out: no two groups share an address, sessions need   *)
(* the password and a logout leaves nothing (srv_mng.c).                   *)
THEOREM MemTheoremsHold ==
  MemSpec => []ByName!AddressesApart /\ []ByName!LogoutClears /\ ByName!SessionsByPasswordAlways
<1>1. MemSpec => Named!SrvMngSpec
  BY NamesImplemented, SameSpec, PTL DEF ImplementsNames
<1>2. Named!SrvMngSpec =>
        []Named!AddressesApart /\ []Named!LogoutClears /\ [][Named!SessionsByPassword]_(Named!srvVars)
  BY NamedAssumptions, Named!AddressesStayApart, Named!LogoutLeavesNothing,
     Named!SessionsNeedPassword, PTL DEF Named!SessionsByPasswordAlways
<1>. QED BY <1>1, <1>2, SameProperties, PTL DEF ByName!SessionsByPasswordAlways
=============================================================================
