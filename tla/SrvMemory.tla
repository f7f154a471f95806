------------------------------ MODULE SrvMemory ------------------------------
(***************************************************************************)
(* The server manager once more, with the memory that names live in.  A    *)
(* HashMap keeps the pointer it was given as a key and compares what is    *)
(* behind it, so a map works only while its keys are left alone.  The      *)
(* managers disagree on whose they are: RegisterNewUser and AddNewGroup    *)
(* copy the name, AddUser (group.c) keeps the pointer into the request     *)
(* that GotMessage unpacked, and GotMessage frees some requests only.      *)
(***************************************************************************)
EXTENDS IpcMessages

CONSTANTS
  Block,  \* bound: the blocks of memory that names can be put into
  Free    \* the content of a block that calloc or malloc may return

VARIABLES
  memory,      \* the name in each block: of an unpacked request, m_username
  m_userMap,   \* by key block: the account or a stored NULL, or NotFound if no key
  m_groupMap,  \* by key block: the group, whose m_users are key blocks too
  m_groupsID, buffer, reply

memVars == <<memory, m_userMap, m_groupMap, m_groupsID, buffer, reply>>

Account == [m_password : Password, m_isActive : BOOLEAN]
GroupStruct == [m_groupIP : Address, m_users : SUBSET Block]

ASSUME MemoryAssumption ==
  /\ Free \notin UserName \cup GroupName
  /\ NotFound \notin Account \cup GroupStruct
  /\ NULL \notin Account

-----------------------------------------------------------------------------
(* HashMap: keys are pointers, and two are equal if strcmp finds them so.  *)

Keys(map) == {k \in Block : map[k] # NotFound}

EqualTo(name, keys) == {k \in keys : memory[k] = name}

HashMapFind(map, name) == EqualTo(name, Keys(map))

Accounts(keys) == {k \in keys : m_userMap[k] # NULL}

(* What malloc may return when the blocks in taken have just been taken.   *)
Malloc(taken) == {b \in Block \ taken : memory[b] = Free}

Put(r, name) == [memory EXCEPT ![r] = name]

Result(tag, ok) == [m_tag |-> tag, m_reply |-> IF ok THEN SUCCESS ELSE FAILURE]

WithIP(tag, ok, ip) ==
  [m_tag |-> tag, m_reply |-> IF ok THEN SUCCESS ELSE FAILURE, m_ip |-> ip]

-----------------------------------------------------------------------------
(* The cases of GotMessage for a request m unpacked into the block r, which *)
(* is Free before.                                                         *)

(* unpackedData is never freed, nor is the copy if HashMapInsert refuses   *)
(* it: the name is taken, or there is no memory for the pair.  The NULL of *)
(* a failed UserCreate is stored like an account.                          *)
GotRegister(m, r) ==
  LET u == m.m_username
      Refused == /\ reply' = Result("REGISTER_REPLY", FALSE)
                 /\ UNCHANGED m_userMap IN
  /\ \/ \E newUserName \in Malloc({r}) :
          /\ memory' = [Put(r, u) EXCEPT ![newUserName] = u]
          /\ \/ Refused
             \/ /\ HashMapFind(m_userMap, u) = {}
                /\ \E user \in {NULL, [m_password |-> m.m_password, m_isActive |-> FALSE]} :
                     m_userMap' = [m_userMap EXCEPT ![newUserName] = user]
                /\ reply' = Result("REGISTER_REPLY", TRUE)
     \/ /\ Malloc({r}) = {}
        /\ memory' = Put(r, u)
        /\ Refused
  /\ UNCHANGED <<m_groupMap, m_groupsID>>

(* With a NULL the password is compared with what an uninitialised array   *)
(* holds, and nobody is activated.                                         *)
GotLogin(m, r) ==
  LET user == HashMapFind(m_userMap, m.m_username)
      right == {k \in Accounts(user) : m_userMap[k].m_password = m.m_password} IN
  /\ m_userMap' = [k \in Block |->
       IF k \in right THEN [m_userMap[k] EXCEPT !.m_isActive = TRUE] ELSE m_userMap[k]]
  /\ memory' = Put(r, Free)
  /\ \/ reply' = Result("LOGIN_REPLY", right # {})
     \/ Accounts(user) # user /\ reply' = Result("LOGIN_REPLY", TRUE)
  /\ UNCHANGED <<m_groupMap, m_groupsID>>

(* A variant that frees the request as soon as LogOutUser has read it:     *)
(* RemoveUserFromAllGroups then looks for nobody.                          *)
GotLogoutFreeingEarly(m, r) ==
  LET user == HashMapFind(m_userMap, m.m_username) IN
  /\ m_userMap' = [k \in Block |->
       IF k \in Accounts(user)
       THEN [m_userMap[k] EXCEPT !.m_isActive = FALSE] ELSE m_userMap[k]]
  /\ memory' = Put(r, Free)
  /\ reply' = Result("LOGOUT_REPLY", user # {})
  /\ UNCHANGED <<m_groupMap, m_groupsID>>

(* RemoveUserFromAllGroups reads the request too, which is freed after it. *)
GotLogout(m, r) ==
  LET u == m.m_username
      user == HashMapFind(m_userMap, u) IN
  /\ m_userMap' = [k \in Block |->
       IF k \in Accounts(user)
       THEN [m_userMap[k] EXCEPT !.m_isActive = FALSE] ELSE m_userMap[k]]
  /\ m_groupMap' = IF user = {} THEN m_groupMap ELSE
       [k \in Block |-> IF k \in Keys(m_groupMap)
          THEN [m_groupMap[k] EXCEPT !.m_users = @ \ EqualTo(u, @)] ELSE NotFound]
  /\ memory' = Put(r, Free)
  /\ reply' = Result("LOGOUT_REPLY", user # {})
  /\ UNCHANGED m_groupsID

(* A variant that creates the record and never stores the address in it.   *)
GroupCreateUnset(ip) == [m_groupIP |-> NULL, m_users |-> {}]

GroupCreate(ip) == [m_groupIP |-> ip, m_users |-> {}]

(* unpackedDataGrp is never freed; AddNewGroup's copy of the name is kept  *)
(* as the key, or leaked if HashMapInsert refuses it.  GroupCreate or the   *)
(* copy's malloc may fail before that.                                     *)
GotCreate(m, r) ==
  LET g == m.m_groupName
      Refused == /\ reply' = WithIP("GROUP_CREATE_REPLY", FALSE, NoAddress)
                 /\ UNCHANGED m_groupMap IN
  /\ \/ /\ m_groupsID = <<>>
        /\ memory' = Put(r, m.m_username)
        /\ Refused
        /\ UNCHANGED m_groupsID
     \/ /\ m_groupsID # <<>>
        /\ m_groupsID' = Tail(m_groupsID)
        /\ \/ \E newGroupName \in Malloc({r}) :
                /\ memory' = [Put(r, m.m_username) EXCEPT ![newGroupName] = g]
                /\ \/ Refused
                   \/ /\ HashMapFind(m_groupMap, g) = {}
                      /\ m_groupMap' = [m_groupMap EXCEPT ![newGroupName] =
                           GroupCreate(Head(m_groupsID))]
                      /\ reply' = WithIP("GROUP_CREATE_REPLY", TRUE, Head(m_groupsID))
           \/ /\ memory' = Put(r, m.m_username)
              /\ Refused
  /\ UNCHANGED m_userMap

(* What AddUser does with the request of a user who is no member: it keeps *)
(* the pointer _userName as the key, and reports success also when         *)
(* HashMapInsert found no memory for the pair.                             *)
AddUser(k, r) ==
  \/ m_groupMap' = [m_groupMap EXCEPT ![k].m_users = @ \cup {r}]
  \/ UNCHANGED m_groupMap

(* A variant that frees the request, as the cases LOGIN and LOGOUT do.     *)
GotJoinFreeing(m, r) ==
  LET group == HashMapFind(m_groupMap, m.m_groupName)
      Refused == /\ reply' = WithIP("GROUP_JOIN_REPLY", FALSE, NoAddress)
                 /\ UNCHANGED m_groupMap IN
  /\ memory' = Put(r, Free)
  /\ \/ group = {} /\ Refused
     \/ \E k \in group :
          IF EqualTo(m.m_username, m_groupMap[k].m_users) # {} THEN Refused
          ELSE /\ AddUser(k, r)
               /\ reply' = WithIP("GROUP_JOIN_REPLY", TRUE, m_groupMap[k].m_groupIP)
  /\ UNCHANGED <<m_userMap, m_groupsID>>

(* unpackedDataGrp is never freed: it may have become a key.               *)
GotJoin(m, r) ==
  LET group == HashMapFind(m_groupMap, m.m_groupName)
      Refused == /\ reply' = WithIP("GROUP_JOIN_REPLY", FALSE, NoAddress)
                 /\ UNCHANGED m_groupMap IN
  /\ memory' = Put(r, m.m_username)
  /\ \/ group = {} /\ Refused
     \/ \E k \in group :
          IF EqualTo(m.m_username, m_groupMap[k].m_users) # {} THEN Refused
          ELSE /\ AddUser(k, r)
               /\ reply' = WithIP("GROUP_JOIN_REPLY", TRUE, m_groupMap[k].m_groupIP)
  /\ UNCHANGED <<m_userMap, m_groupsID>>

(* RemoveUser drops the key it gets back, which leaks its block.           *)
GotLeave(m, r) ==
  LET u == m.m_username
      group == HashMapFind(m_groupMap, m.m_groupName)
      left == {k \in group : EqualTo(u, m_groupMap[k].m_users) # {}} IN
  /\ memory' = Put(r, u)
  /\ m_groupMap' = [k \in Block |->
       IF k \in left THEN [m_groupMap[k] EXCEPT !.m_users = @ \ EqualTo(u, @)]
       ELSE m_groupMap[k]]
  /\ reply' = Result("GROUP_LEAVE_REPLY", left # {})
  /\ UNCHANGED <<m_userMap, m_groupsID>>

(* The list is put together from the keys themselves, in a block that is   *)
(* freed again; without one there is no reply.                             *)
GotSeeGroups ==
  /\ reply' = IF Malloc({}) = {} THEN NoReply ELSE
       [m_tag |-> "GROUP_ALL_AVAILABLE_REPLY", m_reply |-> SUCCESS,
        m_allGroupNames |-> {memory[k] : k \in Keys(m_groupMap)}]
  /\ UNCHANGED <<memory, m_userMap, m_groupMap, m_groupsID>>

GotMessage(m) ==
  \/ \E r \in Malloc({}) :
       \/ m.m_tag = "REGISTER_REQUEST"     /\ GotRegister(m, r)
       \/ m.m_tag = "LOGIN_REQUEST"        /\ GotLogin(m, r)
       \/ m.m_tag = "LOGOUT_REQUEST"       /\ GotLogout(m, r)
       \/ m.m_tag = "GROUP_CREATE_REQUEST" /\ GotCreate(m, r)
       \/ m.m_tag = "GROUP_JOIN_REQUEST"   /\ GotJoin(m, r)
       \/ m.m_tag = "GROUP_LEAVE_REQUEST"  /\ GotLeave(m, r)
  \/ m.m_tag = "GROUP_ALL_AVAILABLE_REQUEST" /\ GotSeeGroups
  \/ /\ m.m_tag = "NO_CASE"
     /\ reply' = NoReply
     /\ UNCHANGED <<memory, m_userMap, m_groupMap, m_groupsID>>

-----------------------------------------------------------------------------
MemInit ==
  /\ memory = [b \in Block |-> Free]
  /\ m_userMap = [b \in Block |-> NotFound]
  /\ m_groupMap = [b \in Block |-> NotFound]
  /\ m_groupsID = [i \in 1 .. QUEUE_SIZE |-> i]
  /\ buffer \in {Unhandled} \cup WildBytes
  /\ reply = NoReply

Received(m) ==
  /\ buffer' = m
  /\ GotMessage(m)

Replayed ==
  /\ GotMessage(buffer)
  /\ UNCHANGED buffer

MemNext ==
  \/ \E m \in Request \cup {Unhandled} \cup WildBytes : Received(m)
  \/ Replayed

MemSpec == MemInit /\ [][MemNext]_memVars

-----------------------------------------------------------------------------
MemTypeOK ==
  /\ memory \in [Block -> {Free} \cup UserName \cup GroupName]
  /\ m_userMap \in [Block -> {NotFound, NULL} \cup Account]
  /\ m_groupMap \in [Block -> {NotFound} \cup GroupStruct]
  /\ m_groupsID \in Seq(Address)
  /\ buffer \in Request \cup {Unhandled} \cup WildBytes
  /\ reply \in AnyReply \cup {NoReply}

Members == UNION {m_groupMap[k].m_users : k \in Keys(m_groupMap)}

(* No map holds two keys that strcmp calls equal.                          *)
Unambiguous(keys) == \A k, l \in keys : memory[k] = memory[l] => k = l

(* A key is readable as long as a map holds it, though no code says who    *)
(* owns it and GotMessage frees some of the requests that names came in:   *)
(* every key of every map still holds a name of the right kind, no map     *)
(* holds a name twice, and no block is a key in two places, so that        *)
(* whoever removes one entry may not disturb another.                      *)
KeysAreOwned ==
  /\ \A k \in Keys(m_userMap) : memory[k] \in UserName
  /\ \A k \in Keys(m_groupMap) : memory[k] \in GroupName
  /\ \A k \in Members : memory[k] \in UserName
  /\ Unambiguous(Keys(m_userMap)) /\ Unambiguous(Keys(m_groupMap))
  /\ \A k \in Keys(m_groupMap) : Unambiguous(m_groupMap[k].m_users)
  /\ Keys(m_userMap) \cap Members = {}
  /\ \A k, l \in Keys(m_groupMap) :
       k # l => m_groupMap[k].m_users \cap m_groupMap[l].m_users = {}

(* The maps as SrvMng has them: functions of names.                        *)
UserOf(u) ==
  LET keys == HashMapFind(m_userMap, u) IN
  IF keys = {} THEN NotFound
  ELSE LET user == m_userMap[CHOOSE k \in keys : TRUE] IN
       IF user = NULL THEN NULL ELSE
       [m_password |-> user.m_password, m_isActive |-> user.m_isActive, m_groups |-> {}]

GroupOf(g) ==
  LET keys == HashMapFind(m_groupMap, g) IN
  IF keys = {} THEN NotFound
  ELSE LET group == m_groupMap[CHOOSE k \in keys : TRUE] IN
       [m_groupIP |-> group.m_groupIP, m_users |-> {memory[k] : k \in group.m_users}]

ByName == INSTANCE SrvMng WITH
  m_userMap <- [u \in UserName |-> UserOf(u)],
  m_groupMap <- [g \in GroupName |-> GroupOf(g)],
  AllocMayFail <- TRUE

(* What marks an absent key or a failed allocation is no record of a name. *)
ASSUME NamesAssumption ==
  /\ NotFound \notin ByName!User /\ NULL \notin ByName!User
  /\ NotFound \notin ByName!Group

(* With all this borrowing the server behaves as SrvMng says, where maps   *)
(* are functions of names and memory may run out: what is stored under a   *)
(* name is found under it, answered about and changed by requests that     *)
(* name it, and by no others.                                              *)
ImplementsNames == ByName!SrvMngSpec
=============================================================================
