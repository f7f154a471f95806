------------------------------- MODULE GrpMng -------------------------------
(***************************************************************************)
(* The group manager (grp_mng.c) over the group records (group.c): the map *)
(* from names to groups and the queue of multicast addresses not handed    *)
(* out yet.  Every operation is an action with output parameters for what  *)
(* it returns and for what it writes through its out pointers.             *)
(***************************************************************************)
EXTENDS IpcMessages

VARIABLES m_groupMap, m_groupsID

grpVars == <<m_groupMap, m_groupsID>>

Group == [m_groupIP : Address \cup {NoAddress}, m_users : SUBSET UserName]

ASSUME GroupAssumption == NotFound \notin Group

(* An element of the queue is a pointer to an address string; Stale is the *)
(* pointer that DeleteGroup leaves into the group it has just freed.       *)
Stale == 0

(* What a read through such a pointer can find.                            *)
ReadIP(ptr) == IF ptr = Stale THEN Address \cup {NoAddress} ELSE {ptr}

GroupMngResult ==
  {"GROUPMNG_SUCCESS", "GROUPMNG_DUPLICATE", "GROUPMNG_GROUP_DOES_NOT_EXIST",
   "GROUPMNG_USER_DOES_NOT_EXIST", "GROUPMNG_GENERAL_ERROR"}

Groups == {g \in GroupName : m_groupMap[g] # NotFound}

-----------------------------------------------------------------------------
(* group.c: what each operation makes of one group record.                 *)

(* A variant that creates the record and never stores the address in it.   *)
GroupCreateUnset(ip) == [m_groupIP |-> NULL, m_users |-> {}]

GroupCreate(ip) == [m_groupIP |-> ip, m_users |-> {}]

AddUser(group, u) == [group EXCEPT !.m_users = @ \cup {u}]

RemoveUser(group, u) == [group EXCEPT !.m_users = @ \ {u}]

-----------------------------------------------------------------------------
(* grp_mng.c                                                               *)

GrpMngInit ==
  /\ m_groupMap = [g \in GroupName |-> NotFound]
  /\ m_groupsID = [i \in 1 .. QUEUE_SIZE |-> i]

(* A variant that looks the name up only to replace what it finds.         *)
AddNewGroupReplacing(g, res, ip) ==
  /\ res = "GROUPMNG_SUCCESS"
  /\ m_groupsID # <<>>
  /\ m_groupsID' = Tail(m_groupsID)
  /\ ip \in ReadIP(Head(m_groupsID))
  /\ m_groupMap' = [m_groupMap EXCEPT ![g] = GroupCreate(ip)]

(* A variant that reads the first address and leaves it in the queue.      *)
AddNewGroupPeeking(g, res, ip) ==
  /\ res = "GROUPMNG_SUCCESS"
  /\ m_groupsID # <<>>
  /\ g \notin Groups
  /\ ip \in ReadIP(Head(m_groupsID))
  /\ m_groupMap' = [m_groupMap EXCEPT ![g] = GroupCreate(ip)]
  /\ UNCHANGED m_groupsID

(* The address is taken from the queue before anything else can fail, and  *)
(* no failure puts it back.                                                *)
AddNewGroup(g, res, ip) ==
  \/ /\ m_groupsID = <<>>
     /\ res = "GROUPMNG_GENERAL_ERROR"
     /\ ip = NoAddress
     /\ UNCHANGED grpVars
  \/ /\ m_groupsID # <<>>
     /\ m_groupsID' = Tail(m_groupsID)
     /\ \/ /\ g \in Groups
           /\ res = "GROUPMNG_DUPLICATE"
           /\ ip = NoAddress
           /\ UNCHANGED m_groupMap
        \/ /\ g \notin Groups
           /\ res = "GROUPMNG_SUCCESS"
           /\ ip \in ReadIP(Head(m_groupsID))
           /\ \E stored \in ReadIP(Head(m_groupsID)) :
                m_groupMap' = [m_groupMap EXCEPT ![g] = GroupCreate(stored)]
        \/ /\ AllocMayFail
           /\ res = "GROUPMNG_GENERAL_ERROR"
           /\ ip = NoAddress
           /\ UNCHANGED m_groupMap

(* QueueInsert refuses what does not fit in the capacity it was made with. *)
QueueInsert(q, ptr) == IF Len(q) < QUEUE_SIZE THEN Append(q, ptr) ELSE q

(* A variant that returns the address and forgets to take the group out.   *)
DeleteGroupKeeping(g, res) ==
  /\ g \in Groups
  /\ res = "GROUPMNG_SUCCESS"
  /\ m_groupsID' = QueueInsert(m_groupsID, Stale)
  /\ UNCHANGED m_groupMap

DeleteGroup(g, res) ==
  \/ /\ g \notin Groups
     /\ res = "GROUPMNG_GROUP_DOES_NOT_EXIST"
     /\ UNCHANGED grpVars
  \/ /\ g \in Groups
     /\ m_groupMap' = [m_groupMap EXCEPT ![g] = NotFound]
     /\ m_groupsID' = QueueInsert(m_groupsID, Stale)
     /\ res = IF Len(m_groupsID) < QUEUE_SIZE
              THEN "GROUPMNG_SUCCESS" ELSE "GROUPMNG_GENERAL_ERROR"

(* AddUser reports success for every failure of HashMapInsert but a        *)
(* duplicate key.                                                          *)
AddUserToGroup(u, g, res, ip) ==
  \/ /\ g \notin Groups
     /\ res = "GROUPMNG_GROUP_DOES_NOT_EXIST"
     /\ ip = NoAddress
     /\ UNCHANGED grpVars
  \/ /\ g \in Groups
     /\ u \in m_groupMap[g].m_users
     /\ res = "GROUPMNG_DUPLICATE"
     /\ ip = NoAddress
     /\ UNCHANGED grpVars
  \/ /\ g \in Groups
     /\ u \notin m_groupMap[g].m_users
     /\ res = "GROUPMNG_SUCCESS"
     /\ ip = m_groupMap[g].m_groupIP
     /\ \/ m_groupMap' = [m_groupMap EXCEPT ![g] = AddUser(@, u)]
        \/ AllocMayFail /\ UNCHANGED m_groupMap
     /\ UNCHANGED m_groupsID

RemoveUserFromGroup(u, g, res) ==
  \/ /\ g \notin Groups
     /\ res = "GROUPMNG_GROUP_DOES_NOT_EXIST"
     /\ UNCHANGED grpVars
  \/ /\ g \in Groups
     /\ u \notin m_groupMap[g].m_users
     /\ res = "GROUPMNG_USER_DOES_NOT_EXIST"
     /\ UNCHANGED grpVars
  \/ /\ g \in Groups
     /\ u \in m_groupMap[g].m_users
     /\ res = "GROUPMNG_SUCCESS"
     /\ m_groupMap' = [m_groupMap EXCEPT ![g] = RemoveUser(@, u)]
     /\ UNCHANGED m_groupsID

(* A variant whose iteration stops at the first group it changes.          *)
RemoveUserFromOneGroup(u) ==
  /\ UNCHANGED m_groupsID
  /\ \/ /\ \A g \in Groups : u \notin m_groupMap[g].m_users
        /\ UNCHANGED m_groupMap
     \/ \E g \in Groups :
          /\ u \in m_groupMap[g].m_users
          /\ m_groupMap' = [m_groupMap EXCEPT ![g] = RemoveUser(@, u)]

RemoveUserFromAllGroups(u) ==
  /\ m_groupMap' = [g \in GroupName |->
                      IF g \in Groups THEN RemoveUser(m_groupMap[g], u) ELSE NotFound]
  /\ UNCHANGED m_groupsID

(* The names pass through a vector of fixed capacity: VectorAppend drops   *)
(* what does not fit, and everything if VectorCreate had no memory.        *)
VectorCapacity == QUEUE_SIZE

GetAllGroupNames(names) ==
  /\ \/ /\ names \in SUBSET Groups
        /\ Cardinality(names) =
             IF Cardinality(Groups) < VectorCapacity THEN Cardinality(Groups)
             ELSE VectorCapacity
     \/ AllocMayFail /\ names = {}
  /\ UNCHANGED grpVars

-----------------------------------------------------------------------------
(* The manager on its own, called in any order with any arguments.         *)

GrpMngNext ==
  \E res \in GroupMngResult, g \in GroupName :
    \/ \E ip \in Address \cup {NoAddress} : AddNewGroup(g, res, ip)
    \/ DeleteGroup(g, res)
    \/ \E u \in UserName, ip \in Address \cup {NoAddress} : AddUserToGroup(u, g, res, ip)
    \/ \E u \in UserName : RemoveUserFromGroup(u, g, res) \/ RemoveUserFromAllGroups(u)
    \/ \E names \in SUBSET GroupName : GetAllGroupNames(names)

GrpMngSpec == GrpMngInit /\ [][GrpMngNext]_grpVars

GrpMngTypeOK ==
  /\ m_groupMap \in [GroupName -> {NotFound} \cup Group]
  /\ m_groupsID \in Seq(Address \cup {Stale})

(* The addresses still queued and the groups that hold one never exceed    *)
(* the capacity of the queue.  So DeleteGroup always finds room for the    *)
(* address it returns, and the vector of GetAllGroupNames has a place for  *)
(* every group.                                                            *)
Capacity ==
  /\ IsFiniteSet(Groups)
  /\ Len(m_groupsID) + Cardinality(Groups) <= QUEUE_SIZE

(* As long as a group exists it keeps the address its members were told,   *)
(* whatever is created, refused or deleted around it.                      *)
AddressIsKept ==
  \A g \in Groups :
    m_groupMap'[g] # NotFound => m_groupMap'[g].m_groupIP = m_groupMap[g].m_groupIP

AddressIsKeptAlways == [][AddressIsKept]_grpVars
=============================================================================
