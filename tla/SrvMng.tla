------------------------------- MODULE SrvMng -------------------------------
(***************************************************************************)
(* The server manager (srv_mng.c): GotMessage takes the packet in the      *)
(* buffer of RunServer (server_net.c), calls the user and group managers   *)
(* and hands one reply to SendToClient.  RunServer calls it for every      *)
(* packet it receives and also, with whatever the buffer still holds, when *)
(* a connection ends.                                                      *)
(***************************************************************************)
EXTENDS UsrMng, GrpMng

VARIABLES
  buffer,  \* the packet at the front of RunServer's buffer
  reply    \* what the last GotMessage handed to SendToClient

srvVars == <<m_userMap, m_groupMap, m_groupsID, buffer, reply>>

(* What memory nobody wrote, or the middle of a packet, may be taken for.  *)
Wild == {Unhandled} \cup WildBytes

Outcome(ok) == IF ok THEN SUCCESS ELSE FAILURE

-----------------------------------------------------------------------------
(* One operator per case of GotMessage.                                    *)

GotRegister(m) ==
  \E res \in UserMngResult :
    /\ RegisterNewUser(m.m_username, m.m_password, res)
    /\ reply' = [m_tag |-> "REGISTER_REPLY", m_reply |-> Outcome(res = "USERMNG_SUCCESS")]
    /\ UNCHANGED grpVars

GotLogin(m) ==
  \E res \in UserMngResult :
    /\ LogInUser(m.m_username, m.m_password, res)
    /\ reply' = [m_tag |-> "LOGIN_REPLY", m_reply |-> Outcome(res = "USERMNG_SUCCESS")]
    /\ UNCHANGED grpVars

(* LogOutUser, RemoveAllGroupsFromUser and RemoveUserFromAllGroups, one    *)
(* after the other.                                                        *)
GotLogout(m) ==
  \/ /\ LogOutUser(m.m_username, "USERMNG_USER_NOT_FOUND")
     /\ reply' = [m_tag |-> "LOGOUT_REPLY", m_reply |-> FAILURE]
     /\ UNCHANGED grpVars
  \/ /\ Registered(m.m_username)
     /\ \E user \in RemoveAllGroups(DeactivateUser(m_userMap[m.m_username])) :
          m_userMap' = [m_userMap EXCEPT ![m.m_username] = user]
     /\ RemoveUserFromAllGroups(m.m_username)
     /\ reply' = [m_tag |-> "LOGOUT_REPLY", m_reply |-> SUCCESS]

GotCreate(m) ==
  \E res \in GroupMngResult, ip \in Address \cup {NoAddress} :
    /\ AddNewGroup(m.m_groupName, res, ip)
    /\ reply' = [m_tag |-> "GROUP_CREATE_REPLY",
                 m_reply |-> Outcome(res = "GROUPMNG_SUCCESS"), m_ip |-> ip]
    /\ UNCHANGED m_userMap

(* A variant that enrols a user only if that user is logged in but still   *)
(* answers that the group was joined.                                      *)
GotJoinActiveOnly(m) ==
  \E res \in GroupMngResult, ip \in Address \cup {NoAddress} :
    /\ \/ /\ m_userMap[m.m_username] \notin {NotFound, NULL}
          /\ m_userMap[m.m_username].m_isActive
          /\ AddUserToGroup(m.m_username, m.m_groupName, res, ip)
       \/ /\ m_userMap[m.m_username] \in {NotFound, NULL}
          /\ res = "GROUPMNG_SUCCESS"
          /\ ip = NoAddress
          /\ UNCHANGED grpVars
    /\ reply' = [m_tag |-> "GROUP_JOIN_REPLY",
                 m_reply |-> Outcome(res = "GROUPMNG_SUCCESS"), m_ip |-> ip]
    /\ UNCHANGED m_userMap

(* Whether the user is registered or logged in is not asked.               *)
GotJoin(m) ==
  \E res \in GroupMngResult, ip \in Address \cup {NoAddress} :
    /\ AddUserToGroup(m.m_username, m.m_groupName, res, ip)
    /\ reply' = [m_tag |-> "GROUP_JOIN_REPLY",
                 m_reply |-> Outcome(res = "GROUPMNG_SUCCESS"), m_ip |-> ip]
    /\ UNCHANGED m_userMap

(* Without memory for the list GotMessage returns and answers nothing.     *)
GotSeeGroups(m) ==
  \/ \E names \in SUBSET GroupName :
       /\ GetAllGroupNames(names)
       /\ reply' = [m_tag |-> "GROUP_ALL_AVAILABLE_REPLY",
                    m_reply |-> SUCCESS, m_allGroupNames |-> names]
       /\ UNCHANGED m_userMap
  \/ /\ AllocMayFail
     /\ reply' = NoReply
     /\ UNCHANGED <<m_userMap, m_groupMap, m_groupsID>>

GotLeave(m) ==
  \E res \in GroupMngResult :
    /\ RemoveUserFromGroup(m.m_username, m.m_groupName, res)
    /\ reply' = [m_tag |-> "GROUP_LEAVE_REPLY",
                 m_reply |-> Outcome(res = "GROUPMNG_SUCCESS")]
    /\ UNCHANGED m_userMap

GotMessage(m) ==
  \/ m.m_tag = "REGISTER_REQUEST"            /\ GotRegister(m)
  \/ m.m_tag = "LOGIN_REQUEST"               /\ GotLogin(m)
  \/ m.m_tag = "LOGOUT_REQUEST"              /\ GotLogout(m)
  \/ m.m_tag = "GROUP_CREATE_REQUEST"        /\ GotCreate(m)
  \/ m.m_tag = "GROUP_JOIN_REQUEST"          /\ GotJoin(m)
  \/ m.m_tag = "GROUP_ALL_AVAILABLE_REQUEST" /\ GotSeeGroups(m)
  \/ m.m_tag = "GROUP_LEAVE_REQUEST"         /\ GotLeave(m)
  \/ /\ m.m_tag = "NO_CASE"
     /\ reply' = NoReply
     /\ UNCHANGED <<m_userMap, m_groupMap, m_groupsID>>

-----------------------------------------------------------------------------
(* recv put the packet m into the buffer.                                  *)
Received(m) ==
  /\ buffer' = m
  /\ GotMessage(m)

(* recv returned 0 or an error and left the buffer as it was.              *)
Replayed ==
  /\ GotMessage(buffer)
  /\ UNCHANGED buffer

SrvMngInit ==
  /\ UsrMngInit
  /\ GrpMngInit
  /\ buffer \in Wild
  /\ reply = NoReply

SrvMngNext == (\E m \in Request \cup Wild : Received(m)) \/ Replayed

SrvMngSpec == SrvMngInit /\ [][SrvMngNext]_srvVars

-----------------------------------------------------------------------------
SrvMngTypeOK ==
  /\ UsrMngTypeOK
  /\ GrpMngTypeOK
  /\ buffer \in Request \cup Wild
  /\ reply \in AnyReply \cup {NoReply}

Active(u) == m_userMap[u] \notin {NotFound, NULL} /\ m_userMap[u].m_isActive

MemberOf(u, g) == g \in Groups /\ u \in m_groupMap[g].m_users

(* No two groups share a multicast address, and no group's address is      *)
(* still waiting to be handed out: every address leaves the queue once and *)
(* GotMessage never puts one back.                                         *)
AddressesApart ==
  /\ \A i, j \in DOMAIN m_groupsID : m_groupsID[i] = m_groupsID[j] => i = j
  /\ \A i \in DOMAIN m_groupsID : m_groupsID[i] \in Address
  /\ \A g \in Groups :
       /\ m_groupMap[g].m_groupIP \in Address
       /\ \A i \in DOMAIN m_groupsID : m_groupMap[g].m_groupIP # m_groupsID[i]
       /\ \A h \in Groups : m_groupMap[g].m_groupIP = m_groupMap[h].m_groupIP => g = h

(* What the reply to the request in the buffer says about the state.       *)
TrueOf(m) ==
  /\ m.m_tag = "REGISTER_REQUEST" => Registered(m.m_username)
  /\ m.m_tag = "LOGIN_REQUEST" =>
       /\ (reply.m_reply = SUCCESS) <=>
            /\ Registered(m.m_username)
            /\ m_userMap[m.m_username].m_password = m.m_password
       /\ reply.m_reply = SUCCESS => Active(m.m_username)
  /\ m.m_tag = "LOGOUT_REQUEST" =>
       /\ (reply.m_reply = SUCCESS) <=> Registered(m.m_username)
       /\ reply.m_reply = SUCCESS =>
            /\ ~Active(m.m_username)
            /\ m_userMap[m.m_username].m_groups = {}
            /\ \A g \in GroupName : ~MemberOf(m.m_username, g)
  /\ m.m_tag = "GROUP_CREATE_REQUEST" =>
       IF reply.m_reply = SUCCESS
       THEN /\ m.m_groupName \in Groups
            /\ m_groupMap[m.m_groupName] = GroupCreate(reply.m_ip)
       ELSE m.m_groupName \in Groups \/ m_groupsID = <<>>
  /\ m.m_tag = "GROUP_JOIN_REQUEST" =>
       /\ MemberOf(m.m_username, m.m_groupName) <=> m.m_groupName \in Groups
       /\ reply.m_reply = SUCCESS =>
            /\ m.m_groupName \in Groups
            /\ m_groupMap[m.m_groupName].m_groupIP = reply.m_ip
  /\ m.m_tag = "GROUP_LEAVE_REQUEST" => ~MemberOf(m.m_username, m.m_groupName)
  /\ m.m_tag = "GROUP_ALL_AVAILABLE_REQUEST" => reply.m_allGroupNames = Groups

(* Every reply is true of the state it leaves behind, the second reply to  *)
(* a request that is executed again included: a refused registration means *)
(* the name is taken, a group list names every group there is, and so on.  *)
(* Without memory for the containers several replies claim what did not    *)
(* happen, so the property is about a server that can allocate.            *)
RepliesAreTrue ==
  ~AllocMayFail /\ reply # NoReply =>
    /\ buffer.m_tag # "NO_CASE"
    /\ reply.m_tag = ReplyTag[buffer.m_tag]
    /\ TrueOf(buffer)

(* RunServer executes the last request again when a connection ends.  Once *)
(* a request was answered this changes no account, no session, no group    *)
(* and no membership (it may use up a multicast address).                  *)
ReplayIsHarmless ==
  ~AllocMayFail /\ reply # NoReply /\ buffer' = buffer =>
    UNCHANGED <<m_userMap, m_groupMap>>

ReplayIsHarmlessAlways == [][ReplayIsHarmless]_srvVars

(* A session starts only with a LOGIN packet that holds the password the   *)
(* account was registered with, and ends only with a LOGOUT packet for its *)
(* user, replays and unhandled packets included.                           *)
SessionsByPassword ==
  \A u \in UserName :
    /\ ~Active(u) /\ Active(u)' =>
         /\ buffer'.m_tag = "LOGIN_REQUEST"
         /\ buffer'.m_username = u
         /\ buffer'.m_password = m_userMap[u].m_password
    /\ Active(u) /\ ~Active(u)' =>
         /\ buffer'.m_tag = "LOGOUT_REQUEST"
         /\ buffer'.m_username = u

SessionsByPasswordAlways == [][SessionsByPassword]_srvVars

(* Even when memory runs out in the middle of it, a logout that is         *)
(* answered with success leaves the user in no session and no group.       *)
LogoutClears ==
  buffer.m_tag = "LOGOUT_REQUEST" /\ reply = [m_tag |-> "LOGOUT_REPLY", m_reply |-> SUCCESS] =>
    /\ ~Active(buffer.m_username)
    /\ \A g \in GroupName : ~MemberOf(buffer.m_username, g)

-----------------------------------------------------------------------------
(* The group directory this server implements.                             *)

Directory == INSTANCE GroupDirectory WITH
  address <- [g \in GroupName |-> IF g \in Groups THEN m_groupMap[g].m_groupIP ELSE NoAddress],
  members <- [g \in GroupName |-> IF g \in Groups THEN m_groupMap[g].m_users ELSE {}],
  spent <- {a \in Address : \A i \in DOMAIN m_groupsID : m_groupsID[i] # a}

(* Whatever packets arrive, are repeated or are read from stale memory,    *)
(* the server's groups behave as the group directory: every group has an   *)
(* address of its own for good.                                            *)
ImplementsDirectory == Directory!DirectorySpec
=============================================================================
