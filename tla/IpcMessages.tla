---------------------------- MODULE IpcMessages ----------------------------
(***************************************************************************)
(* The data every part of the chat system shares: the names users type,    *)
(* the multicast addresses the server hands out, and the requests and      *)
(* replies of protocol.h as records (their bytes are not modelled here).   *)
(***************************************************************************)
EXTENDS Integers, Sequences, FiniteSets

CONSTANTS
  UserName,      \* user names that can be typed at a client
  Password,      \* passwords that can be typed at a client
  GroupName,     \* group names that can be typed at a client
  QUEUE_SIZE,    \* grp_mng.c: number of multicast addresses in the pool (100)
  NotFound,      \* what HashMapFind reports for a key that is absent
  NULL,          \* the C null pointer
  AllocMayFail,  \* whether malloc and the containers may run out of memory
  WildBytes      \* requests that uninitialised memory may happen to spell

(***************************************************************************)
(* Address i stands for the string "224.0.0.i" that GrpMngCreate builds;   *)
(* NoAddress for bytes that are none of these strings (the literal "ip" of *)
(* a failure reply, or whatever a stale pointer points at).                *)
(***************************************************************************)
Address == 1 .. QUEUE_SIZE
NoAddress == 0

SUCCESS == 1
FAILURE == 0

-----------------------------------------------------------------------------
(* Requests, by the C struct that carries them.                            *)

RegisterOrLoginRequest ==
  [m_tag : {"REGISTER_REQUEST", "LOGIN_REQUEST"},
   m_username : UserName, m_password : Password]

GrpReqStruct ==
  [m_tag : {"GROUP_CREATE_REQUEST", "GROUP_JOIN_REQUEST", "GROUP_LEAVE_REQUEST"},
   m_username : UserName, m_groupName : GroupName]

LogOutOrSeeGroupsReq ==
  [m_tag : {"LOGOUT_REQUEST", "GROUP_ALL_AVAILABLE_REQUEST"},
   m_username : UserName]

Request == RegisterOrLoginRequest \cup GrpReqStruct \cup LogOutOrSeeGroupsReq

(* A packet whose tag byte selects no case of GotMessage's switch.         *)
Unhandled == [m_tag |-> "NO_CASE"]

-----------------------------------------------------------------------------
(* Replies, by the C struct that carries them.                             *)

Reply ==
  [m_tag : {"REGISTER_REPLY", "LOGIN_REPLY", "LOGOUT_REPLY", "GROUP_LEAVE_REPLY"},
   m_reply : {SUCCESS, FAILURE}]

GroupCreateReply ==
  [m_tag : {"GROUP_CREATE_REPLY", "GROUP_JOIN_REPLY"},
   m_reply : {SUCCESS, FAILURE}, m_ip : Address \cup {NoAddress}]

SeeAllGroupsReply ==
  [m_tag : {"GROUP_ALL_AVAILABLE_REPLY"},
   m_reply : {SUCCESS}, m_allGroupNames : SUBSET GroupName]

AnyReply == Reply \cup GroupCreateReply \cup SeeAllGroupsReply

(* GotMessage returned without calling SendToClient.                       *)
NoReply == [m_tag |-> "NO_REPLY"]

(* The reply tag a client expects for each request tag.                    *)
ReplyTag ==
  [REGISTER_REQUEST            |-> "REGISTER_REPLY",
   LOGIN_REQUEST               |-> "LOGIN_REPLY",
   LOGOUT_REQUEST              |-> "LOGOUT_REPLY",
   GROUP_CREATE_REQUEST        |-> "GROUP_CREATE_REPLY",
   GROUP_JOIN_REQUEST          |-> "GROUP_JOIN_REPLY",
   GROUP_LEAVE_REQUEST         |-> "GROUP_LEAVE_REPLY",
   GROUP_ALL_AVAILABLE_REQUEST |-> "GROUP_ALL_AVAILABLE_REPLY"]

ASSUME DataAssumption ==
  /\ QUEUE_SIZE \in Nat \ {0}
  /\ AllocMayFail \in BOOLEAN
  /\ NotFound # NULL
  /\ WildBytes \subseteq Request

(* The outcomes in S happen only when memory can run out.                  *)
IfAllocFails(S) == IF AllocMayFail THEN S ELSE {}
=============================================================================
