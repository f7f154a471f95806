------------------------------- MODULE UsrMng -------------------------------
(***************************************************************************)
(* The user manager (usr_mng.c) over the user records (user.c).  The hash  *)
(* map from user names to users is a total function in which an absent key *)
(* holds NotFound.  Every operation is an action with an output parameter  *)
(* res for the code it returns.                                            *)
(***************************************************************************)
EXTENDS IpcMessages

VARIABLE m_userMap

(* struct User.  m_groups is NULL after RemoveAllGroups could not allocate *)
(* a new map.                                                              *)
User ==
  [m_password : Password, m_isActive : BOOLEAN,
   m_groups : {NULL} \cup SUBSET GroupName]

ASSUME UserAssumption ==
  /\ NotFound \notin User
  /\ NULL \notin User

UserMngResult ==
  {"USERMNG_SUCCESS", "USERMNG_GENERAL_ERROR", "USERMNG_DUPLICATE",
   "USERMNG_USER_NOT_FOUND", "USERMNG_GROUP_NOT_FOUND",
   "USERMNG_WRONG_PASSWORD"}

Registered(u) == m_userMap[u] # NotFound

-----------------------------------------------------------------------------
(* user.c: what each operation makes of one user record.                   *)

(* A variant that leaves m_isActive as malloc returned it.                 *)
UserCreateUnset(p) ==
  [m_password |-> p, m_isActive |-> NotFound, m_groups |-> {}]

UserCreate(p) == [m_password |-> p, m_isActive |-> FALSE, m_groups |-> {}]

ActivateUser(user) == [user EXCEPT !.m_isActive = TRUE]

(* DeactivateUser(NULL) returns an error that LogOutUser ignores.          *)
DeactivateUser(user) ==
  IF user = NULL THEN NULL ELSE [user EXCEPT !.m_isActive = FALSE]

(* The possible results: HashMapCreate may fail once the old map is gone.  *)
RemoveAllGroups(user) ==
  IF user = NULL THEN {NULL}
  ELSE {[user EXCEPT !.m_groups = g] : g \in {{}} \cup IfAllocFails({NULL})}

-----------------------------------------------------------------------------
(* usr_mng.c                                                               *)

(* A variant that lets a second registration replace the first.            *)
RegisterOverwrites(u, p, res) ==
  /\ res = "USERMNG_SUCCESS"
  /\ m_userMap' = [m_userMap EXCEPT ![u] = UserCreate(p)]

(* UserCreate's NULL is not checked and is stored like any other user.     *)
RegisterNewUser(u, p, res) ==
  \/ /\ Registered(u)
     /\ res = "USERMNG_DUPLICATE"
     /\ UNCHANGED m_userMap
  \/ /\ ~Registered(u)
     /\ res = "USERMNG_SUCCESS"
     /\ \E user \in {UserCreate(p)} \cup IfAllocFails({NULL}) :
          m_userMap' = [m_userMap EXCEPT ![u] = user]
  \/ /\ AllocMayFail
     /\ res = "USERMNG_GENERAL_ERROR"
     /\ UNCHANGED m_userMap

(* A variant without the password comparison.                              *)
LogInAnyPassword(u, p, res) ==
  \/ /\ m_userMap[u] \in {NotFound, NULL}
     /\ res = "USERMNG_USER_NOT_FOUND"
     /\ UNCHANGED m_userMap
  \/ /\ m_userMap[u] \notin {NotFound, NULL}
     /\ res = "USERMNG_SUCCESS"
     /\ m_userMap' = [m_userMap EXCEPT ![u] = ActivateUser(@)]

(* For a NULL user GetPassword leaves passwordCopy uninitialised: the      *)
(* comparison goes either way, and ActivateUser(NULL) changes nothing.     *)
LogInUser(u, p, res) ==
  \/ /\ ~Registered(u)
     /\ res = "USERMNG_USER_NOT_FOUND"
     /\ UNCHANGED m_userMap
  \/ /\ m_userMap[u] = NULL
     /\ res \in {"USERMNG_SUCCESS", "USERMNG_WRONG_PASSWORD"}
     /\ UNCHANGED m_userMap
  \/ /\ m_userMap[u] \notin {NotFound, NULL}
     /\ m_userMap[u].m_password = p
     /\ res = "USERMNG_SUCCESS"
     /\ m_userMap' = [m_userMap EXCEPT ![u] = ActivateUser(@)]
  \/ /\ m_userMap[u] \notin {NotFound, NULL}
     /\ m_userMap[u].m_password # p
     /\ res = "USERMNG_WRONG_PASSWORD"
     /\ UNCHANGED m_userMap

LogOutUser(u, res) ==
  \/ /\ ~Registered(u)
     /\ res = "USERMNG_USER_NOT_FOUND"
     /\ UNCHANGED m_userMap
  \/ /\ Registered(u)
     /\ res = "USERMNG_SUCCESS"
     /\ m_userMap' = [m_userMap EXCEPT ![u] = DeactivateUser(@)]

(* AddGroup reports success for every failure of HashMapInsert but a       *)
(* duplicate key: the map missing, or no memory for the new pair.          *)
AddGroupToUser(g, u, res) ==
  \/ /\ ~Registered(u)
     /\ res = "USERMNG_USER_NOT_FOUND"
     /\ UNCHANGED m_userMap
  \/ /\ m_userMap[u] = NULL
     /\ res = "USERMNG_GENERAL_ERROR"
     /\ UNCHANGED m_userMap
  \/ /\ m_userMap[u] \notin {NotFound, NULL}
     /\ m_userMap[u].m_groups = NULL
     /\ res = "USERMNG_SUCCESS"
     /\ UNCHANGED m_userMap
  \/ /\ m_userMap[u] \notin {NotFound, NULL}
     /\ m_userMap[u].m_groups # NULL
     /\ \/ /\ g \in m_userMap[u].m_groups
           /\ res = "USERMNG_DUPLICATE"
           /\ UNCHANGED m_userMap
        \/ /\ g \notin m_userMap[u].m_groups
           /\ res = "USERMNG_SUCCESS"
           /\ \/ m_userMap' = [m_userMap EXCEPT ![u].m_groups = @ \cup {g}]
              \/ AllocMayFail /\ UNCHANGED m_userMap

RemoveGroupFromUser(g, u, res) ==
  \/ /\ ~Registered(u)
     /\ res = "USERMNG_USER_NOT_FOUND"
     /\ UNCHANGED m_userMap
  \/ /\ m_userMap[u] = NULL
     /\ res = "USERMNG_GENERAL_ERROR"
     /\ UNCHANGED m_userMap
  \/ /\ m_userMap[u] \notin {NotFound, NULL}
     /\ m_userMap[u].m_groups = NULL
     /\ res = "USERMNG_SUCCESS"
     /\ UNCHANGED m_userMap
  \/ /\ m_userMap[u] \notin {NotFound, NULL}
     /\ m_userMap[u].m_groups # NULL
     /\ \/ /\ g \notin m_userMap[u].m_groups
           /\ res = "USERMNG_GROUP_NOT_FOUND"
           /\ UNCHANGED m_userMap
        \/ /\ g \in m_userMap[u].m_groups
           /\ res = "USERMNG_SUCCESS"
           /\ m_userMap' = [m_userMap EXCEPT ![u].m_groups = @ \ {g}]

RemoveAllGroupsFromUser(u, res) ==
  \/ /\ ~Registered(u)
     /\ res = "USERMNG_USER_NOT_FOUND"
     /\ UNCHANGED m_userMap
  \/ /\ Registered(u)
     /\ res = "USERMNG_SUCCESS"
     /\ \E user \in RemoveAllGroups(m_userMap[u]) :
          m_userMap' = [m_userMap EXCEPT ![u] = user]

-----------------------------------------------------------------------------
(* The manager on its own, called in any order with any arguments.         *)

UsrMngInit == m_userMap = [u \in UserName |-> NotFound]

UsrMngNext ==
  \E u \in UserName, res \in UserMngResult :
    \/ \E p \in Password : RegisterNewUser(u, p, res) \/ LogInUser(u, p, res)
    \/ \E g \in GroupName : AddGroupToUser(g, u, res) \/ RemoveGroupFromUser(g, u, res)
    \/ LogOutUser(u, res)
    \/ RemoveAllGroupsFromUser(u, res)

UsrMngSpec == UsrMngInit /\ [][UsrMngNext]_m_userMap

(* Every user that is found is a complete record or the NULL that          *)
(* RegisterNewUser did not check.                                          *)
UsrMngTypeOK == m_userMap \in [UserName -> User \cup {NotFound, NULL}]

(* A name that was registered stays taken, with the account it was first   *)
(* given and that account's password, whatever is called afterwards: no    *)
(* operation removes a user and a repeated registration is refused.        *)
AccountsAreKept ==
  \A u \in UserName :
    Registered(u) =>
      /\ m_userMap'[u] # NotFound
      /\ (m_userMap[u] = NULL) <=> (m_userMap'[u] = NULL)
      /\ m_userMap[u] # NULL => m_userMap'[u].m_password = m_userMap[u].m_password

AccountsAreKeptAlways == [][AccountsAreKept]_m_userMap
=============================================================================
