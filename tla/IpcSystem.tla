----------------------------- MODULE IpcSystem -----------------------------
(***************************************************************************)
(* The chat system: client processes (clnt_main.c, client_manager.c,       *)
(* client_net.c), their TCP connections, and the select loop of RunServer  *)
(* (server_net.c) over the server manager.  TCP is a byte stream: a recv   *)
(* may return several packets at once, and both ends parse only the first. *)
(***************************************************************************)
EXTENDS SrvMng

CONSTANTS
  Client,       \* client processes, each with the one connection it opens
  MaxInFlight,  \* bound: packets of one connection not read yet, both ways
  MaxName,      \* bound: length of the longest name or password typed (29)
  SendMayFail   \* whether calloc may fail in PackAndSendViaClientNET

VARIABLES
  at,       \* where the client is: in main, in LoginPage, or terminated
  me,       \* the user name LoginPage was called with
  named,    \* whether LoginPage's grpName has been typed in
  waiting,  \* the request whose reply ReceiveViaClientNET waits for
  c2s, s2c, \* packets on their way from and to the client
  link,     \* the connection's socket as the server finds it, or "none"
  up        \* whether the server runs, was killed by SIGPIPE or shut down

clientVars == <<at, me, named, waiting>>
netVars == <<c2s, s2c, link, up>>
ipcVars == <<srvVars, clientVars, netVars>>

ASSUME IpcAssumption == MaxInFlight \in Nat /\ MaxName \in 0 .. 29 /\ SendMayFail \in BOOLEAN

BUFFER_SIZE == 100  \* server_net.c: what one recv of RunServer takes

NotWaiting == [m |-> Unhandled, alone |-> FALSE]

Waiting(c) == waiting[c] # NotWaiting

Quiet(c) == c2s[c] = <<>> /\ s2c[c] = <<>>

(* What a client's socket is like when socket and connect have returned:   *)
(* "none" if one of them failed.                                           *)
ConnectToServer == {"open", "none"}

(* main goes on with either: ConnectToClientNET ignores the result.        *)
ConnectToClientNET == [Client -> ConnectToServer]

IpcInit ==
  /\ SrvMngInit
  /\ at = [c \in Client |-> "main"]
  /\ me = [c \in Client |-> NULL]
  /\ named = [c \in Client |-> FALSE]
  /\ waiting = [c \in Client |-> NotWaiting]
  /\ c2s = [c \in Client |-> <<>>]
  /\ s2c = [c \in Client |-> <<>>]
  /\ link \in ConnectToClientNET
  /\ up = "up"

-----------------------------------------------------------------------------
(* Clients: PackAndSendViaClientNET and the menus that call it.            *)

Idle(c, where) == at[c] = where /\ ~Waiting(c)

(* What PackAndSendViaClientNET gets onto the connection: nothing if there *)
(* is none, and nothing more once calloc has failed.  The menus ignore     *)
(* that it says so.  Once the server has ended nobody gets these packets:  *)
(* what a client types after that is not followed.                         *)
SendToServer(c, packets) ==
  /\ up = "up"
  /\ Len(c2s[c]) + Len(s2c[c]) + Len(packets) <= MaxInFlight
  /\ \E n \in IF SendMayFail THEN 0 .. Len(packets) ELSE {Len(packets)} :
       c2s' = IF link[c] = "none" THEN c2s
              ELSE [c2s EXCEPT ![c] = @ \o SubSeq(packets, 1, n)]
  /\ UNCHANGED <<srvVars, s2c, link, up>>

AwaitReply(c, m) == waiting' = [waiting EXCEPT ![c] = [m |-> m, alone |-> Quiet(c)]]

(* The second IF of PackAndSendViaClientNET holds for every action, so a   *)
(* REGISTER or LOGIN packet is sent twice ...                              *)
SendCredentials(c, m) ==
  /\ Idle(c, "main")
  /\ SendToServer(c, <<m, m>>)
  /\ AwaitReply(c, m)
  /\ UNCHANGED <<at, me, named>>

Register(c, u, p) ==
  SendCredentials(c, [m_tag |-> "REGISTER_REQUEST", m_username |-> u, m_password |-> p])

Login(c, u, p) ==
  SendCredentials(c, [m_tag |-> "LOGIN_REQUEST", m_username |-> u, m_password |-> p])

GrpReq(c, tag, g) == [m_tag |-> tag, m_username |-> me[c], m_groupName |-> g]

CreateOrJoin(c, tag, g) ==
  LET m == GrpReq(c, tag, g) IN
  /\ Idle(c, "page")
  /\ SendToServer(c, <<m>>)
  /\ AwaitReply(c, m)
  /\ named' = [named EXCEPT ![c] = TRUE]
  /\ UNCHANGED <<at, me>>

CreateGroup(c, g) == CreateOrJoin(c, "GROUP_CREATE_REQUEST", g)
JoinGroup(c, g)   == CreateOrJoin(c, "GROUP_JOIN_REQUEST", g)

(* The menu does not read the reply to a LEAVE packet.                     *)
LeaveGroup(c, g) ==
  /\ Idle(c, "page")
  /\ SendToServer(c, <<GrpReq(c, "GROUP_LEAVE_REQUEST", g)>>)
  /\ named' = [named EXCEPT ![c] = TRUE]
  /\ UNCHANGED <<at, me, waiting>>

(* ... and a LOGOUT or GROUP_ALL_AVAILABLE packet follows one whose tag is *)
(* a byte of grpName: a letter if it was typed, anything if it was not.    *)
Junk(c) ==
  {Unhandled} \cup
  IF named[c] THEN {} ELSE {w \in WildBytes : w.m_username = me[c]}

SendNameOnly(c, tag) ==
  LET m == [m_tag |-> tag, m_username |-> me[c]] IN
  /\ Idle(c, "page")
  /\ \E junk \in Junk(c) : SendToServer(c, <<junk, m>>)
  /\ AwaitReply(c, m)
  /\ UNCHANGED <<at, me, named>>

SeeGroups(c) == SendNameOnly(c, "GROUP_ALL_AVAILABLE_REQUEST")
Logout(c)    == SendNameOnly(c, "LOGOUT_REQUEST")

(* The process ends and its socket is closed with the replies in unread    *)
(* still unread.  With nothing outstanding the server gets a FIN.          *)
(* Otherwise it gets an RST at once, or a FIN that an RST follows.         *)
Terminated(c, unread) ==
  /\ at' = [at EXCEPT ![c] = IF c2s[c] = <<>> /\ unread = <<>> THEN "gone" ELSE "gone_owing"]
  /\ waiting' = [waiting EXCEPT ![c] = NotWaiting]
  /\ s2c' = [s2c EXCEPT ![c] = <<>>]
  /\ \E end \in IF link[c] = "none" THEN {"none"}
              ELSE IF unread = <<>> THEN {"fin"} ELSE {"reset", "dying"} :
       link' = [link EXCEPT ![c] = end]
  /\ UNCHANGED <<srvVars, me, named, c2s, up>>

Exit(c) == Idle(c, "main") /\ Terminated(c, s2c[c])

(* The user closes the client's window.                                    *)
Kill(c) == at[c] \in {"main", "page"} /\ Terminated(c, s2c[c])

-----------------------------------------------------------------------------
(* Clients: ReceiveViaClientNET.                                           *)

(* The value it returns for a reply.  The reply to LEAVE and the group     *)
(* list are unpacked as if they were GroupCreateReply structs.             *)
ReplyValue(r) ==
  CASE r.m_tag \in {"REGISTER_REPLY", "LOGIN_REPLY", "LOGOUT_REPLY",
                    "GROUP_CREATE_REPLY", "GROUP_JOIN_REPLY"} -> {r.m_reply}
    [] r.m_tag = "GROUP_LEAVE_REPLY" -> {FAILURE}
    [] r.m_tag = "GROUP_ALL_AVAILABLE_REPLY" ->
         IF r.m_allGroupNames = {} THEN {SUCCESS, FAILURE} ELSE {FAILURE}

(* The menu goes on with the value v.                                      *)
Resume(c, v) ==
  LET m == waiting[c].m IN
  /\ waiting' = [waiting EXCEPT ![c] = NotWaiting]
  /\ \/ /\ m.m_tag = "LOGIN_REQUEST" /\ v = SUCCESS
        /\ at' = [at EXCEPT ![c] = "page"]
        /\ me' = [me EXCEPT ![c] = m.m_username]
        /\ named' = [named EXCEPT ![c] = FALSE]
     \/ /\ m.m_tag = "LOGOUT_REQUEST"
        /\ at' = [at EXCEPT ![c] = "main"]
        /\ UNCHANGED <<me, named>>
     \/ /\ m.m_tag # "LOGOUT_REQUEST" /\ (m.m_tag = "LOGIN_REQUEST" => v # SUCCESS)
        /\ UNCHANGED <<at, me, named>>

(* recv takes one or more waiting replies; all but the first are lost.     *)
(* The pointer the reply is unpacked through was never initialised: that   *)
(* works or ends the process.                                              *)
ReceiveReply(c) ==
  /\ Waiting(c)
  /\ \E k \in 1 .. Len(s2c[c]) :
       LET unread == SubSeq(s2c[c], k + 1, Len(s2c[c])) IN
       \/ /\ \E v \in ReplyValue(Head(s2c[c])) : Resume(c, v)
          /\ s2c' = [s2c EXCEPT ![c] = unread]
          /\ UNCHANGED <<srvVars, c2s, link, up>>
       \/ Terminated(c, unread)

(* The server is gone or was never reached: recv returns at once, and the  *)
(* value returned is whatever memory holds.                                *)
ReceiveEnd(c) ==
  /\ Waiting(c)
  /\ s2c[c] = <<>>
  /\ up # "up" \/ link[c] = "none"
  /\ \/ /\ \E v \in {SUCCESS, FAILURE} : Resume(c, v)
        /\ UNCHANGED <<srvVars, netVars>>
     \/ Terminated(c, <<>>)

-----------------------------------------------------------------------------
(* The server: one descriptor of RunServer's scan.                         *)

(* A variant that calls send also when there is no reply.                  *)
SendToClientAlways(c) ==
  IF link[c] = "open"
  THEN s2c' = [s2c EXCEPT ![c] = Append(@, reply')] /\ UNCHANGED <<link, up>>
  ELSE UNCHANGED <<s2c, link, up>>

(* A variant that sends to whichever connection is open.                   *)
SendToAnyClient(c) ==
  \/ /\ reply' # NoReply
     /\ \E d \in Client :
          /\ link[d] = "open"
          /\ s2c' = [s2c EXCEPT ![d] = Append(@, reply')]
     /\ UNCHANGED <<link, up>>
  \/ /\ reply' = NoReply \/ \A d \in Client : link[d] # "open"
     /\ UNCHANGED <<s2c, link, up>>

(* A variant that drops what the socket does not take at once.             *)
SendToClientLossy(c) ==
  \/ /\ reply' # NoReply /\ link[c] = "open"
     /\ s2c' = [s2c EXCEPT ![c] = Append(@, reply')]
     /\ UNCHANGED <<link, up>>
  \/ UNCHANGED <<s2c, link, up>>

(* SendToClient.  The kernel refuses a connection that was reset, the      *)
(* first time with an error code and from then on with SIGPIPE, which      *)
(* nothing handles.                                                        *)
SendToClient(c) ==
  \/ /\ reply' = NoReply
     /\ UNCHANGED <<s2c, link, up>>
  \/ /\ reply' # NoReply
     /\ \/ /\ link[c] = "open"
           /\ s2c' = [s2c EXCEPT ![c] = Append(@, reply')]
           /\ UNCHANGED <<link, up>>
        \/ /\ link[c] \in {"fin", "dying"}
           /\ link' = [link EXCEPT ![c] = "dying"]
           /\ UNCHANGED <<s2c, up>>
        \/ /\ link[c] = "reset"
           /\ link' = [link EXCEPT ![c] = "broken"]
           /\ UNCHANGED <<s2c, up>>
        \/ /\ link[c] = "broken"
           /\ up' = "killed"
           /\ UNCHANGED <<s2c, link>>

(* The most bytes that the packets of q can take: tag, total length, and   *)
(* each name with its length.                                              *)
Bytes(q) ==
  LET nameOnly == {i \in DOMAIN q : q[i].m_tag \in
        {"LOGOUT_REQUEST", "GROUP_ALL_AVAILABLE_REQUEST", "NO_CASE"}} IN
  Len(q) * (4 + 2 * MaxName) - Cardinality(nameOnly) * (1 + MaxName)

(* recv returns the k packets that have arrived, and GotMessage parses the *)
(* first.  If the buffer is too short for the next one, it takes a part of *)
(* that and the next recv starts in the middle.                            *)
ReceiveRequest(c) ==
  /\ up = "up"
  /\ \E k \in 1 .. Len(c2s[c]) :
       LET later == SubSeq(c2s[c], k + 1, Len(c2s[c])) IN
       \/ c2s' = [c2s EXCEPT ![c] = later]
       \/ /\ later # <<>>
          /\ Bytes(SubSeq(c2s[c], 1, k + 1)) > BUFFER_SIZE
          /\ \E w \in Wild : c2s' = [c2s EXCEPT ![c] = <<w>> \o Tail(later)]
  /\ Received(Head(c2s[c]))
  /\ SendToClient(c)
  /\ UNCHANGED clientVars

Ended(c) == link[c] \in {"fin", "dying", "reset", "broken"}

(* A variant that leaves the descriptor open and in the set.               *)
CloseConnectionKeeping(c) ==
  /\ up = "up"
  /\ Ended(c)
  /\ c2s[c] = <<>>
  /\ Replayed
  /\ SendToClient(c)
  /\ UNCHANGED <<clientVars, c2s>>

(* recv returns 0 or an error: GotMessage is called with the buffer as it  *)
(* is, its reply sent to the connection that ended, and that is closed.    *)
CloseConnection(c) ==
  /\ up = "up"
  /\ Ended(c)
  /\ c2s[c] = <<>>
  /\ Replayed
  /\ \/ /\ reply' # NoReply /\ link[c] \in {"reset", "broken"}
        /\ up' = "killed"
        /\ UNCHANGED link
     \/ /\ reply' = NoReply \/ link[c] \in {"fin", "dying"}
        /\ link' = [link EXCEPT ![c] = "closed"]
        /\ UNCHANGED up
  /\ UNCHANGED <<clientVars, c2s, s2c>>

(* select timed out.                                                       *)
Shutdown ==
  /\ up = "up"
  /\ \A c \in Client : c2s[c] = <<>> /\ ~Ended(c)
  /\ up' = "shutdown"
  /\ UNCHANGED <<srvVars, clientVars, c2s, s2c, link>>

(* The RST for a packet sent to a terminated client arrives.               *)
RstArrives(c) ==
  /\ link[c] = "dying"
  /\ link' = [link EXCEPT ![c] = "broken"]
  /\ UNCHANGED <<srvVars, clientVars, c2s, s2c, up>>

-----------------------------------------------------------------------------
Menu(c) ==
  \/ \E u \in UserName, p \in Password : Register(c, u, p) \/ Login(c, u, p)
  \/ \E g \in GroupName : CreateGroup(c, g) \/ JoinGroup(c, g) \/ LeaveGroup(c, g)
  \/ SeeGroups(c) \/ Logout(c) \/ Exit(c) \/ Kill(c)

IpcNext ==
  \/ \E c \in Client :
       \/ Menu(c)
       \/ ReceiveReply(c) \/ ReceiveEnd(c)
       \/ ReceiveRequest(c) \/ CloseConnection(c) \/ RstArrives(c)
  \/ Shutdown

IpcSpec == IpcInit /\ [][IpcNext]_ipcVars

(* Fairness towards a connection that other connections do not keep from   *)
(* its turn, such as the only one; ServerNet has when they do.  Then the   *)
(* scan reads what select reports readable, and a client blocked in recv   *)
(* wakes up for what arrives.  Users owe nothing, and no RST is sure to    *)
(* arrive in time.                                                         *)
Fairness ==
  \A c \in Client :
    /\ WF_ipcVars(ReceiveRequest(c))
    /\ WF_ipcVars(ReceiveReply(c))
    /\ WF_ipcVars(ReceiveEnd(c))

FairIpcSpec == IpcSpec /\ Fairness

-----------------------------------------------------------------------------
Packet == Request \cup Wild

IpcTypeOK ==
  /\ SrvMngTypeOK
  /\ at \in [Client -> {"main", "page", "gone", "gone_owing"}]
  /\ me \in [Client -> {NULL} \cup UserName]
  /\ named \in [Client -> BOOLEAN]
  /\ waiting \in [Client -> [m : Packet, alone : BOOLEAN]]
  /\ c2s \in [Client -> Seq(Packet)]
  /\ s2c \in [Client -> Seq(AnyReply)]
  /\ link \in [Client -> {"none", "open", "fin", "dying", "reset", "broken", "closed"}]
  /\ up \in {"up", "killed", "shutdown"}

(* SIGPIPE ends the server only after some client went away while a packet *)
(* of its connection was still unread at one end.  Clients that close a    *)
(* quiet connection, however many and whenever, never take it down, though *)
(* RunServer answers even them.                                            *)
CleanExitsKeepServerUp ==
  up = "killed" => \E c \in Client : at[c] = "gone_owing"

(* A client that sends a request over a quiet connection reads the reply   *)
(* to that request, not one that an earlier packet or another client left: *)
(* the first reply to arrive has the tag it waits for.  A LOGOUT or        *)
(* GROUP_ALL_AVAILABLE before any group name was typed may be preceded by  *)
(* a stray request and is exempt.                                          *)
OwnAnswer ==
  \A c \in Client :
    /\ Waiting(c) /\ waiting[c].alone
    /\ s2c[c] # <<>>
    /\ waiting[c].m.m_tag \in {"LOGOUT_REQUEST", "GROUP_ALL_AVAILABLE_REQUEST"} => named[c]
    => Head(s2c[c]).m_tag = ReplyTag[waiting[c].m.m_tag]

(* A login over a quiet connection lets the user into LoginPage only with  *)
(* the password of the account, whatever other clients do meanwhile.  (It  *)
(* is no use to ask this of other logins, which may be let in by an older  *)
(* reply, or of one that reads the end of the connection.)                 *)
NoPageWithoutPassword ==
  \A c \in Client :
    /\ at[c] = "main" /\ at'[c] = "page"
    /\ waiting[c].alone
    /\ s2c[c] # <<>>
    => /\ m_userMap[me'[c]] \notin {NotFound, NULL}
       /\ m_userMap[me'[c]].m_password = waiting[c].m.m_password

NoPageWithoutPasswordAlways == [][NoPageWithoutPassword]_ipcVars

(* A client that waits gets out of recv, be it with a reply, by the end of *)
(* the connection or because the user gives up: if its connection still    *)
(* holds something, and no junk packet; if the server has timed out or was *)
(* killed, though everything on the connection was read before; and if it  *)
(* never had a connection.                                                 *)
AnsweredIfNoJunk ==
  \A c \in Client :
    /\ Waiting(c)
    /\ \/ ~Quiet(c) /\ \A i \in DOMAIN c2s[c] : c2s[c][i] # Unhandled
       \/ up # "up"
       \/ link[c] = "none"
    ~> ~Waiting(c)
=============================================================================
