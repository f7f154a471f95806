--------------------------- MODULE IpcSystemProofs ---------------------------
(***************************************************************************)
(* Proofs about the whole system, for any number of clients, any users,    *)
(* passwords and groups and any number of packets in flight.               *)
(***************************************************************************)
EXTENDS IpcSystem, SrvMngProofs

-----------------------------------------------------------------------------
(* The invariant, connection by connection.                                *)

Here(c) == at[c] \in {"main", "page"}

(* A socket that has an RST, or will get one, belongs to a client that     *)
(* went away with packets unread; nobody waits but who is there, and in    *)
(* LoginPage there is a user.                                              *)
LinkFits(c) ==
  /\ Here(c) => link[c] \in {"open", "none"}
  /\ ~Here(c) => waiting[c] = NotWaiting
  /\ at[c] = "gone" => link[c] \in {"none", "fin", "closed"} /\ c2s[c] = <<>>
  /\ link[c] = "none" => c2s[c] = <<>> /\ s2c[c] = <<>>
  /\ at[c] = "page" => me[c] \in UserName

NameOnly(m) == m.m_tag \in {"LOGOUT_REQUEST", "GROUP_ALL_AVAILABLE_REQUEST"}

(* Nothing but the request m, or junk before it, is on its way.            *)
StillToAnswer(c, m) ==
  /\ m \in Request
  /\ Len(c2s[c]) <= 2
  /\ \A i \in DOMAIN c2s[c] : c2s[c][i] = m \/ (c2s[c][i] = Unhandled /\ NameOnly(m))

(* A request sent over a quiet connection is still to be answered, or its  *)
(* answer is the first.                                                    *)
AnswerFits(c) ==
  waiting[c].alone /\ (NameOnly(waiting[c].m) => named[c]) =>
    \/ s2c[c] = <<>> /\ StillToAnswer(c, waiting[c].m)
    \/ s2c[c] # <<>> /\ Head(s2c[c]).m_tag = ReplyTag[waiting[c].m.m_tag]

(* A login that was answered with success had the right password.          *)
LoginFits(c) ==
  LET m == waiting[c].m IN
  /\ waiting[c].alone /\ m.m_tag = "LOGIN_REQUEST"
  /\ s2c[c] # <<>> /\ Head(s2c[c]).m_reply = SUCCESS
  => m_userMap[m.m_username] \in User /\ m_userMap[m.m_username].m_password = m.m_password

ConnectionTypeOK ==
  /\ at \in [Client -> {"main", "page", "gone", "gone_owing"}]
  /\ me \in [Client -> {NULL} \cup UserName]
  /\ named \in [Client -> BOOLEAN]
  /\ waiting \in [Client -> [m : Packet, alone : BOOLEAN]]
  /\ c2s \in [Client -> Seq(Packet)]
  /\ s2c \in [Client -> Seq(AnyReply)]
  /\ link \in [Client -> {"none", "open", "fin", "dying", "reset", "broken", "closed"}]
  /\ up \in {"up", "killed", "shutdown"}

IpcInv ==
  /\ IpcTypeOK
  /\ \A c \in Client : LinkFits(c)
  /\ \A c \in Client : AnswerFits(c)
  /\ CleanExitsKeepServerUp

-----------------------------------------------------------------------------
(* The server's part of a step is a step of the server manager.            *)

LEMMA TypesInParts ==
  /\ IpcTypeOK <=> SrvMngTypeOK /\ ConnectionTypeOK
  /\ IpcTypeOK' <=> SrvMngTypeOK' /\ ConnectionTypeOK'
BY DEF IpcTypeOK, ConnectionTypeOK

(* Of all the steps only those of RunServer touch the server's variables.  *)
LEMMA ClientsLeaveServer ==
  ASSUME NEW c \in Client,
         Menu(c) \/ ReceiveReply(c) \/ ReceiveEnd(c) \/ RstArrives(c)
  PROVE  UNCHANGED srvVars
<1>1. \A packets : SendToServer(c, packets) => UNCHANGED srvVars
  BY DEF SendToServer
<1>2. \A unread : Terminated(c, unread) => UNCHANGED srvVars
  BY DEF Terminated
<1>3. CASE Menu(c)
  BY <1>1, <1>2, <1>3
  DEF Menu, Register, Login, SendCredentials, CreateGroup, JoinGroup, CreateOrJoin,
      LeaveGroup, SeeGroups, Logout, SendNameOnly, Exit, Kill
<1>4. CASE ReceiveReply(c)
  BY <1>2, <1>4 DEF ReceiveReply
<1>5. CASE ReceiveEnd(c)
  BY <1>2, <1>5 DEF ReceiveEnd
<1>6. CASE RstArrives(c)
  BY <1>6 DEF RstArrives
<1>. QED BY <1>3, <1>4, <1>5, <1>6

LEMMA FirstPacket ==
  ASSUME ConnectionTypeOK, NEW c \in Client, c2s[c] # <<>>
  PROVE  Head(c2s[c]) \in Packet /\ Head(c2s[c]) = c2s[c][1] /\ 1 \in DOMAIN c2s[c]
BY DEF ConnectionTypeOK

LEMMA ServerTurn ==
  ASSUME ConnectionTypeOK, NEW c \in Client, ReceiveRequest(c) \/ CloseConnection(c)
  PROVE  SrvMngNext
<1>1. CASE ReceiveRequest(c)
  <2>1. c2s[c] # <<>>
    BY <1>1 DEF ReceiveRequest, ConnectionTypeOK
  <2>2. Head(c2s[c]) \in Request \cup Wild
    BY <2>1, FirstPacket DEF Packet
  <2>. QED BY <1>1, <2>2 DEF ReceiveRequest, SrvMngNext
<1>2. CASE CloseConnection(c)
  BY <1>2 DEF CloseConnection, SrvMngNext
<1>. QED BY <1>1, <1>2

LEMMA SystemStepIsServerStep ==
  ASSUME ConnectionTypeOK, [IpcNext]_ipcVars
  PROVE  [SrvMngNext]_srvVars
<1>1. CASE UNCHANGED ipcVars
  BY <1>1 DEF ipcVars
<1>2. CASE Shutdown
  BY <1>2 DEF Shutdown
<1>. QED BY <1>1, <1>2, ClientsLeaveServer, ServerTurn DEF IpcNext

-----------------------------------------------------------------------------
(* What a step of one client or of one turn of RunServer leaves alone.     *)

Others(c) ==
  \A d \in Client \ {c} :
    UNCHANGED <<at[d], me[d], named[d], waiting[d], c2s[d], s2c[d], link[d]>>

LEMMA OthersFit ==
  ASSUME NEW c \in Client, Others(c), NEW d \in Client, d # c
  PROVE  /\ LinkFits(d) => LinkFits(d)'
         /\ AnswerFits(d) => AnswerFits(d)'
<1>1. UNCHANGED <<at[d], me[d], named[d], waiting[d], c2s[d], s2c[d], link[d]>>
  BY DEF Others
<1>2. LinkFits(d) => LinkFits(d)'
  BY <1>1 DEF LinkFits, Here
<1>3. AnswerFits(d) => AnswerFits(d)'
  BY <1>1 DEF AnswerFits, StillToAnswer
<1>. QED BY <1>2, <1>3

(* So the invariant is kept if the one connection that changes fits.       *)
LEMMA OneConnection ==
  ASSUME IpcInv, SrvMngTypeOK', ConnectionTypeOK',
         NEW c \in Client, Others(c),
         LinkFits(c)', AnswerFits(c)',
         at[c] = "gone_owing" => at'[c] = "gone_owing",
         up' = "killed" => up = "killed" \/ at'[c] = "gone_owing"
  PROVE  IpcInv'
<1>1. \A d \in Client : LinkFits(d)' /\ AnswerFits(d)'
  BY OthersFit DEF IpcInv
<1>2. \A d \in Client : at[d] = "gone_owing" => at'[d] = "gone_owing"
  BY DEF Others
<1>3. CleanExitsKeepServerUp'
  BY <1>2 DEF IpcInv, CleanExitsKeepServerUp
<1>. QED BY <1>1, <1>3, TypesInParts DEF IpcInv

LEMMA ServerUntouched ==
  ASSUME SrvMngTypeOK, UNCHANGED srvVars
  PROVE  SrvMngTypeOK'
BY DEF srvVars, SrvMngTypeOK, UsrMngTypeOK, GrpMngTypeOK

-----------------------------------------------------------------------------
(* Sending.                                                                *)

LEMMA Sending ==
  ASSUME IpcInv, NEW c \in Client, NEW packets \in Seq(Packet), SendToServer(c, packets)
  PROVE  /\ c2s' \in [Client -> Seq(Packet)]
         /\ \A d \in Client \ {c} : c2s'[d] = c2s[d]
         /\ link[c] = "none" => c2s'[c] = c2s[c]
         /\ c2s[c] = <<>> =>
              /\ Len(c2s'[c]) <= Len(packets)
              /\ \A i \in DOMAIN c2s'[c] : i \in DOMAIN packets /\ c2s'[c][i] = packets[i]
<1>1. c2s \in [Client -> Seq(Packet)]
  BY DEF IpcInv, IpcTypeOK
<1>2. Len(packets) \in Nat /\ DOMAIN packets = 1 .. Len(packets)
  OBVIOUS
<1>3. PICK n \in 0 .. Len(packets) :
        c2s' = IF link[c] = "none" THEN c2s
               ELSE [c2s EXCEPT ![c] = @ \o SubSeq(packets, 1, n)]
  <2>1. (IF SendMayFail THEN 0 .. Len(packets) ELSE {Len(packets)}) \subseteq 0 .. Len(packets)
    BY <1>2
  <2>. QED BY <2>1 DEF SendToServer
<1>4. /\ SubSeq(packets, 1, n) \in Seq(Packet)
      /\ Len(SubSeq(packets, 1, n)) = n
      /\ \A i \in 1 .. n : SubSeq(packets, 1, n)[i] = packets[i]
  BY <1>2
<1>5. /\ c2s[c] \in Seq(Packet)
      /\ c2s[c] \o SubSeq(packets, 1, n) \in Seq(Packet)
      /\ c2s[c] = <<>> => c2s[c] \o SubSeq(packets, 1, n) = SubSeq(packets, 1, n)
  BY <1>1, <1>4
<1>6. /\ c2s' \in [Client -> Seq(Packet)]
      /\ \A d \in Client \ {c} : c2s'[d] = c2s[d]
      /\ link[c] = "none" => c2s'[c] = c2s[c]
  BY <1>1, <1>3, <1>5
<1>7. ASSUME c2s[c] = <<>>
      PROVE  /\ Len(c2s'[c]) <= Len(packets)
             /\ \A i \in DOMAIN c2s'[c] : i \in DOMAIN packets /\ c2s'[c][i] = packets[i]
  <2>1. CASE link[c] = "none"
    BY <1>2, <1>3, <1>7, <2>1
  <2>2. CASE link[c] # "none"
    <3>1. c2s'[c] = SubSeq(packets, 1, n)
      BY <1>1, <1>3, <1>5, <1>7, <2>2
    <3>. QED BY <1>2, <1>4, <3>1
  <2>. QED BY <2>1, <2>2
<1>. QED BY <1>6, <1>7

(* A request goes out and its reply is waited for.                         *)
LEMMA Asking ==
  ASSUME IpcInv, NEW c \in Client, Here(c),
         NEW m \in Request, NEW packets \in Seq(Packet), Len(packets) <= 2,
         SendToServer(c, packets), AwaitReply(c, m),
         UNCHANGED <<at, me>>, named' \in [Client -> BOOLEAN],
         \A d \in Client \ {c} : named'[d] = named[d],
         (NameOnly(m) => named'[c]) =>
           \A i \in DOMAIN packets : packets[i] = m \/ (packets[i] = Unhandled /\ NameOnly(m))
  PROVE  IpcInv'
<1>0. SrvMngTypeOK /\ ConnectionTypeOK /\ LinkFits(c)
  BY TypesInParts DEF IpcInv
<1>1. UNCHANGED <<srvVars, s2c, link, up>>
  BY DEF SendToServer
<1>2. SrvMngTypeOK'
  BY <1>0, <1>1, ServerUntouched
<1>3. waiting' \in [Client -> [m : Packet, alone : BOOLEAN]]
  <2>1. [m |-> m, alone |-> Quiet(c)] \in [m : Packet, alone : BOOLEAN]
    BY DEF Packet, Quiet
  <2>. QED BY <1>0, <2>1 DEF AwaitReply, ConnectionTypeOK
<1>4. ConnectionTypeOK'
  BY <1>0, <1>1, <1>3, Sending DEF ConnectionTypeOK
<1>5. Others(c)
  BY <1>0, <1>1, Sending DEF Others, AwaitReply, ConnectionTypeOK
<1>6. LinkFits(c)'
  BY <1>0, <1>1, Sending DEF LinkFits, Here
<1>7. AnswerFits(c)'
  <2>. SUFFICES ASSUME waiting'[c].alone, NameOnly(waiting'[c].m) => named'[c]
                PROVE  s2c'[c] = <<>> /\ StillToAnswer(c, waiting[c].m)'
    BY DEF AnswerFits
  <2>1. waiting'[c].m = m /\ waiting'[c].alone = Quiet(c)
    BY <1>0 DEF AwaitReply, ConnectionTypeOK
  <2>2. s2c'[c] = <<>> /\ c2s[c] = <<>>
    BY <1>1, <2>1 DEF Quiet
  <2>3. Len(c2s'[c]) <= 2
    BY <2>2, <1>4, Sending DEF ConnectionTypeOK
  <2>4. \A i \in DOMAIN c2s'[c] : c2s'[c][i] = m \/ (c2s'[c][i] = Unhandled /\ NameOnly(m))
    BY <2>1, <2>2, Sending
  <2>. QED BY <2>1, <2>2, <2>3, <2>4 DEF StillToAnswer
<1>. QED BY <1>1, <1>2, <1>4, <1>5, <1>6, <1>7, OneConnection

LEMMA RequestsMade ==
  ASSUME NEW u \in UserName
  PROVE  /\ \A p \in Password, tag \in {"REGISTER_REQUEST", "LOGIN_REQUEST"} :
              [m_tag |-> tag, m_username |-> u, m_password |-> p] \in Request
         /\ \A g \in GroupName, tag \in {"GROUP_CREATE_REQUEST", "GROUP_JOIN_REQUEST",
                                         "GROUP_LEAVE_REQUEST"} :
              [m_tag |-> tag, m_username |-> u, m_groupName |-> g] \in Request
         /\ \A tag \in {"LOGOUT_REQUEST", "GROUP_ALL_AVAILABLE_REQUEST"} :
              [m_tag |-> tag, m_username |-> u] \in Request
BY DEF Request, RegisterOrLoginRequest, GrpReqStruct, LogOutOrSeeGroupsReq

LEMMA CredentialsSent ==
  ASSUME IpcInv, NEW c \in Client, NEW m \in Request, SendCredentials(c, m)
  PROVE  IpcInv'
<1>1. PICK packets : packets = <<m, m>>
  OBVIOUS
<1>2. packets \in Seq(Packet) /\ Len(packets) <= 2 /\ \A i \in DOMAIN packets : packets[i] = m
  BY <1>1 DEF Packet
<1>3. named' \in [Client -> BOOLEAN] /\ UNCHANGED <<at, me, named>>
  BY DEF SendCredentials, IpcInv, IpcTypeOK
<1>4. Here(c) /\ SendToServer(c, packets) /\ AwaitReply(c, m)
  BY <1>1 DEF SendCredentials, Idle, Here
<1>. QED BY <1>2, <1>3, <1>4, Asking

LEMMA CreateOrJoinSent ==
  ASSUME IpcInv, NEW c \in Client, me[c] \in UserName, NEW g \in GroupName,
         NEW tag \in {"GROUP_CREATE_REQUEST", "GROUP_JOIN_REQUEST"},
         CreateOrJoin(c, tag, g)
  PROVE  IpcInv'
<1>1. PICK m \in Request : m = GrpReq(c, tag, g)
  BY RequestsMade DEF GrpReq
<1>2. PICK packets : packets = <<m>>
  OBVIOUS
<1>3. packets \in Seq(Packet) /\ Len(packets) <= 2 /\ \A i \in DOMAIN packets : packets[i] = m
  BY <1>2 DEF Packet
<1>4. /\ named' \in [Client -> BOOLEAN]
      /\ UNCHANGED <<at, me>>
      /\ \A d \in Client \ {c} : named'[d] = named[d]
  BY DEF CreateOrJoin, IpcInv, IpcTypeOK
<1>5. Here(c) /\ SendToServer(c, packets) /\ AwaitReply(c, m)
  BY <1>1, <1>2 DEF CreateOrJoin, Idle, Here
<1>. QED BY <1>3, <1>4, <1>5, Asking

(* With a group name typed the junk is a packet nobody answers.            *)
LEMMA NameOnlySent ==
  ASSUME IpcInv, NEW c \in Client, me[c] \in UserName,
         NEW tag \in {"LOGOUT_REQUEST", "GROUP_ALL_AVAILABLE_REQUEST"},
         SendNameOnly(c, tag)
  PROVE  IpcInv'
<1>1. PICK m \in Request : m = [m_tag |-> tag, m_username |-> me[c]]
  BY RequestsMade
<1>2. PICK junk \in Junk(c) : SendToServer(c, <<junk, m>>)
  BY <1>1 DEF SendNameOnly
<1>3. PICK packets : packets = <<junk, m>>
  OBVIOUS
<1>4. NameOnly(m)
  BY <1>1 DEF NameOnly
<1>5. junk \in Packet /\ (named[c] => junk = Unhandled)
  BY DEF Junk, Packet, Wild
<1>6. packets \in Seq(Packet) /\ Len(packets) <= 2
  BY <1>3, <1>5 DEF Packet
<1>7. named[c] => \A i \in DOMAIN packets : packets[i] = m \/ packets[i] = Unhandled
  BY <1>3, <1>5
<1>8. named' \in [Client -> BOOLEAN] /\ UNCHANGED <<at, me, named>>
  BY DEF SendNameOnly, IpcInv, IpcTypeOK
<1>9. Here(c) /\ SendToServer(c, packets) /\ AwaitReply(c, m)
  BY <1>1, <1>2, <1>3 DEF SendNameOnly, Idle, Here
<1>. QED BY <1>4, <1>6, <1>7, <1>8, <1>9, Asking

LEMMA LeaveSent ==
  ASSUME IpcInv, NEW c \in Client, me[c] \in UserName, NEW g \in GroupName,
         LeaveGroup(c, g)
  PROVE  IpcInv'
<1>0. PICK m \in Request : m = GrpReq(c, "GROUP_LEAVE_REQUEST", g)
  BY RequestsMade DEF GrpReq
<1>1. PICK packets \in Seq(Packet) : packets = <<m>>
  <2>1. m \in Packet
    BY DEF Packet
  <2>2. <<m>> \in Seq(Packet)
    BY <2>1
  <2>. QED BY <2>2
<1>2. SendToServer(c, packets) /\ Idle(c, "page") /\ UNCHANGED <<at, me, waiting>>
  BY <1>0, <1>1 DEF LeaveGroup
<1>3. named' \in [Client -> BOOLEAN] /\ \A d \in Client \ {c} : named'[d] = named[d]
  BY DEF LeaveGroup, IpcInv, IpcTypeOK
<1>4. SrvMngTypeOK /\ ConnectionTypeOK /\ LinkFits(c)
  BY TypesInParts DEF IpcInv
<1>5. UNCHANGED <<srvVars, s2c, link, up>>
  BY <1>2 DEF SendToServer
<1>6. ConnectionTypeOK' /\ SrvMngTypeOK'
  BY <1>1, <1>2, <1>3, <1>4, <1>5, Sending, ServerUntouched DEF ConnectionTypeOK
<1>7. Others(c)
  BY <1>1, <1>2, <1>3, <1>5, Sending DEF Others
<1>8. LinkFits(c)'
  BY <1>1, <1>2, <1>4, <1>5, Sending DEF LinkFits, Here, Idle
<1>9. AnswerFits(c)'
  BY <1>2 DEF Idle, Waiting, NotWaiting, AnswerFits
<1>. QED BY <1>2, <1>5, <1>6, <1>7, <1>8, <1>9, OneConnection

-----------------------------------------------------------------------------
(* Leaving and receiving.                                                  *)

LEMMA NotWaitingIsQuiet ==
  ASSUME NEW c \in Client, waiting'[c] = NotWaiting
  PROVE  AnswerFits(c)'
BY DEF AnswerFits, NotWaiting

LEMMA Terminating ==
  ASSUME IpcInv, NEW c \in Client, Here(c), NEW unread \in Seq(AnyReply),
         s2c[c] = <<>> => unread = <<>>,
         Terminated(c, unread)
  PROVE  IpcInv'
<1>1. SrvMngTypeOK /\ ConnectionTypeOK /\ LinkFits(c) /\ UNCHANGED <<srvVars, me, named, c2s, up>>
  BY TypesInParts DEF IpcInv, Terminated
<1>2. PICK end \in {"none", "fin", "reset", "dying"} :
        /\ link' = [link EXCEPT ![c] = end]
        /\ link[c] = "none" <=> end = "none"
        /\ unread = <<>> => end \in {"none", "fin"}
  <2>1. CASE link[c] = "none"
    <3>1. link' = [link EXCEPT ![c] = "none"]
      BY <2>1 DEF Terminated
    <3>. QED BY <2>1, <3>1
  <2>2. CASE link[c] # "none" /\ unread = <<>>
    <3>1. link' = [link EXCEPT ![c] = "fin"]
      BY <2>2 DEF Terminated
    <3>. QED BY <2>2, <3>1
  <2>3. CASE link[c] # "none" /\ unread # <<>>
    <3>1. \E end \in {"reset", "dying"} : link' = [link EXCEPT ![c] = end]
      BY <2>3 DEF Terminated
    <3>. QED BY <2>3, <3>1
  <2>. QED BY <2>1, <2>2, <2>3
<1>3. /\ at' = [at EXCEPT ![c] = IF c2s[c] = <<>> /\ unread = <<>> THEN "gone" ELSE "gone_owing"]
      /\ waiting' = [waiting EXCEPT ![c] = NotWaiting]
      /\ s2c' = [s2c EXCEPT ![c] = <<>>]
  BY DEF Terminated
<1>4. NotWaiting \in [m : Packet, alone : BOOLEAN]
  BY DEF NotWaiting, Packet, Wild
<1>5. ConnectionTypeOK' /\ SrvMngTypeOK'
  BY <1>1, <1>2, <1>3, <1>4, ServerUntouched DEF ConnectionTypeOK
<1>6. Others(c)
  BY <1>1, <1>2, <1>3 DEF Others, ConnectionTypeOK
<1>7. LinkFits(c)'
  BY <1>1, <1>2, <1>3 DEF LinkFits, Here, ConnectionTypeOK
<1>8. AnswerFits(c)'
  BY <1>1, <1>3, NotWaitingIsQuiet DEF ConnectionTypeOK
<1>. QED BY <1>1, <1>5, <1>6, <1>7, <1>8, OneConnection DEF Here

(* Going on with what was received.                                        *)
LEMMA Resuming ==
  ASSUME IpcInv, NEW c \in Client, Here(c), NEW v, Resume(c, v),
         UNCHANGED <<srvVars, c2s, link, up>>,
         NEW unread \in Seq(AnyReply), s2c' = [s2c EXCEPT ![c] = unread],
         s2c[c] = <<>> => unread = <<>>
  PROVE  IpcInv'
<1>1. SrvMngTypeOK /\ ConnectionTypeOK /\ LinkFits(c)
  BY TypesInParts DEF IpcInv
<1>2. waiting' = [waiting EXCEPT ![c] = NotWaiting]
  BY DEF Resume
<1>3. NotWaiting \in [m : Packet, alone : BOOLEAN]
  BY DEF NotWaiting, Packet, Wild
<1>4. waiting[c].m.m_tag = "LOGIN_REQUEST" => waiting[c].m.m_username \in UserName
  BY <1>1, PacketFields DEF ConnectionTypeOK, Packet
<1>5. /\ at' \in [Client -> {"main", "page", "gone", "gone_owing"}]
      /\ me' \in [Client -> {NULL} \cup UserName]
      /\ named' \in [Client -> BOOLEAN]
      /\ at'[c] \in {"main", "page"}
      /\ at'[c] = "page" => me'[c] \in UserName
      /\ \A d \in Client \ {c} : at'[d] = at[d] /\ me'[d] = me[d] /\ named'[d] = named[d]
  BY <1>1, <1>4 DEF Resume, ConnectionTypeOK, Here, LinkFits
<1>6. ConnectionTypeOK' /\ SrvMngTypeOK'
  BY <1>1, <1>2, <1>3, <1>5, ServerUntouched DEF ConnectionTypeOK
<1>7. Others(c)
  BY <1>1, <1>2, <1>5 DEF Others, ConnectionTypeOK
<1>8. LinkFits(c)'
  BY <1>1, <1>5 DEF LinkFits, Here, ConnectionTypeOK
<1>9. AnswerFits(c)'
  BY <1>1, <1>2, NotWaitingIsQuiet DEF ConnectionTypeOK
<1>. QED BY <1>6, <1>7, <1>8, <1>9, OneConnection DEF Here

(* A client that waits or acts is there.                                   *)
LEMMA WaitingIsHere ==
  ASSUME IpcInv, NEW c \in Client, Waiting(c)
  PROVE  Here(c)
BY DEF IpcInv, LinkFits, Waiting

LEMMA Unread ==
  ASSUME NEW s \in Seq(AnyReply), NEW k \in 1 .. Len(s)
  PROVE  SubSeq(s, k + 1, Len(s)) \in Seq(AnyReply) /\ s # <<>>
<1>1. Len(s) \in Nat
  OBVIOUS
<1>2. k \in Nat \ {0}
  BY <1>1
<1>3. \A i \in (k + 1) .. Len(s) : s[i] \in AnyReply
  BY <1>1, <1>2
<1>4. SubSeq(s, k + 1, Len(s)) \in Seq(AnyReply)
  BY <1>1, <1>2, <1>3
<1>. QED BY <1>1, <1>2, <1>4

LEMMA ReceiveReplyStep ==
  ASSUME IpcInv, NEW c \in Client, ReceiveReply(c)
  PROVE  IpcInv'
<1>1. s2c[c] \in Seq(AnyReply)
  BY DEF IpcInv, IpcTypeOK
<1>2. Here(c)
  BY WaitingIsHere DEF ReceiveReply
<1>3. PICK k \in 1 .. Len(s2c[c]) :
        \/ /\ \E v \in ReplyValue(Head(s2c[c])) : Resume(c, v)
           /\ s2c' = [s2c EXCEPT ![c] = SubSeq(s2c[c], k + 1, Len(s2c[c]))]
           /\ UNCHANGED <<srvVars, c2s, link, up>>
        \/ Terminated(c, SubSeq(s2c[c], k + 1, Len(s2c[c])))
  BY DEF ReceiveReply
<1>4. PICK unread \in Seq(AnyReply) : unread = SubSeq(s2c[c], k + 1, Len(s2c[c])) /\ s2c[c] # <<>>
  BY <1>1, Unread
<1>5. CASE Terminated(c, SubSeq(s2c[c], k + 1, Len(s2c[c])))
  BY <1>2, <1>4, <1>5, Terminating
<1>6. ASSUME NEW v \in ReplyValue(Head(s2c[c])), Resume(c, v),
             s2c' = [s2c EXCEPT ![c] = SubSeq(s2c[c], k + 1, Len(s2c[c]))],
             UNCHANGED <<srvVars, c2s, link, up>>
      PROVE  IpcInv'
  BY <1>2, <1>4, <1>6, Resuming
<1>. QED BY <1>3, <1>5, <1>6

LEMMA ReceiveEndStep ==
  ASSUME IpcInv, NEW c \in Client, ReceiveEnd(c)
  PROVE  IpcInv'
<1>1. Here(c) /\ s2c[c] = <<>> /\ s2c \in [Client -> Seq(AnyReply)]
  BY WaitingIsHere DEF ReceiveEnd, IpcInv, IpcTypeOK
<1>2. PICK unread \in Seq(AnyReply) : unread = <<>>
  <2>1. <<>> \in Seq(AnyReply)
    OBVIOUS
  <2>. QED BY <2>1
<1>3. CASE Terminated(c, <<>>)
  BY <1>1, <1>2, <1>3, Terminating
<1>4. ASSUME NEW v \in {SUCCESS, FAILURE}, Resume(c, v), UNCHANGED <<srvVars, netVars>>
      PROVE  IpcInv'
  <2>1. s2c' = [s2c EXCEPT ![c] = unread] /\ UNCHANGED <<srvVars, c2s, link, up>>
    BY <1>1, <1>2, <1>4 DEF netVars
  <2>. QED BY <1>1, <1>2, <1>4, <2>1, Resuming
<1>. QED BY <1>3, <1>4 DEF ReceiveEnd

LEMMA GoingStep ==
  ASSUME IpcInv, NEW c \in Client, Exit(c) \/ Kill(c)
  PROVE  IpcInv'
<1>1. Here(c) /\ Terminated(c, s2c[c])
  BY DEF Exit, Kill, Idle, Here
<1>2. PICK unread \in Seq(AnyReply) : unread = s2c[c]
  BY DEF IpcInv, IpcTypeOK
<1>. QED BY <1>1, <1>2, Terminating

LEMMA MenuStep ==
  ASSUME IpcInv, NEW c \in Client, Menu(c)
  PROVE  IpcInv'
<1>1. at[c] = "page" => me[c] \in UserName
  BY DEF IpcInv, LinkFits
<1>2. ASSUME NEW u \in UserName, NEW p \in Password, Register(c, u, p) \/ Login(c, u, p)
      PROVE  IpcInv'
  BY <1>2, RequestsMade, CredentialsSent DEF Register, Login
<1>3. ASSUME NEW g \in GroupName, CreateGroup(c, g) \/ JoinGroup(c, g)
      PROVE  IpcInv'
  <2>1. me[c] \in UserName
    BY <1>1, <1>3 DEF CreateGroup, JoinGroup, CreateOrJoin, Idle
  <2>. QED BY <1>3, <2>1, CreateOrJoinSent DEF CreateGroup, JoinGroup
<1>4. ASSUME NEW g \in GroupName, LeaveGroup(c, g) PROVE IpcInv'
  <2>1. me[c] \in UserName
    BY <1>1, <1>4 DEF LeaveGroup, Idle
  <2>. QED BY <1>4, <2>1, LeaveSent
<1>5. ASSUME SeeGroups(c) \/ Logout(c) PROVE IpcInv'
  <2>1. me[c] \in UserName
    BY <1>1, <1>5 DEF SeeGroups, Logout, SendNameOnly, Idle
  <2>. QED BY <1>5, <2>1, NameOnlySent DEF SeeGroups, Logout
<1>. QED BY <1>2, <1>3, <1>4, <1>5, GoingStep DEF Menu

-----------------------------------------------------------------------------
(* A turn of RunServer.                                                    *)

(* Every case of GotMessage answers with the tag of its request; only the  *)
(* packet without a case and a list without memory are not answered.       *)
LEMMA AnswersByTag ==
  ASSUME NEW m \in Request \cup Wild, GotMessage(m)
  PROVE  /\ reply' # NoReply => m.m_tag # "NO_CASE" /\ reply'.m_tag = ReplyTag[m.m_tag]
         /\ reply' = NoReply => m = Unhandled \/ NameOnly(m)
<1>1. m.m_tag = "NO_CASE" => m = Unhandled
  BY DataAssumption DEF Wild, Request, RegisterOrLoginRequest, GrpReqStruct, LogOutOrSeeGroupsReq
<1>2. reply' # NoReply => m.m_tag # "NO_CASE" /\ reply'.m_tag = ReplyTag[m.m_tag]
  BY DEF GotMessage, GotRegister, GotLogin, GotLogout, GotCreate, GotJoin, GotSeeGroups,
         GotLeave, ReplyTag
<1>3. reply' = NoReply => m = Unhandled \/ NameOnly(m)
  <2>1. reply' = NoReply => reply'.m_tag = "NO_REPLY"
    BY DEF NoReply
  <2>2. m.m_tag # "NO_CASE" /\ ~NameOnly(m) => reply'.m_tag # "NO_REPLY"
    BY DEF GotMessage, GotRegister, GotLogin, GotLogout, GotCreate, GotJoin, GotSeeGroups,
           GotLeave, NameOnly
  <2>. QED BY <1>1, <2>1, <2>2
<1>. QED BY <1>2, <1>3

LEMMA Replying ==
  ASSUME IpcInv, NEW c \in Client, SendToClient(c), reply' \in AnyReply \cup {NoReply}
  PROVE  /\ s2c' \in [Client -> Seq(AnyReply)]
         /\ link' \in [Client -> {"none", "open", "fin", "dying", "reset", "broken", "closed"}]
         /\ up' \in {up, "killed"}
         /\ \A d \in Client \ {c} : s2c'[d] = s2c[d] /\ link'[d] = link[d]
         /\ link[c] \in {"open", "none"} => link'[c] = link[c]
         /\ link[c] = "none" => s2c'[c] = s2c[c]
         /\ link[c] = "open" =>
              s2c'[c] = IF reply' = NoReply THEN s2c[c] ELSE Append(s2c[c], reply')
         /\ \/ link'[c] = link[c]
            \/ link[c] \in {"fin", "dying", "reset"} /\ link'[c] \in {"dying", "broken"}
         /\ up' # up => link[c] = "broken"
<1>1. /\ s2c \in [Client -> Seq(AnyReply)]
      /\ link \in [Client -> {"none", "open", "fin", "dying", "reset", "broken", "closed"}]
  BY DEF IpcInv, IpcTypeOK
<1>2. reply' # NoReply => Append(s2c[c], reply') \in Seq(AnyReply)
  BY <1>1
<1>. QED BY <1>1, <1>2 DEF SendToClient

(* Two packets that hold a name only fit the buffer, so the second of them *)
(* is never cut.                                                           *)
LEMMA TwoNamesFit ==
  ASSUME NEW q \in Seq(Packet), Len(q) = 2,
         \A i \in 1 .. 2 : NameOnly(q[i]) \/ q[i] = Unhandled
  PROVE  Bytes(q) \in Int /\ Bytes(q) <= BUFFER_SIZE
<1>. DEFINE nameOnly == {i \in DOMAIN q : q[i].m_tag \in
                           {"LOGOUT_REQUEST", "GROUP_ALL_AVAILABLE_REQUEST", "NO_CASE"}}
<1>1. nameOnly = {1, 2}
  BY DEF NameOnly, Unhandled
<1>2. Cardinality({1, 2}) = 2
  <2>1. IsFiniteSet({1}) /\ Cardinality({1}) = 1
    BY FS_Singleton
  <2>2. Cardinality({1} \cup {2}) = 2
    <3>1. PICK one : one = {1}
      OBVIOUS
    <3>2. IsFiniteSet(one) /\ Cardinality(one) = 1 /\ 2 \notin one
      BY <2>1, <3>1
    <3>3. Cardinality(one \cup {2}) = Cardinality(one) + 1
      BY <3>2, FS_AddElement
    <3>. QED BY <3>1, <3>2, <3>3
  <2>3. {1} \cup {2} = {1, 2}
    OBVIOUS
  <2>. QED BY <2>2, <2>3
<1>3. Bytes(q) = 2 * (4 + 2 * MaxName) - 2 * (1 + MaxName)
  BY <1>1, <1>2 DEF Bytes
<1>4. MaxName \in Nat /\ MaxName <= 29
  BY IpcAssumption
<1>. QED BY <1>3, <1>4 DEF BUFFER_SIZE

(* What is left of the packets when the first k have been received, the    *)
(* last of them perhaps with a piece of the next.                          *)
LeftAfter(c, k) ==
  LET later == SubSeq(c2s[c], k + 1, Len(c2s[c])) IN
  \/ c2s'[c] = later
  \/ /\ later # <<>>
     /\ Bytes(SubSeq(c2s[c], 1, k + 1)) > BUFFER_SIZE
     /\ \E w \in Wild : c2s'[c] = <<w>> \o Tail(later)

LEMMA Receiving ==
  ASSUME IpcInv, NEW c \in Client, ReceiveRequest(c)
  PROVE  /\ c2s[c] # <<>>
         /\ c2s' \in [Client -> Seq(Packet)]
         /\ \A d \in Client \ {c} : c2s'[d] = c2s[d]
         /\ \E k \in 1 .. Len(c2s[c]) : LeftAfter(c, k)
<1>1. c2s \in [Client -> Seq(Packet)] /\ c2s[c] \in Seq(Packet) /\ Len(c2s[c]) \in Nat
  BY DEF IpcInv, IpcTypeOK
<1>2. PICK k \in 1 .. Len(c2s[c]) :
        LET later == SubSeq(c2s[c], k + 1, Len(c2s[c])) IN
        \/ c2s' = [c2s EXCEPT ![c] = later]
        \/ /\ later # <<>>
           /\ Bytes(SubSeq(c2s[c], 1, k + 1)) > BUFFER_SIZE
           /\ \E w \in Wild : c2s' = [c2s EXCEPT ![c] = <<w>> \o Tail(later)]
  BY DEF ReceiveRequest
<1>3. PICK later : later = SubSeq(c2s[c], k + 1, Len(c2s[c]))
  OBVIOUS
<1>4. later \in Seq(Packet)
  <2>1. \A i \in (k + 1) .. Len(c2s[c]) : c2s[c][i] \in Packet
    BY <1>1
  <2>2. k \in Nat
    BY <1>1
  <2>. QED BY <1>1, <1>3, <2>1, <2>2
<1>5. \A w \in Wild : later # <<>> => <<w>> \o Tail(later) \in Seq(Packet)
  BY <1>4 DEF Packet
<1>6. c2s[c] # <<>>
  BY <1>1
<1>7. /\ c2s' \in [Client -> Seq(Packet)]
      /\ \A d \in Client \ {c} : c2s'[d] = c2s[d]
      /\ LeftAfter(c, k)
  BY <1>1, <1>2, <1>3, <1>4, <1>5 DEF LeftAfter
<1>. QED BY <1>6, <1>7

LEMMA OneOrTwo ==
  /\ \A n \in Nat : n # 0 /\ n <= 2 => n = 1 \/ n = 2
  /\ \A k \in 1 .. 1 : k = 1
  /\ \A k \in 1 .. 2 : k = 1 \/ k = 2
<1>1. \A n \in Nat : n # 0 /\ n <= 2 => n = 1 \/ n = 2
  OBVIOUS
<1>2. \A k \in 1 .. 1 : k = 1
  OBVIOUS
<1>3. \A k \in 1 .. 2 : k = 1 \/ k = 2
  OBVIOUS
<1>. QED BY <1>1, <1>2, <1>3

LEMMA UnhandledIsNone == Unhandled \notin Request
BY DEF Unhandled, Request, RegisterOrLoginRequest, GrpReqStruct, LogOutOrSeeGroupsReq

(* As long as the answer is outstanding nothing else is sent to the client *)
(* first.                                                                  *)
LEMMA AnswerStillFits ==
  ASSUME IpcInv, NEW c \in Client, ReceiveRequest(c), Here(c),
         reply' \in AnyReply \cup {NoReply},
         NEW m, m = waiting[c].m, StillToAnswer(c, m), s2c[c] = <<>>
  PROVE  \/ s2c'[c] = <<>> /\ StillToAnswer(c, m)'
         \/ s2c'[c] # <<>> /\ Head(s2c'[c]).m_tag = ReplyTag[m.m_tag]
<1>1. /\ c2s[c] \in Seq(Packet) /\ c2s[c] # <<>>
      /\ link[c] = "open"
      /\ GotMessage(c2s[c][1]) /\ c2s[c][1] \in Request \cup Wild
  <2>1. ConnectionTypeOK /\ LinkFits(c) /\ c2s[c] # <<>>
    BY Receiving, TypesInParts DEF IpcInv
  <2>2. link[c] = "open" /\ c2s[c] \in Seq(Packet)
    BY <2>1 DEF LinkFits, ConnectionTypeOK
  <2>. QED BY <2>1, <2>2, FirstPacket DEF ReceiveRequest, Received, Packet
<1>2. /\ Len(c2s[c]) = 1 \/ Len(c2s[c]) = 2
      /\ 1 \in DOMAIN c2s[c] /\ DOMAIN c2s[c] = 1 .. Len(c2s[c])
  <2>1. Len(c2s[c]) \in Nat /\ Len(c2s[c]) # 0 /\ DOMAIN c2s[c] = 1 .. Len(c2s[c])
    BY <1>1, EmptySeq
  <2>2. Len(c2s[c]) <= 2
    BY DEF StillToAnswer
  <2>3. Len(c2s[c]) = 1 \/ Len(c2s[c]) = 2
    BY <2>1, <2>2, OneOrTwo
  <2>4. 1 \in DOMAIN c2s[c]
    BY <1>1, FirstPacket, TypesInParts DEF IpcInv
  <2>. QED BY <2>1, <2>3, <2>4
<1>3. CASE reply' # NoReply
  <2>1. c2s[c][1] = m
    BY <1>1, <1>2, <1>3, AnswersByTag DEF StillToAnswer, Unhandled
  <2>2. s2c'[c] = <<reply'>>
    BY <1>1, <1>3, Replying DEF ReceiveRequest
  <2>. QED BY <1>1, <1>3, <2>1, <2>2, AnswersByTag
<1>4. CASE reply' = NoReply
  <2>1. s2c'[c] = <<>>
    BY <1>1, <1>4, Replying DEF ReceiveRequest
  <2>2. NameOnly(m)
    <3>1. c2s[c][1] = m \/ NameOnly(m)
      BY <1>2 DEF StillToAnswer
    <3>2. m # Unhandled
      BY UnhandledIsNone DEF StillToAnswer
    <3>. QED BY <1>1, <1>4, <3>1, <3>2, AnswersByTag
  <2>3. \A i \in DOMAIN c2s[c] : NameOnly(c2s[c][i]) \/ c2s[c][i] = Unhandled
    BY <2>2 DEF StillToAnswer
  <2>4. PICK k \in 1 .. Len(c2s[c]) : LeftAfter(c, k)
    BY Receiving
  <2>5. /\ k = 1 \/ k = 2
        /\ k = Len(c2s[c]) \/ (k = 1 /\ Len(c2s[c]) = 2)
    <3>1. CASE Len(c2s[c]) = 1
      BY <3>1, OneOrTwo
    <3>2. CASE Len(c2s[c]) = 2
      BY <3>2, OneOrTwo
    <3>. QED BY <1>2, <3>1, <3>2
  <2>6. c2s'[c] = SubSeq(c2s[c], k + 1, Len(c2s[c]))
    <3>1. CASE Len(c2s[c]) = k
      BY <1>1, <1>2, <2>4, <2>5, <3>1 DEF LeftAfter
    <3>2. CASE k = 1 /\ Len(c2s[c]) = 2
      <4>1. SubSeq(c2s[c], 1, k + 1) = c2s[c]
        BY <1>1, <3>2
      <4>2. Bytes(c2s[c]) <= BUFFER_SIZE
        BY <1>1, <2>3, <3>2, TwoNamesFit
      <4>3. Bytes(c2s[c]) \in Int
        BY <1>1, <2>3, <3>2, TwoNamesFit
      <4>4. ~(Bytes(SubSeq(c2s[c], 1, k + 1)) > BUFFER_SIZE)
        <5>1. PICK n \in Int : n = Bytes(c2s[c])
          BY <4>3
        <5>2. Bytes(SubSeq(c2s[c], 1, k + 1)) = n
          BY <4>1, <5>1
        <5>3. ~(n > BUFFER_SIZE)
          BY <4>2, <5>1 DEF BUFFER_SIZE
        <5>. QED BY <5>2, <5>3
      <4>5. \/ c2s'[c] = SubSeq(c2s[c], k + 1, Len(c2s[c]))
            \/ Bytes(SubSeq(c2s[c], 1, k + 1)) > BUFFER_SIZE
        BY <2>4 DEF LeftAfter
      <4>. QED BY <4>4, <4>5
    <3>. QED BY <1>2, <2>5, <3>1, <3>2
  <2>7. /\ Len(c2s'[c]) <= 2
        /\ \A i \in DOMAIN c2s'[c] : c2s'[c][i] = c2s[c][i + k] /\ i + k \in DOMAIN c2s[c]
    BY <1>1, <1>2, <2>5, <2>6
  <2>8. StillToAnswer(c, m)'
    BY <2>7 DEF StillToAnswer
  <2>. QED BY <2>1, <2>8
<1>. QED BY <1>3, <1>4

LEMMA ReceiveRequestStep ==
  ASSUME IpcInv, SrvMngInv, NEW c \in Client, ReceiveRequest(c)
  PROVE  IpcInv'
<1>1. ConnectionTypeOK /\ LinkFits(c) /\ AnswerFits(c)
  BY TypesInParts DEF IpcInv
<1>2. SrvMngTypeOK' /\ reply' \in AnyReply \cup {NoReply}
  BY <1>1, ServerTurn, SrvMngStep DEF SrvMngInv, SrvMngTypeOK
<1>3. SendToClient(c) /\ UNCHANGED <<at, me, named, waiting>>
  BY DEF ReceiveRequest, clientVars
<1>4. c2s[c] # <<>> /\ at[c] # "gone" /\ link[c] # "none"
  BY <1>1, Receiving DEF LinkFits
<1>5. ConnectionTypeOK'
  BY <1>1, <1>2, <1>3, Receiving, Replying DEF ConnectionTypeOK
<1>6. Others(c)
  BY <1>2, <1>3, Receiving, Replying DEF Others
<1>7. LinkFits(c)'
  <2>1. link'[c] # "none" /\ (Here(c) => link'[c] \in {"open", "none"})
    BY <1>1, <1>2, <1>3, <1>4, Replying DEF LinkFits
  <2>. QED BY <1>1, <1>3, <1>4, <2>1 DEF LinkFits, Here
<1>8. AnswerFits(c)'
  <2>. SUFFICES ASSUME waiting[c].alone, NameOnly(waiting[c].m) => named[c]
                PROVE  \/ s2c'[c] = <<>> /\ StillToAnswer(c, waiting[c].m)'
                       \/ s2c'[c] # <<>> /\ Head(s2c'[c]).m_tag = ReplyTag[waiting[c].m.m_tag]
    BY <1>3 DEF AnswerFits
  <2>1. Here(c) /\ link[c] = "open"
    BY <1>1, <1>4 DEF LinkFits, NotWaiting
  <2>2. PICK m : m = waiting[c].m
    OBVIOUS
  <2>3. CASE s2c[c] = <<>> /\ StillToAnswer(c, waiting[c].m)
    <3>1. \/ s2c'[c] = <<>> /\ StillToAnswer(c, m)'
          \/ s2c'[c] # <<>> /\ Head(s2c'[c]).m_tag = ReplyTag[m.m_tag]
      BY <1>2, <2>1, <2>2, <2>3, AnswerStillFits
    <3>2. waiting'[c].m = m
      BY <1>3, <2>2
    <3>. QED BY <2>2, <3>1, <3>2 DEF StillToAnswer
  <2>4. CASE s2c[c] # <<>> /\ Head(s2c[c]).m_tag = ReplyTag[waiting[c].m.m_tag]
    <3>1. s2c[c] \in Seq(AnyReply)
      BY <1>1 DEF ConnectionTypeOK
    <3>2. s2c'[c] = s2c[c] \/ (reply' \in AnyReply /\ s2c'[c] = Append(s2c[c], reply'))
      BY <1>2, <1>3, <2>1, Replying
    <3>3. s2c'[c] # <<>> /\ Head(s2c'[c]) = Head(s2c[c])
      BY <2>4, <3>1, <3>2
    <3>. QED BY <2>4, <3>3
  <2>. QED BY <1>1, <2>3, <2>4 DEF AnswerFits
<1>9. up' = "killed" => up = "killed" \/ at'[c] = "gone_owing"
  BY <1>1, <1>2, <1>3, <1>4, Replying DEF LinkFits, Here, ConnectionTypeOK
<1>. QED BY <1>2, <1>3, <1>5, <1>6, <1>7, <1>8, <1>9, OneConnection

(* What happens to a connection whose client went away.                    *)
LEMMA CloseConnectionStep ==
  ASSUME IpcInv, SrvMngInv, NEW c \in Client, CloseConnection(c)
  PROVE  IpcInv'
<1>1. ConnectionTypeOK /\ LinkFits(c)
  BY TypesInParts DEF IpcInv
<1>2. SrvMngTypeOK'
  BY <1>1, ServerTurn, SrvMngStep DEF SrvMngInv
<1>3. UNCHANGED <<at, me, named, waiting, c2s, s2c>>
  BY DEF CloseConnection, clientVars
<1>4. /\ link[c] \in {"fin", "dying", "reset", "broken"}
      /\ c2s[c] = <<>>
      /\ ~Here(c) /\ waiting[c] = NotWaiting
  BY <1>1 DEF CloseConnection, Ended, LinkFits
<1>5. \/ link' = [link EXCEPT ![c] = "closed"] /\ UNCHANGED up
      \/ UNCHANGED link /\ up' = "killed" /\ link[c] \in {"reset", "broken"}
  BY DEF CloseConnection
<1>6. ConnectionTypeOK' /\ Others(c)
  BY <1>1, <1>3, <1>5 DEF ConnectionTypeOK, Others
<1>7. LinkFits(c)'
  BY <1>1, <1>3, <1>4, <1>5 DEF LinkFits, Here, ConnectionTypeOK
<1>8. AnswerFits(c)'
  BY <1>3, <1>4, NotWaitingIsQuiet
<1>9. up' = "killed" => up = "killed" \/ at'[c] = "gone_owing"
  BY <1>1, <1>3, <1>4, <1>5 DEF LinkFits, Here, ConnectionTypeOK
<1>. QED BY <1>2, <1>3, <1>6, <1>7, <1>8, <1>9, OneConnection

LEMMA RstArrivesStep ==
  ASSUME IpcInv, NEW c \in Client, RstArrives(c)
  PROVE  IpcInv'
<1>1. SrvMngTypeOK /\ ConnectionTypeOK /\ LinkFits(c)
  BY TypesInParts DEF IpcInv
<1>2. /\ UNCHANGED <<srvVars, at, me, named, waiting, c2s, s2c, up>>
      /\ link[c] = "dying" /\ link' = [link EXCEPT ![c] = "broken"]
  BY DEF RstArrives, clientVars
<1>3. ~Here(c) /\ waiting[c] = NotWaiting
  BY <1>1, <1>2 DEF LinkFits
<1>4. SrvMngTypeOK' /\ ConnectionTypeOK' /\ Others(c)
  BY <1>1, <1>2, ServerUntouched DEF ConnectionTypeOK, Others
<1>5. LinkFits(c)'
  BY <1>1, <1>2, <1>3 DEF LinkFits, Here, ConnectionTypeOK
<1>6. AnswerFits(c)'
  BY <1>2, <1>3, NotWaitingIsQuiet
<1>. QED BY <1>2, <1>4, <1>5, <1>6, OneConnection

(* Neither a time-out of select nor a step of nobody touches a connection. *)
LEMMA NoConnectionStep ==
  ASSUME IpcInv, UNCHANGED <<srvVars, clientVars, c2s, s2c, link>>, up' \in {up, "shutdown"}
  PROVE  IpcInv'
<1>1. SrvMngTypeOK /\ ConnectionTypeOK
  BY TypesInParts DEF IpcInv
<1>2. UNCHANGED <<at, me, named, waiting>>
  BY DEF clientVars
<1>3. SrvMngTypeOK' /\ ConnectionTypeOK'
  BY <1>1, <1>2, ServerUntouched DEF ConnectionTypeOK
<1>4. \A c \in Client : LinkFits(c)' /\ AnswerFits(c)'
  BY <1>2 DEF IpcInv, LinkFits, Here, AnswerFits, StillToAnswer
<1>5. CleanExitsKeepServerUp'
  BY <1>2 DEF IpcInv, CleanExitsKeepServerUp
<1>. QED BY <1>3, <1>4, <1>5, TypesInParts DEF IpcInv

-----------------------------------------------------------------------------
(* The theorems.                                                           *)

LEMMA IpcInvStart == IpcInit => IpcInv /\ SrvMngInv
<1>. SUFFICES ASSUME IpcInit PROVE IpcInv /\ SrvMngInv
  OBVIOUS
<1>1. SrvMngInv
  BY SrvMngStart DEF IpcInit
<1>2. ConnectionTypeOK
  BY DEF IpcInit, ConnectionTypeOK, NotWaiting, Packet, Wild, ConnectToClientNET, ConnectToServer
<1>3. \A c \in Client : LinkFits(c) /\ AnswerFits(c)
  BY DEF IpcInit, LinkFits, Here, AnswerFits, NotWaiting, ConnectToClientNET, ConnectToServer
<1>4. CleanExitsKeepServerUp
  BY DEF IpcInit, CleanExitsKeepServerUp
<1>. QED BY <1>1, <1>2, <1>3, <1>4, TypesInParts DEF IpcInv, SrvMngInv

LEMMA IpcInvKept ==
  ASSUME IpcInv, SrvMngInv, [IpcNext]_ipcVars
  PROVE  IpcInv' /\ SrvMngInv'
<1>1. SrvMngInv'
  BY SystemStepIsServerStep, SrvMngStep, SrvMngStutter, TypesInParts DEF IpcInv
<1>2. ASSUME NEW c \in Client, Menu(c) PROVE IpcInv'
  BY <1>2, MenuStep
<1>3. ASSUME NEW c \in Client, ReceiveReply(c) PROVE IpcInv'
  BY <1>3, ReceiveReplyStep
<1>4. ASSUME NEW c \in Client, ReceiveEnd(c) PROVE IpcInv'
  BY <1>4, ReceiveEndStep
<1>5. ASSUME NEW c \in Client, ReceiveRequest(c) PROVE IpcInv'
  BY <1>5, ReceiveRequestStep
<1>6. ASSUME NEW c \in Client, CloseConnection(c) PROVE IpcInv'
  BY <1>6, CloseConnectionStep
<1>7. ASSUME NEW c \in Client, RstArrives(c) PROVE IpcInv'
  BY <1>7, RstArrivesStep
<1>8. ASSUME Shutdown PROVE IpcInv'
  <2>1. UNCHANGED <<srvVars, clientVars, c2s, s2c, link>> /\ up' \in {up, "shutdown"}
    BY <1>8 DEF Shutdown
  <2>. QED BY <2>1, NoConnectionStep
<1>9. ASSUME UNCHANGED ipcVars PROVE IpcInv'
  <2>1. UNCHANGED <<srvVars, clientVars, c2s, s2c, link>> /\ up' \in {up, "shutdown"}
    BY <1>9 DEF ipcVars, netVars
  <2>. QED BY <2>1, NoConnectionStep
<1>. QED BY <1>1, <1>2, <1>3, <1>4, <1>5, <1>6, <1>7, <1>8, <1>9 DEF IpcNext

LEMMA IpcInvariant == IpcSpec => [](IpcInv /\ SrvMngInv)
<1>1. IpcInv /\ SrvMngInv /\ [IpcNext]_ipcVars => IpcInv' /\ SrvMngInv'
  BY IpcInvKept
<1>. QED BY <1>1, IpcInvStart, PTL DEF IpcSpec

(* Every variable of the clients, the connections and the server keeps its *)
(* type (client_manager.c, client_net.c, server_net.c).                    *)
THEOREM IpcTypeCorrect == IpcSpec => []IpcTypeOK
BY IpcInvariant, PTL DEF IpcInv

(* What connections and clients do, RunServer turns into whole calls of     *)
(* GotMessage on packets received or repeated.                             *)
LEMMA ServerStepsOnly == IpcSpec => SrvMngSpec
<1>1. IpcInv /\ [IpcNext]_ipcVars => [SrvMngNext]_srvVars
  BY SystemStepIsServerStep, TypesInParts DEF IpcInv
<1>2. IpcInit => SrvMngInit
  BY DEF IpcInit
<1>. QED BY <1>1, <1>2, IpcInvariant, PTL DEF IpcSpec, SrvMngSpec

(* So all that is proved of the server manager holds in the system,        *)
(* whatever its clients and connections do.                                *)
THEOREM ServerTheoremsHold ==
  IpcSpec => /\ []AddressesApart /\ []RepliesAreTrue /\ []LogoutClears
             /\ ReplayIsHarmlessAlways /\ SessionsByPasswordAlways
             /\ ImplementsDirectory
BY ServerStepsOnly, AddressesStayApart, RepliesStayTrue, LogoutLeavesNothing,
   ReplayHarmless, SessionsNeedPassword, DirectoryImplemented, PTL

(* Any number of clients that close quiet connections never take the       *)
(* server down: SIGPIPE needs one that left packets unread (server_net.c). *)
THEOREM CleanExitsHarmless == IpcSpec => []CleanExitsKeepServerUp
BY IpcInvariant, PTL DEF IpcInv

LEMMA AnswerIsOwn ==
  ASSUME IpcInv
  PROVE  OwnAnswer
BY DEF IpcInv, AnswerFits, OwnAnswer, NameOnly

(* Whatever else is in flight, a request sent over a quiet connection is   *)
(* answered first by the reply to it (client_net.c, server_net.c).         *)
THEOREM OwnAnswerFirst == IpcSpec => []OwnAnswer
BY IpcInvariant, AnswerIsOwn, PTL

-----------------------------------------------------------------------------
(* Who gets into LoginPage.                                                *)

(* An account keeps its password while the server can allocate.            *)
LEMMA PasswordStays ==
  ASSUME SrvMngInv, [SrvMngNext]_srvVars, NEW u \in UserName, m_userMap[u] \in User
  PROVE  m_userMap'[u] \in User /\ m_userMap'[u].m_password = m_userMap[u].m_password
<1>1. CASE UNCHANGED srvVars
  BY <1>1 DEF srvVars
<1>2. CASE SrvMngNext
  <2>1. UserStepOK
    BY <1>2, UserEffects, UserStep DEF SrvMngInv
  <2>2. m_userMap[u] # NotFound /\ m_userMap[u] # NULL
    BY UserAssumption
  <2>. QED BY <2>1, <2>2 DEF UserStepOK, AccountsAreKept, Registered, UsrMngTypeOK
<1>. QED BY <1>1, <1>2

(* A client that has asked nothing new and got nothing new.                *)
LEMMA LoginStillFits ==
  ASSUME IpcInv, SrvMngInv, [SrvMngNext]_srvVars, NEW c \in Client, LoginFits(c),
         \/ waiting'[c] = NotWaiting \/ ~waiting'[c].alone \/ s2c'[c] = <<>>
         \/ waiting'[c] = waiting[c] /\ s2c[c] # <<>> /\ Head(s2c'[c]) = Head(s2c[c])
  PROVE  LoginFits(c)'
<1>1. CASE waiting'[c] = NotWaiting \/ ~waiting'[c].alone \/ s2c'[c] = <<>>
  BY <1>1 DEF LoginFits, NotWaiting
<1>2. CASE waiting'[c] = waiting[c] /\ s2c[c] # <<>> /\ Head(s2c'[c]) = Head(s2c[c])
  <2>1. PICK m \in Packet : m = waiting[c].m
    BY DEF IpcInv, IpcTypeOK
  <2>2. m.m_tag = "LOGIN_REQUEST" => m.m_username \in UserName
    BY PacketFields DEF Packet
  <2>. QED BY <1>2, <2>1, <2>2, PasswordStays DEF LoginFits
<1>. QED BY <1>1, <1>2

(* The answer to a login comes from the state it is true of.               *)
LEMMA LoginAnswered ==
  ASSUME IpcInv, SrvMngInv, SrvMngInv', ~AllocMayFail,
         NEW c \in Client, ReceiveRequest(c), s2c[c] = <<>>
  PROVE  LoginFits(c)'
<1>. SUFFICES ASSUME waiting[c].alone, waiting[c].m.m_tag = "LOGIN_REQUEST",
                     s2c'[c] # <<>>, Head(s2c'[c]).m_reply = SUCCESS
              PROVE  /\ m_userMap'[waiting[c].m.m_username] \in User
                     /\ m_userMap'[waiting[c].m.m_username].m_password = waiting[c].m.m_password
  BY DEF LoginFits, ReceiveRequest, clientVars
<1>1. ConnectionTypeOK /\ LinkFits(c) /\ AnswerFits(c)
  BY TypesInParts DEF IpcInv
<1>2. PICK m : m = waiting[c].m
  OBVIOUS
<1>3. c2s[c] # <<>> /\ StillToAnswer(c, m) /\ ~NameOnly(m)
  BY <1>1, <1>2, Receiving DEF AnswerFits, NameOnly
<1>4. buffer' = m
  <2>1. Head(c2s[c]) = m
    BY <1>1, <1>3, FirstPacket DEF StillToAnswer
  <2>. QED BY <2>1 DEF ReceiveRequest, Received
<1>5. link[c] = "open"
  BY <1>1, <1>3 DEF LinkFits, NotWaiting
<1>6. reply' \in AnyReply \cup {NoReply} /\ SendToClient(c)
  BY DEF ReceiveRequest, SrvMngInv, SrvMngTypeOK
<1>7. reply' # NoReply /\ reply'.m_reply = SUCCESS
  <2>1. s2c'[c] = IF reply' = NoReply THEN s2c[c] ELSE Append(s2c[c], reply')
    BY <1>5, <1>6, Replying
  <2>. QED BY <2>1
<1>8. Registered(m.m_username)' /\ m_userMap'[m.m_username].m_password = m.m_password
  BY <1>2, <1>4, <1>7 DEF SrvMngInv, RepliesAreTrue, TrueOf
<1>9. m_userMap'[m.m_username] \in User
  <2>1. m.m_username \in UserName
    BY <1>2, <1>3, PacketFields DEF StillToAnswer
  <2>. QED BY <1>8, <2>1 DEF SrvMngInv, SrvMngTypeOK, UsrMngTypeOK, NoNullUsers, Registered
<1>. QED BY <1>2, <1>8, <1>9

LEMMA ClientLoginFits ==
  ASSUME IpcInv, NEW c \in Client, Menu(c) \/ ReceiveReply(c) \/ ReceiveEnd(c),
         NEW d \in Client
  PROVE  \/ waiting'[d] = NotWaiting \/ ~waiting'[d].alone \/ s2c'[d] = <<>>
         \/ UNCHANGED <<waiting[d], s2c[d]>>
<1>1. /\ waiting \in [Client -> [m : Packet, alone : BOOLEAN]]
      /\ s2c \in [Client -> Seq(AnyReply)]
  BY DEF IpcInv, IpcTypeOK
<1>2. \A packets : SendToServer(c, packets) => UNCHANGED s2c
  BY DEF SendToServer
<1>3. ASSUME NEW m, AwaitReply(c, m), UNCHANGED s2c
      PROVE  \/ ~waiting'[d].alone \/ s2c'[d] = <<>>
             \/ UNCHANGED <<waiting[d], s2c[d]>>
  BY <1>1, <1>3 DEF AwaitReply, Quiet
<1>4. ASSUME NEW unread, Terminated(c, unread)
      PROVE  waiting'[d] = NotWaiting \/ UNCHANGED <<waiting[d], s2c[d]>>
  BY <1>1, <1>4 DEF Terminated
<1>5. ASSUME NEW v, Resume(c, v), NEW q,
             s2c' = [s2c EXCEPT ![c] = q]
      PROVE  waiting'[d] = NotWaiting \/ UNCHANGED <<waiting[d], s2c[d]>>
  BY <1>1, <1>5 DEF Resume
<1>6. CASE Menu(c)
  BY <1>2, <1>3, <1>4, <1>6
  DEF Menu, Register, Login, SendCredentials, CreateGroup, JoinGroup, CreateOrJoin,
      LeaveGroup, SeeGroups, Logout, SendNameOnly, Exit, Kill
<1>7. CASE ReceiveReply(c)
  BY <1>4, <1>5, <1>7 DEF ReceiveReply
<1>8. CASE ReceiveEnd(c)
  <2>1. UNCHANGED netVars => s2c' = [s2c EXCEPT ![c] = s2c[c]]
    BY <1>1 DEF netVars
  <2>. QED BY <1>4, <1>5, <1>8, <2>1 DEF ReceiveEnd
<1>. QED BY <1>6, <1>7, <1>8

LEMMA LoginFitsKept ==
  ASSUME IpcInv, SrvMngInv, ~AllocMayFail, \A d \in Client : LoginFits(d),
         [IpcNext]_ipcVars, NEW d \in Client
  PROVE  LoginFits(d)'
<1>1. [SrvMngNext]_srvVars /\ SrvMngInv'
  BY SystemStepIsServerStep, IpcInvKept, TypesInParts DEF IpcInv
<1>2. CASE UNCHANGED <<waiting[d], s2c[d]>>
  <2>1. s2c'[d] = <<>> \/ (waiting'[d] = waiting[d] /\ s2c[d] # <<>> /\ Head(s2c'[d]) = Head(s2c[d]))
    BY <1>2
  <2>. QED BY <1>1, <2>1, LoginStillFits
<1>3. ASSUME NEW c \in Client, Menu(c) \/ ReceiveReply(c) \/ ReceiveEnd(c)
      PROVE  LoginFits(d)'
  BY <1>1, <1>2, <1>3, ClientLoginFits, LoginStillFits
<1>4. ASSUME NEW c \in Client, ReceiveRequest(c)
      PROVE  LoginFits(d)'
  <2>1. /\ UNCHANGED waiting
        /\ SendToClient(c)
        /\ reply' \in AnyReply \cup {NoReply}
    BY <1>1, <1>4 DEF ReceiveRequest, clientVars, SrvMngInv, SrvMngTypeOK
  <2>2. CASE d # c
    <3>1. s2c'[d] = s2c[d]
      BY <2>1, <2>2, Replying
    <3>. QED BY <1>2, <2>1, <3>1
  <2>3. CASE d = c /\ s2c[c] = <<>>
    BY <1>1, <1>4, <2>3, LoginAnswered
  <2>4. CASE d = c /\ s2c[c] # <<>>
    <3>1. s2c[c] \in Seq(AnyReply)
      BY DEF IpcInv, IpcTypeOK
    <3>2. CASE waiting[c] = NotWaiting
      BY <1>1, <2>1, <2>4, <3>2, LoginStillFits
    <3>3. CASE waiting[c] # NotWaiting
      <4>1. s2c'[c] = s2c[c] \/ s2c'[c] = Append(s2c[c], reply')
        BY <2>1, <2>4, <3>3, Replying DEF IpcInv, LinkFits
      <4>2. Head(s2c'[c]) = Head(s2c[c])
        BY <2>1, <2>4, <3>1, <4>1
      <4>. QED BY <1>1, <2>1, <2>4, <4>2, LoginStillFits
    <3>. QED BY <3>2, <3>3
  <2>. QED BY <2>2, <2>3, <2>4
<1>5. ASSUME NEW c \in Client, CloseConnection(c) \/ RstArrives(c)
      PROVE  LoginFits(d)'
  BY <1>2, <1>5 DEF CloseConnection, RstArrives, clientVars
<1>6. CASE Shutdown \/ UNCHANGED ipcVars
  BY <1>2, <1>6 DEF Shutdown, ipcVars, clientVars, netVars
<1>. QED BY <1>3, <1>4, <1>5, <1>6 DEF IpcNext

(* Only a reply that says so leads into LoginPage.                         *)
LEMMA PageStep ==
  ASSUME IpcInv, \A d \in Client : LoginFits(d), IpcNext
  PROVE  NoPageWithoutPassword
<1>. SUFFICES ASSUME NEW c \in Client, at[c] = "main", at'[c] = "page",
                     waiting[c].alone, s2c[c] # <<>>
              PROVE  /\ m_userMap[me'[c]] \notin {NotFound, NULL}
                     /\ m_userMap[me'[c]].m_password = waiting[c].m.m_password
  BY DEF NoPageWithoutPassword
<1>1. /\ ConnectionTypeOK /\ AnswerFits(c) /\ LoginFits(c)
      /\ s2c[c] \in Seq(AnyReply)
      /\ at \in [Client -> {"main", "page", "gone", "gone_owing"}]
  BY TypesInParts DEF IpcInv, IpcTypeOK
<1>2. \A d \in Client : \A unread : Terminated(d, unread) => at'[c] # "page"
  BY <1>1 DEF Terminated
<1>3. ASSUME NEW d \in Client, NEW v, Resume(d, v)
      PROVE  /\ d = c /\ v = SUCCESS
             /\ waiting[c].m.m_tag = "LOGIN_REQUEST"
             /\ me'[c] = waiting[c].m.m_username
  <2>1. me \in [Client -> {NULL} \cup UserName]
    BY <1>1 DEF ConnectionTypeOK
  <2>2. at' # at /\ at' # [at EXCEPT ![d] = "main"]
    BY <1>1
  <2>3. /\ waiting[d].m.m_tag = "LOGIN_REQUEST" /\ v = SUCCESS
        /\ at' = [at EXCEPT ![d] = "page"]
        /\ me' = [me EXCEPT ![d] = waiting[d].m.m_username]
    BY <1>3, <2>2 DEF Resume
  <2>4. d = c
    BY <1>1, <2>3
  <2>. QED BY <2>1, <2>3, <2>4
<1>4. \A d \in Client : ~Menu(d)
  BY <1>2 DEF Menu, Register, Login, SendCredentials, CreateGroup, JoinGroup, CreateOrJoin,
      LeaveGroup, SeeGroups, Logout, SendNameOnly, Exit, Kill
<1>5. \A d \in Client : ~ReceiveEnd(d)
  BY <1>2, <1>3 DEF ReceiveEnd
<1>6. \A d \in Client : ~ReceiveRequest(d) /\ ~CloseConnection(d) /\ ~RstArrives(d)
  BY DEF ReceiveRequest, CloseConnection, RstArrives, clientVars
<1>7. ~Shutdown
  BY DEF Shutdown, clientVars
<1>8. \E v \in ReplyValue(Head(s2c[c])) : Resume(c, v)
  BY <1>2, <1>3, <1>4, <1>5, <1>6, <1>7 DEF IpcNext, ReceiveReply
<1>9. /\ SUCCESS \in ReplyValue(Head(s2c[c]))
      /\ waiting[c].m.m_tag = "LOGIN_REQUEST"
      /\ me'[c] = waiting[c].m.m_username
  BY <1>3, <1>8
<1>10. Head(s2c[c]).m_tag = "LOGIN_REPLY"
  BY <1>1, <1>9 DEF AnswerFits, NameOnly, ReplyTag
<1>11. Head(s2c[c]).m_reply = SUCCESS
  BY <1>9, <1>10 DEF ReplyValue
<1>. QED BY <1>1, <1>9, <1>11, UserAssumption DEF LoginFits

(* While the server can allocate, whoever logs in over a quiet connection  *)
(* needs the account's password to reach LoginPage, whatever other clients *)
(* send meanwhile (client_manager.c, server_net.c, srv_mng.c).             *)
THEOREM PageNeedsPassword ==
  ASSUME ~AllocMayFail
  PROVE  IpcSpec => NoPageWithoutPasswordAlways
<1>. DEFINE Logins == \A d \in Client : LoginFits(d)
<1>1. IpcInit => Logins
  BY DEF IpcInit, LoginFits
<1>2. IpcInv /\ SrvMngInv /\ Logins /\ [IpcNext]_ipcVars => Logins'
  BY LoginFitsKept
<1>3. IpcInv /\ Logins /\ [IpcNext]_ipcVars => [NoPageWithoutPassword]_ipcVars
  BY PageStep
<1>. QED BY <1>1, <1>2, <1>3, IpcInvariant, PTL DEF IpcSpec, NoPageWithoutPasswordAlways

=============================================================================
