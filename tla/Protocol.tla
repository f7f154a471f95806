------------------------------ MODULE Protocol ------------------------------
(***************************************************************************)
(* protocol.c: how messages become bytes and bytes messages again, and a   *)
(* TCP stream between a sender and a receiver that reads it into a buffer  *)
(* and unpacks what is at the front into a struct.  A string is the        *)
(* sequence of its bytes before the terminating NUL; a struct that is      *)
(* unpacked into is the memory of its strings, which strncpy does not      *)
(* always terminate.                                                       *)
(***************************************************************************)
EXTENDS Integers, Sequences, FiniteSets

CONSTANTS
  Name,       \* strings typed for users, passwords and groups
  Ip,         \* address strings of a GroupCreateReply
  Names,      \* lists of group names of a SeeAllGroupsReply
  BufferSize, \* bytes of the receiver's buffer
  MemorySize, \* bytes that are looked at of a struct to unpack into
  Leftover,   \* what the memory behind a client's uninitialised pointer holds
  MaxSent     \* bound: messages sent during a behaviour

Byte(n) == n % 256

TagByte ==
  [REGISTER_REQUEST |-> 1, REGISTER_REPLY |-> 2, LOGIN_REQUEST |-> 3,
   LOGIN_REPLY |-> 4, LOGOUT_REQUEST |-> 5, LOGOUT_REPLY |-> 6,
   GROUP_CREATE_REQUEST |-> 7, GROUP_CREATE_REPLY |-> 8,
   GROUP_JOIN_REQUEST |-> 9, GROUP_JOIN_REPLY |-> 10,
   GROUP_LEAVE_REQUEST |-> 11, GROUP_LEAVE_REPLY |-> 12,
   GROUP_ALL_AVAILABLE_REQUEST |-> 13, GROUP_ALL_AVAILABLE_REPLY |-> 14]

MAX_SIZE == 30  \* bytes of m_username, m_password and m_groupName
IpSize == 15    \* bytes of m_ip, before m_port

Port == <<50, 48, 50, 49>>  \* "2021"

(* "ip" and "port", sent when a group is not created or not joined.        *)
NoIp == <<105, 112>>
NoPort == <<112, 111, 114, 116>>

RegisterOrLoginRequest ==
  [m_tag : {"REGISTER_REQUEST", "LOGIN_REQUEST"}, m_username : Name, m_password : Name]

GrpReqStruct ==
  [m_tag : {"GROUP_CREATE_REQUEST", "GROUP_JOIN_REQUEST", "GROUP_LEAVE_REQUEST"},
   m_username : Name, m_groupName : Name]

LogOutOrSeeGroupsReq ==
  [m_tag : {"LOGOUT_REQUEST", "GROUP_ALL_AVAILABLE_REQUEST"}, m_username : Name]

Reply ==
  [m_tag : {"REGISTER_REPLY", "LOGIN_REPLY", "LOGOUT_REPLY", "GROUP_LEAVE_REPLY"},
   m_reply : {0, 1}]

GroupCreateReply ==
  LET replies(value, ips, port) ==
        [m_tag : {"GROUP_CREATE_REPLY", "GROUP_JOIN_REPLY"}, m_reply : {value},
         m_ip : ips, m_port : {port}]
  IN  replies(1, Ip, Port) \cup replies(0, {NoIp}, NoPort)

SeeAllGroupsReply ==
  [m_tag : {"GROUP_ALL_AVAILABLE_REPLY"}, m_reply : {1}, m_allGroupNames : Names]

(* PackAndSendViaClientNET packs a GrpReqStruct before each LOGOUT and     *)
(* GROUP_ALL_AVAILABLE, which ProtocolPack takes for the struct of those.  *)
Misread == [m_username : Name, m_groupName : Name]

Request ==
  RegisterOrLoginRequest \cup GrpReqStruct \cup LogOutOrSeeGroupsReq \cup Misread
AnyReply == Reply \cup GroupCreateReply \cup SeeAllGroupsReply
Message == Request \cup AnyReply

ASSUME ProtocolAssumption ==
  /\ Name \cup Ip \cup Names \subseteq Seq(15 .. 127)
  /\ \A s \in Name : Len(s) < MAX_SIZE
  /\ \A s \in Ip : Len(s) < IpSize
  /\ BufferSize \in Nat /\ MaxSent \in Nat
  /\ MemorySize \in Nat /\ MemorySize > 127
  /\ \A memory \in Leftover : memory \in [1 .. MemorySize -> 0 .. 255]

-----------------------------------------------------------------------------
(* ProtocolPack: the bytes that each function writes and counts.           *)

Counted(s) == <<Byte(Len(s))>> \o s

(* A variant that forgets the length of the second string.                 *)
PackTwoUncounted(m, s, t) ==
  <<TagByte[m.m_tag], Byte(Len(s) + Len(t) + 4)>> \o Counted(s) \o t

PackTwo(m, s, t) ==
  <<TagByte[m.m_tag], Byte(Len(s) + Len(t) + 4)>> \o Counted(s) \o Counted(t)

PackLogOutOrSeeGroupsRequest(m) ==
  <<TagByte[m.m_tag], Byte(Len(m.m_username) + 3)>> \o Counted(m.m_username)

(* The tag is read from where the third byte of m_groupName is.            *)
PackMisread(m) ==
  <<IF Len(m.m_groupName) < 3 THEN 0 ELSE m.m_groupName[3], Byte(Len(m.m_username) + 3)>>
    \o Counted(m.m_username)

PackReply(m) == <<TagByte[m.m_tag], 4, 1, m.m_reply>>

PackGroupCreateReply(m) ==
  <<TagByte[m.m_tag], Byte(6 + Len(m.m_ip) + Len(m.m_port)), 1, m.m_reply>>
    \o Counted(m.m_ip) \o Counted(m.m_port)

PackSeeAllGroupsReply(m) ==
  <<TagByte[m.m_tag], Byte(4 + Len(m.m_allGroupNames)), 1, m.m_reply>>
    \o m.m_allGroupNames

ProtocolPack(m) ==
  CASE m \in RegisterOrLoginRequest -> PackTwo(m, m.m_username, m.m_password)
    [] m \in GrpReqStruct           -> PackTwo(m, m.m_username, m.m_groupName)
    [] m \in LogOutOrSeeGroupsReq   -> PackLogOutOrSeeGroupsRequest(m)
    [] m \in Misread                -> PackMisread(m)
    [] m \in Reply                  -> PackReply(m)
    [] m \in GroupCreateReply       -> PackGroupCreateReply(m)
    [] m \in SeeAllGroupsReply      -> PackSeeAllGroupsReply(m)

-----------------------------------------------------------------------------
(* ProtocolUnpack of a buffer b into a struct whose strings lie in memory. *)

TagOf(n) == IF \E tag \in DOMAIN TagByte : TagByte[tag] = n
            THEN CHOOSE tag \in DOMAIN TagByte : TagByte[tag] = n
            ELSE "NO_CASE"

(* What %s makes of the bytes s: the string up to a NUL or their end.      *)
CString(s) == [j \in {j \in DOMAIN s : \A i \in 1 .. j : s[i] # 0} |-> s[j]]

(* strncpy of Len(s) bytes to the place after at: from a NUL on it writes   *)
(* NULs, and behind the last byte of s it writes nothing.                  *)
StrNCpy(memory, at, s) ==
  [j \in DOMAIN memory |->
     IF j - at \notin DOMAIN s THEN memory[j]
     ELSE IF \E i \in 1 .. j - at : s[i] = 0 THEN 0 ELSE s[j - at]]

StringIn(memory, at) == CString(SubSeq(memory, at + 1, Len(memory)))

(* The bytes that the length in position k counts, and the position after. *)
BytesAt(b, k) == SubSeq(b, k + 1, k + b[k])
After(b, k)   == k + b[k] + 1

(* Two counted strings, the second into the array that begins after at.    *)
UnpackTwo(memory, at, b, k) ==
  StrNCpy(StrNCpy(memory, 0, BytesAt(b, k)), at, BytesAt(b, After(b, k)))

UnpackRegisterOrLoginRequest(memory, b) ==
  LET struct == UnpackTwo(memory, MAX_SIZE, b, 3) IN
  [m_tag |-> TagOf(b[1]), m_username |-> StringIn(struct, 0),
   m_password |-> StringIn(struct, MAX_SIZE)]

UnpackGrpReq(memory, b) ==
  LET struct == UnpackTwo(memory, MAX_SIZE, b, 3) IN
  [m_tag |-> TagOf(b[1]), m_username |-> StringIn(struct, 0),
   m_groupName |-> StringIn(struct, MAX_SIZE)]

UnpackLogOutOrSeeGroupsRequest(memory, b) ==
  [m_tag |-> TagOf(b[1]), m_username |-> StringIn(StrNCpy(memory, 0, BytesAt(b, 3)), 0)]

UnpackReply(b) == [m_tag |-> TagOf(b[1]), m_reply |-> b[4]]

UnpackGroupCreateReply(memory, b) ==
  LET struct == UnpackTwo(memory, IpSize, b, 5) IN
  [m_tag |-> TagOf(b[1]), m_reply |-> b[4],
   m_ip |-> StringIn(struct, 0), m_port |-> StringIn(struct, IpSize)]

(* A variant that reads the layout of the comments.                        *)
UnpackSeeAllGroupsReplyAsCommented(memory, b) ==
  [m_tag |-> TagOf(b[1]), m_reply |-> b[4],
   m_allGroupNames |-> StringIn(StrNCpy(memory, 0, BytesAt(b, 5)), 0)]

(* The first letter of the names is taken for their length.                *)
UnpackSeeAllGroupsReply(memory, b) ==
  [m_tag |-> TagOf(b[1]), m_reply |-> b[4],
   m_allGroupNames |-> StringIn(StrNCpy(memory, 0, SubSeq(b, 5, 4 + b[5])), 0)]

NotUnpacked == [m_tag |-> "NO_CASE"]

ProtocolUnpack(memory, b) ==
  LET tag == TagOf(b[1]) IN
  CASE tag \in {"REGISTER_REQUEST", "LOGIN_REQUEST"} ->
         UnpackRegisterOrLoginRequest(memory, b)
    [] tag \in {"GROUP_CREATE_REQUEST", "GROUP_JOIN_REQUEST", "GROUP_LEAVE_REQUEST"} ->
         UnpackGrpReq(memory, b)
    [] tag \in {"LOGOUT_REQUEST", "GROUP_ALL_AVAILABLE_REQUEST"} ->
         UnpackLogOutOrSeeGroupsRequest(memory, b)
    [] tag \in {"REGISTER_REPLY", "LOGIN_REPLY", "LOGOUT_REPLY", "GROUP_LEAVE_REPLY"} ->
         UnpackReply(b)
    [] tag \in {"GROUP_CREATE_REPLY", "GROUP_JOIN_REPLY"} ->
         UnpackGroupCreateReply(memory, b)
    [] tag = "GROUP_ALL_AVAILABLE_REPLY" -> UnpackSeeAllGroupsReply(memory, b)
    [] tag = "NO_CASE" -> NotUnpacked

-----------------------------------------------------------------------------
(* The stream.                                                             *)

VARIABLES
  toServer, \* whether the stream carries requests or replies
  stream,  \* bytes sent and not received
  fronts,  \* where in the stream which message starts
  sent,    \* number of messages sent
  buffer,  \* the receiver's buffer
  taken,   \* number of bytes the last recv took
  memory,  \* what the struct held that the last message was unpacked into
  due,     \* messages that this recv took whole, beginning with their first byte
  got      \* what the receiver unpacked

wireVars == <<toServer, stream, fronts, sent, buffer, taken, memory, due, got>>

Buffer(n) == [j \in 1 .. BufferSize |-> n]
Cleared == [j \in 1 .. MemorySize |-> 0]

(* RunServer never clears its buffer, the client's comes from calloc.      *)
WireInit ==
  /\ toServer \in BOOLEAN
  /\ stream = <<>> /\ fronts = {} /\ sent = 0
  /\ buffer \in IF toServer THEN {Buffer(n) : n \in {0, 97}} ELSE {Buffer(0)}
  /\ taken = 0 /\ memory = Cleared /\ due = {} /\ got = NotUnpacked

Send(m) ==
  /\ sent < MaxSent
  /\ stream' = stream \o ProtocolPack(m)
  /\ fronts' = fronts \cup {[at |-> Len(stream) + 1, m |-> m]}
  /\ sent' = sent + 1
  /\ UNCHANGED <<toServer, buffer, taken, memory, due, got>>

(* GotMessage unpacks into a struct from calloc, ReceiveViaClientNET to    *)
(* wherever pointers point that it never sets.                             *)
Receive(n) ==
  LET old == IF toServer THEN buffer ELSE Buffer(0)
  IN
  /\ n <= Len(stream) /\ n <= BufferSize
  /\ buffer' = SubSeq(stream, 1, n) \o SubSeq(old, n + 1, BufferSize)
  /\ stream' = SubSeq(stream, n + 1, Len(stream))
  /\ fronts' = {[at |-> f.at - n, m |-> f.m] : f \in {f \in fronts : f.at > n}}
  /\ taken' = n
  /\ due' = {f.m : f \in {f \in fronts : f.at = 1 /\ Len(ProtocolPack(f.m)) <= n}}
  /\ memory' \in IF toServer THEN {Cleared} ELSE Leftover
  /\ got' = IF due' = {} THEN NotUnpacked ELSE ProtocolUnpack(memory', buffer')
  /\ UNCHANGED <<toServer, sent>>

WireNext ==
  \/ \E m \in IF toServer THEN Request ELSE AnyReply : Send(m)
  \/ \E n \in 1 .. BufferSize : Receive(n)

WireSpec == WireInit /\ [][WireNext]_wireVars

-----------------------------------------------------------------------------
StartsWith(s, t) == \A j \in DOMAIN t : j \in DOMAIN s /\ s[j] = t[j]

(* What u must be when the packet of m is unpacked into the memory old:    *)
(* m_ip and m_port start with what was packed, and are it where the memory *)
(* that they are copied to has a NUL behind them.                          *)
IsUnpacked(m, old, u) ==
  IF m \in Misread THEN u = NotUnpacked
  ELSE IF m \in GroupCreateReply THEN
    /\ u.m_tag = m.m_tag /\ u.m_reply = m.m_reply
    /\ StartsWith(u.m_ip, m.m_ip) /\ StartsWith(u.m_port, m.m_port)
    /\ old[Len(m.m_ip) + 1] = 0 => u.m_ip = m.m_ip
    /\ old[IpSize + Len(m.m_port) + 1] = 0 => u.m_port = m.m_port
  ELSE u = m

(* A message at the front of the buffer is unpacked as it was packed,      *)
(* whatever follows it there: another packet, a part of one, or bytes that *)
(* earlier packets left.  Of a reply with an address the strings may run   *)
(* on into what the client's memory held; group lists are the property     *)
(* below.  A misread request, were its tag an accident, selects no case.   *)
FrontIsUnpacked ==
  \A m \in due \ SeeAllGroupsReply : IsUnpacked(m, memory, got)

(* A group list that is received alone is unpacked as it was packed if it  *)
(* is shorter than the number that its first letter is: zeros are copied   *)
(* behind it.  Of one as long as that number, and of the empty list, no    *)
(* more is copied than the list, and the memory must have had the NUL.     *)
ShortListIsUnpacked ==
  \A m \in due \cap SeeAllGroupsReply :
    LET names == m.m_allGroupNames
        ends  == memory[Len(names) + 1] = 0
    IN  /\ taken = Len(ProtocolPack(m))
        /\ \/ names = <<>> /\ ends
           \/ names # <<>> /\ Len(names) < names[1]
           \/ names # <<>> /\ Len(names) = names[1] /\ ends
        => got = m

(* "[GroupNames length]": the fifth byte of a group list counts the names. *)
LayoutAsCommented ==
  \A f \in fronts :
    f.m \in SeeAllGroupsReply =>
      /\ f.at + 4 \in DOMAIN stream
      /\ stream[f.at + 4] = Len(f.m.m_allGroupNames)
=============================================================================
