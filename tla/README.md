# Specification of the ipc-project chat system

TLA+ models of the C chat system in this repository, TLC configurations that
check them on small instances, and TLAPS proofs of what matters most for all
instances.

## 1. The system

A server keeps user accounts and chat groups. A client registers, logs in and
creates, joins, leaves and lists groups over one TCP connection. Each group
gets a multicast address from a pool of 100; the members are meant to talk over
that address with processes of their own.

| Component | State it keeps | Operations | Who calls it |
|---|---|---|---|
| User manager: `usr_mng.c` over `user.c` | hash map from user names to users (password, active flag, map of group names) | `RegisterNewUser`, `LogInUser`, `LogOutUser`, `AddGroupToUser`, `RemoveGroupFromUser`, `RemoveAllGroupsFromUser` | server manager; two of them by nobody |
| Group manager: `grp_mng.c` over `group.c` | hash map from group names to groups (address, map of members); queue of addresses not handed out | `AddNewGroup`, `DeleteGroup`, `AddUserToGroup`, `RemoveUserFromGroup`, `RemoveUserFromAllGroups`, `GetAllGroupNames` | server manager; `DeleteGroup` by nobody |
| Server manager: `srv_mng.c` | the two managers and the network server | `GotMessage`: one case per request tag | callback of the server network |
| Server network: `server_net.c` | descriptor set, list of sockets, one receive buffer of 100 bytes for all connections | `RunServer` (select loop), `SendToClient` | `SrvMngActivate`; `GotMessage` |
| Client: `clnt_main.c`, `client_manager.c`, `client_net.c` | menu position, names typed, one socket | menus, `PackAndSendViaClientNET`, `ReceiveViaClientNET` | the user |
| Protocol: `protocol.c`, `protocol.h` | none | pack and unpack requests and replies | client manager, server manager |
| Multicast chat: `Multi.c`, `Sender.c`, `Listener.c` | a file of process ids per group and user; the processes | `MultiCreate`, `MultiDestroy`; each process registers, runs and ends | only `MultiTest.c` |
| Containers: `HashMap.h`, `genqueue.h`, `vector.h`, `genlist.h`, ... | | | everything; only the headers are in the repository |

Everything on the server runs in one thread: `RunServer` calls `GotMessage`,
which calls the managers and `SendToClient`. Concurrency is between the clients,
the connections and the server. What is hard to get right, and hard to test:

* The receive buffer outlives the packet it held. When `recv` returns 0 or an
  error, `GotMessage` is still called (`server_net.c:344`) on what is in the
  buffer, which may be another client's last request.
* TCP is a byte stream. One `recv` may return several packets, or the first part
  of one, and both ends look at the first packet only (`server_net.c:325`,
  `client_manager.c:104`).
* The condition in `client_manager.c:59` is always true, so REGISTER and LOGIN
  are sent twice, and LOGOUT and SEE send a packet of junk first. The second
  reply, and the reply to LEAVE, wait on the socket for the next request.
* `SelectOperation` copies the 8 bytes of a pointer instead of a descriptor set
  (`server_net.c:227`): descriptors from 64 on are never asked about, and the
  rest of the set `select` gets is uninitialised.
* The scan starts again from descriptor 0 whenever a connection is closed
  (`server_net.c:373`), and closed descriptors are numbers used again.
* Strings are packed without a terminator, and the list of groups without its
  length (`protocol.c:287`). They are unpacked with `strncpy` of exactly the
  counted bytes, which writes no NUL, and in the client to wherever pointers
  point that are never set (`client_manager.c:115`; the branch at 122, which
  would clear the memory, is never reached).
* `send` on a connection that was reset raises SIGPIPE, which ends the server.
* Addresses leave the pool before anything else can fail and never return.
* Nearly every allocation is unchecked or checked too late.
* Maps keep the pointers they are given as keys. `AddUser` (`group.c:88`) gives
  one into the request that `GotMessage` unpacked, and some cases of
  `GotMessage` free theirs.
* The client ignores whether it connected (`client_manager.c:28`) and whether
  anything was sent, and waits for a reply.
* A chat and its processes know of each other by a file only, which is emptied,
  appended to and read by processes that do not wait for each other, is never
  removed, and holds pids that the kernel gives to somebody else in time.

`PROJECT.json` lists these hazards line by line with the properties aimed at
each.

### What makes each component correct

* User manager: a registered name keeps its account and password, whatever is
  called and fails afterwards.
* Group manager: the pool and the name vector never lack a place; a group keeps
  its address.
* Server manager: each reply is true; sessions need the password; a replayed
  request does no harm; logging out leaves nothing; no two groups share an
  address.
* Server network: what `RunServer` keeps by hand about descriptors agrees with
  what is open; it never blocks in `recv`; a readable connection is served.
* Server network and client: a client on a quiet connection reads its own
  answer; well-behaved clients do not take the server down; clients are
  answered.
* Protocol: a message is unpacked as it was packed, whatever lies behind it in
  the buffer, as far as the memory it is unpacked into permits.
* Server manager's memory: a key lives as long as its map, and the maps behave as
  functions of names.
* Multicast chat: `MultiDestroy` ends the processes of its chat and nobody else,
  as far as two kills and a list of pids can; a live process stays in its reach.

## 2. The modules

```
IpcMessages            data shared by all: names, addresses, requests, replies
  UsrMng               usr_mng.c + user.c
  GrpMng               grp_mng.c + group.c
    SrvMng             srv_mng.c over UsrMng and GrpMng
      SrvMemory        the same cases with the memory that keys live in
      IpcSystem        clients, TCP connections and RunServer over SrvMng
ServerNet              RunServer and SelectOperation over descriptors
Protocol               protocol.c over a stream of bytes
MultiChat              Multi.c, Sender.c, Listener.c over a file of pids
GroupDirectory         abstract specification that SrvMng implements
UsrMngProofs, GrpMngProofs, SrvMngProofs,
SrvMemoryProofs, IpcSystemProofs,
ServerNetProofs, ProtocolProofs,
MultiChatProofs                              theorems (TLAPS)
MCManagers, MCSrvMng, MCSrvMemory, MCIpcSystem,
MCServerNet, MCProtocol, MCMultiChat         model values for TLC
```

**IpcMessages.** A request or reply is a record with the fields of its C struct;
bytes are not modelled. `NO_CASE` is any packet whose tag selects no case of
the switch. `WildBytes` are the requests that uninitialised memory, or the
middle of a packet, may happen to spell. `AllocMayFail` adds to every operation
what it does when memory runs out. A failed allocation whose result is
dereferenced at once ends the process, and is not a step of the model: the
states up to it are all there.

**UsrMng.** `m_userMap[u]` is `NotFound` (no such key), `NULL` (a failed
`UserCreate` that `RegisterNewUser` stored) or a record. The operations are
actions with an output parameter `res` for the returned code. `m_groups` is
`NULL` after `RemoveAllGroups` failed to make a new map.

**GrpMng.** `m_groupMap` is as above, `m_groupsID` the queue of address
strings. Address `i` stands for `"224.0.0.i"`. `DeleteGroup` puts a pointer
into a freed group back into the queue: that is `Stale`, and a later read
through it finds any address or none. `VectorAppend` drops what exceeds the 100
places of the vector.

**SrvMng.** One operator per case of `GotMessage`, each the whole case with all
the calls it makes. `buffer` is the packet at the front of RunServer's buffer,
`reply` what was handed to `SendToClient`. `Received(m)` is a `recv` that
returned `m`, `Replayed` one that returned nothing. Requests arrive in any order
from anybody, so the properties hold for all clients, not just this one.

**GroupDirectory.** What a user may rely on about groups: an address nobody had
before, kept for good, and members that change only by joining, leaving and
logging out. `SrvMng` implements it with the mapping at its end: the address and
members of a group are those of its record, and an address is spent when it is
no longer in the queue. `Waste` is the address a refused creation uses up.

**SrvMemory.** `memory` is the name in each block; a map's keys are blocks, and
`HashMapFind` finds those whose content `strcmp` calls equal. `r` is the block a
request was unpacked into. Which cases free it, which copy a name (`Malloc`) and
which keep the pointer (`AddUser`) is as in the code; a block nobody refers to
and nobody freed is a leak and stays as it is. `ByName` maps the two maps to
those of `SrvMng`, where they are functions of names: what `SrvMng` takes for
granted about keys is shown here for the code that leaves their ownership open.
Allocations fail here too: the map may refuse a pair though the name is new, a
failed `UserCreate` leaves a key whose value is `NULL`, and `AddUser` reports
success whether or not the map took its key. A failed `calloc` of a request is
dereferenced at once and ends the process.

**IpcSystem.** `at` says whether a client is in `main`, in `LoginPage` or gone
(`gone_owing` if packets of its connection were unread); `me` and `named` are
LoginPage's user name and whether `grpName` was typed; `waiting` is the request
whose reply the client is blocked for, and whether the connection was quiet when
it was sent. `c2s` and `s2c` hold the packets not read yet. `link` is the
socket as the server finds it: `open`; `fin`, the client is gone and said so;
`dying`, something was sent to it since; `reset`, an RST has arrived and the
next `send` fails with an error; `broken`, the next `send` raises SIGPIPE;
`closed`; and `none`, if `socket` or `connect` failed, which the client does not
notice: what it sends goes nowhere and its `recv` fails at once. With
`SendMayFail` the allocations of `PackAndSendViaClientNET` may fail: only some of
a request's packets are sent, or none, and the menu waits for the reply all the
same. `ReceiveRequest` and `CloseConnection` are one turn of RunServer's
scan for one descriptor, including `GotMessage` and `SendToClient`. The reply
pointers of `ReceiveViaClientNET` are never initialised, so reading a reply may
end the client. `Junk` is the first of the two packets of LOGOUT and SEE, whose
tag is a byte of `grpName`. A packet arrives whole: TCP may split one, but
these packets of at most 62 bytes are sent by a single `send`.

**ServerNet.** `pc` is where `RunServer` is: in `select`, in the scan, or why it
ended. `masterSet`, `workingSet`, `maxSD`, `i`, `descReady`, `clientCounter` and
`endServer` are its variables, `m_clients` the sockets in the list. Each turn of
the scan is one action: `Accept`, `Recv`, `CloseClient`, or nothing
(`ScanSkips`). `open` is what the process has open and `Readable` what select
would find; `Connect`, `Withdraw`, `Send` and `Hangup` are what clients do in
the meantime. `WordBits` stands for the 64 descriptors that the memcpy copies:
`workingSet` starts with any descriptors above it, because it is never
initialised, and `select` writes whole words. A bit left there of a descriptor
that is not open makes `select` fail and the server end (`SelectFails`). Bytes
received are served by `GotMessage` in `IpcSystem`; here they are only there or
not.

**Protocol.** Strings are sequences of their bytes, packets what the pack
functions write, one operator per C function. `Send` appends a packet to a
stream; `Receive(n)` is a recv that takes `n` bytes of it, however they cut the
packets, over what the buffer held (the server's is never cleared, the client's
is new each time). `fronts` remembers which message starts where and `due` the
one whose whole packet begins the buffer, only so that the properties can say
what `got`, the unpacked message, should be. `Misread` is the packet before each
LOGOUT and SEE, whose tag is a byte of a group name. `memory` is the struct that
the last message was unpacked into, from its first string on, and the unpack
functions take it as a parameter: `StrNCpy` leaves what lies behind the counted
bytes as it is, and `StringIn` is what `%s` or a map makes of the result.
`GotMessage` unpacks into cleared memory; `ReceiveViaClientNET` unpacks through
pointers it never sets, into any memory of `Leftover` (that they point at
something that may be written is assumed: otherwise the client ends, which is a
step of `IpcSystem`). Hence `IsUnpacked`: the address and port of a reply start
as they were packed, and end there if the memory had the NUL.

**MultiChat.** `proc` are the processes in the order they were started, each with
the pid the kernel gave it; a `file` is the sequence of the processes that wrote
their pid into it, or `NoFile`. `call` is where each caller is: after `fopen` in
`MultiCreate` (`sender`), in the two seconds before the listener (`listener`),
before the two reads of `MultiDestroy` (`first`, `next`) and after its `fclose`
(`closed`). `Lines` is what `fgets` finds: a FILE has a buffer, so a file of a
few pids is read at once and read again only when the buffer is empty. `Kill`
ends whoever has the pid. After `fclose` the loop goes on with a closed FILE,
which is undefined: it ends the call or the program, and no third line is read.
`system` returns before the terminal has started anything, and may start
nothing. `Multi.c` as it stands declares `str` twice and calls a parameter
`_userName` and `_username`; it is read with these two slips mended, which
changes no step. A file name is the two names side by side, so that different
chats may share one: chats are known by their file. `due` remembers, for one
property, whom the two kills can end.

## 3. What TLC checks

| Run | Instance | Distinct states | Shows |
|---|---|---|---|
| `managers` | 2 users, 2 passwords, 2 groups, 3 addresses, failing allocations | 86,956 | accounts are kept; capacity; addresses are kept |
| `srv_mng` | 2 users, 2 passwords, 2 groups, 3 addresses, 2 stray requests | 33,711 | true replies, harmless replays, sessions, addresses apart, the directory |
| `srv_mng_alloc` | 2 users, 2 passwords, 2 groups, 2 addresses, failing allocations | 88,618 | types, logouts, sessions, directory when memory runs out |
| `srv_memory` | 2 users, 1 password, 2 groups, 2 addresses, 6 blocks of memory, failing allocations | 25,414 | keys are neither freed nor shared; maps are functions of names |
| `ipc_one_client` | 1 client, 2 passwords, 3 packets in flight, a stray LOGOUT, failing sends and connections, fairness | 93,515 | types; a waiting client gets out of `recv` |
| `ipc_two_clients` | 2 clients, 2 passwords, 2 packets in flight each, failing sends and connections | 1,479,438 | own answers, clean exits are safe, a login over a quiet connection needs the password whatever the other client does |
| `server_net` | 4 client descriptors, two beyond the first word, 1 waiting connection, fairness | 97,351 | books are right, no recv blocks, nothing is left open, the first word is served |
| `protocol` | 2 messages in a row, names of 1 and 3 bytes, lists of 0, 3, 33 and 34, buffer of 132 bytes, memory of zeros or of old letters | 363,229 | messages are read back, as far as memory permits |
| `multi_chat` | 2 callers, 2 files, 3 pids, 3 processes | 1,245,845 | whom MultiDestroy ends, and whom it does not miss |
| `server_net_timeout` | 3 client descriptors, one beyond the first word | violated | the server times out although it is in use |
| `server_net_list` | as above, failing allocations | violated | closed connections stay in the list |
| `protocol_layout` | one message | violated | a group list has no length |

The last three runs are disagreements between comments and code, which
`PROJECT.json` quotes under "findings": "timeout if server is not in use"
(`server_net.c:21`), "erase from list" (`server_net.c:364`) and
"[GroupNames length]" (`protocol.c:293`).

**Bounds.** Two users and two groups are what it takes for one to interfere with
another. Three addresses let two groups exist and one address be wasted, so that
the pool runs dry both with and without all groups created. `MaxInFlight` bounds
the unread packets of a connection in both directions together: 2 lets a request
and its duplicate, or a LEAVE and another request, be under way and be
coalesced; 3 adds an older reply still unread. `MaxName` is 29, the longest name
that fits a C array of 30: with it two packets may exceed the 100 bytes of
`BUFFER_SIZE` and be cut. Six blocks of memory hold two users, two groups and
two members, or run out before that. Three processes are a sender, a listener
and a third that comes from another chat, from a second `MultiCreate` or from
outside, and that may get the pid of one that has ended; the second caller
empties the file while the first reads it. Two descriptors below the end of the
first word are what it takes for one to starve another and for a number to be
used again; of two beyond it the lower one may be closed and still be asked
about, which makes `select` fail. Two packets in a stream are enough for one to
follow another; of the names of 1 and 3 bytes only the longer has the third byte
that is misread as a tag. The lists that begin with `!`, 33, are shorter than
that, as long and longer; the memory behind a client's pointer is all zeros or
all letters up to its last byte. Symmetry is used where the values are
interchangeable and no liveness is checked.

**Deadlock** is not checked in the runs of `IpcSystem`, `ServerNet`, `Protocol`,
`SrvMemory` and `MultiChat`: all clients may have left and the server have ended,
a stream of `MaxSent` messages comes to its end, the blocks of memory leak away,
and all callers may have crashed.

**Fairness.** In `IpcSystem`, which checks liveness for one client only, a
connection stays readable until it is read, and the scan comes to it when no
others are there to keep it from its turn: weak fairness of `ReceiveRequest`.
With several connections the code does not guarantee that much, because the scan
starts again (`server_net.c:373`) and descriptors from 64 on are not asked
about: that is the subject of `ServerNet`, where nothing of the kind is assumed.
A process blocked in `recv` is woken by what arrives: weak fairness of
`ReceiveReply` and `ReceiveEnd`. In `ServerNet` the process runs whenever
`select` lets it: weak fairness of `RunServer` but for the time-out. No fairness
is assumed of users, of the select time-out, or of the arrival of an RST.

**What does not hold, and is not claimed.** A client whose LOGOUT or SEE is
coalesced with the junk packet before it is never answered: `AnsweredIfNoJunk`
excludes exactly that. A client that left an old reply unread takes it for the
next answer: `OwnAnswer` and `NoPageWithoutPassword` speak of quiet connections.
A client that leaves with packets unread may kill the server by SIGPIPE:
`CleanExitsKeepServerUp` says nothing else does. `FirstWordServed` excludes
scans that are cut short for ever: without that a connection starves behind
lower descriptors that keep ending. It says nothing of descriptors beyond the
first word, which are not served at all. A group list followed by other bytes,
or longer than its first letter's number, is read back wrong, and one as long as
that number, or empty, goes on with what was in the client's memory before:
`ShortListIsUnpacked` speaks of the others. So may an address or a port:
`FrontIsUnpacked` says how they start. Joining a group asks for no login, so
membership does not imply a session. When memory runs out several replies are
untrue, so `RepliesAreTrue` assumes that it does not, and `LogoutClears` says
what is left without that assumption.

A `MultiDestroy` ends at most two processes, and none that has not registered
yet: `EndsWhatItCan` speaks of chats that two kills can end. It ends strangers
when a pid is in use again: `KillsOwnOrReused` says only then. A second
`MultiCreate` puts the processes of the first out of reach: `LostByCreateOnly`
says that nothing else does.

Every property of a passing run is accompanied by a variant of the code (an
operator whose comment starts with "A variant") under which TLC finds it
violated.

## 4. What is proved

TLAPS proves, for any sets of users, passwords and groups, any pool size, any
number of clients, with and without failing allocations and for any stray
requests:

| Theorem | Says |
|---|---|
| `UsrMngTypeCorrect`, `AccountsKept` | types; accounts and passwords are kept |
| `GrpMngTypeCorrect`, `CapacityHolds`, `AddressKept` | types; the pool is never exceeded; addresses are kept |
| `SrvMngTypeCorrect` | types of the whole server manager |
| `AddressesStayApart` | no address is shared or handed out twice |
| `RepliesStayTrue` | every reply is true, if memory can be allocated |
| `ReplayHarmless` | a replayed request changes no user and no group |
| `SessionsNeedPassword` | sessions start by password and end by logout only |
| `LogoutLeavesNothing` | a successful logout leaves no session and no membership |
| `DirectoryImplemented` | `SrvMng` implements `GroupDirectory` |
| `IpcTypeCorrect` | types of clients, connections and server |
| `ServerTheoremsHold` | the system with its clients and connections has all of the properties from `AddressesStayApart` to `DirectoryImplemented` above |
| `CleanExitsHarmless` | clients that leave nothing unread never take the server down |
| `OwnAnswerFirst` | over a quiet connection the first reply is the request's own |
| `PageNeedsPassword` | a login over a quiet connection needs the password, if the server can allocate |
| `MemTypeCorrect`, `KeysStayReadable` | types; no key of a map is freed, overwritten or ambiguous, for any number of blocks |
| `NamesImplemented` | `SrvMemory` implements `SrvMng`: maps of borrowed pointers behave as functions of names |
| `MemTheoremsHold` | so it has `AddressesApart`, `LogoutClears` and `SessionsByPassword` as well |
| `ServerNetTypeCorrect`, `BooksStayRight` | types; what `RunServer` keeps by hand agrees with what is open, for any number of descriptors |
| `RecvNeverStops` | the scan reads no blocking socket that has nothing |
| `EverythingIsClosed` | `RunServer` returns with nothing open |
| `MessagesAreReadBack` | messages at the front of the buffer are read back, for any names of up to 29 bytes, addresses of up to 14 and any buffer; an address and a port begin as packed in any memory, and end there if it has the NUL |
| `ShortListsAreReadBack` | a group list that is alone and short is read back into any memory, if the buffer has 131 bytes (the client's has 2048), and one that is just too long, or empty, if the memory has the NUL |
| `ChatTypeCorrect` | types; every line of a pid file, read ahead or not, is from a process of that file that has run |
| `KillsStayOwn`, `EndsWhatItMust` | whom `MultiDestroy` ends: nobody else's process but by a pid used again, and all it can |
| `LostOnlyByCreate` | a live process leaves the pid file only by a `MultiCreate` that goes on |

*Assumptions.* `DataAssumption` (the pool is not empty, stray packets are
requests, the two special values differ), `UserAssumption` and
`GroupAssumption` (the special values are no records), `IpcAssumption` (names
of at most 29 bytes, as the arrays of `protocol.h` hold, so that two packets with
one name each fit the receive buffer), `MemoryAssumption` and `NamesAssumption`
(a free block holds no name, and again the special values are no records),
`ServerNetAssumption`
(the listening socket lies in the first word), `ProtocolAssumption` (names
are letters, not NUL and not tags, names and addresses fit their arrays with
their NUL, and memory is long enough to be looked at) and `ChatAssumption`
(a missing file is no sequence of lines). TLC evaluates them in
every run that uses them.

*The argument.* In `GrpMngProofs` the inductive invariant is the type invariant
with `Capacity`: only because the queue and the groups together fit does a
returned address find a place. In `SrvMngProofs` it is `SrvMngInv`: types,
`Capacity`, that only a failed allocation leaves a NULL user, `AddressesApart`
and `RepliesAreTrue`. `Capacity` is needed for the truth of the group list
(`NamesAreComplete`), `AddressesApart` for the address in a creation's reply and
for the step to the directory, and `RepliesAreTrue` itself for replays: that a
request was answered truly is why executing it again does nothing. `GotMessage`
is first reduced to what it does to the groups (`GroupEffect`) and to the users
(`UserEffect`); the address, directory and session theorems follow from the
effects, the truth of replies from one lemma per request.

In `ServerNetProofs` the invariant adds `ScanIsSound` to types and books: the
descriptors that `select` found ready and the scan has not reached are finitely
many, still readable, and `descReady` is their number. When it is 0 the scan
stops, which is why a stale bit of `workingSet` above them, or one of a
descriptor accepted in the meantime, is never read. In `ProtocolProofs` it says
that the stream holds the whole packet of each message that starts in it
(`HoldsPacket`); `EveryPacket` says of each kind of message that it is unpacked
from whatever begins with its packet, into the memory that the receiver has for
it. That rests on `StringReadBack` and `CountedReadBack`, for the bytes of a
string in the buffer, and on `Copied`, `TextInMemory` and `TwoTexts`, for what
`strncpy` makes of them: a string is only its beginning until the NUL behind it
is accounted for, and the second of two must not disturb the first.

In `MultiChatProofs` it is `ChatInv`: types, `PidsApart` and `DueIsAhead`. That
no two live processes have one pid is why a kill by a line whose process lives
ends that process and no other. `DueIsAhead` says what holds between the two
kills: whoever is due and still lives is the line that `fgets` has read ahead,
so that emptying the file in between changes nothing. Each step is shown to be
a step of the processes (`ProcStep`: they are never forgotten, nor rise from the
dead) together with a change of one file or one call.

In `IpcSystemProofs` every step of the system is first shown to be a step of
`SrvMng` on its variables (`SystemStepIsServerStep`), which holds by the way
`IpcSystem` is built from `SrvMng` and so is a lemma (`ServerStepsOnly`), not a
result: it carries the invariant and the theorems over. `IpcInv` adds, for each
connection, `LinkFits` and `AnswerFits`, and is inductive together with
`CleanExitsKeepServerUp`. `LinkFits` says that a socket gets an RST only if its
client went away with packets unread. `AnswerFits` says that a request sent over
a quiet connection is either still to be answered (`StillToAnswer`: nothing but
it, at most twice, or the junk before it is on its way, and the server has sent
nothing) or its answer is the first reply: `OwnAnswer` by itself speaks of the
moment of reading and is not inductive. That one recv takes all of these packets
needs names of at most 29 bytes. `LoginFits`, for `PageNeedsPassword`, says of a
login that was answered with success that its password is the account's, which
stays so because `SrvMng` keeps accounts: whoever else is served in the meantime
cannot change it. A step touches one connection, `Others` carries the rest.

In `SrvMemoryProofs` types and `KeysAreOwned` are inductive as they stand, which
is the point of it: `KeyEffect` says that a step changes the content of free
blocks only (`Frozen`), and adds at most one key, a block that was free and now
holds the name. Then `HashMapFind` finds one key for a name or none, so that
what it finds is a function of the name; each case of `GotMessage` is shown to
be the case of `SrvMng` on these functions (`RegisterByName` and so on). The
list of all groups needs `Capacity` as well, because `SrvMng` says it as a
number of names. `Named` is `SrvMngProofs` with the maps by name: the lemmas
`SameStep` and `SameSpec` identify it with `ByName`, which carries its theorems
over.

In `ProtocolProofs` group lists have an invariant of their own (`ListInv`): a
server is sent none, so the buffer is a client's and all zeros behind what was
received (`ZerosBehind`). A list shorter than its first letter's number is copied
with the first of them; of the others no zero is copied, and the NUL has to be
in the memory already (`ListEnds`).

*Only model-checked:* liveness (`AnsweredIfNoJunk`, `FirstWordServed`), which
the prover does not handle, and the three violations, for which TLC's
counterexample is the result. Every safety property that a run checks is a
theorem.

## 5. What is not modelled, and the plan

Next: a refinement between a turn of the scan in `IpcSystem` and in `ServerNet`.

Not modelled: entry points and drafts (`main.c`, `srv_main.c`, `draft.c`,
`server_manager.c`), which keep no state; the container library and
`libtarget1.so`, whose source is not in the repository; setting up the server
(`CreateServer` lacks its `return`, and is taken to return what it made) and
taking it down, which is one sequence of calls that frees the server twice
(`server_net.c:387`, `srv_mng.c:260`); the list of group names as bytes in
`GotMessage` (`srv_mng.c:185`), which needs more than 32 names to exceed its
1000 bytes; the texts that senders multicast; terminal input and output.
