----------------------------- MODULE ServerNet -----------------------------
(***************************************************************************)
(* RunServer (server_net.c): one process that waits in select and then     *)
(* scans the descriptors from 0 upwards, with its descriptor sets, maxSD,  *)
(* the number of ready descriptors and the list of sockets.  The kernel's  *)
(* side are the connections not accepted yet and what each accepted one    *)
(* has to be read.  Descriptors are numbers: 0 .. 2 are the terminal, the  *)
(* listening socket comes next, accept takes the lowest one free.          *)
(***************************************************************************)
EXTENDS Integers, FiniteSets

CONSTANTS
  OPEN_MAX,    \* descriptors a process may have open (1024)
  WordBits,    \* bits in the sizeof(fd_set *) bytes that memcpy copies (64)
  BACKLOG,     \* connections that may wait to be accepted (32)
  AllocMayFail \* whether malloc may fail

listenSD == 3

ASSUME ServerNetAssumption ==
  /\ OPEN_MAX \in Nat /\ WordBits \in Nat /\ BACKLOG \in Nat
  /\ listenSD < WordBits /\ listenSD < OPEN_MAX
  /\ AllocMayFail \in BOOLEAN

FD == listenSD .. OPEN_MAX - 1

VARIABLES
  pc,          \* in select, in the scan, or why the server ended
  masterSet, workingSet, maxSD,
  i, descReady,
  m_clients,   \* the sockets that are in the list, however often
  clientCounter,
  endServer,
  open,        \* descriptors the process has open
  backlog,     \* connections made and not accepted
  data, ended  \* open connections with bytes to read, whose peer has closed

scanVars == <<workingSet, i, descReady>>
bookVars == <<masterSet, maxSD, m_clients, clientCounter, endServer>>
kernelVars == <<open, backlog, data, ended>>
netVars == <<pc, scanVars, bookVars, kernelVars>>

Running == pc \in {"select", "scan"}

Readable(f) ==
  \/ f = listenSD /\ backlog > 0
  \/ f \in data \cup ended

(* The words above the one that memcpy fills are never initialised.        *)
ServerNetInit ==
  /\ pc = "select"
  /\ masterSet = {listenSD}
  /\ workingSet \in SUBSET (WordBits .. OPEN_MAX - 1)
  /\ maxSD = listenSD
  /\ i = 0 /\ descReady = 0
  /\ m_clients = {}
  /\ clientCounter = 0
  /\ endServer = FALSE
  /\ open = {listenSD}
  /\ backlog = 0
  /\ data = {} /\ ended = {}

-----------------------------------------------------------------------------
(* The clients and the network.                                            *)

Connect ==
  /\ Running
  /\ backlog < BACKLOG
  /\ backlog' = backlog + 1
  /\ UNCHANGED <<pc, scanVars, bookVars, open, data, ended>>

(* A connection is gone again before it is accepted.                       *)
Withdraw ==
  /\ backlog > 0
  /\ backlog' = backlog - 1
  /\ UNCHANGED <<pc, scanVars, bookVars, open, data, ended>>

Send(f) ==
  /\ f \in open \ (ended \cup {listenSD})
  /\ data' = data \cup {f}
  /\ UNCHANGED <<pc, scanVars, bookVars, open, backlog, ended>>

Hangup(f) ==
  /\ f \in open \ (ended \cup {listenSD})
  /\ ended' = ended \cup {f}
  /\ UNCHANGED <<pc, scanVars, bookVars, open, backlog, data>>

-----------------------------------------------------------------------------
(* SelectOperation.                                                        *)

(* memcpy copies as many bytes as a pointer has: the first word.           *)
CopyMaster(to, from) ==
  {f \in from : f < WordBits} \cup {f \in to : f >= WordBits}

(* select reads and writes whole words, as many as hold maxSD: not those   *)
(* that a word boundary separates from it.                                 *)
Selected(f) == ~ \E k \in 1 .. f : maxSD < k * WordBits /\ k * WordBits <= f

Asked == {f \in CopyMaster(workingSet, masterSet) : f <= maxSD}

ReadyFDs == {f \in Asked : Readable(f)}

(* A variant that stops one descriptor short.                              *)
CloseAllButLast(why) ==
  /\ pc' = why
  /\ open' = open \ {f \in masterSet : f < maxSD}
  /\ data' = data \cap open'
  /\ ended' = ended \cap open'
  /\ UNCHANGED <<bookVars, backlog>>

(* close possible active connections                                       *)
CloseAll(why) ==
  /\ pc' = why
  /\ open' = open \ {f \in masterSet : f <= maxSD}
  /\ data' = data \cap open'
  /\ ended' = ended \cap open'
  /\ UNCHANGED <<bookVars, backlog>>

Selecting == pc = "select" /\ ~endServer

SelectReturns ==
  /\ Selecting
  /\ Asked \subseteq open
  /\ ReadyFDs # {}
  /\ workingSet' = ReadyFDs \cup {f \in workingSet : ~Selected(f)}
  /\ descReady' = Cardinality(ReadyFDs)
  /\ i' = 0
  /\ pc' = "scan"
  /\ UNCHANGED <<bookVars, kernelVars>>

SelectTimesOut ==
  /\ Selecting
  /\ Asked \subseteq open
  /\ ReadyFDs = {}
  /\ CloseAll("timeout")
  /\ UNCHANGED scanVars

(* An uninitialised bit may name a descriptor that is not open.            *)
SelectFails ==
  /\ Selecting
  /\ ~(Asked \subseteq open)
  /\ CloseAll("failed")
  /\ UNCHANGED scanVars

(* The loop ends after accept failed.                                      *)
Stop ==
  /\ pc = "select" /\ endServer
  /\ CloseAll("failed")
  /\ UNCHANGED scanVars

-----------------------------------------------------------------------------
(* The scan.                                                               *)

(* A variant that scans every descriptor whatever number is ready.         *)
ScanningAll == pc = "scan" /\ i <= maxSD

Scanning == pc = "scan" /\ i <= maxSD /\ descReady > 0

ScanSkips ==
  /\ Scanning
  /\ i \notin workingSet
  /\ i' = i + 1
  /\ UNCHANGED <<pc, workingSet, descReady, bookVars, kernelVars>>

(* The descriptor i is ready.                                              *)
Turn(f) ==
  /\ Scanning
  /\ i = f /\ f \in workingSet
  /\ descReady' = descReady - 1
  /\ UNCHANGED workingSet

GoOn == i' = i + 1 /\ pc' = "scan"

(* break leaves the scan, and the loop condition is tested.                *)
Break == i' = i /\ pc' = "select"

(* What PushSocketToList adds: nothing if NewSocket failed.                *)
NewSocket(sock) == IF AllocMayFail THEN {{sock}, {}} ELSE {{sock}}

Accept ==
  /\ Turn(listenSD)
  /\ backlog > 0
  /\ \E newSD \in FD \ open :
       /\ \A f \in FD \ open : newSD <= f
       /\ open' = open \cup {newSD}
       /\ masterSet' = masterSet \cup {newSD}
       /\ \E new \in NewSocket(newSD) : m_clients' = m_clients \cup new
       /\ clientCounter' = clientCounter + 1
       /\ maxSD' = IF newSD > maxSD THEN newSD ELSE maxSD
  /\ backlog' = backlog - 1
  /\ GoOn
  /\ UNCHANGED <<endServer, data, ended>>

(* EWOULDBLOCK: the connection was withdrawn.  The other descriptors wait  *)
(* for the next scan.                                                      *)
AcceptFindsNone ==
  /\ Turn(listenSD)
  /\ backlog = 0
  /\ Break
  /\ UNCHANGED <<bookVars, kernelVars>>

(* Any other error ends the server: no descriptor or memory left, a        *)
(* signal, a connection that was aborted.                                  *)
AcceptFails ==
  /\ Turn(listenSD)
  /\ endServer' = TRUE
  /\ Break
  /\ UNCHANGED <<masterSet, maxSD, m_clients, clientCounter, kernelVars>>

(* A variant that leaves the scan after each message.                      *)
RecvAndBreak(f) ==
  /\ f # listenSD
  /\ Turn(f)
  /\ f \in data
  /\ data' = data \ {f}
  /\ Break
  /\ UNCHANGED <<bookVars, open, backlog, ended>>

(* recv takes what there is, m_userFuncGotMsg deals with it.               *)
Recv(f) ==
  /\ f # listenSD
  /\ Turn(f)
  /\ f \in data
  /\ data' = data \ {f}
  /\ GoOn
  /\ UNCHANGED <<bookVars, open, backlog, ended>>

(* The list keeps the elements that are positive numbers: CleanMyList      *)
(* looks for others, and there are none.                                   *)
CleanMyList(list) == {sock \in list : sock > 0}

(* A variant that lowers maxSD by one and does not look for the next       *)
(* descriptor in the set.                                                  *)
CloseClientByOne(f) ==
  /\ f # listenSD
  /\ Turn(f)
  /\ f \notin data /\ f \in ended
  /\ open' = open \ {f}
  /\ masterSet' = masterSet \ {f}
  /\ clientCounter' = clientCounter - 1
  /\ m_clients' = CleanMyList(m_clients)
  /\ maxSD' = IF f = maxSD THEN maxSD - 1 ELSE maxSD
  /\ ended' = ended \ {f}
  /\ Break
  /\ UNCHANGED <<endServer, backlog, data>>

(* A variant that does not count the connection as gone.                   *)
CloseClientUncounted(f) ==
  /\ f # listenSD
  /\ Turn(f)
  /\ f \notin data /\ f \in ended
  /\ open' = open \ {f}
  /\ masterSet' = masterSet \ {f}
  /\ m_clients' = CleanMyList(m_clients)
  /\ \E largest \in masterSet \ {f} :
       /\ \A g \in masterSet \ {f} : g <= largest
       /\ maxSD' = IF f = maxSD THEN largest ELSE maxSD
  /\ ended' = ended \ {f}
  /\ Break
  /\ UNCHANGED <<clientCounter, endServer, backlog, data>>

CloseClient(f) ==
  /\ f # listenSD
  /\ Turn(f)
  /\ f \notin data /\ f \in ended
  /\ open' = open \ {f}
  /\ masterSet' = masterSet \ {f}
  /\ clientCounter' = clientCounter - 1
  /\ m_clients' = CleanMyList(m_clients)
  /\ \E largest \in masterSet \ {f} :
       /\ \A g \in masterSet \ {f} : g <= largest
       /\ maxSD' = IF f = maxSD THEN largest ELSE maxSD
  /\ ended' = ended \ {f}
  /\ Break
  /\ UNCHANGED <<endServer, backlog, data>>

ScanEnds ==
  /\ pc = "scan" /\ ~Scanning
  /\ pc' = "select"
  /\ UNCHANGED <<scanVars, bookVars, kernelVars>>

-----------------------------------------------------------------------------
RunServer ==
  \/ SelectReturns \/ SelectTimesOut \/ SelectFails \/ Stop
  \/ ScanSkips \/ ScanEnds
  \/ Accept \/ AcceptFindsNone \/ AcceptFails
  \/ \E f \in FD : Recv(f) \/ CloseClient(f)

Network ==
  \/ Connect \/ Withdraw
  \/ \E f \in FD : Send(f) \/ Hangup(f)

ServerNetNext == RunServer \/ Network

ServerNetSpec == ServerNetInit /\ [][ServerNetNext]_netVars

(* The process runs whenever select lets it.  A thousand seconds without   *)
(* anything to read need not pass.                                         *)
FairServerNetSpec ==
  ServerNetSpec /\ WF_netVars(RunServer /\ ~SelectTimesOut)

-----------------------------------------------------------------------------
ServerNetTypeOK ==
  /\ pc \in {"select", "scan", "timeout", "failed"}
  /\ masterSet \in SUBSET FD
  /\ workingSet \in SUBSET FD
  /\ maxSD \in FD
  /\ i \in 0 .. OPEN_MAX
  /\ descReady \in 0 .. Cardinality(FD)
  /\ m_clients \in SUBSET FD
  /\ clientCounter \in 0 .. Cardinality(FD)
  /\ endServer \in BOOLEAN
  /\ open \in SUBSET FD
  /\ backlog \in 0 .. BACKLOG
  /\ data \in SUBSET FD /\ ended \in SUBSET FD

(* The books that accept and close keep by hand, with descriptors closed   *)
(* and numbers used again, agree with the descriptors that are open: none  *)
(* is forgotten, none is asked about after it was closed, maxSD is the     *)
(* largest and clientCounter their number.                                 *)
BooksAreRight ==
  Running =>
    /\ masterSet = open
    /\ maxSD \in masterSet
    /\ \A f \in masterSet : f <= maxSD
    /\ clientCounter = Cardinality(masterSet) - 1

(* The accepted sockets are blocking, so a recv without anything to read   *)
(* would stop the server for everybody.  The scan never gets to one: not   *)
(* by a descriptor accepted during the scan whose bit was left over, nor   *)
(* by one that was closed and whose number is in use again.                *)
RecvNeverBlocks ==
  Scanning /\ i \in workingSet /\ i # listenSD => i \in data \cup ended

(* No descriptor is left open when RunServer returns.                      *)
NothingLeftOpen == ~Running => open = {}

(* A scan that ends before it reaches the descriptor f.                    *)
CutShort(f) == AcceptFindsNone \/ \E g \in FD : g < f /\ CloseClient(g)

(* A connection of the first word that has something to read is served, or *)
(* the server ends, unless scans are cut short for ever: by connections    *)
(* that end on lower descriptors, or that are gone before they are         *)
(* accepted.                                                               *)
FirstWordServed ==
  \A f \in FD : f # listenSD /\ f < WordBits =>
    \/ []<><<CutShort(f)>>_netVars
    \/ Readable(f) ~> (~Readable(f) \/ ~Running)

(* "timeout if server is not in use": when select times out no connection  *)
(* has anything to read.                                                   *)
TimeoutIfNotInUse ==
  pc = "select" /\ pc' = "timeout" => \A f \in open : ~Readable(f)

TimeoutIfNotInUseAlways == [][TimeoutIfNotInUse]_netVars

(* "erase from list": the list holds none but connections that are open.   *)
ErasedFromList == Running => m_clients \subseteq open
=============================================================================
