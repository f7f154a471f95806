-------------------------- MODULE ServerNetProofs --------------------------
(***************************************************************************)
(* Proofs about RunServer, for any number of descriptors, any word size    *)
(* and any backlog.                                                        *)
(***************************************************************************)
EXTENDS ServerNet, FiniteSetTheorems, TLAPS

(* What has to be read belongs to a connection, and while the server runs  *)
(* it listens.                                                             *)
Sockets ==
  /\ data \cup ended \subseteq open \ {listenSD}
  /\ Running => listenSD \in masterSet

(* S are the ready descriptors the scan has not come to.                   *)
ToServe(S) ==
  /\ Cardinality(S) = descReady
  /\ \A f \in S : i <= f /\ (f # listenSD => f \in data \cup ended)
  /\ \A f \in workingSet \ S : i <= f => \A s \in S : s < f

(* The scan counts down exactly these, and whatever else is in workingSet  *)
(* from i on lies beyond them.                                             *)
ScanIsSound ==
  pc = "scan" => \E S \in SUBSET (workingSet \cap masterSet) : ToServe(S)

NetInv ==
  /\ ServerNetTypeOK
  /\ BooksAreRight
  /\ NothingLeftOpen
  /\ Sockets
  /\ ScanIsSound

-----------------------------------------------------------------------------
LEMMA DescriptorsFinite ==
  /\ FD \subseteq Nat
  /\ IsFiniteSet(FD)
  /\ Cardinality(FD) \in Nat
  /\ \A S \in SUBSET FD : IsFiniteSet(S) /\ Cardinality(S) \in 0 .. Cardinality(FD)
<1>1. FD \subseteq Nat
  BY ServerNetAssumption DEF FD, listenSD
<1>2. IsFiniteSet(FD)
  BY ServerNetAssumption, FS_Interval DEF FD, listenSD
<1>3. Cardinality(FD) \in Nat
  BY <1>2, FS_CardinalityType
<1>4. ASSUME NEW S \in SUBSET FD
      PROVE  IsFiniteSet(S) /\ Cardinality(S) \in 0 .. Cardinality(FD)
  <2>1. IsFiniteSet(S) /\ Cardinality(S) <= Cardinality(FD)
    BY <1>2, FS_Subset
  <2>2. Cardinality(S) \in Nat
    BY <2>1, FS_CardinalityType
  <2>. QED BY <1>3, <2>1, <2>2
<1>. QED BY <1>1, <1>2, <1>3, <1>4

LEMMA NetInvInitially == ServerNetInit => NetInv
<1>. SUFFICES ASSUME ServerNetInit PROVE NetInv
  OBVIOUS
<1>1. listenSD \in FD /\ 0 \in 0 .. OPEN_MAX
  BY ServerNetAssumption DEF FD, listenSD
<1>2. Cardinality({listenSD}) = 1
  BY FS_Singleton
<1>3. workingSet \subseteq FD
  BY ServerNetAssumption DEF ServerNetInit, FD, listenSD
<1>4. ServerNetTypeOK
  <2>1. 0 \in 0 .. Cardinality(FD) /\ 0 \in 0 .. BACKLOG
    BY DescriptorsFinite, ServerNetAssumption
  <2>. QED BY <1>1, <1>3, <2>1 DEF ServerNetInit, ServerNetTypeOK
<1>5. BooksAreRight
  BY <1>1, <1>2, DescriptorsFinite DEF ServerNetInit, BooksAreRight
<1>6. NothingLeftOpen /\ Sockets /\ ScanIsSound
  BY DEF ServerNetInit, NothingLeftOpen, Sockets, ScanIsSound, Running
<1>. QED BY <1>4, <1>5, <1>6 DEF NetInv

-----------------------------------------------------------------------------
(* The descriptor whose turn it is is ready, and when the scan goes on the *)
(* others still are.                                                       *)
LEMMA TurnServesReady ==
  ASSUME NetInv, NEW f \in FD, Scanning, i = f, f \in workingSet
  PROVE  /\ f \in masterSet
         /\ f # listenSD => f \in data \cup ended
         /\ \E S \in SUBSET (workingSet \cap masterSet) :
              /\ f \notin S
              /\ Cardinality(S) = descReady - 1
              /\ \A g \in S : i + 1 <= g /\ (g # listenSD => g \in data \cup ended)
              /\ \A g \in workingSet \ S : i + 1 <= g => \A s \in S : s < g
<1>1. PICK S \in SUBSET (workingSet \cap masterSet) : ToServe(S)
  BY DEF NetInv, ScanIsSound, Scanning
<1>2. S \subseteq FD /\ workingSet \subseteq FD /\ i \in Nat /\ descReady \in Nat
  BY DescriptorsFinite, ServerNetAssumption DEF NetInv, ServerNetTypeOK
<1>3. IsFiniteSet(S)
  BY <1>2, DescriptorsFinite
<1>4. S # {}
  BY <1>1, <1>2, <1>3, FS_EmptySet DEF ToServe, Scanning
<1>5. f \in S
  <2>1. PICK s \in S : TRUE
    BY <1>4
  <2>2. i <= s /\ s \in Nat /\ f \in Nat
    BY <1>1, <1>2, <2>1, DescriptorsFinite DEF ToServe
  <2>3. CASE f \notin S
    <3>1. s < f
      BY <1>1, <1>2, <2>1, <2>2, <2>3 DEF ToServe
    <3>. QED BY <2>2, <3>1
  <2>. QED BY <2>3
<1>6. Cardinality(S \ {f}) = descReady - 1
  BY <1>1, <1>3, <1>5, FS_RemoveElement DEF ToServe
<1>7. \A g \in S \ {f} : i + 1 <= g /\ (g # listenSD => g \in data \cup ended)
  <2>. SUFFICES ASSUME NEW g \in S \ {f}
                PROVE  i + 1 <= g /\ (g # listenSD => g \in data \cup ended)
    OBVIOUS
  <2>1. i <= g /\ g # i /\ g \in Nat
    BY <1>1, <1>2, DescriptorsFinite DEF ToServe
  <2>. QED BY <1>1, <1>2, <2>1 DEF ToServe
<1>8. \A g \in workingSet \ (S \ {f}) : i + 1 <= g => \A s \in S \ {f} : s < g
  <2>. SUFFICES ASSUME NEW g \in workingSet \ (S \ {f}), i + 1 <= g, NEW s \in S \ {f}
                PROVE  s < g
    OBVIOUS
  <2>1. g \in Nat
    BY <1>2, DescriptorsFinite
  <2>2. g # f /\ i <= g
    BY <1>2, <2>1
  <2>. QED BY <1>1, <2>2 DEF ToServe
<1>. QED BY <1>1, <1>5, <1>6, <1>7, <1>8 DEF ToServe

(* The scan goes on past the descriptor f.                                 *)
LEMMA ScanGoesOn ==
  ASSUME NetInv, NEW f \in FD, Turn(f), GoOn,
         masterSet \subseteq masterSet', data \ {f} \subseteq data', ended \subseteq ended'
  PROVE  ScanIsSound'
<1>1. Scanning /\ i = f /\ f \in workingSet
  BY DEF Turn
<1>2. PICK S \in SUBSET (workingSet \cap masterSet) :
        /\ f \notin S
        /\ Cardinality(S) = descReady - 1
        /\ \A g \in S : i + 1 <= g /\ (g # listenSD => g \in data \cup ended)
        /\ \A g \in workingSet \ S : i + 1 <= g => \A s \in S : s < g
  BY <1>1, TurnServesReady
<1>3. S \in SUBSET (workingSet' \cap masterSet')
  BY <1>2 DEF Turn
<1>4. Cardinality(S) = descReady'
  BY <1>2 DEF Turn
<1>5. \A g \in S : i' <= g /\ (g # listenSD => g \in data' \cup ended')
  BY <1>2 DEF GoOn
<1>6. \A g \in workingSet' \ S : i' <= g => \A s \in S : s < g
  BY <1>2 DEF GoOn, Turn
<1>. QED BY <1>3, <1>4, <1>5, <1>6 DEF ScanIsSound, ToServe

(* The counters stay within their bounds.                                  *)
LEMMA TurnTypes ==
  ASSUME NetInv, NEW f \in FD, Turn(f), GoOn \/ Break
  PROVE  /\ i' \in 0 .. OPEN_MAX
         /\ descReady' \in 0 .. Cardinality(FD)
         /\ workingSet' \subseteq FD
<1>1. i \in Int /\ i <= maxSD /\ maxSD \in FD /\ i >= 0
  BY DEF NetInv, ServerNetTypeOK, Turn, Scanning
<1>2. i + 1 \in 0 .. OPEN_MAX /\ i \in 0 .. OPEN_MAX
  BY <1>1, ServerNetAssumption DEF FD, listenSD
<1>3. descReady - 1 \in 0 .. Cardinality(FD)
  BY DescriptorsFinite DEF NetInv, ServerNetTypeOK, Turn, Scanning
<1>. QED BY <1>2, <1>3 DEF NetInv, ServerNetTypeOK, Turn, GoOn, Break

(* close possible active connections closes all that are open.             *)
LEMMA EverythingCloses ==
  ASSUME NetInv, NEW why \in {"timeout", "failed"}, pc = "select",
         CloseAll(why), UNCHANGED scanVars
  PROVE  NetInv'
<1>1. open' = {}
  <2>1. masterSet = open /\ \A f \in masterSet : f <= maxSD
    BY DEF NetInv, BooksAreRight, Running
  <2>. QED BY <2>1 DEF CloseAll
<1>2. data' = {} /\ ended' = {} /\ pc' = why
  BY <1>1 DEF CloseAll
<1>3. ServerNetTypeOK'
  BY <1>1, <1>2 DEF NetInv, ServerNetTypeOK, CloseAll, scanVars, bookVars
<1>. QED
  BY <1>1, <1>2, <1>3
  DEF NetInv, BooksAreRight, NothingLeftOpen, Sockets, ScanIsSound, Running

-----------------------------------------------------------------------------
LEMMA SelectReturnsKeeps ==
  ASSUME NetInv, SelectReturns
  PROVE  NetInv'
<1>. USE DEF SelectReturns, Selecting, bookVars, kernelVars
<1>1. ReadyFDs \subseteq masterSet /\ ReadyFDs \subseteq FD
  BY DEF NetInv, ServerNetTypeOK, BooksAreRight, Running, ReadyFDs, Asked
<1>2. Cardinality(ReadyFDs) \in 0 .. Cardinality(FD)
  BY <1>1, DescriptorsFinite
<1>3. ServerNetTypeOK'
  BY <1>1, <1>2, ServerNetAssumption DEF NetInv, ServerNetTypeOK
<1>4. BooksAreRight'
  BY DEF NetInv, BooksAreRight, Running
<1>5. NothingLeftOpen' /\ Sockets'
  BY DEF NetInv, NothingLeftOpen, Sockets, Running
<1>6. ScanIsSound'
  <2>1. PICK S : S = ReadyFDs
    OBVIOUS
  <2>2. S \in SUBSET (workingSet' \cap masterSet')
    BY <1>1, <2>1
  <2>3. Cardinality(S) = descReady'
    BY <2>1
  <2>4. \A g \in S : i' <= g /\ (g # listenSD => g \in data' \cup ended')
    <3>1. i' = 0 /\ UNCHANGED <<data, ended>> /\ \A g \in S : g \in Nat
      BY <1>1, <2>1, DescriptorsFinite
    <3>2. \A g \in S : g # listenSD => g \in data \cup ended
      BY <2>1 DEF ReadyFDs, Readable
    <3>. HIDE DEF SelectReturns
    <3>. QED BY <3>1, <3>2
  <2>5. ASSUME NEW g \in workingSet' \ S, NEW s \in S
        PROVE  s < g
    <3>1. g \in workingSet /\ ~Selected(g)
      BY <2>1
    <3>2. PICK k \in 1 .. g : maxSD < k * WordBits /\ k * WordBits <= g
      BY <3>1 DEF Selected
    <3>3. s <= maxSD
      BY <2>1 DEF ReadyFDs, Asked
    <3>4. s \in Int /\ maxSD \in Int /\ g \in Int
      BY <1>1, <2>1, <3>1, DescriptorsFinite DEF NetInv, ServerNetTypeOK
    <3>5. k * WordBits \in Int
      BY <3>2, ServerNetAssumption
    <3>. HIDE DEF SelectReturns
    <3>. QED BY <3>2, <3>3, <3>4, <3>5
  <2>. HIDE DEF SelectReturns
  <2>. QED BY <2>2, <2>3, <2>4, <2>5 DEF ScanIsSound, ToServe
<1>. QED BY <1>3, <1>4, <1>5, <1>6 DEF NetInv

LEMMA ScanSkipsKeeps ==
  ASSUME NetInv, ScanSkips
  PROVE  NetInv'
<1>. USE DEF ScanSkips, bookVars, kernelVars
<1>1. i \in Nat /\ i + 1 \in 0 .. OPEN_MAX
  BY ServerNetAssumption DEF NetInv, ServerNetTypeOK, Scanning, FD, listenSD
<1>2. ServerNetTypeOK'
  BY <1>1 DEF NetInv, ServerNetTypeOK
<1>3. BooksAreRight' /\ NothingLeftOpen' /\ Sockets'
  BY DEF NetInv, BooksAreRight, NothingLeftOpen, Sockets, Running
<1>4. ScanIsSound'
  <2>1. PICK S \in SUBSET (workingSet \cap masterSet) : ToServe(S)
    BY DEF NetInv, ScanIsSound, Scanning
  <2>2. \A g \in workingSet : g \in Nat /\ (i <= g <=> i + 1 <= g)
    BY <1>1, DescriptorsFinite DEF NetInv, ServerNetTypeOK
  <2>3. ToServe(S)'
    BY <2>1, <2>2 DEF ToServe
  <2>. QED BY <2>1, <2>3 DEF ScanIsSound
<1>. QED BY <1>2, <1>3, <1>4 DEF NetInv

LEMMA AcceptKeeps ==
  ASSUME NetInv, Accept
  PROVE  NetInv'
<1>1. listenSD \in FD
  BY ServerNetAssumption DEF FD, listenSD
<1>2. PICK newSD \in FD \ open :
        /\ open' = open \cup {newSD}
        /\ masterSet' = masterSet \cup {newSD}
        /\ \E new \in NewSocket(newSD) : m_clients' = m_clients \cup new
        /\ clientCounter' = clientCounter + 1
        /\ maxSD' = IF newSD > maxSD THEN newSD ELSE maxSD
  BY DEF Accept
<1>3. /\ Turn(listenSD) /\ GoOn
      /\ backlog > 0 /\ backlog' = backlog - 1
      /\ UNCHANGED <<endServer, data, ended>>
  BY DEF Accept
<1>4. Running /\ pc' = "scan" /\ Running'
  BY <1>3 DEF Turn, Scanning, GoOn, Running
<1>5. /\ masterSet = open /\ maxSD \in masterSet /\ masterSet \subseteq FD
      /\ \A f \in masterSet : f <= maxSD
      /\ clientCounter = Cardinality(masterSet) - 1
  BY <1>4 DEF NetInv, BooksAreRight, ServerNetTypeOK
<1>6. masterSet' \subseteq FD /\ maxSD' \in FD
  BY <1>2, <1>5
<1>7. BooksAreRight'
  <2>1. Cardinality(masterSet') = Cardinality(masterSet) + 1
    BY <1>2, <1>5, DescriptorsFinite, FS_AddElement
  <2>2. Cardinality(masterSet) \in Int
    BY <1>5, DescriptorsFinite
  <2>3. \A f \in masterSet' : f <= maxSD'
    BY <1>2, <1>5, DescriptorsFinite
  <2>4. clientCounter' = Cardinality(masterSet') - 1
    BY <1>2, <1>5, <2>1, <2>2
  <2>5. masterSet' = open' /\ maxSD' \in masterSet'
    BY <1>2, <1>5
  <2>. QED BY <2>3, <2>4, <2>5 DEF BooksAreRight
<1>8. clientCounter' \in 0 .. Cardinality(FD)
  <2>1. /\ Cardinality(masterSet') \in 0 .. Cardinality(FD)
        /\ clientCounter' = Cardinality(masterSet') - 1
    BY <1>4, <1>6, <1>7, DescriptorsFinite DEF BooksAreRight
  <2>2. clientCounter' >= 0
    BY <1>2, DescriptorsFinite DEF NetInv, ServerNetTypeOK
  <2>. QED BY <2>1, <2>2, DescriptorsFinite
<1>9. ServerNetTypeOK'
  <2>1. /\ i' \in 0 .. OPEN_MAX
        /\ descReady' \in 0 .. Cardinality(FD)
        /\ workingSet' \subseteq FD
    BY <1>1, <1>3, TurnTypes
  <2>2. backlog' \in 0 .. BACKLOG
    BY <1>3, ServerNetAssumption DEF NetInv, ServerNetTypeOK
  <2>3. m_clients' \subseteq FD
    <3>1. PICK new \in NewSocket(newSD) : m_clients' = m_clients \cup new
      BY <1>2
    <3>2. new \subseteq FD
      BY <1>2 DEF NewSocket
    <3>. QED BY <3>1, <3>2 DEF NetInv, ServerNetTypeOK
  <2>. QED
    BY <1>2, <1>3, <1>4, <1>6, <1>8, <2>1, <2>2, <2>3 DEF NetInv, ServerNetTypeOK
<1>10. ScanIsSound'
  BY <1>1, <1>2, <1>3, ScanGoesOn
<1>11. NothingLeftOpen' /\ Sockets'
  BY <1>2, <1>3, <1>4 DEF NetInv, NothingLeftOpen, Sockets
<1>. QED BY <1>7, <1>9, <1>10, <1>11 DEF NetInv

LEMMA RecvKeeps ==
  ASSUME NetInv, NEW f \in FD, Recv(f)
  PROVE  NetInv'
<1>. USE DEF Recv, bookVars
<1>1. Running /\ pc' = "scan" /\ Running'
  BY DEF Turn, Scanning, GoOn, Running
<1>2. ServerNetTypeOK'
  <2>1. /\ i' \in 0 .. OPEN_MAX
        /\ descReady' \in 0 .. Cardinality(FD)
        /\ workingSet' \subseteq FD
    BY TurnTypes
  <2>. QED BY <1>1, <2>1 DEF NetInv, ServerNetTypeOK
<1>3. BooksAreRight' /\ NothingLeftOpen' /\ Sockets'
  BY <1>1 DEF NetInv, BooksAreRight, NothingLeftOpen, Sockets
<1>4. ScanIsSound'
  BY ScanGoesOn
<1>. QED BY <1>2, <1>3, <1>4 DEF NetInv

LEMMA CloseClientKeeps ==
  ASSUME NetInv, NEW f \in FD, CloseClient(f)
  PROVE  NetInv'
<1>1. /\ f # listenSD /\ Turn(f) /\ Break
      /\ f \notin data /\ f \in ended
      /\ open' = open \ {f} /\ masterSet' = masterSet \ {f}
      /\ clientCounter' = clientCounter - 1
      /\ m_clients' \subseteq m_clients
      /\ ended' = ended \ {f}
      /\ UNCHANGED <<endServer, backlog, data>>
  BY DEF CloseClient, CleanMyList
<1>2. PICK largest \in masterSet \ {f} :
        /\ \A g \in masterSet \ {f} : g <= largest
        /\ maxSD' = IF f = maxSD THEN largest ELSE maxSD
  BY DEF CloseClient
<1>3. Running /\ pc' = "select" /\ Running'
  BY <1>1 DEF Turn, Scanning, Break, Running
<1>4. /\ masterSet = open /\ maxSD \in masterSet /\ masterSet \subseteq FD
      /\ \A g \in masterSet : g <= maxSD
      /\ clientCounter = Cardinality(masterSet) - 1
      /\ listenSD \in masterSet
  BY <1>3 DEF NetInv, BooksAreRight, ServerNetTypeOK, Sockets
<1>5. f \in masterSet
  BY <1>1, TurnServesReady DEF Turn
<1>6. BooksAreRight'
  <2>1. Cardinality(masterSet') = Cardinality(masterSet) - 1
    BY <1>1, <1>4, <1>5, DescriptorsFinite, FS_RemoveElement
  <2>2. Cardinality(masterSet) \in Int
    BY <1>4, DescriptorsFinite
  <2>3. clientCounter' = Cardinality(masterSet') - 1
    BY <1>1, <1>4, <2>1, <2>2
  <2>4. maxSD' \in masterSet' /\ \A g \in masterSet' : g <= maxSD'
    BY <1>1, <1>2, <1>4
  <2>. QED BY <1>1, <1>4, <2>3, <2>4 DEF BooksAreRight
<1>7. listenSD \in masterSet'
  BY <1>1, <1>4
<1>8. clientCounter' \in 0 .. Cardinality(FD)
  <2>1. masterSet' \subseteq FD /\ IsFiniteSet(masterSet')
    BY <1>1, <1>4, DescriptorsFinite
  <2>2. Cardinality(masterSet') \in 0 .. Cardinality(FD) /\ Cardinality(masterSet') # 0
    BY <1>7, <2>1, DescriptorsFinite, FS_EmptySet
  <2>3. clientCounter' = Cardinality(masterSet') - 1
    BY <1>3, <1>6 DEF BooksAreRight
  <2>. QED BY <2>2, <2>3, DescriptorsFinite
<1>9. ServerNetTypeOK'
  <2>1. /\ i' \in 0 .. OPEN_MAX
        /\ descReady' \in 0 .. Cardinality(FD)
        /\ workingSet' \subseteq FD
    BY <1>1, TurnTypes
  <2>2. maxSD' \in FD
    BY <1>2, <1>4
  <2>. QED BY <1>1, <1>3, <1>4, <1>8, <2>1, <2>2 DEF NetInv, ServerNetTypeOK
<1>10. NothingLeftOpen' /\ Sockets' /\ ScanIsSound'
  BY <1>1, <1>3, <1>7 DEF NetInv, NothingLeftOpen, Sockets, ScanIsSound
<1>. QED BY <1>6, <1>9, <1>10 DEF NetInv

LEMMA AcceptFailureKeeps ==
  ASSUME NetInv, AcceptFindsNone \/ AcceptFails
  PROVE  NetInv'
<1>1. /\ Turn(listenSD) /\ Break
      /\ endServer' \in BOOLEAN
      /\ UNCHANGED <<masterSet, maxSD, m_clients, clientCounter, kernelVars>>
  BY DEF AcceptFindsNone, AcceptFails, bookVars, NetInv, ServerNetTypeOK
<1>2. Running /\ pc' = "select" /\ Running'
  BY <1>1 DEF Turn, Scanning, Break, Running
<1>3. listenSD \in FD
  BY ServerNetAssumption DEF FD, listenSD
<1>4. ServerNetTypeOK'
  <2>1. /\ i' \in 0 .. OPEN_MAX
        /\ descReady' \in 0 .. Cardinality(FD)
        /\ workingSet' \subseteq FD
    BY <1>1, <1>3, TurnTypes
  <2>. QED BY <1>1, <1>2, <2>1 DEF NetInv, ServerNetTypeOK, kernelVars
<1>. QED
  BY <1>1, <1>2, <1>4
  DEF NetInv, BooksAreRight, NothingLeftOpen, Sockets, ScanIsSound, kernelVars

LEMMA NetworkKeeps ==
  ASSUME NetInv, Network
  PROVE  NetInv'
<1>1. UNCHANGED <<pc, scanVars, bookVars, open>>
  BY DEF Network, Connect, Withdraw, Send, Hangup
<1>2. /\ backlog' \in 0 .. BACKLOG
      /\ data \subseteq data' /\ ended \subseteq ended'
      /\ data' \cup ended' \subseteq open \ {listenSD}
  <2>1. CASE Connect \/ Withdraw
    BY <2>1, ServerNetAssumption DEF Connect, Withdraw, NetInv, ServerNetTypeOK, Sockets
  <2>2. CASE \E f \in FD : Send(f) \/ Hangup(f)
    BY <2>2 DEF Send, Hangup, NetInv, ServerNetTypeOK, Sockets
  <2>. QED BY <2>1, <2>2 DEF Network
<1>3. ServerNetTypeOK'
  BY <1>1, <1>2 DEF NetInv, ServerNetTypeOK, Sockets, scanVars, bookVars
<1>4. BooksAreRight' /\ NothingLeftOpen' /\ Sockets'
  BY <1>1, <1>2 DEF NetInv, BooksAreRight, NothingLeftOpen, Sockets, Running, bookVars
<1>5. ScanIsSound'
  BY <1>1, <1>2 DEF NetInv, ScanIsSound, ToServe, scanVars, bookVars
<1>. QED BY <1>3, <1>4, <1>5 DEF NetInv

LEMMA NetInvKept == NetInv /\ [ServerNetNext]_netVars => NetInv'
<1>. SUFFICES ASSUME NetInv, [ServerNetNext]_netVars PROVE NetInv'
  OBVIOUS
<1>1. CASE SelectReturns
  BY <1>1, SelectReturnsKeeps
<1>2. CASE SelectTimesOut \/ SelectFails \/ Stop
  <2>1. /\ pc = "select" /\ UNCHANGED scanVars
        /\ CloseAll("timeout") \/ CloseAll("failed")
    BY <1>2 DEF SelectTimesOut, SelectFails, Stop, Selecting
  <2>. QED BY <2>1, EverythingCloses
<1>3. CASE ScanSkips
  BY <1>3, ScanSkipsKeeps
<1>4. CASE ScanEnds
  BY <1>4
  DEF ScanEnds, NetInv, ServerNetTypeOK, BooksAreRight, NothingLeftOpen, Sockets,
      ScanIsSound, Running, scanVars, bookVars, kernelVars
<1>5. CASE Accept
  BY <1>5, AcceptKeeps
<1>6. CASE AcceptFindsNone \/ AcceptFails
  BY <1>6, AcceptFailureKeeps
<1>7. CASE \E f \in FD : Recv(f) \/ CloseClient(f)
  BY <1>7, RecvKeeps, CloseClientKeeps
<1>8. CASE Network
  BY <1>8, NetworkKeeps
<1>9. CASE UNCHANGED netVars
  BY <1>9
  DEF netVars, NetInv, ServerNetTypeOK, BooksAreRight, NothingLeftOpen, Sockets,
      ScanIsSound, ToServe, Running, scanVars, bookVars, kernelVars
<1>. QED
  BY <1>1, <1>2, <1>3, <1>4, <1>5, <1>6, <1>7, <1>8, <1>9 DEF ServerNetNext, RunServer

LEMMA NetInvAlways == ServerNetSpec => []NetInv
BY NetInvInitially, NetInvKept, PTL DEF ServerNetSpec

-----------------------------------------------------------------------------
(* Every variable of RunServer has its type, i and the counters included:  *)
(* no index leaves the descriptor sets.                                    *)
THEOREM ServerNetTypeCorrect == ServerNetSpec => []ServerNetTypeOK
<1>1. NetInv => ServerNetTypeOK
  BY DEF NetInv
<1>. QED BY <1>1, NetInvAlways, PTL

(* masterSet, maxSD and clientCounter agree with the open descriptors.     *)
THEOREM BooksStayRight == ServerNetSpec => []BooksAreRight
<1>1. NetInv => BooksAreRight
  BY DEF NetInv
<1>. QED BY <1>1, NetInvAlways, PTL

(* No recv of the scan finds nothing to read, so none blocks the server.   *)
THEOREM RecvNeverStops == ServerNetSpec => []RecvNeverBlocks
<1>1. NetInv => RecvNeverBlocks
  <2>. SUFFICES ASSUME NetInv, Scanning, i \in workingSet, i # listenSD
                PROVE  i \in data \cup ended
    BY DEF RecvNeverBlocks
  <2>1. i \in FD
    BY DEF NetInv, ServerNetTypeOK
  <2>. QED BY <2>1, TurnServesReady
<1>. QED BY <1>1, NetInvAlways, PTL

(* RunServer returns with every descriptor closed.                         *)
THEOREM EverythingIsClosed == ServerNetSpec => []NothingLeftOpen
<1>1. NetInv => NothingLeftOpen
  BY DEF NetInv
<1>. QED BY <1>1, NetInvAlways, PTL
=============================================================================
