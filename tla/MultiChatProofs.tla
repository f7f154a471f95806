--------------------------- MODULE MultiChatProofs ---------------------------
(***************************************************************************)
(* Proofs about the multicast chat, for any callers, files and pids and    *)
(* any number of processes.                                                *)
(***************************************************************************)
EXTENDS MultiChat, SequenceTheorems, TLAPS

(* No two live processes have the same pid.                                *)
PidsApart ==
  \A p, q \in Processes :
    Alive(p) /\ Alive(q) /\ proc[p].pid = proc[q].pid => p = q

(* After the first kill, what is due and lives is the line read ahead.     *)
DueIsAhead ==
  \A c \in Caller : call[c].at = "next" =>
    \A p \in call[c].due :
      /\ p \in Processes
      /\ Alive(p) => call[c].ahead # <<>> /\ p = Head(call[c].ahead)

ChatInv == ChatTypeOK /\ PidsApart /\ DueIsAhead

-----------------------------------------------------------------------------
(* Processes are never forgotten, take up no other work and do not rise    *)
(* from the dead; whoever has started to run has written its pid.          *)
Grows ==
  /\ Processes \subseteq Processes'
  /\ \A p \in Processes :
       /\ proc'[p].pid = proc[p].pid
       /\ proc'[p].runs = proc[p].runs
       /\ proc[p].runs # "other" => proc'[p].str = proc[p].str
       /\ Alive(p)' => Alive(p)
       /\ proc[p].at # "started" => proc'[p].at # "started"

ProcStep == proc' \in Seq(Process) /\ PidsApart' /\ Grows

LEMMA WrittenGrows ==
  ASSUME Grows
  PROVE  \A f \in File : Written(f) \subseteq Written(f)'
BY DEF Grows, Written, ServersOf

LEMMA ProcUnchanged ==
  ASSUME proc \in Seq(Process), PidsApart, UNCHANGED proc
  PROVE  ProcStep
BY DEF ProcStep, Grows, PidsApart, Processes, Alive

(* A process that registers or ends changes its place only.                *)
LEMMA PlaceStep ==
  ASSUME proc \in Seq(Process), PidsApart,
         NEW p \in Processes,
         NEW place \in {"running", "ended"},
         Alive(p),
         proc' = [proc EXCEPT ![p].at = place]
  PROVE  ProcStep
<1>1. DOMAIN proc = 1 .. Len(proc) /\ Len(proc) \in Nat /\ proc[p] \in Process
  BY DEF Processes
<1>2. [proc[p] EXCEPT !.at = place] \in Process
  BY <1>1 DEF Process
<1>3. proc' \in Seq(Process)
  BY <1>1, <1>2 DEF Processes
<1>4. Processes' = Processes
  BY <1>1 DEF Processes
<1>5. ASSUME NEW q \in Processes
      PROVE  /\ proc'[q].pid = proc[q].pid
             /\ proc'[q].runs = proc[q].runs
             /\ proc[q].runs # "other" => proc'[q].str = proc[q].str
             /\ Alive(q)' => Alive(q)
             /\ proc[q].at # "started" => proc'[q].at # "started"
  <2>1. CASE q = p
    BY <1>1, <2>1 DEF Process, Processes, Alive
  <2>2. CASE q # p
    BY <1>1, <2>2 DEF Processes, Alive
  <2>. QED BY <2>1, <2>2
<1>6. Grows
  BY <1>4, <1>5 DEF Grows
<1>7. PidsApart'
  BY <1>4, <1>5 DEF PidsApart
<1>. QED BY <1>3, <1>6, <1>7 DEF ProcStep

(* A new process gets a pid that no live process has.                      *)
LEMMA BirthStep ==
  ASSUME proc \in Seq(Process), PidsApart,
         NEW new \in Process, new.pid \in FreePid,
         proc' = Append(proc, new)
  PROVE  ProcStep
<1>0. /\ proc' \in Seq(Process)
      /\ Len(proc) \in Nat
      /\ Len(proc') = Len(proc) + 1
      /\ DOMAIN proc = 1 .. Len(proc)
      /\ DOMAIN proc' = 1 .. Len(proc')
      /\ proc'[Len(proc) + 1] = new
      /\ \A q \in 1 .. Len(proc) : proc'[q] = proc[q]
  OBVIOUS
<1>1. /\ Processes = 1 .. Len(proc)
      /\ Processes' = 1 .. Len(proc) + 1
      /\ \A q \in Processes : proc'[q] = proc[q]
  BY <1>0 DEF Processes
<1>2. \A q \in Processes : Alive(q) => proc[q].pid # new.pid
  BY DEF FreePid
<1>3. Grows
  BY <1>0, <1>1 DEF Grows, Alive
<1>4. ASSUME NEW p \in Processes', NEW q \in Processes',
             Alive(p)', Alive(q)', proc'[p].pid = proc'[q].pid
      PROVE  p = q
  <2>1. CASE p \in Processes /\ q \in Processes
    BY <1>1, <1>4, <2>1 DEF PidsApart, Alive
  <2>2. CASE p \in Processes /\ q \notin Processes
    BY <1>0, <1>1, <1>2, <1>4, <2>2 DEF Alive
  <2>3. CASE p \notin Processes /\ q \in Processes
    BY <1>0, <1>1, <1>2, <1>4, <2>3 DEF Alive
  <2>4. CASE p \notin Processes /\ q \notin Processes
    BY <1>0, <1>1, <2>4
  <2>. QED BY <2>1, <2>2, <2>3, <2>4
<1>5. PidsApart'
  BY <1>4 DEF PidsApart
<1>. QED BY <1>0, <1>3, <1>5 DEF ProcStep

LEMMA KillStep ==
  ASSUME proc \in Seq(Process), PidsApart,
         NEW line \in Processes,
         Kill(line)
  PROVE  /\ ProcStep
         /\ Processes' = Processes
         /\ ~Alive(line)'
         /\ \A p \in Processes : Alive(p) /\ ~Alive(p)' => proc[p].pid = proc[line].pid
<1>1. /\ Len(proc) \in Nat
      /\ Processes = 1 .. Len(proc)
      /\ \A p \in Processes : proc[p] \in Process
  BY DEF Processes
<1>2. \A p \in Processes : [proc[p] EXCEPT !.at = "ended"] \in Process
  BY <1>1 DEF Process
<1>3. proc' \in Seq(Process) /\ Processes' = Processes
  BY <1>1, <1>2 DEF Kill, Processes
<1>4. ASSUME NEW q \in Processes
      PROVE  /\ proc'[q].pid = proc[q].pid
             /\ proc'[q].runs = proc[q].runs
             /\ proc[q].runs # "other" => proc'[q].str = proc[q].str
             /\ Alive(q)' => Alive(q)
             /\ proc[q].at # "started" => proc'[q].at # "started"
  <2>1. CASE proc[q].pid = proc[line].pid
    BY <1>1, <2>1 DEF Kill, Process, Alive
  <2>2. CASE proc[q].pid # proc[line].pid
    BY <1>1, <2>2 DEF Kill, Alive
  <2>. QED BY <2>1, <2>2
<1>5. Grows
  BY <1>3, <1>4 DEF Grows
<1>6. PidsApart'
  BY <1>3, <1>4 DEF PidsApart
<1>7. ~Alive(line)'
  BY <1>1 DEF Kill, Process, Alive
<1>8. \A p \in Processes : Alive(p) /\ ~Alive(p)' => proc[p].pid = proc[line].pid
  BY DEF Kill, Alive
<1>. QED BY <1>3, <1>5, <1>6, <1>7, <1>8 DEF ProcStep

-----------------------------------------------------------------------------
(* Files and calls.                                                        *)

(* What the invariant says of one file and of one call.                    *)
FileSound(f) == file[f] # NoFile => file[f] \in Seq(Written(f))

CallSound(c) ==
  /\ call[c].at \in {"first", "next", "closed"} =>
       /\ file[call[c].str] # NoFile
       /\ call[c].ahead \in Seq(Written(call[c].str))
  /\ call[c].at = "next" =>
       \A p \in call[c].due :
         /\ p \in Processes
         /\ Alive(p) => call[c].ahead # <<>> /\ p = Head(call[c].ahead)

FilesAreKept == \A f \in File : file[f] # NoFile => file'[f] # NoFile

LEMMA InvInParts ==
  ChatInv <=>
    /\ proc \in Seq(Process)
    /\ PidsApart
    /\ file \in [File -> {NoFile} \cup Seq(Nat)]
    /\ call \in [Caller -> Call]
    /\ \A f \in File : FileSound(f)
    /\ \A c \in Caller : CallSound(c)
BY DEF ChatInv, ChatTypeOK, DueIsAhead, FileSound, CallSound

LEMMA InvInPartsPrimed ==
  ChatInv' <=>
    /\ proc' \in Seq(Process)
    /\ PidsApart'
    /\ file' \in [File -> {NoFile} \cup Seq(Nat)]
    /\ call' \in [Caller -> Call]
    /\ \A f \in File : FileSound(f)'
    /\ \A c \in Caller : CallSound(c)'
BY DEF ChatInv, ChatTypeOK, DueIsAhead, FileSound, CallSound

(* A destroying call names a file.                                         *)
LEMMA CallNamesFile ==
  ASSUME NEW r \in Call, r.at \in {"sender", "listener", "first", "next", "closed"}
  PROVE  r.str \in File
BY DEF Call, Idle

LEMMA SeqOfMore ==
  ASSUME NEW S, NEW T, S \subseteq T, NEW s \in Seq(S)
  PROVE  s \in Seq(T)
OBVIOUS

LEMMA FileKept ==
  ASSUME NEW f \in File, FileSound(f), Grows, file'[f] = file[f]
  PROVE  FileSound(f)'
<1>1. Written(f) \subseteq Written(f)'
  BY WrittenGrows
<1>2. CASE file[f] = NoFile
  BY <1>2 DEF FileSound
<1>3. CASE file[f] # NoFile
  BY <1>1, <1>3, SeqOfMore DEF FileSound
<1>. QED BY <1>2, <1>3

LEMMA CallKept ==
  ASSUME NEW c \in Caller, CallSound(c), call[c] \in Call,
         Grows, FilesAreKept, call'[c] = call[c]
  PROVE  CallSound(c)'
<1>1. ASSUME call[c].at \in {"first", "next", "closed"}
      PROVE  file'[call[c].str] # NoFile /\ call[c].ahead \in Seq(Written(call[c].str)')
  <2>1. call[c].str \in File
    BY <1>1, CallNamesFile
  <2>2. Written(call[c].str) \subseteq Written(call[c].str)'
    BY <2>1, WrittenGrows
  <2>3. file[call[c].str] # NoFile /\ call[c].ahead \in Seq(Written(call[c].str))
    BY <1>1 DEF CallSound
  <2>. QED BY <2>1, <2>2, <2>3, SeqOfMore DEF FilesAreKept
<1>2. ASSUME call[c].at = "next", NEW p \in call[c].due
      PROVE  p \in Processes' /\ (Alive(p)' => call[c].ahead # <<>> /\ p = Head(call[c].ahead))
  BY <1>2 DEF CallSound, Grows
<1>. QED BY <1>1, <1>2 DEF CallSound

-----------------------------------------------------------------------------
(* The steps.                                                              *)

LEMMA ProcessesStep ==
  ASSUME ChatInv, ProcStep, UNCHANGED <<file, call>>
  PROVE  ChatInv'
<1>. USE InvInParts
<1>1. Grows /\ FilesAreKept
  BY DEF ProcStep, FilesAreKept
<1>2. \A f \in File : FileSound(f)'
  BY <1>1, FileKept
<1>3. \A c \in Caller : CallSound(c)'
  BY <1>1, CallKept
<1>. QED BY <1>2, <1>3, InvInPartsPrimed DEF ProcStep

LEMMA CallerStep ==
  ASSUME ChatInv, ProcStep,
         file' \in [File -> {NoFile} \cup Seq(Nat)],
         \A f \in File : FileSound(f)',
         FilesAreKept,
         NEW c \in Caller, NEW r \in Call,
         call' = [call EXCEPT ![c] = r],
         CallSound(c)'
  PROVE  ChatInv'
<1>. USE InvInParts
<1>1. \A d \in Caller : d # c => call'[d] = call[d]
  OBVIOUS
<1>2. \A d \in Caller : CallSound(d)'
  BY <1>1, CallKept DEF ProcStep
<1>3. call' \in [Caller -> Call]
  OBVIOUS
<1>. QED BY <1>2, <1>3, InvInPartsPrimed DEF ProcStep

(* A caller whose call is neither reading nor killing says nothing.        *)
LEMMA QuietCall ==
  ASSUME NEW c \in Caller, call'[c].at \notin {"first", "next", "closed"}
  PROVE  CallSound(c)'
BY DEF CallSound

LEMMA IdleIsCall == \A res \in {OK, ERROR} : Idle(res) \in Call /\ Idle(res).at = "idle"
BY DEF Call, Idle

LEMMA BirthKeepsInv ==
  ASSUME ChatInv, OtherStarts
  PROVE  ChatInv'
<1>1. PICK pid \in FreePid :
        proc' = Append(proc, [pid |-> pid, runs |-> "other", at |-> "running"])
  BY DEF OtherStarts
<1>2. [pid |-> pid, runs |-> "other", at |-> "running"] \in Process
  BY DEF Process, FreePid
<1>3. ProcStep
  BY <1>1, <1>2, BirthStep, InvInParts
<1>. QED BY <1>3, ProcessesStep DEF OtherStarts

LEMMA EndKeepsInv ==
  ASSUME ChatInv, NEW p \in Processes, End(p)
  PROVE  ChatInv'
<1>1. ProcStep
  BY PlaceStep, InvInParts DEF End
<1>. QED BY <1>1, ProcessesStep DEF End

(* What Registers appends is the one process that is about to run.         *)
LEMMA RegistersKeepsInv ==
  ASSUME ChatInv, NEW p \in Processes, Registers(p)
  PROVE  ChatInv'
<1>0. /\ proc \in Seq(Process) /\ PidsApart
      /\ file \in [File -> {NoFile} \cup Seq(Nat)]
      /\ call \in [Caller -> Call]
      /\ \A f \in File : FileSound(f)
      /\ \A c \in Caller : CallSound(c)
  BY InvInParts
<1>1. /\ proc[p] \in Process
      /\ proc[p].at = "started"
      /\ p \in Nat
      /\ DOMAIN proc = 1 .. Len(proc)
  BY <1>0 DEF Registers, Processes
<1>2. PICK mine \in File : mine = proc[p].str /\ proc[p].runs # "other"
  BY <1>1 DEF Process
<1>3. ProcStep
  BY <1>0, <1>1, PlaceStep DEF Registers, Alive
<1>4. proc'[p].at = "running" /\ p \in Written(mine)'
  <2>1. proc'[p].at = "running"
    BY <1>0, <1>1 DEF Registers, Processes
  <2>2. p \in Processes' /\ proc'[p].runs # "other" /\ proc'[p].str = mine
    BY <1>2, <1>3 DEF ProcStep, Grows
  <2>. QED BY <2>1, <2>2 DEF Written, ServersOf
<1>5. /\ \A f \in File \ {mine} : file'[f] = file[f]
      /\ file'[mine] = IF file[mine] = NoFile THEN <<p>> ELSE Append(file[mine], p)
  BY <1>0, <1>2 DEF Registers, AppendPid
<1>6. FileSound(mine)' /\ file'[mine] \in Seq(Nat)
  <2>1. CASE file[mine] = NoFile
    BY <1>1, <1>4, <1>5, <2>1 DEF FileSound
  <2>2. CASE file[mine] # NoFile
    <3>1. file[mine] \in Seq(Written(mine)) /\ file[mine] \in Seq(Nat)
      BY <1>0, <1>2, <2>2 DEF FileSound
    <3>2. file[mine] \in Seq(Written(mine)')
      BY <1>2, <1>3, <3>1, WrittenGrows, SeqOfMore DEF ProcStep
    <3>3. Append(file[mine], p) \in Seq(Written(mine)') /\ Append(file[mine], p) \in Seq(Nat)
      BY <1>1, <1>4, <3>1, <3>2
    <3>. QED BY <1>5, <2>2, <3>3 DEF FileSound
  <2>. QED BY <2>1, <2>2
<1>7. file' \in [File -> {NoFile} \cup Seq(Nat)]
  BY <1>0, <1>2, <1>5, <1>6 DEF Registers, AppendPid
<1>8. FilesAreKept
  BY <1>0, <1>5, <1>6, ChatAssumption DEF FilesAreKept
<1>9. \A f \in File : FileSound(f)'
  BY <1>0, <1>3, <1>5, <1>6, FileKept DEF ProcStep
<1>10. \A c \in Caller : CallSound(c)'
  BY <1>0, <1>3, <1>8, CallKept DEF ProcStep, Registers
<1>. QED BY <1>0, <1>3, <1>7, <1>9, <1>10, InvInPartsPrimed DEF ProcStep, Registers

LEMMA CreateOpensKeepsInv ==
  ASSUME ChatInv, NEW c \in Caller, NEW f \in File, NEW port \in PortArgument,
         CreateOpens(c, f, port)
  PROVE  ChatInv'
<1>0. /\ proc \in Seq(Process) /\ PidsApart
      /\ file \in [File -> {NoFile} \cup Seq(Nat)]
      /\ call \in [Caller -> Call]
      /\ \A g \in File : FileSound(g)
      /\ \A d \in Caller : CallSound(d)
  BY InvInParts
<1>1. ProcStep
  BY <1>0, ProcUnchanged DEF CreateOpens
<1>2. PICK r \in Call : /\ call' = [call EXCEPT ![c] = r]
                        /\ r.at \notin {"first", "next", "closed"}
  <2>1. [at |-> "sender", str |-> f] \in Call
    BY DEF Call
  <2>. QED BY <2>1, IdleIsCall DEF CreateOpens
<1>3. CallSound(c)'
  BY <1>0, <1>2, QuietCall
<1>4. <<>> # NoFile /\ <<>> \in Seq(Nat)
  <2>1. <<>> \in Seq(Nat)
    OBVIOUS
  <2>. QED BY <2>1, ChatAssumption
<1>5. /\ file' \in [File -> {NoFile} \cup Seq(Nat)]
      /\ FilesAreKept
      /\ \A g \in File : file'[g] = file[g] \/ file'[g] = <<>>
  BY <1>0, <1>4 DEF CreateOpens, FilesAreKept
<1>6. \A g \in File : FileSound(g)'
  <2>. SUFFICES ASSUME NEW g \in File PROVE FileSound(g)'
    OBVIOUS
  <2>1. CASE file'[g] = file[g]
    BY <1>0, <1>1, <2>1, FileKept DEF ProcStep
  <2>2. CASE file'[g] = <<>>
    BY <2>2 DEF FileSound
  <2>. QED BY <1>5, <2>1, <2>2
<1>. QED BY <1>1, <1>2, <1>3, <1>5, <1>6, CallerStep

(* Steps of a caller that leave the files alone.                           *)
LEMMA SameFiles ==
  ASSUME ChatInv, ProcStep, UNCHANGED file
  PROVE  /\ file' \in [File -> {NoFile} \cup Seq(Nat)]
         /\ \A f \in File : FileSound(f)'
         /\ FilesAreKept
BY InvInParts, FileKept DEF ProcStep, FilesAreKept

Reading ==
  [at : {"first", "next", "closed"}, str : File, ahead : Seq(Nat),
   position : Nat, due : SUBSET Nat]

LEMMA CallShapes ==
  ASSUME NEW r \in Call
  PROVE  /\ r.at \in {"sender", "listener"} => r \in [at : {"sender", "listener"}, str : File]
         /\ r.at \in {"first", "next", "closed"} => r \in Reading
         /\ Reading \subseteq Call
BY DEF Call, Idle, Reading

LEMMA LaunchStep ==
  ASSUME proc \in Seq(Process), PidsApart,
         NEW program \in {"sender", "listener"}, NEW f \in File,
         Launch(program, f)
  PROVE  ProcStep
<1>1. CASE UNCHANGED proc
  BY <1>1, ProcUnchanged
<1>2. ASSUME NEW pid \in FreePid,
             proc' = Append(proc, [pid |-> pid, runs |-> program, str |-> f, at |-> "started"])
      PROVE  ProcStep
  <2>1. [pid |-> pid, runs |-> program, str |-> f, at |-> "started"] \in Process
    BY DEF Process, FreePid
  <2>. QED BY <1>2, <2>1, BirthStep
<1>. QED BY <1>1, <1>2 DEF Launch

LEMMA CreateLaunchesKeepsInv ==
  ASSUME ChatInv, NEW c \in Caller, CreateLaunches(c)
  PROVE  ChatInv'
<1>0. proc \in Seq(Process) /\ PidsApart /\ call \in [Caller -> Call]
  BY InvInParts
<1>1. call[c] \in [at : {"sender", "listener"}, str : File]
  BY <1>0, CallShapes DEF CreateLaunches
<1>2. ProcStep
  BY <1>0, <1>1, LaunchStep DEF CreateLaunches
<1>3. PICK r \in Call : /\ call' = [call EXCEPT ![c] = r]
                        /\ r.at \notin {"first", "next", "closed"}
  <2>1. [call[c] EXCEPT !.at = "listener"] \in Call
    BY <1>1 DEF Call
  <2>2. [call[c] EXCEPT !.at = "listener"].at = "listener"
    BY <1>1
  <2>. QED BY <1>0, <2>1, <2>2, IdleIsCall DEF CreateLaunches
<1>4. CallSound(c)'
  BY <1>0, <1>3, QuietCall
<1>. QED BY <1>2, <1>3, <1>4, SameFiles, CallerStep DEF CreateLaunches

LEMMA DestroyOpensKeepsInv ==
  ASSUME ChatInv, NEW c \in Caller, NEW f \in File, DestroyOpens(c, f)
  PROVE  ChatInv'
<1>0. proc \in Seq(Process) /\ PidsApart /\ call \in [Caller -> Call]
  BY InvInParts
<1>1. ProcStep
  BY <1>0, ProcUnchanged DEF DestroyOpens
<1>. DEFINE r == [at |-> "first", str |-> f, ahead |-> <<>>, position |-> 0, due |-> {}]
<1>2. CASE call' = [call EXCEPT ![c] = Idle(ERROR)]
  <2>1. CallSound(c)'
    BY <1>0, <1>2, IdleIsCall, QuietCall
  <2>. QED BY <1>1, <1>2, <2>1, IdleIsCall, SameFiles, CallerStep DEF DestroyOpens
<1>3. CASE file[f] # NoFile /\ call' = [call EXCEPT ![c] = r]
  <2>1. r \in Call
    BY DEF Call
  <2>2. call'[c] = r
    BY <1>0, <1>3
  <2>3. CallSound(c)'
    BY <1>3, <2>2 DEF CallSound, DestroyOpens
  <2>. QED BY <1>1, <1>3, <2>1, <2>3, SameFiles, CallerStep DEF DestroyOpens
<1>. QED BY <1>2, <1>3 DEF DestroyOpens

(* What fgets finds was written by processes of the file.                  *)
LEMMA LinesSound ==
  ASSUME ChatInv, NEW c \in Caller, call[c].at \in {"first", "next"}
  PROVE  /\ call[c] \in Reading
         /\ Lines(call[c]) \in Seq(Written(call[c].str))
<1>1. call[c] \in Reading
  BY InvInParts, CallShapes
<1>2. /\ file[call[c].str] \in Seq(Written(call[c].str))
      /\ call[c].ahead \in Seq(Written(call[c].str))
  BY <1>1 DEF ChatInv, ChatTypeOK, Reading
<1>3. \A n \in Nat : SubSeq(file[call[c].str], n + 1, Len(file[call[c].str]))
                       \in Seq(Written(call[c].str))
  BY <1>2
<1>. QED BY <1>1, <1>2, <1>3 DEF Lines, Reading

LEMMA ReadClosedKeepsInv ==
  ASSUME ChatInv, NEW c \in Caller, ReadClosed(c)
  PROVE  ChatInv'
<1>0. proc \in Seq(Process) /\ PidsApart /\ call \in [Caller -> Call]
  BY InvInParts
<1>1. ProcStep
  BY <1>0, ProcUnchanged DEF ReadClosed
<1>2. PICK r \in Call : /\ call' = [call EXCEPT ![c] = r]
                        /\ r.at \notin {"first", "next", "closed"}
  <2>1. [at |-> "crashed"] \in Call
    BY DEF Call
  <2>. QED BY <2>1, IdleIsCall DEF ReadClosed
<1>3. CallSound(c)'
  BY <1>0, <1>2, QuietCall
<1>. QED BY <1>1, <1>2, <1>3, SameFiles, CallerStep DEF ReadClosed

(* A read that finds nothing ends the call.                                *)
LEMMA NoLineKeepsInv ==
  ASSUME ChatInv, NEW c \in Caller,
         call' = [call EXCEPT ![c] = Idle(OK)], UNCHANGED <<file, proc>>
  PROVE  ChatInv'
<1>0. proc \in Seq(Process) /\ PidsApart /\ call \in [Caller -> Call]
  BY InvInParts
<1>1. ProcStep
  BY <1>0, ProcUnchanged
<1>2. CallSound(c)'
  BY <1>0, IdleIsCall, QuietCall
<1>. QED BY <1>1, <1>2, IdleIsCall, SameFiles, CallerStep

(* A kill by line is a step of processes, and the line's process is dead.  *)
LEMMA LineKilled ==
  ASSUME ChatInv, NEW c \in Caller, call[c].at \in {"first", "next"},
         Lines(call[c]) # <<>>, Kill(Head(Lines(call[c])))
  PROVE  /\ ProcStep
         /\ Processes' = Processes
         /\ \E line \in ServersOf(call[c].str) :
              /\ line = Head(Lines(call[c]))
              /\ ~Alive(line)'
              /\ \A p \in Processes : Alive(p) /\ ~Alive(p)' =>
                   proc[p].pid = proc[line].pid
<1>1. Head(Lines(call[c])) \in Written(call[c].str)
  BY LinesSound
<1>2. PICK line \in Processes : line = Head(Lines(call[c])) /\ line \in ServersOf(call[c].str)
  BY <1>1 DEF Written, ServersOf
<1>3. Kill(line) /\ proc \in Seq(Process) /\ PidsApart
  BY <1>2, InvInParts
<1>. QED BY <1>2, <1>3, KillStep

LEMMA SoundByFile ==
  ASSUME NEW c \in Caller, NEW f \in File,
         call'[c].str = f,
         file'[f] # NoFile,
         call'[c].ahead \in Seq(Written(f)'),
         call'[c].at = "next" =>
           \A p \in call'[c].due :
             /\ p \in Processes'
             /\ Alive(p)' => call'[c].ahead # <<>> /\ p = Head(call'[c].ahead)
  PROVE  CallSound(c)'
BY DEF CallSound, Written, ServersOf

LEMMA TwoIsLast ==
  ASSUME NEW n \in Nat, n <= 2, NEW k \in 1 .. n, k # 1
  PROVE  k = 2 /\ n = 2
OBVIOUS

(* Of at most two lines, what is not the first is the head of the rest.    *)
LEMMA SecondOfTwo ==
  ASSUME NEW S, NEW s \in Seq(S), Len(s) <= 2, NEW k \in 1 .. Len(s), k # 1
  PROVE  Tail(s) # <<>> /\ s[k] = Head(Tail(s))
<1>1. Len(s) \in Nat
  OBVIOUS
<1>2. k = 2 /\ Len(s) = 2
  BY <1>1, TwoIsLast
<1>3. s # <<>>
  BY <1>2
<1>4. Tail(s) \in Seq(S) /\ Len(Tail(s)) = 1
  BY <1>2, <1>3
<1>5. Tail(s)[1] = s[2]
  BY <1>2, <1>3, <1>4
<1>6. Tail(s) # <<>>
  <2>1. PICK t : t = Tail(s)
    OBVIOUS
  <2>2. t \in Seq(S) /\ Len(t) = 1
    BY <1>4, <2>1
  <2>3. t # <<>>
    BY <2>2
  <2>. QED BY <2>1, <2>3
<1>7. Head(Tail(s)) = Tail(s)[1]
  BY <1>4, <1>6
<1>. QED BY <1>2, <1>5, <1>6, <1>7

LEMMA KillFirstKeepsInv ==
  ASSUME ChatInv, NEW c \in Caller, KillFirst(c)
  PROVE  ChatInv'
<1>0. /\ proc \in Seq(Process) /\ PidsApart /\ call \in [Caller -> Call]
      /\ Processes \subseteq Nat
  BY InvInParts DEF Processes
<1>1. CASE Lines(call[c]) = <<>>
  BY <1>1, NoLineKeepsInv DEF KillFirst
<1>2. CASE Lines(call[c]) # <<>>
  <2>0. PICK f \in File : f = call[c].str /\ file[f] # NoFile
    BY LinesSound DEF KillFirst, Reading, ChatInv, ChatTypeOK
  <2>1. PICK lines \in Seq(Written(f)) : lines = Lines(call[c]) /\ lines # <<>>
    BY <1>2, <2>0, LinesSound DEF KillFirst
  <2>2. PICK due : due = Due(f, lines)
    OBVIOUS
  <2>3. PICK r : r = [call[c] EXCEPT !.at = "next", !.ahead = Tail(lines),
                                     !.position = Len(lines), !.due = due]
    OBVIOUS
  <2>4. call[c] \in Reading /\ call' = [call EXCEPT ![c] = r] /\ UNCHANGED file
    BY <1>2, <2>0, <2>1, <2>2, <2>3, LinesSound DEF KillFirst
  <2>5. /\ ProcStep
        /\ Processes' = Processes
        /\ ~Alive(Head(lines))'
    BY <1>2, <2>1, LineKilled DEF KillFirst
  <2>6. Written(f) \subseteq Processes
    BY DEF Written, ServersOf
  <2>7. /\ Tail(lines) \in Seq(Written(f))
        /\ Tail(lines) \in Seq(Nat)
        /\ Len(lines) \in Nat
    <3>1. Written(f) \subseteq Nat
      BY <1>0, <2>6
    <3>2. Tail(lines) \in Seq(Written(f)) /\ Len(lines) \in Nat
      BY <2>1
    <3>. QED BY <3>1, <3>2, SeqOfMore
  <2>8. /\ due \subseteq Processes
        /\ \A p \in due : Len(lines) <= 2 /\ p \in ToSet(lines)
    BY <2>2 DEF Due, ServersOf
  <2>9. r \in Reading
    BY <1>0, <2>3, <2>4, <2>7, <2>8 DEF Reading
  <2>10. r \in Call
    BY <2>4, <2>9, CallShapes DEF Reading, Call
  <2>11. call'[c] = r /\ r.str = f /\ r.ahead = Tail(lines) /\ r.due = due
    BY <1>0, <2>0, <2>3, <2>4 DEF Reading
  <2>12. Tail(lines) \in Seq(Written(f)')
    BY <2>5, <2>7, WrittenGrows, SeqOfMore DEF ProcStep
  <2>13. ASSUME NEW p \in due, Alive(p)'
         PROVE  Tail(lines) # <<>> /\ p = Head(Tail(lines))
    <3>1. PICK k \in 1 .. Len(lines) : p = lines[k]
      BY <2>1, <2>8 DEF ToSet
    <3>2. k # 1
      BY <2>1, <2>5, <2>13, <3>1
    <3>3. Len(lines) <= 2
      BY <2>8
    <3>. QED BY <2>1, <3>1, <3>2, <3>3, SecondOfTwo
  <2>14. CallSound(c)'
    BY <2>0, <2>4, <2>5, <2>8, <2>11, <2>12, <2>13, SoundByFile
  <2>. QED BY <2>4, <2>5, <2>10, <2>14, SameFiles, CallerStep
<1>. QED BY <1>1, <1>2

LEMMA KillNextKeepsInv ==
  ASSUME ChatInv, NEW c \in Caller, KillNext(c)
  PROVE  ChatInv'
<1>0. call \in [Caller -> Call]
  BY InvInParts
<1>1. CASE Lines(call[c]) = <<>>
  BY <1>1, NoLineKeepsInv DEF KillNext
<1>2. CASE Lines(call[c]) # <<>>
  <2>1. /\ call[c] \in Reading
        /\ call' = [call EXCEPT ![c] = [call[c] EXCEPT !.at = "closed"]]
        /\ UNCHANGED file
    BY <1>0, <1>2, LinesSound DEF KillNext
  <2>2. ProcStep
    BY <1>2, LineKilled DEF KillNext
  <2>3. [call[c] EXCEPT !.at = "closed"] \in Call
    BY <2>1 DEF Reading, Call
  <2>4. /\ call'[c].at = "closed"
        /\ call'[c].str = call[c].str
        /\ call'[c].ahead = call[c].ahead
    BY <1>0, <2>1 DEF Reading
  <2>5. PICK f \in File : f = call[c].str
    BY <2>1 DEF Reading
  <2>6. file[f] # NoFile /\ call[c].ahead \in Seq(Written(f))
    BY <2>5 DEF ChatInv, ChatTypeOK, KillNext
  <2>7. call[c].ahead \in Seq(Written(f)')
    BY <2>2, <2>6, WrittenGrows, SeqOfMore DEF ProcStep
  <2>8. CallSound(c)'
    BY <2>1, <2>4, <2>5, <2>6, <2>7, SoundByFile
  <2>. QED BY <2>1, <2>2, <2>3, <2>8, SameFiles, CallerStep
<1>. QED BY <1>1, <1>2

-----------------------------------------------------------------------------
(* The invariant.                                                          *)

LEMMA ChatInvInitially == ChatInit => ChatInv
<1>. SUFFICES ASSUME ChatInit PROVE ChatInv
  OBVIOUS
<1>1. proc \in Seq(Process) /\ PidsApart
  BY DEF ChatInit, PidsApart, Processes
<1>2. file \in [File -> {NoFile} \cup Seq(Nat)]
  BY DEF ChatInit
<1>3. call \in [Caller -> Call] /\ \A c \in Caller : call[c].at = "idle"
  BY IdleIsCall DEF ChatInit
<1>4. \A f \in File : FileSound(f)
  BY DEF ChatInit, FileSound
<1>5. \A c \in Caller : CallSound(c)
  BY <1>3 DEF CallSound
<1>. QED BY <1>1, <1>2, <1>3, <1>4, <1>5, InvInParts

LEMMA ChatInvKept == ChatInv /\ [ChatNext]_chatVars => ChatInv'
<1>. SUFFICES ASSUME ChatInv, [ChatNext]_chatVars PROVE ChatInv'
  OBVIOUS
<1>1. CASE UNCHANGED chatVars
  BY <1>1, InvInParts, ProcUnchanged, ProcessesStep DEF chatVars
<1>2. ASSUME NEW c \in Caller, NEW f \in File, NEW port \in PortArgument,
             CreateOpens(c, f, port)
      PROVE  ChatInv'
  BY <1>2, CreateOpensKeepsInv
<1>3. ASSUME NEW c \in Caller, NEW f \in File, DestroyOpens(c, f)
      PROVE  ChatInv'
  BY <1>3, DestroyOpensKeepsInv
<1>4. ASSUME NEW c \in Caller, CreateLaunches(c) PROVE ChatInv'
  BY <1>4, CreateLaunchesKeepsInv
<1>5. ASSUME NEW c \in Caller, KillFirst(c) PROVE ChatInv'
  BY <1>5, KillFirstKeepsInv
<1>6. ASSUME NEW c \in Caller, KillNext(c) PROVE ChatInv'
  BY <1>6, KillNextKeepsInv
<1>7. ASSUME NEW c \in Caller, ReadClosed(c) PROVE ChatInv'
  BY <1>7, ReadClosedKeepsInv
<1>8. ASSUME NEW p \in Processes, Registers(p) PROVE ChatInv'
  BY <1>8, RegistersKeepsInv
<1>9. ASSUME NEW p \in Processes, SenderEnds(p) \/ ListenerEnds(p) \/ OtherEnds(p)
      PROVE  ChatInv'
  BY <1>9, EndKeepsInv DEF SenderEnds, ListenerEnds, OtherEnds
<1>10. CASE OtherStarts
  BY <1>10, BirthKeepsInv
<1>. QED
  BY <1>1, <1>2, <1>3, <1>4, <1>5, <1>6, <1>7, <1>8, <1>9, <1>10 DEF ChatNext

(* Everything a chat can be in satisfies the invariant.                    *)
THEOREM ChatInvariant == ChatSpec => []ChatInv
BY ChatInvInitially, ChatInvKept, PTL DEF ChatSpec

(* The state of Multi.c and its processes keeps its types: every line of a *)
(* pid file, also one MultiDestroy has read ahead, is the pid of a process *)
(* that was started for that file and has run.                             *)
THEOREM ChatTypeCorrect == ChatSpec => []ChatTypeOK
<1>1. ChatInv => ChatTypeOK
  BY DEF ChatInv
<1>. QED BY <1>1, ChatInvariant, PTL

-----------------------------------------------------------------------------
(* Which actions do what the step properties speak of.                     *)

(* A call that is about to kill goes on by killing and in no other way.    *)
LEMMA CallChanges ==
  ASSUME ChatInv, [ChatNext]_chatVars, NEW c \in Caller, call'[c] # call[c],
         call[c].at \in {"first", "next"}
  PROVE  KillFirst(c) \/ KillNext(c)
<1>0. call \in [Caller -> Call]
  BY InvInParts
<1>1. \A d \in Caller : KillFirst(d) \/ KillNext(d) => d = c
  BY <1>0 DEF KillFirst, KillNext
<1>2. \A d \in Caller, f \in File, port \in PortArgument : ~CreateOpens(d, f, port)
  BY <1>0 DEF CreateOpens
<1>3. \A d \in Caller, f \in File : ~DestroyOpens(d, f)
  BY <1>0 DEF DestroyOpens
<1>4. \A d \in Caller : ~CreateLaunches(d) /\ ~ReadClosed(d)
  BY <1>0 DEF CreateLaunches, ReadClosed
<1>5. \A p \in Processes : ~Registers(p) /\ ~SenderEnds(p) /\ ~ListenerEnds(p) /\ ~OtherEnds(p)
  BY DEF Registers, SenderEnds, ListenerEnds, OtherEnds, End
<1>6. ~OtherStarts /\ ~UNCHANGED chatVars
  BY DEF OtherStarts, chatVars
<1>. QED BY <1>1, <1>2, <1>3, <1>4, <1>5, <1>6 DEF ChatNext

(* MultiDestroy's kill -9, fed with lines of the pid file, ends processes  *)
(* started for that file or bearers of a pid whose first owner is dead.    *)
THEOREM KillsStayOwn == ChatSpec => KillsOwnOrReusedAlways
<1>1. ASSUME ChatInv, [ChatNext]_chatVars PROVE KillsOwnOrReused
  <2>. SUFFICES ASSUME NEW c \in Caller, Killing(c),
                       NEW p \in Processes, Alive(p), ~Alive(p)'
                PROVE  \E q \in ServersOf(call[c].str) :
                         proc[q].pid = proc[p].pid /\ (q = p \/ ~Alive(q))
    BY DEF KillsOwnOrReused
  <2>1. KillFirst(c) \/ KillNext(c)
    BY <1>1, CallChanges DEF Killing
  <2>2. /\ Lines(call[c]) # <<>>
        /\ Kill(Head(Lines(call[c])))
    BY <2>1 DEF KillFirst, KillNext, Alive
  <2>3. PICK line \in ServersOf(call[c].str) : proc[p].pid = proc[line].pid
    BY <1>1, <2>2, LineKilled DEF Killing
  <2>4. Alive(line) => line = p
    BY <1>1, <2>3 DEF ChatInv, PidsApart, ServersOf
  <2>. QED BY <2>3, <2>4
<1>. QED BY <1>1, ChatInvariant, PTL DEF ChatSpec, KillsOwnOrReusedAlways

(* Two lines and every live process among them: then the kill before the   *)
(* loop of MultiDestroy and the one turn that the closed file leaves it    *)
(* end them all, whatever MultiCreate does to the file in between.         *)
THEOREM EndsWhatItMust == ChatSpec => EndsWhatItCanAlways
<1>1. ASSUME ChatInv, [ChatNext]_chatVars PROVE EndsWhatItCan
  <2>. SUFFICES ASSUME NEW c \in Caller, call[c].at = "next", call'[c].at # "next",
                       NEW p \in call[c].due
                PROVE  ~Alive(p)'
    BY DEF EndsWhatItCan
  <2>1. KillNext(c)
    BY <1>1, CallChanges DEF KillFirst
  <2>2. /\ p \in Processes
        /\ Alive(p) => call[c].ahead # <<>> /\ p = Head(call[c].ahead)
    BY <1>1 DEF ChatInv, DueIsAhead
  <2>3. CASE Alive(p)
    <3>1. Lines(call[c]) # <<>> /\ p = Head(Lines(call[c]))
      BY <2>2, <2>3 DEF Lines
    <3>2. Kill(Head(Lines(call[c])))
      BY <2>1, <3>1 DEF KillNext
    <3>. QED BY <1>1, <3>1, <3>2, LineKilled
  <2>4. CASE ~Alive(p)
    <3>1. Grows
      <4>1. CASE Lines(call[c]) = <<>>
        BY <1>1, <2>1, <4>1, InvInParts, ProcUnchanged DEF KillNext, ProcStep
      <4>2. CASE Lines(call[c]) # <<>>
        BY <1>1, <2>1, <4>2, LineKilled DEF KillNext, ProcStep
      <4>. QED BY <4>1, <4>2
    <3>. QED BY <2>2, <2>4, <3>1 DEF Grows
  <2>. QED BY <2>3, <2>4
<1>. QED BY <1>1, ChatInvariant, PTL DEF ChatSpec, EndsWhatItCanAlways

(* A registration appends to the pid file and a refused MultiCreate leaves *)
(* it alone: only a MultiCreate on its way to new processes empties it.    *)
THEOREM LostOnlyByCreate == ChatSpec => LostByCreateOnlyAlways
<1>1. ASSUME ChatInv, [ChatNext]_chatVars PROVE LostByCreateOnly
  <2>. SUFFICES ASSUME NEW f \in File, NEW p \in Processes,
                       file[f] # NoFile, p \in ToSet(file[f]), p \notin ToSet(file'[f])
                PROVE  \E c \in Caller :
                         call[c].at = "idle" /\ call'[c].at = "sender" /\ call'[c].str = f
    BY DEF LostByCreateOnly
  <2>0. /\ file \in [File -> {NoFile} \cup Seq(Nat)]
        /\ call \in [Caller -> Call]
        /\ file[f] \in Seq(Nat)
    BY <1>1, InvInParts
  <2>1. file'[f] # file[f]
    OBVIOUS
  <2>2. ASSUME NEW q \in Processes, Registers(q) PROVE FALSE
    <3>1. file'[f] = Append(file[f], q)
      BY <2>0, <2>1, <2>2 DEF Registers, AppendPid
    <3>2. q \in Nat
      BY <1>1, InvInParts DEF Processes
    <3>3. ToSet(file[f]) \subseteq ToSet(Append(file[f], q))
      BY <2>0, <3>2 DEF ToSet
    <3>. QED BY <3>1, <3>3
  <2>3. PICK c \in Caller, g \in File, port \in PortArgument : CreateOpens(c, g, port)
    BY <1>1, <2>1, <2>2
    DEF ChatNext, chatVars, DestroyOpens, CreateLaunches, KillFirst, KillNext, ReadClosed,
        SenderEnds, ListenerEnds, OtherEnds, End, OtherStarts
  <2>4. /\ call[c].at = "idle"
        /\ call' = [call EXCEPT ![c] = [at |-> "sender", str |-> g]]
        /\ file' = [file EXCEPT ![g] = <<>>]
    BY <2>1, <2>3 DEF CreateOpens
  <2>5. g = f
    BY <2>0, <2>1, <2>4
  <2>. QED BY <2>0, <2>4, <2>5
<1>. QED BY <1>1, ChatInvariant, PTL DEF ChatSpec, LostByCreateOnlyAlways
=============================================================================
