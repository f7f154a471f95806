------------------------------ MODULE MultiChat ------------------------------
(***************************************************************************)
(* The multicast chat: Multi.c, which starts and ends a user's chat in a   *)
(* group, and the processes it starts, Sender.c and Listener.c.  All that  *)
(* links a chat to its processes is a file of process ids, which they      *)
(* append to and MultiDestroy reads.  A chat is known here by that file:   *)
(* its name is both names with nothing between them, so that the chats of  *)
(* user "bc" in group "a" and of user "c" in group "ab" are one.           *)
(* Multi.c is taken as it must be meant: as it stands it declares `str`    *)
(* twice and calls the parameter `_userName` also `_username`.             *)
(***************************************************************************)
EXTENDS Naturals, SequencesExt

CONSTANTS
  Caller,        \* programs that call Multi.c in one directory
  File,          \* names of files, each a group's followed by a user's
  PortArgument,  \* the ports that callers pass
  Pid,           \* process ids, used again when a process has ended
  MaxProcesses,  \* bound: processes ever started
  NoFile

ASSUME ChatAssumption ==
  /\ NoFile \notin Seq(Nat)
  /\ MaxProcesses \in Nat

VARIABLES
  file,  \* each file: the processes whose ids are written in it
  proc,  \* the processes in the order they were started
  call   \* each caller: where it is in MultiCreate or MultiDestroy

chatVars == <<file, proc, call>>

GROUP_PORT == 2025
OK == 0
ERROR == 1

Idle(res) == [at |-> "idle", res |-> res]

Processes == DOMAIN proc
Alive(p) == proc[p].at # "ended"

(* The senders and listeners started for the file f.                       *)
ServersOf(f) == {p \in Processes : proc[p].runs # "other" /\ proc[p].str = f}

ChatInit ==
  /\ file = [f \in File |-> NoFile]
  /\ proc = <<>>
  /\ call = [c \in Caller |-> Idle(OK)]

-----------------------------------------------------------------------------
(* Processes.                                                              *)

(* The kernel gives a new process a pid that no live process has.          *)
FreePid == Pid \ {proc[p].pid : p \in {q \in Processes : Alive(q)}}

(* A program of somebody else, which is none of the chats' business.       *)
OtherStarts ==
  /\ Len(proc) < MaxProcesses
  /\ \E pid \in FreePid :
       proc' = Append(proc, [pid |-> pid, runs |-> "other", at |-> "running"])
  /\ UNCHANGED <<file, call>>

(* A variant that opens the file for writing, as MultiCreate does.         *)
AppendPidTruncating(f, p) == file' = [file EXCEPT ![f] = <<p>>]

(* A variant that writes getppid(): another process, say the first.        *)
AppendPidOfParent(f, p) ==
  file' = [file EXCEPT ![f] = IF @ = NoFile THEN <<1>> ELSE Append(@, 1)]

(* fopen(str, "a") makes the file if there is none.                        *)
AppendPid(f, p) ==
  file' = [file EXCEPT ![f] = IF @ = NoFile THEN <<p>> ELSE Append(@, p)]

(* Both programs write their pid before they set up their socket.          *)
Registers(p) ==
  /\ proc[p].at = "started"
  /\ AppendPid(proc[p].str, p)
  /\ proc' = [proc EXCEPT ![p].at = "running"]
  /\ UNCHANGED call

End(p) ==
  /\ Alive(p)
  /\ proc' = [proc EXCEPT ![p].at = "ended"]
  /\ UNCHANGED <<file, call>>

(* The file does not open, there is no socket, sendto fails, the user      *)
(* closes the terminal: the pid stays in the file, if it got there.        *)
SenderEnds(p) == proc[p].runs = "sender" /\ End(p)

(* The same, or setsockopt or bind fails and ten seconds have passed; a    *)
(* failing recvfrom does not end the loop.                                 *)
ListenerEnds(p) == proc[p].runs = "listener" /\ End(p)

OtherEnds(p) == proc[p].runs = "other" /\ End(p)

-----------------------------------------------------------------------------
(* MultiCreate.                                                            *)

(* fopen(str, "w") empties the file; when it fails the 0 returned is OK.   *)
CreateOpens(c, f, port) ==
  /\ call[c].at = "idle"
  /\ \/ /\ port # GROUP_PORT
        /\ call' = [call EXCEPT ![c] = Idle(ERROR)]
        /\ UNCHANGED file
     \/ /\ port = GROUP_PORT
        /\ call' = [call EXCEPT ![c] = [at |-> "sender", str |-> f]]
        /\ file' = [file EXCEPT ![f] = <<>>]
     \/ /\ port = GROUP_PORT
        /\ call' = [call EXCEPT ![c] = Idle(OK)]
        /\ UNCHANGED file
  /\ UNCHANGED proc

(* system returns once a terminal was asked for, whether it comes or not.  *)
Launch(program, f) ==
  \/ /\ Len(proc) < MaxProcesses
     /\ \E pid \in FreePid :
          proc' = Append(proc,
            [pid |-> pid, runs |-> program, str |-> f, at |-> "started"])
  \/ UNCHANGED proc

CreateLaunches(c) ==
  /\ \/ /\ call[c].at = "sender"
        /\ Launch("sender", call[c].str)
        /\ call' = [call EXCEPT ![c].at = "listener"]
     \/ /\ call[c].at = "listener"   \* after sleep(2)
        /\ Launch("listener", call[c].str)
        /\ call' = [call EXCEPT ![c] = Idle(OK)]
  /\ UNCHANGED file

-----------------------------------------------------------------------------
(* MultiDestroy.                                                           *)

(* A reader has a position in the file, counted in lines (pids are taken   *)
(* to be of one length), and the lines it has read ahead.  The fopen may   *)
(* fail for a file that exists, not least because MultiDestroy leaves      *)
(* files of less than two lines open.                                      *)
DestroyOpens(c, f) ==
  /\ call[c].at = "idle"
  /\ \/ call' = [call EXCEPT ![c] = Idle(ERROR)]
     \/ /\ file[f] # NoFile
        /\ call' = [call EXCEPT ![c] = [at |-> "first", str |-> f,
             ahead |-> <<>>, position |-> 0, due |-> {}]]
  /\ UNCHANGED <<file, proc>>

(* A variant of a reader without read-ahead.                               *)
LinesUnbuffered(r) ==
  LET text == file[r.str] IN
  IF r.at = "first" THEN text ELSE SubSeq(text, 2, Len(text))

(* The lines fgets has before it: those read ahead or, if there are none,  *)
(* what the file by now has behind the position.                           *)
Lines(r) ==
  LET text == file[r.str] IN
  IF r.ahead # <<>> THEN r.ahead ELSE SubSeq(text, r.position + 1, Len(text))

(* A variant that kills by the program's name.                             *)
KillProgram(line) ==
  proc' = [p \in Processes |->
    IF proc[p].runs = proc[line].runs THEN [proc[p] EXCEPT !.at = "ended"] ELSE proc[p]]

(* kill -9 ends whatever has the pid by now.                               *)
Kill(line) ==
  proc' = [p \in Processes |->
    IF proc[p].pid = proc[line].pid THEN [proc[p] EXCEPT !.at = "ended"] ELSE proc[p]]

(* The live processes of the file, if two kills can end them all: each is  *)
(* among the lines, and these are two at most.  Kept for EndsWhatItCan.    *)
Due(f, lines) ==
  LET living == {p \in ServersOf(f) : Alive(p)} IN
  IF Len(lines) <= 2 /\ living \subseteq ToSet(lines) THEN living ELSE {}

(* fgets and kill.  When there is no line at all the command names no pid  *)
(* and feof ends the loop before it begins.                                *)
KillFirst(c) ==
  LET r == call[c]
      lines == Lines(r) IN
  /\ r.at = "first"
  /\ \/ /\ lines = <<>>
        /\ call' = [call EXCEPT ![c] = Idle(OK)]
        /\ UNCHANGED proc
     \/ /\ lines # <<>>
        /\ Kill(Head(lines))
        /\ call' = [call EXCEPT ![c] = [r EXCEPT !.at = "next",
             !.ahead = Tail(lines), !.position = Len(lines),
             !.due = Due(r.str, lines)]]
  /\ UNCHANGED file

(* The first turn of the loop, which closes the file.                      *)
KillNext(c) ==
  LET r == call[c]
      lines == Lines(r) IN
  /\ r.at = "next"
  /\ \/ /\ lines = <<>>
        /\ call' = [call EXCEPT ![c] = Idle(OK)]
        /\ UNCHANGED proc
     \/ /\ lines # <<>>
        /\ Kill(Head(lines))
        /\ call' = [call EXCEPT ![c].at = "closed"]
  /\ UNCHANGED file

(* feof and fgets of the file just closed are undefined: they find no more *)
(* in it, or end the program.                                              *)
ReadClosed(c) ==
  /\ call[c].at = "closed"
  /\ \/ call' = [call EXCEPT ![c] = Idle(OK)]
     \/ call' = [call EXCEPT ![c] = [at |-> "crashed"]]
  /\ UNCHANGED <<file, proc>>

-----------------------------------------------------------------------------
ChatNext ==
  \/ \E c \in Caller, f \in File, port \in PortArgument : CreateOpens(c, f, port)
  \/ \E c \in Caller, f \in File : DestroyOpens(c, f)
  \/ \E c \in Caller : CreateLaunches(c)
  \/ \E c \in Caller : KillFirst(c)
  \/ \E c \in Caller : KillNext(c)
  \/ \E c \in Caller : ReadClosed(c)
  \/ \E p \in Processes : Registers(p)
  \/ \E p \in Processes : SenderEnds(p) \/ ListenerEnds(p) \/ OtherEnds(p)
  \/ OtherStarts

ChatSpec == ChatInit /\ [][ChatNext]_chatVars

-----------------------------------------------------------------------------
Process ==
  [pid : Pid, runs : {"sender", "listener"}, str : File,
   at : {"started", "running", "ended"}]
    \cup [pid : Pid, runs : {"other"}, at : {"running", "ended"}]

Call ==
  {Idle(OK), Idle(ERROR), [at |-> "crashed"]}
    \cup [at : {"sender", "listener"}, str : File]
    \cup [at : {"first", "next", "closed"}, str : File, ahead : Seq(Nat),
          position : Nat, due : SUBSET Nat]

(* The processes that can have their pid in the file f: senders and        *)
(* listeners that were started for it and got as far as to write.          *)
Written(f) == {p \in ServersOf(f) : proc[p].at # "started"}

(* Types; every line of a file, also one that has been read ahead, was     *)
(* written by a process of that file.                                      *)
ChatTypeOK ==
  /\ proc \in Seq(Process)
  /\ file \in [File -> {NoFile} \cup Seq(Nat)]
  /\ call \in [Caller -> Call]
  /\ \A f \in File : file[f] # NoFile => file[f] \in Seq(Written(f))
  /\ \A c \in Caller : call[c].at \in {"first", "next", "closed"} =>
       /\ file[call[c].str] # NoFile
       /\ call[c].ahead \in Seq(Written(call[c].str))

Killing(c) == call[c].at \in {"first", "next"} /\ call'[c] # call[c]

(* MultiDestroy ends processes of the chats that share the file, whatever  *)
(* was truncated and appended since it opened it; anybody else, another    *)
(* chat's process or a program of no chat, only by having the pid of one   *)
(* that served the file and had ended before.                              *)
KillsOwnOrReused ==
  \A c \in Caller : Killing(c) =>
    \A p \in Processes : Alive(p) /\ ~Alive(p)' =>
      \E q \in ServersOf(call[c].str) :
        /\ proc[q].pid = proc[p].pid
        /\ q = p \/ ~Alive(q)

KillsOwnOrReusedAlways == [][KillsOwnOrReused]_chatVars

(* If all live processes of the file had registered when MultiDestroy read *)
(* it, and in two lines at most, none of them lives when it is through,    *)
(* although the file may be emptied by MultiCreate between the two kills.  *)
EndsWhatItCan ==
  \A c \in Caller :
    call[c].at = "next" /\ call'[c].at # "next" =>
      \A p \in call[c].due : ~Alive(p)'

EndsWhatItCanAlways == [][EndsWhatItCan]_chatVars

(* A live process whose pid is in the file stays within the reach of       *)
(* MultiDestroy, unless a MultiCreate of a chat with that file goes on to  *)
(* start new processes: neither a refused call nor another process's       *)
(* registration loses it.                                                  *)
LostByCreateOnly ==
  \A f \in File : \A p \in Processes :
    /\ file[f] # NoFile /\ p \in ToSet(file[f])
    /\ p \notin ToSet(file'[f])
    /\ Alive(p)'
    => \E c \in Caller :
         /\ call[c].at = "idle"
         /\ call'[c].at = "sender"
         /\ call'[c].str = f

LostByCreateOnlyAlways == [][LostByCreateOnly]_chatVars
=============================================================================
