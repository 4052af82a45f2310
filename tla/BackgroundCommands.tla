------------------------- MODULE BackgroundCommands -------------------------
(***************************************************************************)
(* Shell commands in the background: BackgroundTaskManager                 *)
(* (core/commands/manager.ts) and the tools that run, check and kill them. *)
(* A child process ends by itself or by a signal; the manager learns of it *)
(* from an event that comes later, if its listeners are still there.       *)
(***************************************************************************)
EXTENDS Naturals, FiniteSets

CONSTANT Commands      \* commands that are ever run

VARIABLES
  command,   \* the tasks: status, whether the record is in the map, ...
  child,     \* their processes
  down       \* shutdown() has been called

commandVars == <<command, child, down>>

(* listening: process and listeners are set; timer: timeoutHandle is set.  *)
NoCommand == [status |-> "none", kept |-> FALSE, listening |-> FALSE, timer |-> FALSE]
NoChild   == [state |-> "none", signalled |-> FALSE, exit |-> "none"]

Init ==
  /\ command = [c \in Commands |-> NoCommand]
  /\ child = [c \in Commands |-> NoChild]
  /\ down = FALSE

Set(c, record) == command' = [command EXCEPT ![c] = record]

(* cleanup(): timer, listeners and process are gone.                       *)
Ended(c, status) ==
  [command[c] EXCEPT !.status = status, !.listening = FALSE, !.timer = FALSE]

(* run(): spawn() throws, or reports a failure to start later, or starts.  *)
Run(c) ==
  /\ command[c].status = "none"
  /\ Set(c, [status |-> "running", kept |-> TRUE, listening |-> TRUE, timer |-> TRUE])
  /\ \E state \in {"alive", "unstarted"} : child' = [child EXCEPT ![c].state = state]
  /\ UNCHANGED down

RunThrows(c) ==
  /\ command[c].status = "none"
  /\ Set(c, [NoCommand EXCEPT !.status = "error", !.kept = TRUE])
  /\ UNCHANGED <<child, down>>

(* The process ends, by itself or by the signal it got.                    *)
Exits(c) ==
  /\ child[c].state = "alive"
  /\ \E code \in {"zero", "other"} :
       child' = [child EXCEPT ![c].state = "ended", ![c].exit = code]
  /\ UNCHANGED <<command, down>>

Killed(c) ==
  /\ child[c].state = "alive" /\ child[c].signalled
  /\ child' = [child EXCEPT ![c].state = "ended", ![c].exit = "signal"]
  /\ UNCHANGED <<command, down>>

CloseStatus(c) == IF child[c].exit = "zero" THEN "done" ELSE "error"

Close(c) ==
  /\ child[c].state = "ended"
  /\ child' = [child EXCEPT ![c].state = "closed"]
  /\ Set(c, IF command[c].listening THEN Ended(c, CloseStatus(c)) ELSE command[c])
  /\ UNCHANGED down

StartError(c) ==
  /\ child[c].state = "unstarted"
  /\ child' = [child EXCEPT ![c].state = "closed"]
  /\ Set(c, IF command[c].listening THEN Ended(c, "error") ELSE command[c])
  /\ UNCHANGED down

-----------------------------------------------------------------------------
Signal(S) ==
  child' = [c \in Commands |-> [child[c] EXCEPT !.signalled = @ \/ (c \in S /\ child[c].state = "alive")]]

(* Mutant of Timeout: the status is not looked at.                         *)
TimeoutAlways(c) ==
  /\ command[c].timer
  /\ Signal({c})
  /\ Set(c, [command[c] EXCEPT !.status = "timeout", !.timer = FALSE])
  /\ UNCHANGED down

(* The timer of a killed command only fires.                               *)
Timeout(c) ==
  /\ command[c].timer
  /\ IF command[c].status = "running" /\ command[c].listening
       THEN Signal({c}) /\ Set(c, Ended(c, "timeout"))
       ELSE UNCHANGED child /\ Set(c, [command[c] EXCEPT !.timer = FALSE])
  /\ UNCHANGED down

(* kill_background asks for a running task; its listeners stay.            *)
Kill(c) ==
  /\ command[c].kept /\ command[c].status = "running" /\ command[c].listening
  /\ Signal({c})
  /\ Set(c, [command[c] EXCEPT !.status = "error"])
  /\ UNCHANGED down

ClearCompleted ==
  /\ command' = [c \in Commands |->
       [command[c] EXCEPT !.kept = @ /\ command[c].status = "running"]]
  /\ UNCHANGED <<child, down>>

StillRunning == { c \in Commands : command[c].kept /\ command[c].status = "running" }

Shutdown ==
  /\ ~down
  /\ down' = TRUE
  /\ Signal({ c \in StillRunning : command[c].listening })
  /\ command' = [c \in Commands |->
       [command[c] EXCEPT !.kept = FALSE, !.timer = @ /\ c \notin StillRunning]]

Next ==
  \/ \E c \in Commands : Run(c) \/ RunThrows(c) \/ Exits(c) \/ Killed(c) \/ Close(c) \/ StartError(c)
  \/ \E c \in Commands : Timeout(c) \/ Kill(c)
  \/ ClearCompleted \/ Shutdown

Spec == Init /\ [][Next]_commandVars

-----------------------------------------------------------------------------
CommandsTypeOK ==
  /\ command \in [Commands -> [status : {"none", "running", "done", "error", "timeout"},
                               kept : BOOLEAN, listening : BOOLEAN, timer : BOOLEAN]]
  /\ child \in [Commands -> [state : {"none", "unstarted", "alive", "ended", "closed"},
                             signalled : BOOLEAN, exit : {"none", "zero", "other", "signal"}]]

(* Timeout, kill, close and shutdown race, and yet the records tell what   *)
(* became of the processes: one that is alive and has not been signalled   *)
(* is a running task of the map, where kill and shutdown find it; a task   *)
(* that is "done" had a process that ended with code 0; and one that timed *)
(* out keeps that status though its process closes afterwards.             *)
StatusTellsTruth ==
  \A c \in Commands :
    /\ child[c].state = "alive" /\ ~child[c].signalled => c \in StillRunning
    /\ command[c].status = "done" => child[c].exit = "zero"
    /\ command[c].status = "timeout" => ~command[c].listening /\ child[c].state # "none"
=============================================================================
