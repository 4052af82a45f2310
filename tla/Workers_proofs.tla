--------------------------- MODULE Workers_proofs ---------------------------
(***************************************************************************)
(* The inductive invariants of those who work on the side: the background  *)
(* commands, the producer/consumer queue, the worker pool, which is shown  *)
(* to implement its abstract specification, the loops of the helpers, the  *)
(* memory of the tasks, the handlers of the shutdown and the pool of Rust  *)
(* processes.  They share no state; each is an instance.                   *)
(***************************************************************************)
EXTENDS Services, SequenceTheorems, FiniteSetTheorems, WellFoundedInduction, TLAPS

(* The variables of each service, by the names its module gives them.      *)
command == x1
child == x2
down == x3

queued == x1
resolvers == x2
closed == x3
consumer == x4
pushes == x5
received == x6

USE DEF command, child, down, queued, resolvers, closed, consumer, pushes, received

-----------------------------------------------------------------------------
(* 1. Background commands.                                                 *)

CommandRecords ==
  [status : {"none", "running", "done", "error", "timeout"},
   kept : BOOLEAN, listening : BOOLEAN, timer : BOOLEAN]

Processes ==
  [state : {"none", "unstarted", "alive", "ended", "closed"},
   signalled : BOOLEAN, exit : {"none", "zero", "other", "signal"}]

(* A record and its process.  Only a task that runs, or one that was       *)
(* killed, listens, and it has a process to listen to; a process that      *)
(* nobody has signalled is one that kill_background and shutdown() find;   *)
(* and a final status is that of a process that has ended.                 *)
Agrees(r, p) ==
  /\ r.listening => r.status \in {"running", "error"} /\ p.state # "none"
  /\ r.status = "running" => r.listening
  /\ r.status = "none" => p = Background!NoChild
  /\ p.state = "alive" /\ ~p.signalled => r.kept /\ r.status = "running"
  /\ r.status = "done" => p.exit = "zero" /\ p.state = "closed"
  /\ r.status = "timeout" => ~r.listening /\ p.state # "none"

CommandsInv ==
  /\ command \in [Commands -> CommandRecords] /\ child \in [Commands -> Processes]
  /\ \A c \in Commands : Agrees(command[c], child[c])

LEMMA CommandsInitOK == Background!Init => CommandsInv
  BY DEF Background!Init, Background!NoCommand, Background!NoChild, CommandsInv,
         CommandRecords, Processes, Agrees

(* A step that concerns one command.                                       *)
LEMMA OneCommand ==
  ASSUME CommandsInv, NEW c \in Commands, NEW r \in CommandRecords, NEW p \in Processes,
         Agrees(r, p), command' = [command EXCEPT ![c] = r], child' = [child EXCEPT ![c] = p]
  PROVE  CommandsInv'
<1>1. command' \in [Commands -> CommandRecords] /\ child' \in [Commands -> Processes]
  BY DEF CommandsInv
<1>2. \A d \in Commands : Agrees(command'[d], child'[d])
  <2> TAKE d \in Commands
  <2>1. CASE d = c
    BY <2>1 DEF CommandsInv
  <2>2. CASE d # c
    <3>1. command'[d] = command[d] /\ child'[d] = child[d]
      BY <2>2 DEF CommandsInv
    <3> QED
      BY <3>1 DEF CommandsInv
  <2> QED
    BY <2>1, <2>2
<1> QED
  BY <1>1, <1>2 DEF CommandsInv

(* The process of a command goes on; its record stays or is closed.        *)
LEMMA ProcessStep ==
  ASSUME CommandsInv, NEW c \in Commands,
         Background!Exits(c) \/ Background!Killed(c) \/ Background!Close(c) \/ Background!StartError(c)
  PROVE  CommandsInv'
<1> DEFINE r == command[c]
<1> DEFINE p == child[c]
<1>0. /\ r \in CommandRecords /\ p \in Processes /\ Agrees(r, p)
      /\ command = [command EXCEPT ![c] = r] /\ child = [child EXCEPT ![c] = p]
      /\ child \in [Commands -> Processes]
  BY DEF CommandsInv
<1>1. CASE Background!Exits(c) \/ Background!Killed(c)
  <2>1. PICK code \in {"zero", "other", "signal"} :
          child' = [child EXCEPT ![c] = [p EXCEPT !.state = "ended", !.exit = code]]
    BY <1>0, <1>1 DEF Background!Exits, Background!Killed
  <2> DEFINE q == [p EXCEPT !.state = "ended", !.exit = code]
  <2>2. q \in Processes
    BY <1>0 DEF Processes
  <2>3. Agrees(r, q)
    BY <1>0, <1>1 DEF Agrees, CommandRecords, Processes, Background!Exits, Background!Killed,
                      Background!NoChild
  <2>4. command' = [command EXCEPT ![c] = r]
    BY <1>0, <1>1 DEF Background!Exits, Background!Killed
  <2> HIDE DEF q
  <2> QED
    BY <1>0, <2>1, <2>2, <2>3, <2>4, OneCommand DEF q
<1>2. CASE Background!Close(c) \/ Background!StartError(c)
  <2> DEFINE q == [p EXCEPT !.state = "closed"]
  <2>1. child' = [child EXCEPT ![c] = q] /\ q \in Processes
    BY <1>0, <1>2 DEF Background!Close, Background!StartError, Processes
  <2>2. PICK status \in {"done", "error"} :
          /\ status = "done" => p.exit = "zero"
          /\ command' = [command EXCEPT ![c] = IF r.listening THEN Background!Ended(c, status) ELSE r]
    BY <1>2 DEF Background!Close, Background!StartError, Background!Set, Background!CloseStatus
  <2> DEFINE s == IF r.listening THEN Background!Ended(c, status) ELSE r
  <2>3. s \in CommandRecords
    BY <1>0 DEF CommandRecords, Background!Ended
  <2>4. Agrees(s, q)
    BY <1>0, <1>2, <2>2 DEF Agrees, CommandRecords, Processes, Background!Close,
       Background!StartError, Background!Ended, Background!NoChild
  <2> HIDE DEF q, s
  <2> QED
    BY <2>1, <2>2, <2>3, <2>4, OneCommand DEF s
<1> QED
  BY <1>1, <1>2

(* A process that is sent a signal.                                        *)
Signalled(p) == [p EXCEPT !.signalled = @ \/ p.state = "alive"]

LEMMA Signalling ==
  ASSUME CommandsInv, NEW S, Background!Signal(S), NEW c \in Commands
  PROVE  /\ Signalled(child[c]) \in Processes
         /\ child'[c] = IF c \in S THEN Signalled(child[c]) ELSE child[c]
<1>1. child[c] \in Processes
  BY DEF CommandsInv
<1>2. Signalled(child[c]) \in Processes
  BY <1>1 DEF Signalled, Processes
<1>3. CASE c \in S
  BY <1>2, <1>3 DEF Background!Signal, Signalled
<1>4. CASE c \notin S
  <2>1. child'[c] = [child[c] EXCEPT !.signalled = child[c].signalled]
    BY <1>1, <1>4 DEF Background!Signal, Processes
  <2> QED
    BY <1>1, <1>2, <1>4, <2>1 DEF Processes
<1> QED
  BY <1>2, <1>3, <1>4

LEMMA SignalOne ==
  ASSUME CommandsInv, NEW c \in Commands, Background!Signal({c})
  PROVE  child' = [child EXCEPT ![c] = Signalled(child[c])]
<1>1. child \in [Commands -> Processes]
  BY DEF CommandsInv
<1>2. \A d \in Commands : child'[d] = IF d = c THEN Signalled(child[d]) ELSE child[d]
  BY Signalling
<1>3. child' = [d \in Commands |-> child'[d]]
  BY DEF Background!Signal
<1> QED
  BY <1>1, <1>2, <1>3

(* The manager starts, times out and kills.                                *)
LEMMA ManagerStep ==
  ASSUME CommandsInv, NEW c \in Commands,
         Background!Run(c) \/ Background!RunThrows(c) \/ Background!Timeout(c) \/ Background!Kill(c)
  PROVE  CommandsInv'
<1> DEFINE r == command[c]
<1> DEFINE p == child[c]
<1>0. /\ r \in CommandRecords /\ p \in Processes /\ Agrees(r, p)
      /\ command = [command EXCEPT ![c] = r] /\ child = [child EXCEPT ![c] = p]
      /\ child \in [Commands -> Processes]
  BY DEF CommandsInv
<1>1. CASE Background!Run(c)
  <2> DEFINE s == [status |-> "running", kept |-> TRUE, listening |-> TRUE, timer |-> TRUE]
  <2>1. PICK state \in {"alive", "unstarted"} : child' = [child EXCEPT ![c] = [p EXCEPT !.state = state]]
    BY <1>0, <1>1 DEF Background!Run
  <2> DEFINE q == [p EXCEPT !.state = state]
  <2>2. command' = [command EXCEPT ![c] = s] /\ s \in CommandRecords /\ q \in Processes
    BY <1>0, <1>1 DEF Background!Run, Background!Set, CommandRecords, Processes
  <2>3. Agrees(s, q)
    BY <1>0 DEF Agrees, Processes
  <2> HIDE DEF s, q
  <2> QED
    BY <2>1, <2>2, <2>3, OneCommand DEF q
<1>2. CASE Background!RunThrows(c)
  <2> DEFINE s == [Background!NoCommand EXCEPT !.status = "error", !.kept = TRUE]
  <2>1. command' = [command EXCEPT ![c] = s] /\ s \in CommandRecords
    <3>1. Background!NoCommand \in CommandRecords
      BY DEF Background!NoCommand, CommandRecords
    <3>2. s \in CommandRecords
      BY <3>1 DEF CommandRecords
    <3> QED
      BY <1>2, <3>2 DEF Background!RunThrows, Background!Set
  <2>2. Agrees(s, p)
    <3>1. s.status = "error" /\ s.listening = FALSE
      BY DEF Background!NoCommand
    <3>2. p.state # "alive"
      BY <1>0, <1>2 DEF Agrees, Background!RunThrows, Background!NoChild
    <3> HIDE DEF s
    <3> QED
      BY <3>1, <3>2 DEF Agrees
  <2>3. child' = [child EXCEPT ![c] = p]
    BY <1>0, <1>2 DEF Background!RunThrows
  <2> HIDE DEF s
  <2> QED
    BY <1>0, <2>1, <2>2, <2>3, OneCommand
<1>3. CASE Background!Timeout(c)
  <2>1. CASE r.status = "running" /\ r.listening
    <3> DEFINE s == Background!Ended(c, "timeout")
    <3>1. command' = [command EXCEPT ![c] = s] /\ s \in CommandRecords
      BY <1>0, <1>3, <2>1 DEF Background!Timeout, Background!Set, Background!Ended, CommandRecords
    <3>2. child' = [child EXCEPT ![c] = Signalled(p)] /\ Signalled(p) \in Processes
      BY <1>3, <2>1, Signalling, SignalOne DEF Background!Timeout
    <3>3. Agrees(s, Signalled(p))
      BY <1>0, <2>1 DEF Agrees, CommandRecords, Processes, Background!Ended, Signalled
    <3> HIDE DEF s
    <3> QED
      BY <3>1, <3>2, <3>3, OneCommand
  <2>2. CASE ~(r.status = "running" /\ r.listening)
    <3> DEFINE s == [r EXCEPT !.timer = FALSE]
    <3>1. command' = [command EXCEPT ![c] = s] /\ s \in CommandRecords
      BY <1>0, <1>3, <2>2 DEF Background!Timeout, Background!Set, CommandRecords
    <3>2. child' = [child EXCEPT ![c] = p] /\ Agrees(s, p)
      BY <1>0, <1>3, <2>2 DEF Background!Timeout, Agrees, CommandRecords
    <3> HIDE DEF s
    <3> QED
      BY <1>0, <3>1, <3>2, OneCommand
  <2> QED
    BY <2>1, <2>2
<1>4. CASE Background!Kill(c)
  <2> DEFINE s == [r EXCEPT !.status = "error"]
  <2>1. command' = [command EXCEPT ![c] = s] /\ s \in CommandRecords
    BY <1>0, <1>4 DEF Background!Kill, Background!Set, CommandRecords
  <2>2. child' = [child EXCEPT ![c] = Signalled(p)] /\ Signalled(p) \in Processes
    BY <1>4, Signalling, SignalOne DEF Background!Kill
  <2>3. Agrees(s, Signalled(p))
    BY <1>0, <1>4 DEF Agrees, CommandRecords, Processes, Background!Kill, Signalled
  <2> HIDE DEF s
  <2> QED
    BY <2>1, <2>2, <2>3, OneCommand
<1> QED
  BY <1>1, <1>2, <1>3, <1>4

(* It forgets the tasks that are over, or all of them at the end.          *)
LEMMA ForgetStep ==
  ASSUME CommandsInv, Background!ClearCompleted \/ Background!Shutdown PROVE CommandsInv'
<1> DEFINE Pair(c) == /\ command[c] \in CommandRecords /\ child[c] \in Processes
                      /\ Agrees(command[c], child[c])
<1>0. \A c \in Commands : Pair(c)
  BY DEF CommandsInv
<1>1. CASE Background!ClearCompleted
  <2>1. \A c \in Commands :
          /\ command'[c] = [command[c] EXCEPT !.kept = @ /\ command[c].status = "running"]
          /\ child'[c] = child[c]
    BY <1>1 DEF Background!ClearCompleted
  <2>2. \A c \in Commands : command'[c] \in CommandRecords /\ Agrees(command'[c], child'[c])
    <3> TAKE c \in Commands
    <3>1. command'[c] \in CommandRecords
      BY <1>0, <2>1 DEF CommandRecords
    <3>2. /\ command'[c].status = command[c].status
          /\ command'[c].listening <=> command[c].listening
          /\ command[c].kept /\ command[c].status = "running" => command'[c].kept
      BY <1>0, <2>1 DEF CommandRecords
    <3>3. Agrees(command[c], child[c]) /\ child'[c] = child[c]
      BY <1>0, <2>1
    <3>4. Agrees(command'[c], child'[c])
      BY <3>2, <3>3 DEF Agrees
    <3> QED
      BY <3>1, <3>4
  <2> QED
    BY <1>1, <2>2 DEF Background!ClearCompleted, CommandsInv
<1>2. CASE Background!Shutdown
  <2> DEFINE S == { c \in Background!StillRunning : command[c].listening }
  <2>1. Background!Signal(S)
    BY <1>2 DEF Background!Shutdown
  <2>2. \A c \in Commands :
          /\ \E timer \in BOOLEAN : command'[c] = [command[c] EXCEPT !.kept = FALSE, !.timer = timer]
          /\ child'[c] \in Processes
          /\ child'[c] = IF c \in S THEN Signalled(child[c]) ELSE child[c]
    <3> TAKE c \in Commands
    <3>1. child'[c] = IF c \in S THEN Signalled(child[c]) ELSE child[c]
      BY <2>1, Signalling
    <3>2. child'[c] \in Processes
      BY <1>0, <2>1, <3>1, Signalling
    <3>3. command'[c] = [command[c] EXCEPT !.kept = FALSE,
                            !.timer = @ /\ c \notin Background!StillRunning]
      BY <1>2 DEF Background!Shutdown
    <3> QED
      BY <3>1, <3>2, <3>3
  <2>3. \A c \in Commands : command'[c] \in CommandRecords /\ Agrees(command'[c], child'[c])
    <3> TAKE c \in Commands
    <3>1. PICK timer \in BOOLEAN : command'[c] = [command[c] EXCEPT !.kept = FALSE, !.timer = timer]
      BY <2>2
    <3>2. command'[c] \in CommandRecords
      BY <1>0, <3>1 DEF CommandRecords
    <3>3. CASE c \in S
      <4>1. /\ command[c].status = "running" /\ command[c].listening
            /\ child'[c] = Signalled(child[c])
        BY <2>2, <3>3 DEF Background!StillRunning
      <4>2. /\ child'[c].state = child[c].state
            /\ child[c].state = "alive" => child'[c].signalled
        BY <1>0, <4>1 DEF Processes, Signalled
      <4>3. command'[c].status = "running" /\ command'[c].listening
        BY <1>0, <3>1, <4>1 DEF CommandRecords
      <4> QED
        BY <1>0, <3>2, <4>1, <4>2, <4>3 DEF Agrees
    <3>4. CASE c \notin S
      BY <1>0, <2>2, <3>1, <3>4
      DEF CommandRecords, Processes, Agrees, Background!StillRunning
    <3> QED
      BY <3>2, <3>3, <3>4
  <2> QED
    BY <1>2, <2>2, <2>3 DEF Background!Shutdown, Background!Signal, CommandsInv
<1> QED
  BY <1>1, <1>2

LEMMA CommandsStep ==
  CommandsInv /\ [Background!Next]_Background!commandVars => CommandsInv'
<1> SUFFICES ASSUME CommandsInv, [Background!Next]_Background!commandVars
             PROVE  CommandsInv'
  OBVIOUS
<1>1. CASE UNCHANGED Background!commandVars
  BY <1>1 DEF Background!commandVars, CommandsInv
<1> QED
  BY <1>1, ProcessStep, ManagerStep, ForgetStep DEF Background!Next

LEMMA CommandsTell == CommandsInv => Background!StatusTellsTruth
  BY DEF CommandsInv, Agrees, Background!StatusTellsTruth, Background!StillRunning

(* Records and processes agree at every moment (core/commands/manager.ts). *)
THEOREM CommandsCorrect == Background!Spec => []CommandsInv
  BY CommandsInitOK, CommandsStep, PTL DEF Background!Spec

-----------------------------------------------------------------------------
(* 2. The producer/consumer queue.                                         *)

(* Items that rise, up to p.                                               *)
Rises(s, p) ==
  \A i \in 1 .. Len(s) : s[i] <= p /\ \A j \in 1 .. Len(s) : i < j => s[i] < s[j]

LEMMA RisesAppend ==
  ASSUME NEW s \in Seq(Nat), NEW p \in Nat, Rises(s, p)
  PROVE  Append(s, p + 1) \in Seq(Nat) /\ Rises(Append(s, p + 1), p + 1)
<1>1. /\ Append(s, p + 1) \in Seq(Nat) /\ Len(Append(s, p + 1)) = Len(s) + 1
      /\ \A i \in 1 .. Len(s) : Append(s, p + 1)[i] = s[i]
      /\ Append(s, p + 1)[Len(s) + 1] = p + 1
  OBVIOUS
<1>2. \A i \in 1 .. Len(s) : s[i] \in Nat
  OBVIOUS
<1> QED
  BY <1>1, <1>2 DEF Rises

(* What is handed out first and then what waits, when items move.          *)
LEMMA ShiftKeepsOrder ==
  ASSUME NEW r \in Seq(Nat), NEW q \in Seq(Nat), q # <<>>
  PROVE  Append(r, Head(q)) \o Tail(q) = r \o q
<1>1. /\ Append(r, Head(q)) \in Seq(Nat) /\ Tail(q) \in Seq(Nat)
      /\ Len(Append(r, Head(q))) = Len(r) + 1 /\ Len(Tail(q)) = Len(q) - 1 /\ Len(q) >= 1
  OBVIOUS
<1> DEFINE s == Append(r, Head(q)) \o Tail(q)
<1> DEFINE t == r \o q
<1>2. s \in Seq(Nat) /\ t \in Seq(Nat) /\ Len(s) = Len(t) /\ Len(t) = Len(r) + Len(q)
  BY <1>1
<1>3. ASSUME NEW i \in 1 .. Len(t) PROVE s[i] = t[i]
  <2>1. CASE i <= Len(r)
    BY <1>1, <2>1
  <2>2. CASE i = Len(r) + 1
    BY <1>1, <2>2
  <2>3. CASE i > Len(r) + 1
    <3>1. s[i] = Tail(q)[i - (Len(r) + 1)]
      BY <1>1, <1>2, <2>3
    <3>2. t[i] = q[i - Len(r)]
      BY <1>2, <2>3
    <3>3. Tail(q)[i - (Len(r) + 1)] = q[i - Len(r)]
      BY <1>1, <1>2, <2>3
    <3> QED
      BY <3>1, <3>2, <3>3
  <2> QED
    BY <1>2, <2>1, <2>2, <2>3
<1> QED
  BY <1>2, <1>3

LEMMA AppendLast ==
  ASSUME NEW r \in Seq(Nat), NEW q \in Seq(Nat), NEW x \in Nat
  PROVE  r \o Append(q, x) = Append(r \o q, x)
  OBVIOUS

(* Everything that was ever pushed and not cleared, in its order.          *)
Line == received \o queued

QueueTypes ==
  /\ queued \in Seq(Nat) /\ received \in Seq(Nat) /\ pushes \in Nat /\ closed \in BOOLEAN
  /\ resolvers \in Seq(Consumers)

(* Those that wait wait once, and are known as waiting.                    *)
WaitersKnown ==
  /\ consumer \in [Consumers -> {"ready", "waiting", "ended"}]
  /\ \A i \in 1 .. Len(resolvers) : consumer[resolvers[i]] = "waiting"
  /\ \A i, j \in 1 .. Len(resolvers) : resolvers[i] = resolvers[j] => i = j
  /\ \A c \in Consumers : consumer[c] = "waiting" => \E i \in 1 .. Len(resolvers) : resolvers[i] = c

NobodyWaits == resolvers # <<>> => queued = <<>> /\ ~closed

QueueInv == QueueTypes /\ WaitersKnown /\ NobodyWaits /\ Rises(Line, pushes)

LEMMA QueueInitOK == Queue!Init => QueueInv
<1> SUFFICES ASSUME Queue!Init PROVE QueueInv
  OBVIOUS
<1>1. Line = <<>>
  BY DEF Queue!Init, Line
<1>2. Rises(Line, pushes)
  BY <1>1 DEF Rises
<1>3. QueueTypes
  <2>1. <<>> \in Seq(Nat) /\ <<>> \in Seq(Consumers)
    OBVIOUS
  <2>2. closed \in BOOLEAN
    BY DEF Queue!Init
  <2> QED
    BY <2>1, <2>2 DEF Queue!Init, QueueTypes
<1>4. resolvers = <<>> /\ consumer = [c \in Consumers |-> "ready"]
  BY DEF Queue!Init
<1>5. WaitersKnown
  <2>1. Len(resolvers) = 0
    BY <1>4
  <2>2. \A i \in 1 .. Len(resolvers) : FALSE
    BY <2>1
  <2> QED
    BY <1>4, <2>2 DEF WaitersKnown
<1> QED
  BY <1>2, <1>3, <1>4, <1>5 DEF QueueInv, NobodyWaits

LEMMA PushStep == ASSUME QueueInv, Queue!Push PROVE QueueInv'
<1> USE DEF QueueInv, QueueTypes
<1>1. /\ ~closed /\ pushes' = pushes + 1 /\ closed' = closed
      /\ Line \in Seq(Nat) /\ Rises(Line, pushes)
  BY DEF Queue!Push, Line
<1>2. Rises(Append(Line, pushes + 1), pushes + 1)
  BY <1>1, RisesAppend
<1>3. CASE resolvers # <<>>
  <2>1. /\ resolvers' = Tail(resolvers) /\ queued' = queued /\ queued = <<>>
        /\ consumer' = [consumer EXCEPT ![Head(resolvers)] = "ready"]
        /\ received' = Append(received, pushes')
    BY <1>3 DEF Queue!Push, Queue!Serves, NobodyWaits
  <2>2. QueueTypes' /\ NobodyWaits'
    BY <1>1, <1>3, <2>1 DEF NobodyWaits
  <2>3. Line' = Append(Line, pushes + 1)
    BY <1>1, <2>1 DEF Line
  <2>4. WaitersKnown'
    <3>1. /\ Head(resolvers) = resolvers[1] /\ Len(resolvers') = Len(resolvers) - 1
          /\ Len(resolvers) >= 1 /\ Len(resolvers) \in Nat
          /\ \A i \in 1 .. Len(resolvers') : resolvers'[i] = resolvers[i + 1]
          /\ \A i \in 1 .. Len(resolvers) : resolvers[i] \in Consumers
      BY <1>3, <2>1
    <3>2. consumer' \in [Consumers -> {"ready", "waiting", "ended"}]
      BY <2>1, <3>1 DEF WaitersKnown
    <3>3. \A i \in 1 .. Len(resolvers') : consumer'[resolvers'[i]] = "waiting"
      BY <2>1, <3>1 DEF WaitersKnown
    <3>4. \A i, j \in 1 .. Len(resolvers') : resolvers'[i] = resolvers'[j] => i = j
      <4> TAKE i, j \in 1 .. Len(resolvers')
      <4>1. i + 1 \in 1 .. Len(resolvers) /\ j + 1 \in 1 .. Len(resolvers) /\ i \in Nat /\ j \in Nat
        BY <3>1
      <4>2. resolvers'[i] = resolvers[i + 1] /\ resolvers'[j] = resolvers[j + 1]
        BY <3>1
      <4>3. resolvers[i + 1] = resolvers[j + 1] => i + 1 = j + 1
        BY <4>1 DEF WaitersKnown
      <4> QED
        BY <4>1, <4>2, <4>3
    <3>5. ASSUME NEW c \in Consumers, consumer'[c] = "waiting"
          PROVE  \E i \in 1 .. Len(resolvers') : resolvers'[i] = c
      <4>1. consumer[c] = "waiting" /\ c # resolvers[1]
        BY <2>1, <3>1, <3>5 DEF WaitersKnown
      <4>2. PICK i \in 1 .. Len(resolvers) : resolvers[i] = c
        BY <4>1 DEF WaitersKnown
      <4>3. i - 1 \in 1 .. Len(resolvers') /\ resolvers'[i - 1] = c
        BY <3>1, <4>1, <4>2
      <4> QED
        BY <4>3
    <3> QED
      BY <3>2, <3>3, <3>4, <3>5 DEF WaitersKnown
  <2> QED
    BY <1>1, <1>2, <2>2, <2>3, <2>4
<1>4. CASE resolvers = <<>>
  <2>1. queued' = Append(queued, pushes + 1) /\ UNCHANGED <<resolvers, consumer, received>>
    BY <1>1, <1>4 DEF Queue!Push, Queue!Serves
  <2>2. Line' = Append(Line, pushes + 1)
    BY <1>1, <2>1, AppendLast DEF Line
  <2> QED
    BY <1>1, <1>2, <1>4, <2>1, <2>2 DEF WaitersKnown, NobodyWaits
<1> QED
  BY <1>3, <1>4

(* An item goes to a caller at once: nobody waits.                         *)
LEMMA ShiftStep ==
  ASSUME QueueInv, queued # <<>>, Queue!Shift, UNCHANGED <<resolvers, closed, consumer, pushes>>
  PROVE  QueueInv'
<1> USE DEF QueueInv, QueueTypes, Queue!Shift
<1>1. Line' = Line
  BY ShiftKeepsOrder DEF Line
<1>2. QueueTypes'
  OBVIOUS
<1> QED
  BY <1>1, <1>2 DEF WaitersKnown, NobodyWaits

LEMMA WaitStep == ASSUME QueueInv, NEW c \in Consumers, Queue!NextWaits(c) PROVE QueueInv'
<1> USE DEF QueueInv, QueueTypes
<1>1. /\ consumer[c] = "ready" /\ queued = <<>> /\ ~closed
      /\ resolvers' = Append(resolvers, c) /\ consumer' = [consumer EXCEPT ![c] = "waiting"]
      /\ UNCHANGED <<queued, closed, pushes, received>>
  BY DEF Queue!NextWaits
<1>2. /\ Len(resolvers') = Len(resolvers) + 1 /\ resolvers'[Len(resolvers) + 1] = c
      /\ \A i \in 1 .. Len(resolvers) : resolvers'[i] = resolvers[i] /\ resolvers[i] \in Consumers
      /\ Len(resolvers) \in Nat
  BY <1>1
<1>3. WaitersKnown'
  <2>1. \A i \in 1 .. Len(resolvers) : resolvers[i] # c
    BY <1>1 DEF WaitersKnown
  <2>2. consumer' \in [Consumers -> {"ready", "waiting", "ended"}]
    BY <1>1 DEF WaitersKnown
  <2>3. \A i \in 1 .. Len(resolvers') : consumer'[resolvers'[i]] = "waiting"
    BY <1>1, <1>2 DEF WaitersKnown
  <2>4. \A i, j \in 1 .. Len(resolvers') : resolvers'[i] = resolvers'[j] => i = j
    <3> TAKE i, j \in 1 .. Len(resolvers')
    <3>0. \A k \in 1 .. Len(resolvers') : k \in 1 .. Len(resolvers) \/ k = Len(resolvers) + 1
      <4>1. PICK n \in Nat : n = Len(resolvers) /\ n + 1 = Len(resolvers')
        BY <1>2
      <4>2. \A k \in 1 .. n + 1 : k \in 1 .. n \/ k = n + 1
        OBVIOUS
      <4> QED
        BY <4>1, <4>2, Zenon
    <3>1. CASE i \in 1 .. Len(resolvers) /\ j \in 1 .. Len(resolvers)
      BY <1>2, <3>1 DEF WaitersKnown
    <3>2. CASE i = Len(resolvers) + 1 /\ j \in 1 .. Len(resolvers)
      BY <1>2, <2>1, <3>2
    <3>3. CASE j = Len(resolvers) + 1 /\ i \in 1 .. Len(resolvers)
      BY <1>2, <2>1, <3>3
    <3>4. CASE i = Len(resolvers) + 1 /\ j = Len(resolvers) + 1
      BY <3>4
    <3> QED
      BY <3>0, <3>1, <3>2, <3>3, <3>4
  <2>5. ASSUME NEW d \in Consumers, consumer'[d] = "waiting"
        PROVE  \E i \in 1 .. Len(resolvers') : resolvers'[i] = d
    <3>1. CASE d = c
      BY <1>2, <3>1
    <3>2. CASE d # c
      <4>1. PICK i \in 1 .. Len(resolvers) : resolvers[i] = d
        BY <1>1, <2>5, <3>2 DEF WaitersKnown
      <4> QED
        BY <1>2, <4>1
    <3> QED
      BY <3>1, <3>2
  <2> QED
    BY <2>2, <2>3, <2>4, <2>5 DEF WaitersKnown
<1> QED
  BY <1>1, <1>3 DEF NobodyWaits, Line

(* The end of the queue, and of an iteration over what is left of it.      *)
LEMMA EndStep ==
  ASSUME QueueInv, Queue!Close \/ Queue!Clear \/ \E c \in Consumers : Queue!NextRefused(c)
  PROVE  QueueInv'
<1> USE DEF QueueInv, QueueTypes
<1>1. CASE Queue!Close
  <2>1. /\ resolvers' = <<>> /\ closed' = TRUE /\ UNCHANGED <<queued, pushes, received>>
        /\ consumer' \in [Consumers -> {"ready", "waiting", "ended"}]
    BY <1>1 DEF Queue!Close, WaitersKnown
  <2>2. \A c \in Consumers : consumer'[c] # "waiting"
    <3> TAKE c \in Consumers
    <3>1. CASE consumer[c] = "waiting"
      <4>1. c \in Queue!ToSet(resolvers)
        BY <3>1 DEF WaitersKnown, Queue!ToSet
      <4> QED
        BY <1>1, <4>1 DEF Queue!Close
    <3>2. CASE consumer[c] # "waiting"
      BY <1>1, <3>2 DEF Queue!Close
    <3> QED
      BY <3>1, <3>2
  <2> QED
    BY <2>1, <2>2 DEF WaitersKnown, NobodyWaits, Line
<1>2. CASE Queue!Clear
  <2>1. queued' = <<>> /\ UNCHANGED <<resolvers, closed, consumer, pushes, received>>
    BY <1>2 DEF Queue!Clear
  <2>2. Rises(Line', pushes)
    <3>1. /\ Line' = received /\ Len(Line) >= Len(received)
          /\ \A i \in 1 .. Len(received) : Line[i] = received[i]
          /\ Len(received) \in Nat /\ Len(Line) \in Nat
      BY <2>1 DEF Line
    <3>2. ASSUME NEW i \in 1 .. Len(received)
          PROVE  /\ received[i] <= pushes
                 /\ \A j \in 1 .. Len(received) : i < j => received[i] < received[j]
      <4>1. i \in 1 .. Len(Line) /\ \A j \in 1 .. Len(received) : j \in 1 .. Len(Line)
        BY <3>1
      <4>2. /\ Line[i] <= pushes
            /\ \A j \in 1 .. Len(Line) : i < j => Line[i] < Line[j]
        BY <4>1 DEF Rises
      <4> QED
        BY <3>1, <4>1, <4>2
    <3>3. Rises(received, pushes)
      BY <3>2 DEF Rises
    <3> QED
      BY <3>1, <3>3
  <2> QED
    BY <2>1, <2>2 DEF WaitersKnown, NobodyWaits
<1>3. CASE \E c \in Consumers : Queue!NextRefused(c)
  <2>1. PICK c \in Consumers : Queue!NextRefused(c)
    BY <1>3
  <2>2. /\ consumer[c] = "ready" /\ UNCHANGED <<queued, resolvers, closed, pushes, received>>
        /\ \E s \in {"ended", "ready"} : consumer' = [consumer EXCEPT ![c] = s]
    BY <2>1 DEF Queue!NextRefused
  <2>3. \A i \in 1 .. Len(resolvers) : resolvers[i] \in Consumers /\ resolvers[i] # c
    BY <2>2 DEF WaitersKnown
  <2>4. WaitersKnown'
    BY <2>2, <2>3 DEF WaitersKnown
  <2> QED
    BY <2>2, <2>4 DEF NobodyWaits, Line
<1> QED
  BY <1>1, <1>2, <1>3

LEMMA QueueNextStep ==
  QueueInv /\ [Queue!Next]_Queue!asyncQueueVars => QueueInv'
<1> SUFFICES ASSUME QueueInv, [Queue!Next]_Queue!asyncQueueVars
             PROVE  QueueInv'
  OBVIOUS
<1>1. CASE UNCHANGED Queue!asyncQueueVars
  BY <1>1 DEF Queue!asyncQueueVars, QueueInv, QueueTypes, WaitersKnown, NobodyWaits, Line
<1> QED
  BY <1>1, PushStep, ShiftStep, WaitStep, EndStep DEF Queue!Next, Queue!TryNext, Queue!NextTakes

LEMMA QueueServes == QueueInv => Queue!NobodyWaitsForNothing
<1> SUFFICES ASSUME QueueInv PROVE Queue!NobodyWaitsForNothing
  OBVIOUS
<1>1. received \o queued \in Seq(Nat)
  BY DEF QueueInv, QueueTypes
<1>2. DOMAIN (received \o queued) = 1 .. Len(received \o queued)
  BY <1>1
<1> QED
  BY <1>2 DEF QueueInv, NobodyWaits, Rises, Line, Queue!NobodyWaitsForNothing

(* The queue's inductive invariant (core/queue/async-queue.ts).            *)
THEOREM QueueCorrect == Queue!Spec => []QueueInv
  BY QueueInitOK, QueueNextStep, PTL DEF Queue!Spec

-----------------------------------------------------------------------------
(* 3. The worker pool: first a deque, then the lines of work, then the pool. *)

(* Remainders: what lies in a window shorter than the array has a place of *)
(* its own in it.                                                          *)
LEMMA Place ==
  ASSUME NEW i \in Int, NEW c \in Int, c > 0
  PROVE  i % c \in 0 .. c - 1 /\ i \div c \in Int /\ i = c * (i \div c) + (i % c)
<1>1. i % c \in 0 .. c - 1 /\ i \div c \in Int
  OBVIOUS
<1>2. i = c * (i \div c) + (i % c)
  OBVIOUS
<1> QED
  BY <1>1, <1>2

LEMMA PlacesDiffer ==
  ASSUME NEW c \in Nat \ {0}, NEW i \in Nat, NEW j \in Nat, i < j, j - i < c
  PROVE  i % c # j % c
<1> DEFINE a == i \div c
<1> DEFINE b == j \div c
<1> DEFINE p == i % c
<1> DEFINE q == j % c
<1>1. /\ a \in Int /\ b \in Int /\ p \in Int /\ q \in Int
      /\ i = c * a + p /\ j = c * b + q
  BY Place
<1> HIDE DEF a, b, p, q
<1>2. SUFFICES ASSUME p = q PROVE FALSE
  BY DEF p, q
<1>3. c * b - c * a = j - i
  BY <1>1, <1>2
<1>4. c * b - c * a = c * (b - a)
  BY <1>1
<1>5. CASE b <= a
  <2>1. a - b \in Nat
    BY <1>1, <1>5
  <2>2. c * (a - b) >= 0
    BY <2>1
  <2>3. c * (a - b) = c * a - c * b
    BY <1>1
  <2> QED
    BY <1>1, <1>3, <2>2, <2>3
<1>6. CASE b >= a + 1
  <2>1. b - a >= 1 /\ b - a \in Int
    BY <1>1, <1>6
  <2>2. c * (b - a) >= c
    BY <2>1
  <2> QED
    BY <1>3, <1>4, <2>2
<1> QED
  BY <1>1, <1>5, <1>6

(* A deque is a window of indices on an array that is longer.              *)
DequeOK(d) ==
  /\ d.top \in Nat /\ d.bottom \in Nat /\ d.capacity \in Nat \ {0}
  /\ d.top <= d.bottom /\ d.bottom - d.top < d.capacity
  /\ d.items \in [0 .. d.capacity - 1 -> Nat]
  /\ d = [top |-> d.top, bottom |-> d.bottom, capacity |-> d.capacity, items |-> d.items]

Window(d) == d.top .. d.bottom - 1

(* What a deque holds, the oldest first.                                   *)
Contents(d) == [k \in 1 .. Work!Size(d) |-> Work!Get(d, d.top + k - 1)]

LEMMA WindowPlace ==
  ASSUME NEW d, DequeOK(d), NEW i \in Nat
  PROVE  i % d.capacity \in 0 .. d.capacity - 1 /\ Work!Get(d, i) \in Nat
<1>1. i % d.capacity \in 0 .. d.capacity - 1
  BY Place DEF DequeOK
<1> QED
  BY <1>1 DEF DequeOK, Work!Get

LEMMA ContentsSequence ==
  ASSUME NEW d, DequeOK(d)
  PROVE  /\ Contents(d) \in Seq(Nat) /\ Len(Contents(d)) = d.bottom - d.top
         /\ Work!Size(d) = d.bottom - d.top /\ Work!Size(d) \in Nat
         /\ \A k \in 1 .. Work!Size(d) : Contents(d)[k] = Work!Get(d, d.top + k - 1)
<1>1. Work!Size(d) = d.bottom - d.top /\ Work!Size(d) \in Nat
  BY DEF Work!Size, DequeOK
<1>2. ASSUME NEW k \in 1 .. Work!Size(d)
      PROVE  Work!Get(d, d.top + k - 1) \in Nat
  <2>1. d.top + k - 1 \in Nat
    BY <1>1 DEF DequeOK
  <2> QED
    BY <2>1, WindowPlace
<1>3. Contents(d) \in [1 .. Work!Size(d) -> Nat]
  BY <1>2 DEF Contents
<1> QED
  BY <1>1, <1>3 DEF Contents

(* Deques with the same indices and the same items there hold the same.    *)
LEMMA SameContents ==
  ASSUME NEW d, DequeOK(d), NEW e, DequeOK(e), e.top = d.top, e.bottom = d.bottom,
         \A i \in Window(d) : Work!Get(e, i) = Work!Get(d, i)
  PROVE  Contents(e) = Contents(d)
<1>1. Work!Size(e) = Work!Size(d) /\ Work!Size(d) \in Nat /\ Work!Size(d) = d.bottom - d.top
  BY ContentsSequence
<1>2. ASSUME NEW k \in 1 .. Work!Size(d)
      PROVE  Work!Get(e, e.top + k - 1) = Work!Get(d, d.top + k - 1)
  <2>1. d.top + k - 1 \in Window(d)
    BY <1>1 DEF Window, DequeOK
  <2> QED
    BY <2>1
<1> QED
  BY <1>1, <1>2 DEF Contents

(* grow(): the longer array has every item at the place of its index.      *)
LEMMA GrowKeeps ==
  ASSUME NEW d, DequeOK(d)
  PROVE  /\ DequeOK(Work!Grow(d))
         /\ Work!Grow(d).top = d.top /\ Work!Grow(d).bottom = d.bottom
         /\ Work!Grow(d).capacity = 2 * d.capacity
         /\ Contents(Work!Grow(d)) = Contents(d)
<1> DEFINE c == 2 * d.capacity
<1> DEFINE at(k) == { i \in d.top .. d.bottom - 1 : i % c = k }
<1> DEFINE array == [k \in 0 .. c - 1 |->
                       IF at(k) = {} THEN 0 ELSE Work!Get(d, CHOOSE i \in at(k) : TRUE)]
<1> DEFINE g == [top |-> d.top, bottom |-> d.bottom, capacity |-> c, items |-> array]
<1>1. /\ c \in Nat \ {0} /\ d.bottom - d.top < c /\ d.top \in Nat /\ d.bottom \in Nat
      /\ d.top <= d.bottom /\ \A i \in Window(d) : i \in Nat
  BY DEF DequeOK, Window
<1>2. Work!Grow(d) = g
  <2>1. Work!Grow(d) = [d EXCEPT !.capacity = c, !.items = array]
    BY DEF Work!Grow
  <2> HIDE DEF array
  <2> QED
    BY <2>1 DEF DequeOK
<1>3. ASSUME NEW k, at(k) # {} PROVE (CHOOSE i \in at(k) : TRUE) \in at(k)
  BY <1>3
<1>4. ASSUME NEW k \in 0 .. c - 1 PROVE array[k] \in Nat
  <2>1. CASE at(k) = {}
    BY <2>1
  <2>2. CASE at(k) # {}
    <3>1. (CHOOSE i \in at(k) : TRUE) \in at(k)
      BY <2>2, <1>3
    <3>2. (CHOOSE i \in at(k) : TRUE) \in Nat
      BY <1>1, <3>1 DEF Window
    <3>3. Work!Get(d, CHOOSE i \in at(k) : TRUE) \in Nat
      BY <3>2, WindowPlace
    <3> HIDE DEF at
    <3> QED
      BY <2>2, <3>3
  <2> QED
    BY <2>1, <2>2
<1>5. DequeOK(g)
  <2>1. array \in [0 .. c - 1 -> Nat]
    BY <1>4
  <2> HIDE DEF array, c
  <2> QED
    BY <1>1, <2>1 DEF DequeOK
<1>6. ASSUME NEW i \in Window(d)
      PROVE  array[i % c] = Work!Get(d, i)
  <2>1. i \in Nat /\ i % c \in 0 .. c - 1
    <3>1. i \in Nat
      BY <1>1
    <3> HIDE DEF c
    <3> QED
      BY <1>1, <3>1, Place
  <2>2. i \in at(i % c)
    BY DEF Window
  <2>3. ASSUME NEW j \in at(i % c)
        PROVE  j = i
    <3>1. j \in Nat /\ j % c = i % c /\ j \in d.top .. d.bottom - 1
      BY <1>1 DEF Window
    <3> HIDE DEF c
    <3>2. CASE i < j
      <4>1. j - i < c
        BY <1>1, <2>1, <3>1 DEF Window
      <4> QED
        BY <1>1, <2>1, <3>1, <3>2, <4>1, PlacesDiffer
    <3>3. CASE j < i
      <4>1. i - j < c
        BY <1>1, <2>1, <3>1 DEF Window
      <4> QED
        BY <1>1, <2>1, <3>1, <3>3, <4>1, PlacesDiffer
    <3> QED
      BY <2>1, <3>1, <3>2, <3>3
  <2>4. (CHOOSE j \in at(i % c) : TRUE) = i
    <3>1. at(i % c) # {}
      BY <2>2
    <3> QED
      BY <1>3, <2>3, <3>1
  <2>5. array[i % c] = IF at(i % c) = {} THEN 0
                       ELSE Work!Get(d, CHOOSE j \in at(i % c) : TRUE)
    <3> HIDE DEF at
    <3> QED
      BY <2>1
  <2> HIDE DEF at, array
  <2> QED
    BY <2>2, <2>4, <2>5
<1>7. \A i \in Window(d) : Work!Get(g, i) = Work!Get(d, i)
  <2> HIDE DEF array, c
  <2> QED
    BY <1>6 DEF Work!Get
<1>8. g.top = d.top /\ g.bottom = d.bottom /\ g.capacity = c
  OBVIOUS
<1> HIDE DEF g
<1>9. Contents(g) = Contents(d)
  BY <1>5, <1>7, <1>8, SameContents
<1> QED
  BY <1>2, <1>5, <1>8, <1>9

LEMMA Appended ==
  ASSUME NEW s \in Seq(Nat), NEW t \in Seq(Nat), NEW i \in Nat, Len(t) = Len(s) + 1,
         \A k \in 1 .. Len(s) : t[k] = s[k], t[Len(s) + 1] = i
  PROVE  t = Append(s, i)
<1>1. Append(s, i) \in Seq(Nat) /\ Len(Append(s, i)) = Len(s) + 1 /\ Len(s) \in Nat
  OBVIOUS
<1>2. \A k \in 1 .. Len(s) + 1 : t[k] = Append(s, i)[k]
  <2> TAKE k \in 1 .. Len(s) + 1
  <2>1. k \in 1 .. Len(s) \/ k = Len(s) + 1
    BY <1>1
  <2> QED
    BY <2>1
<1> QED
  BY <1>1, <1>2, SeqEqual

(* push(): the new item is the newest; the array has grown if it must.     *)
LEMMA Pushed ==
  ASSUME NEW d, DequeOK(d), NEW item \in Nat
  PROVE  /\ DequeOK(Work!Push(d, item))
         /\ Contents(Work!Push(d, item)) = Append(Contents(d), item)
<1> DEFINE h == IF d.bottom - d.top >= d.capacity - 1 THEN Work!Grow(d) ELSE d
<1>1. /\ DequeOK(h) /\ Contents(h) = Contents(d)
      /\ h.bottom - h.top < h.capacity - 1
  <2>1. CASE d.bottom - d.top >= d.capacity - 1
    <3>1. h = Work!Grow(d)
      BY <2>1
    <3>2. Work!Grow(d).bottom - Work!Grow(d).top < Work!Grow(d).capacity - 1
      BY GrowKeeps DEF DequeOK
    <3> QED
      BY <3>1, <3>2, GrowKeeps
  <2>2. CASE ~(d.bottom - d.top >= d.capacity - 1)
    BY <2>2 DEF DequeOK
  <2> QED
    BY <2>1, <2>2
<1>2. Work!Push(d, item) = [h EXCEPT !.items[h.bottom % h.capacity] = item, !.bottom = @ + 1]
  BY DEF Work!Push
<1> HIDE DEF h
<1> DEFINE b == h.bottom
<1> DEFINE c == h.capacity
<1> DEFINE r == [top |-> h.top, bottom |-> b + 1, capacity |-> c,
                 items |-> [h.items EXCEPT ![b % c] = item]]
<1>3. Work!Push(d, item) = r
  BY <1>1, <1>2 DEF DequeOK
<1>4. /\ b \in Nat /\ c \in Nat \ {0} /\ b % c \in 0 .. c - 1 /\ h.top \in Nat /\ h.top <= b
      /\ h.items \in [0 .. c - 1 -> Nat] /\ b - h.top < c - 1
  BY <1>1, WindowPlace DEF DequeOK
<1>5. r.items \in [0 .. c - 1 -> Nat] /\ r.items[b % c] = item
  BY <1>4
<1>6. DequeOK(r)
  <2>1. b + 1 \in Nat /\ h.top <= b + 1 /\ (b + 1) - h.top < c
    BY <1>4
  <2> DEFINE array == [h.items EXCEPT ![b % c] = item]
  <2>2. array \in [0 .. c - 1 -> Nat]
    BY <1>5
  <2> HIDE DEF array, b, c
  <2> QED
    BY <1>4, <2>1, <2>2 DEF DequeOK
<1>7. ASSUME NEW i \in Window(h)
      PROVE  Work!Get(r, i) = Work!Get(h, i)
  <2>1. i \in Nat /\ i < b /\ b - i < c
    BY <1>4 DEF Window
  <2> HIDE DEF b, c
  <2>2. i % c # b % c
    BY <1>4, <2>1, PlacesDiffer
  <2>3. i % c \in 0 .. c - 1
    BY <1>4, <2>1, Place
  <2> QED
    BY <1>4, <2>2, <2>3 DEF Work!Get, c
<1>8. Work!Get(r, b) = item
  BY <1>5 DEF Work!Get
<1>9. r.top = h.top /\ r.bottom = b + 1
  OBVIOUS
<1> HIDE DEF r
<1>10. /\ Contents(h) \in Seq(Nat) /\ Contents(r) \in Seq(Nat)
       /\ Len(Contents(h)) = b - h.top /\ Len(Contents(r)) = Len(Contents(h)) + 1
       /\ Work!Size(r) = Len(Contents(r)) /\ Work!Size(h) = Len(Contents(h))
       /\ Len(Contents(h)) \in Nat
  BY <1>1, <1>4, <1>6, <1>9, ContentsSequence
<1>11. ASSUME NEW k \in 1 .. Len(Contents(h))
       PROVE  Contents(r)[k] = Contents(h)[k]
  <2>0. k \in Nat /\ 1 <= k /\ k <= b - h.top /\ k \in 1 .. Len(Contents(r))
    BY <1>10
  <2>1. h.top + k - 1 \in Window(h)
    BY <1>4, <2>0 DEF Window
  <2>2. Contents(r)[k] = Work!Get(r, r.top + k - 1) /\ Contents(h)[k] = Work!Get(h, h.top + k - 1)
    BY <1>1, <1>6, <1>10, <2>0, ContentsSequence
  <2> QED
    BY <1>7, <1>9, <2>1, <2>2
<1>12. Contents(r)[Len(Contents(h)) + 1] = item
  <2>1. Len(Contents(h)) + 1 \in 1 .. Work!Size(r) /\ r.top + (Len(Contents(h)) + 1) - 1 = b
    BY <1>4, <1>9, <1>10
  <2> QED
    BY <1>6, <1>8, <2>1, ContentsSequence
<1>13. Contents(r) = Append(Contents(h), item)
  <2> HIDE DEF b
  <2> QED
    BY <1>10, <1>11, <1>12, Appended
<1> QED
  BY <1>1, <1>3, <1>6, <1>13

LEMMA Shifted ==
  ASSUME NEW a \in Nat, NEW t \in Nat, NEW b \in Nat, NEW z \in Nat, a <= t, t <= b, b <= z
  PROVE  /\ t - a + 1 \in Int /\ b - a \in Int
         /\ \A k \in (t - a + 1) .. (b - a) : k \in 1 .. z - a
         /\ (b - a) - (t - a + 1) + 1 = b - t
         /\ ~(t - a + 1 <= b - a) => b - t = 0
         /\ \A k \in 1 .. b - t : /\ (t - a + 1) + k - 1 = k + (t - a)
                                 /\ k + (t - a) \in 1 .. z - a
                                 /\ t + k - 1 \in Nat
                                 /\ a + (k + (t - a)) - 1 = t + k - 1
<1>1. t - a + 1 \in Int /\ b - a \in Int
  OBVIOUS
<1>2. ASSUME NEW k \in (t - a + 1) .. (b - a) PROVE k \in 1 .. z - a
  BY <1>2
<1>3. (b - a) - (t - a + 1) + 1 = b - t
  OBVIOUS
<1>4. ~(t - a + 1 <= b - a) => b - t = 0
  OBVIOUS
<1>5. ASSUME NEW k \in 1 .. b - t
      PROVE  /\ (t - a + 1) + k - 1 = k + (t - a) /\ k + (t - a) \in 1 .. z - a
             /\ t + k - 1 \in Nat /\ a + (k + (t - a)) - 1 = t + k - 1
  BY <1>5
<1> QED
  BY <1>1, <1>2, <1>3, <1>4, <1>5

(* A deque whose window shrinks loses what is at its ends.                 *)
LEMMA Narrowed ==
  ASSUME NEW d, DequeOK(d), NEW t \in Nat, NEW b \in Nat,
         d.top <= t, t <= b, b <= d.bottom
  PROVE  LET e == [top |-> t, bottom |-> b, capacity |-> d.capacity, items |-> d.items]
         IN  /\ DequeOK(e)
             /\ Contents(e) = SubSeq(Contents(d), t - d.top + 1, b - d.top)
<1> DEFINE e == [top |-> t, bottom |-> b, capacity |-> d.capacity, items |-> d.items]
<1> DEFINE s == Contents(d)
<1>1. DequeOK(e)
  BY DEF DequeOK
<1>2. e.top = t /\ e.bottom = b /\ \A i \in Nat : Work!Get(e, i) = Work!Get(d, i)
  BY DEF Work!Get
<1> HIDE DEF e
<1>3. /\ s \in Seq(Nat) /\ Len(s) = d.bottom - d.top /\ Work!Size(d) = Len(s)
      /\ Contents(e) \in Seq(Nat) /\ Len(Contents(e)) = b - t /\ Work!Size(e) = b - t
      /\ d.top \in Nat /\ d.bottom \in Nat
  BY <1>1, <1>2, ContentsSequence DEF DequeOK
<1> HIDE DEF s
<1> DEFINE u == SubSeq(s, t - d.top + 1, b - d.top)
<1>4. /\ t - d.top + 1 \in Int /\ b - d.top \in Int
      /\ \A k \in (t - d.top + 1) .. (b - d.top) : k \in 1 .. d.bottom - d.top
      /\ (b - d.top) - (t - d.top + 1) + 1 = b - t
      /\ ~(t - d.top + 1 <= b - d.top) => b - t = 0
      /\ \A k \in 1 .. b - t : /\ (t - d.top + 1) + k - 1 = k + (t - d.top)
                              /\ k + (t - d.top) \in 1 .. d.bottom - d.top
                              /\ t + k - 1 \in Nat
                              /\ d.top + (k + (t - d.top)) - 1 = t + k - 1
  <2>1. PICK a \in Nat, z \in Nat : a = d.top /\ z = d.bottom
    BY <1>3
  <2>2. a <= t /\ b <= z
    BY <2>1
  <2>3. /\ t - a + 1 \in Int /\ b - a \in Int
        /\ \A k \in (t - a + 1) .. (b - a) : k \in 1 .. z - a
        /\ (b - a) - (t - a + 1) + 1 = b - t
        /\ ~(t - a + 1 <= b - a) => b - t = 0
        /\ \A k \in 1 .. b - t : /\ (t - a + 1) + k - 1 = k + (t - a)
                                /\ k + (t - a) \in 1 .. z - a
                                /\ t + k - 1 \in Nat
                                /\ a + (k + (t - a)) - 1 = t + k - 1
    BY <2>2, Shifted
  <2> QED
    BY <2>1, <2>3, Zenon
<1>5. /\ u \in Seq(Nat) /\ Len(u) = b - t
      /\ \A k \in 1 .. b - t : u[k] = s[k + (t - d.top)]
  <2>1. \A k \in (t - d.top + 1) .. (b - d.top) : s[k] \in Nat
    <3>1. \A k \in (t - d.top + 1) .. (b - d.top) : k \in 1 .. Len(s)
      BY <1>3, <1>4, Zenon
    <3>2. \A k \in 1 .. Len(s) : s[k] \in Nat
      BY <1>3
    <3> QED
      BY <3>1, <3>2, Zenon
  <2>2. /\ u \in Seq(Nat)
        /\ Len(u) = IF t - d.top + 1 <= b - d.top THEN (b - d.top) - (t - d.top + 1) + 1 ELSE 0
        /\ \A k \in 1 .. (b - d.top) - (t - d.top + 1) + 1 : u[k] = s[(t - d.top + 1) + k - 1]
    BY <1>4, <2>1, SubSeqProperties
  <2>3. Len(u) = b - t
    BY <1>4, <2>2, Zenon
  <2>4. \A k \in 1 .. b - t : u[k] = s[(t - d.top + 1) + k - 1]
    BY <1>4, <2>2, Zenon
  <2>5. \A k \in 1 .. b - t : u[k] = s[k + (t - d.top)]
    BY <1>4, <2>4, Zenon
  <2> QED
    BY <2>2, <2>3, <2>5
<1>6. ASSUME NEW k \in 1 .. b - t
      PROVE  Contents(e)[k] = u[k]
  <2>1. k + (t - d.top) \in 1 .. Work!Size(d) /\ k \in 1 .. Work!Size(e) /\ t + k - 1 \in Nat
        /\ d.top + (k + (t - d.top)) - 1 = t + k - 1
    BY <1>3, <1>4
  <2>2. Contents(e)[k] = Work!Get(e, t + k - 1)
    BY <1>1, <1>2, <2>1, ContentsSequence
  <2>3. s[k + (t - d.top)] = Work!Get(d, t + k - 1)
    BY <2>1, ContentsSequence DEF s
  <2> QED
    BY <1>2, <1>5, <2>1, <2>2, <2>3
<1> HIDE DEF u
<1>7. Contents(e) = u
  BY <1>3, <1>5, <1>6, SeqEqual
<1> QED
  BY <1>1, <1>7 DEF e, u, s

(* pop() takes the newest item, steal() the oldest.                        *)
LEMMA Popped ==
  ASSUME NEW d, DequeOK(d), Work!Size(d) > 0
  PROVE  LET s == Contents(d)
         IN  /\ DequeOK(Work!Pop(d).deque) /\ Len(s) \in Nat \ {0}
             /\ Work!Pop(d).item = s[Len(s)]
             /\ Contents(Work!Pop(d).deque) = SubSeq(s, 1, Len(s) - 1)
<1> DEFINE s == Contents(d)
<1>1. /\ s \in Seq(Nat) /\ Len(s) = d.bottom - d.top /\ Work!Size(d) = Len(s)
      /\ Len(s) \in Nat \ {0} /\ d.top \in Nat /\ d.bottom \in Nat
  BY ContentsSequence DEF DequeOK
<1>2. Work!Pop(d).item = s[Len(s)]
  <2>1. d.top + Len(s) - 1 = d.bottom - 1 /\ Len(s) \in 1 .. Work!Size(d)
    BY <1>1
  <2>2. s[Len(s)] = Work!Get(d, d.bottom - 1)
    BY <2>1, ContentsSequence
  <2> QED
    BY <2>2 DEF Work!Pop
<1>3. CASE Work!Size(d) = 1
  <2> DEFINE e == [top |-> d.top + 1, bottom |-> d.bottom, capacity |-> d.capacity,
                   items |-> d.items]
  <2>1. Work!Pop(d).deque = e
    BY <1>3 DEF Work!Pop, DequeOK
  <2>2. d.top + 1 \in Nat /\ d.top <= d.top + 1 /\ d.top + 1 <= d.bottom /\ d.bottom <= d.bottom
    BY <1>1, <1>3
  <2>3. DequeOK(e) /\ Contents(e) = SubSeq(s, (d.top + 1) - d.top + 1, d.bottom - d.top)
    BY <1>1, <2>2, Narrowed
  <2>4. (d.top + 1) - d.top + 1 = 2 /\ d.bottom - d.top = 1 /\ Len(s) - 1 = 0
    BY <1>1, <1>3
  <2> HIDE DEF s, e
  <2>5. SubSeq(s, 2, 1) = <<>> /\ SubSeq(s, 1, 0) = <<>>
    BY SubSeqEmpty
  <2> QED
    BY <1>1, <1>2, <2>1, <2>3, <2>4, <2>5 DEF s
<1>4. CASE Work!Size(d) # 1
  <2> DEFINE e == [top |-> d.top, bottom |-> d.bottom - 1, capacity |-> d.capacity,
                   items |-> d.items]
  <2>1. Work!Pop(d).deque = e
    BY <1>4 DEF Work!Pop, DequeOK
  <2>2. d.bottom - 1 \in Nat /\ d.top <= d.top /\ d.top <= d.bottom - 1 /\ d.bottom - 1 <= d.bottom
    BY <1>1, <1>4
  <2>3. DequeOK(e) /\ Contents(e) = SubSeq(s, d.top - d.top + 1, (d.bottom - 1) - d.top)
    BY <1>1, <2>2, Narrowed
  <2>4. d.top - d.top + 1 = 1 /\ (d.bottom - 1) - d.top = Len(s) - 1
    BY <1>1
  <2> HIDE DEF s, e
  <2> QED
    BY <1>1, <1>2, <2>1, <2>3, <2>4 DEF s
<1> QED
  BY <1>3, <1>4

LEMMA Stolen ==
  ASSUME NEW d, DequeOK(d), Work!Size(d) > 0
  PROVE  LET s == Contents(d)
         IN  /\ DequeOK(Work!Steal(d).deque) /\ Len(s) \in Nat \ {0}
             /\ Work!Steal(d).item = s[1]
             /\ Contents(Work!Steal(d).deque) = SubSeq(s, 2, Len(s))
<1> DEFINE s == Contents(d)
<1>1. /\ s \in Seq(Nat) /\ Len(s) = d.bottom - d.top /\ Work!Size(d) = Len(s)
      /\ Len(s) \in Nat \ {0} /\ d.top \in Nat /\ d.bottom \in Nat
  BY ContentsSequence DEF DequeOK
<1>2. Work!Steal(d).item = s[1]
  <2>1. d.top + 1 - 1 = d.top /\ 1 \in 1 .. Work!Size(d)
    BY <1>1
  <2>2. s[1] = Work!Get(d, d.top)
    BY <2>1, ContentsSequence
  <2> QED
    BY <2>2 DEF Work!Steal
<1> DEFINE e == [top |-> d.top + 1, bottom |-> d.bottom, capacity |-> d.capacity,
                 items |-> d.items]
<1>3. Work!Steal(d).deque = e
  BY DEF Work!Steal, DequeOK
<1>4. d.top + 1 \in Nat /\ d.top <= d.top + 1 /\ d.top + 1 <= d.bottom /\ d.bottom <= d.bottom
  BY <1>1
<1>5. DequeOK(e) /\ Contents(e) = SubSeq(s, (d.top + 1) - d.top + 1, d.bottom - d.top)
  BY <1>1, <1>4, Narrowed
<1>6. (d.top + 1) - d.top + 1 = 2 /\ d.bottom - d.top = Len(s)
  BY <1>1
<1> HIDE DEF s, e
<1> QED
  BY <1>1, <1>2, <1>3, <1>5, <1>6 DEF s

-----------------------------------------------------------------------------
(* The lines of work.  q are what the workers have, the oldest first, and  *)
(* H what is being executed.                                               *)

(* No item is in two places.                                               *)
Apart(q, H) ==
  \A w \in WorkerIds : \A k \in 1 .. Len(q[w]) :
    /\ q[w][k] \in Items /\ q[w][k] \notin H
    /\ \A v \in WorkerIds : \A j \in 1 .. Len(q[v]) : q[v][j] = q[w][k] => v = w /\ j = k

OnLines(q, i) == \E w \in WorkerIds : \E k \in 1 .. Len(q[w]) : q[w][k] = i

AppendedTo(q, w, i) == [q EXCEPT ![w] = Append(@, i)]
(* All but one end of a sequence of length n: a .. b are left, m is taken. *)
AtAnEnd(n, a, b, m) ==
  /\ n \in Nat \ {0} /\ a \in Nat /\ b \in Nat /\ m \in Nat
  /\ (a = 1 /\ b = n - 1 /\ m = n) \/ (a = 2 /\ b = n /\ m = 1)
TakenFrom(q, w, a, b) == [q EXCEPT ![w] = SubSeq(q[w], a, b)]

LEMMA AppendKeepsApart ==
  ASSUME NEW q \in [WorkerIds -> Seq(Nat)], NEW H, Apart(q, H),
         NEW w \in WorkerIds, NEW i \in Items, i \notin H, ~OnLines(q, i),
         NEW p, p = AppendedTo(q, w, i)
  PROVE  /\ Apart(p, H)
         /\ \A j : OnLines(p, j) <=> OnLines(q, j) \/ j = i
<1>1. /\ i \in Nat /\ q[w] \in Seq(Nat) /\ Len(q[w]) \in Nat /\ p[w] = Append(q[w], i)
      /\ \A v \in WorkerIds : v # w => p[v] = q[v]
  BY WorkAssumption DEF AppendedTo
<1>2. /\ Len(p[w]) = Len(q[w]) + 1 /\ p[w][Len(q[w]) + 1] = i
      /\ \A k \in 1 .. Len(q[w]) : p[w][k] = q[w][k]
  BY <1>1
<1>3. \A k \in 1 .. Len(p[w]) : k \in 1 .. Len(q[w]) \/ k = Len(q[w]) + 1
  <2>1. PICK n \in Nat : n = Len(q[w]) /\ n + 1 = Len(p[w])
    BY <1>1, <1>2
  <2>2. \A k \in 1 .. n + 1 : k \in 1 .. n \/ k = n + 1
    OBVIOUS
  <2> QED
    BY <2>1, <2>2, Zenon
<1>4. \A k \in 1 .. Len(q[w]) : k \in 1 .. Len(p[w])
  BY <1>1, <1>2
<1>5. Len(q[w]) + 1 \in 1 .. Len(p[w])
  BY <1>1, <1>2
<1>6. ASSUME NEW v \in WorkerIds, NEW k \in 1 .. Len(p[v])
      PROVE  \/ k \in 1 .. Len(q[v]) /\ p[v][k] = q[v][k]
             \/ v = w /\ k = Len(q[w]) + 1 /\ p[v][k] = i
  <2>1. CASE v = w
    BY <1>2, <1>3, <1>6, <2>1
  <2>2. CASE v # w
    BY <1>1, <1>6, <2>2
  <2> QED
    BY <2>1, <2>2
<1>7. Apart(p, H)
  <2> SUFFICES ASSUME NEW v \in WorkerIds, NEW k \in 1 .. Len(p[v])
               PROVE  /\ p[v][k] \in Items /\ p[v][k] \notin H
                      /\ \A u \in WorkerIds : \A j \in 1 .. Len(p[u]) :
                           p[u][j] = p[v][k] => u = v /\ j = k
    BY DEF Apart
  <2>1. p[v][k] \in Items /\ p[v][k] \notin H
    BY <1>6 DEF Apart
  <2>2. ASSUME NEW u \in WorkerIds, NEW j \in 1 .. Len(p[u]), p[u][j] = p[v][k]
        PROVE  u = v /\ j = k
    <3>1. \/ j \in 1 .. Len(q[u]) /\ p[u][j] = q[u][j]
          \/ u = w /\ j = Len(q[w]) + 1 /\ p[u][j] = i
      BY <1>6
    <3>2. \/ k \in 1 .. Len(q[v]) /\ p[v][k] = q[v][k]
          \/ v = w /\ k = Len(q[w]) + 1 /\ p[v][k] = i
      BY <1>6
    <3> QED
      BY <2>2, <3>1, <3>2 DEF Apart, OnLines
  <2> QED
    BY <2>1, <2>2
<1>8. ASSUME NEW j, OnLines(p, j) PROVE OnLines(q, j) \/ j = i
  BY <1>6, <1>8 DEF OnLines
<1>9. ASSUME NEW j, OnLines(q, j) PROVE OnLines(p, j)
  <2>1. PICK v \in WorkerIds : \E k \in 1 .. Len(q[v]) : q[v][k] = j
    BY <1>9 DEF OnLines
  <2>2. PICK k \in 1 .. Len(q[v]) : q[v][k] = j
    BY <2>1
  <2>3. k \in 1 .. Len(p[v]) /\ p[v][k] = j
    <3>1. CASE v = w
      BY <1>2, <1>4, <2>2, <3>1
    <3>2. CASE v # w
      BY <1>1, <2>2, <3>2
    <3> QED
      BY <3>1, <3>2
  <2> QED
    BY <2>3 DEF OnLines
<1>10. OnLines(p, i)
  BY <1>2, <1>5 DEF OnLines
<1> QED
  BY <1>7, <1>8, <1>9, <1>10

(* An item is taken at one end.                                            *)
TakesApart(q, H, p, i) ==
  /\ i \in Items /\ i \notin H
  /\ Apart(p, H \cup {i})
  /\ \A j : OnLines(q, j) <=> OnLines(p, j) \/ j = i

LEMMA TakingKeepsApart ==
  ASSUME NEW q \in [WorkerIds -> Seq(Nat)], NEW H, Apart(q, H),
         NEW w \in WorkerIds, NEW n, n = Len(q[w]),
         NEW a, NEW b, NEW m, AtAnEnd(n, a, b, m),
         NEW p, p = TakenFrom(q, w, a, b)
  PROVE  TakesApart(q, H, p, q[w][m])
<1> DEFINE off(v) == IF v = w THEN a - 1 ELSE 0
<1> USE DEF AtAnEnd
<1>1. /\ q[w] \in Seq(Nat) /\ p[w] = SubSeq(q[w], a, b)
      /\ \A v \in WorkerIds : v # w => p[v] = q[v]
      /\ \A v \in WorkerIds : Len(q[v]) \in Nat
  BY DEF TakenFrom
<1>2. m \in 1 .. n /\ b - a + 1 = n - 1 /\ b - a + 1 \in Nat
  BY DEF AtAnEnd
<1>3. \A k \in a .. b : k \in 1 .. n
  BY DEF AtAnEnd
<1>4. Len(p[w]) = n - 1 /\ \A k \in 1 .. n - 1 : p[w][k] = q[w][k + (a - 1)]
  <2>1. \A k \in a .. b : q[w][k] \in Nat
    <3>1. \A k \in 1 .. n : q[w][k] \in Nat
      BY <1>1
    <3> QED
      BY <1>3, <3>1, Zenon
  <2>2. a \in Int /\ b \in Int
    OBVIOUS
  <2>3. /\ Len(p[w]) = IF a <= b THEN b - a + 1 ELSE 0
        /\ \A k \in 1 .. b - a + 1 : p[w][k] = q[w][a + k - 1]
    BY <1>1, <2>1, <2>2, SubSeqProperties
  <2>4. \A k \in 1 .. n - 1 : a + k - 1 = k + (a - 1)
    OBVIOUS
  <2>5. ~(a <= b) => n - 1 = 0
    BY DEF AtAnEnd
  <2>6. Len(p[w]) = n - 1
    BY <1>2, <2>3, <2>5, Zenon
  <2> QED
    BY <1>2, <2>3, <2>4, <2>6, Zenon
<1>5. \A k \in 1 .. n - 1 : k + (a - 1) \in 1 .. n /\ k + (a - 1) # m
  BY DEF AtAnEnd
<1>6. ASSUME NEW v \in WorkerIds, NEW k \in 1 .. Len(p[v])
      PROVE  /\ k + off(v) \in 1 .. Len(q[v]) /\ p[v][k] = q[v][k + off(v)]
             /\ v = w => k + off(v) # m
  <2>1. CASE v = w
    BY <1>4, <1>5, <2>1
  <2>2. CASE v # w
    <3>1. k + 0 = k
      BY <1>1, <2>2
    <3> QED
      BY <1>1, <2>2, <3>1
  <2> QED
    BY <2>1, <2>2
<1>7. \A v \in WorkerIds : off(v) \in Int
  OBVIOUS
<1> HIDE DEF off
<1>8. q[w][m] \in Items /\ q[w][m] \notin H
  BY <1>2 DEF Apart
<1>13. \A v \in WorkerIds : \A k \in 1 .. Len(q[v]) :
         /\ q[v][k] \in Items /\ q[v][k] \notin H
         /\ \A u \in WorkerIds : \A j \in 1 .. Len(q[u]) : q[u][j] = q[v][k] => u = v /\ j = k
  BY Zenon DEF Apart
<1>14. m \in 1 .. Len(q[w])
  BY <1>2
<1>9. Apart(p, H \cup {q[w][m]})
  <2> SUFFICES ASSUME NEW v \in WorkerIds, NEW k \in 1 .. Len(p[v])
               PROVE  /\ p[v][k] \in Items /\ p[v][k] \notin H \cup {q[w][m]}
                      /\ \A u \in WorkerIds : \A j \in 1 .. Len(p[u]) :
                           p[u][j] = p[v][k] => u = v /\ j = k
    BY Zenon DEF Apart
  <2>1. PICK kk \in 1 .. Len(q[v]) : kk = k + off(v) /\ p[v][k] = q[v][kk] /\ (v = w => kk # m)
    BY <1>6
  <2>2. p[v][k] \in Items /\ p[v][k] \notin H \cup {q[w][m]}
    <3>1. q[v][kk] # q[w][m]
      <4> SUFFICES ASSUME q[w][m] = q[v][kk] PROVE FALSE
        OBVIOUS
      <4>1. w = v /\ m = kk
        BY <1>13, <1>14, Zenon
      <4> QED
        BY <2>1, <4>1
    <3>2. q[v][kk] \in Items /\ q[v][kk] \notin H
      BY <1>13
    <3> QED
      BY <2>1, <3>1, <3>2
  <2>3. ASSUME NEW u \in WorkerIds, NEW j \in 1 .. Len(p[u]), p[u][j] = p[v][k]
        PROVE  u = v /\ j = k
    <3>1. PICK jj \in 1 .. Len(q[u]) : jj = j + off(u) /\ p[u][j] = q[u][jj]
      BY <1>6
    <3>2. u = v /\ jj = kk
      <4>1. q[u][jj] = q[v][kk]
        BY <2>1, <2>3, <3>1
      <4> QED
        BY <1>13, <4>1, Zenon
    <3>3. j + off(v) = k + off(v) /\ j \in Int /\ k \in Int /\ off(v) \in Int
      BY <1>7, <2>1, <3>1, <3>2
    <3> QED
      BY <3>2, <3>3
  <2> QED
    BY <2>2, <2>3
<1>10. ASSUME NEW j, OnLines(p, j) PROVE OnLines(q, j)
  <2>1. PICK v \in WorkerIds : \E k \in 1 .. Len(p[v]) : p[v][k] = j
    BY <1>10 DEF OnLines
  <2>2. PICK k \in 1 .. Len(p[v]) : p[v][k] = j
    BY <2>1
  <2>3. k + off(v) \in 1 .. Len(q[v]) /\ q[v][k + off(v)] = j
    BY <1>6, <2>2
  <2> QED
    BY <2>3, Zenon DEF OnLines
<1>11. OnLines(q, q[w][m])
  BY <1>2 DEF OnLines
<1>12. ASSUME NEW j, OnLines(q, j), j # q[w][m] PROVE OnLines(p, j)
  <2>1. PICK v \in WorkerIds : \E k \in 1 .. Len(q[v]) : q[v][k] = j
    BY <1>12 DEF OnLines
  <2>2. PICK k \in 1 .. Len(q[v]) : q[v][k] = j
    BY <2>1
  <2>3. CASE v # w
    BY <1>1, <2>2, <2>3 DEF OnLines
  <2>4. CASE v = w
    <3>1. k \in 1 .. n /\ k # m
      BY <1>12, <2>2, <2>4
    <3>2. k - (a - 1) \in 1 .. n - 1 /\ (k - (a - 1)) + (a - 1) = k
      BY <3>1 DEF AtAnEnd
    <3>3. p[w][k - (a - 1)] = j
      BY <1>4, <2>2, <2>4, <3>2
    <3> QED
      BY <1>4, <3>2, <3>3 DEF OnLines
  <2> QED
    BY <2>3, <2>4
<1> QED
  BY <1>8, <1>9, <1>10, <1>11, <1>12 DEF TakesApart

-----------------------------------------------------------------------------
(* The pool.                                                               *)
deque == x1
starts == x4
loop == x5
turn == x6
over == x7

USE DEF deque, starts, loop, turn, over

LoopStates == [pc : {"off", "executing", "turning", "waiting", "ended"}, item : Nat]

lines == [w \in WorkerIds |-> Contents(deque[w])]

DequesOK ==
  /\ deque = [w \in WorkerIds |-> deque[w]]
  /\ \A w \in WorkerIds : DequeOK(deque[w])

(* A loop holds an item just while it executes it, and no other loop holds *)
(* the same; those that go on now hold none, and each goes on once.        *)
LoopsOK ==
  /\ starts \in Nat
  /\ loop \in [Work!Loops -> LoopStates]
  /\ \A l \in Work!Loops :
       /\ loop[l].pc = "executing" <=> loop[l].item # 0
       /\ loop[l].item # 0 => loop[l].item \in Items
       /\ l[2] > starts => loop[l].pc = "off"
       /\ \A m \in Work!Loops : loop[l].item # 0 /\ loop[m].item = loop[l].item => m = l
  /\ turn \in Seq(Work!Loops)
  /\ \A k \in 1 .. Len(turn) :
       /\ loop[turn[k]].item = 0 /\ turn[k][2] <= starts
       /\ \A j \in 1 .. Len(turn) : turn[j] = turn[k] => j = k

Known(i) == i \in over \/ i \in Work!Held \/ OnLines(lines, i)

(* The items that were ever submitted are the first.                       *)
Numbered == \E n \in Nat : \A i : i \in 1 .. n <=> Known(i)

WorkInv ==
  /\ DequesOK /\ LoopsOK /\ Numbered /\ over \subseteq Items
  /\ Apart(lines, Work!Held)

LEMMA LinesAre ==
  ASSUME DequesOK
  PROVE  /\ lines \in [WorkerIds -> Seq(Nat)]
         /\ \A w \in WorkerIds : lines[w] = Contents(deque[w])
  BY ContentsSequence DEF DequesOK, lines

(* What the loops hold.                                                    *)
LEMMA HeldGains ==
  ASSUME LoopsOK, NEW l \in Work!Loops, loop[l].item = 0, NEW s \in LoopStates,
         loop' = [loop EXCEPT ![l] = s]
  PROVE  Work!Held' = IF s.item = 0 THEN Work!Held ELSE Work!Held \cup {s.item}
<1>1. /\ loop'[l] = s
      /\ \A m \in Work!Loops : m # l => loop'[m] = loop[m]
  BY DEF LoopsOK
<1>2. \A i : i \in Work!Held' <=> i # 0 /\ \E m \in Work!Loops : loop'[m].item = i
  BY DEF Work!Held
<1>3. \A i : i \in Work!Held <=> i # 0 /\ \E m \in Work!Loops : loop[m].item = i
  BY DEF Work!Held
<1>4. \A i : i \in Work!Held' <=> i \in Work!Held \/ (i = s.item /\ i # 0)
  BY <1>1, <1>2, <1>3
<1> QED
  BY <1>4

LEMMA HeldLoses ==
  ASSUME LoopsOK, NEW l \in Work!Loops, loop[l].item # 0, NEW s \in LoopStates, s.item = 0,
         loop' = [loop EXCEPT ![l] = s]
  PROVE  loop[l].item \in Work!Held /\ Work!Held' = Work!Held \ {loop[l].item}
<1>1. /\ loop'[l] = s
      /\ \A m \in Work!Loops : m # l => loop'[m] = loop[m]
  BY DEF LoopsOK
<1>2. \A i : i \in Work!Held' <=> i # 0 /\ \E m \in Work!Loops : loop'[m].item = i
  BY DEF Work!Held
<1>3. \A i : i \in Work!Held <=> i # 0 /\ \E m \in Work!Loops : loop[m].item = i
  BY DEF Work!Held
<1>4. \A m \in Work!Loops : loop[m].item = loop[l].item => m = l
  BY DEF LoopsOK
<1>5. \A i : i \in Work!Held' <=> i \in Work!Held /\ i # loop[l].item
  BY <1>1, <1>2, <1>3, <1>4
<1> QED
  BY <1>3, <1>5

LEMMA HeldSame ==
  ASSUME UNCHANGED loop
  PROVE  Work!Held' = Work!Held
  BY DEF Work!Held

(* The loop whose turn it is goes on.                                      *)
LEMMA TurnStep ==
  ASSUME LoopsOK, NEW l \in Work!Loops, Work!InTurn(l), NEW s \in LoopStates,
         s.pc = "executing" <=> s.item # 0,
         s.item # 0 => s.item \in Items /\ s.item \notin Work!Held,
         loop' = [loop EXCEPT ![l] = s], starts' = starts
  PROVE  LoopsOK' /\ loop[l].item = 0
<1>1. /\ turn \in Seq(Work!Loops) /\ turn # <<>> /\ l = Head(turn) /\ turn' = Tail(turn)
  BY DEF LoopsOK, Work!InTurn
<1>2. /\ turn' \in Seq(Work!Loops) /\ 1 \in 1 .. Len(turn) /\ turn[1] = l
      /\ \A k \in 1 .. Len(turn') : k + 1 \in 1 .. Len(turn) /\ turn'[k] = turn[k + 1] /\ k + 1 # 1
  BY <1>1
<1>3. loop[l].item = 0 /\ l[2] <= starts
  BY <1>2 DEF LoopsOK
<1>4. /\ loop' \in [Work!Loops -> LoopStates] /\ loop'[l] = s
      /\ \A m \in Work!Loops : m # l => loop'[m] = loop[m]
  BY DEF LoopsOK
<1>5. l[2] \in Nat /\ starts \in Nat /\ \A m \in Work!Loops : m[2] \in Nat
  BY DEF LoopsOK, Work!Loops
<1>6. ASSUME NEW m \in Work!Loops
      PROVE  /\ loop'[m].pc = "executing" <=> loop'[m].item # 0
             /\ loop'[m].item # 0 => loop'[m].item \in Items
             /\ m[2] > starts => loop'[m].pc = "off"
             /\ \A k \in Work!Loops : loop'[m].item # 0 /\ loop'[k].item = loop'[m].item => k = m
  <2>1. \A k \in Work!Loops : loop[k].item # 0 => loop[k].item \in Work!Held
    BY DEF Work!Held
  <2>2. CASE m = l
    <3>1. ~(l[2] > starts)
      BY <1>3, <1>5
    <3>2. \A k \in Work!Loops : s.item # 0 /\ loop'[k].item = s.item => k = l
      BY <1>4, <2>1
    <3> QED
      BY <1>4, <2>2, <3>1, <3>2
  <2>3. CASE m # l
    <3>1. \A k \in Work!Loops : loop[m].item # 0 /\ loop'[k].item = loop[m].item => k = m
      BY <1>4, <2>1 DEF LoopsOK
    <3>2. /\ loop[m].pc = "executing" <=> loop[m].item # 0
          /\ loop[m].item # 0 => loop[m].item \in Items
          /\ m[2] > starts => loop[m].pc = "off"
      BY DEF LoopsOK
    <3> QED
      BY <1>4, <2>3, <3>1, <3>2
  <2> QED
    BY <2>2, <2>3
<1>7. ASSUME NEW k \in 1 .. Len(turn')
      PROVE  /\ loop'[turn'[k]].item = 0 /\ turn'[k][2] <= starts
             /\ \A j \in 1 .. Len(turn') : turn'[j] = turn'[k] => j = k
  <2>1. /\ k + 1 \in 1 .. Len(turn) /\ turn'[k] = turn[k + 1] /\ k + 1 # 1
    BY <1>2
  <2>2. turn[k + 1] # l /\ turn[k + 1] \in Work!Loops
    BY <1>1, <1>2, <2>1 DEF LoopsOK
  <2>3. loop[turn[k + 1]].item = 0 /\ turn[k + 1][2] <= starts
    BY <2>1 DEF LoopsOK
  <2>4. ASSUME NEW j \in 1 .. Len(turn'), turn'[j] = turn'[k]
        PROVE  j = k
    <3>1. j + 1 \in 1 .. Len(turn) /\ turn[j + 1] = turn[k + 1]
      BY <1>2, <2>1, <2>4
    <3>2. j + 1 = k + 1
      BY <2>1, <3>1 DEF LoopsOK
    <3> QED
      BY <3>2
  <2> QED
    BY <1>4, <2>1, <2>2, <2>3, <2>4
<1>8. starts' \in Nat
  BY <1>5
<1> QED
  BY <1>2, <1>3, <1>4, <1>6, <1>7, <1>8 DEF LoopsOK

(* A loop whose await is over goes on at once.                             *)
LEMMA TurnGiven ==
  ASSUME LoopsOK, NEW l \in Work!Loops, loop[l].pc # "off",
         loop' = [loop EXCEPT ![l] = [pc |-> "turning", item |-> 0]],
         turn' = <<l>>, starts' = starts
  PROVE  LoopsOK'
<1>1. /\ loop' \in [Work!Loops -> LoopStates] /\ loop'[l] = [pc |-> "turning", item |-> 0]
      /\ \A m \in Work!Loops : m # l => loop'[m] = loop[m]
  BY DEF LoopsOK, LoopStates
<1>2. l[2] \in Nat /\ starts \in Nat /\ ~(l[2] > starts)
  BY DEF LoopsOK, Work!Loops
<1>3. l[2] <= starts
  BY <1>2
<1>4. ASSUME NEW m \in Work!Loops
      PROVE  /\ loop'[m].pc = "executing" <=> loop'[m].item # 0
             /\ loop'[m].item # 0 => loop'[m].item \in Items
             /\ m[2] > starts => loop'[m].pc = "off"
             /\ \A k \in Work!Loops : loop'[m].item # 0 /\ loop'[k].item = loop'[m].item => k = m
  <2>1. CASE m = l
    BY <1>1, <1>2, <2>1
  <2>2. CASE m # l
    BY <1>1, <2>2 DEF LoopsOK
  <2> QED
    BY <2>1, <2>2
<1>5. /\ turn' \in Seq(Work!Loops)
      /\ \A k \in 1 .. Len(turn') : turn'[k] = l /\ k = 1
  OBVIOUS
<1>6. \A k \in 1 .. Len(turn') : loop'[turn'[k]].item = 0 /\ turn'[k][2] <= starts
  BY <1>1, <1>3, <1>5
<1> QED
  BY <1>1, <1>2, <1>4, <1>5, <1>6 DEF LoopsOK

LEMMA StartsLoops ==
  ASSUME LoopsOK, Work!Start
  PROVE  LoopsOK' /\ loop' = loop /\ deque' = deque /\ over' = over
<1>1. /\ loop' = loop /\ deque' = deque /\ over' = over /\ starts' = starts + 1
      /\ turn' = [w \in WorkerIds |-> <<w, starts + 1>>] /\ starts < MaxStarts
  BY DEF Work!Start
<1>2. PICK n \in Nat : WorkerIds = 1 .. n
  BY WorkAssumption, FS_CardinalityType
<1>3. starts \in Nat /\ starts + 1 \in Nat /\ starts + 1 \in 1 .. MaxStarts
  BY <1>1, WorkAssumption DEF LoopsOK
<1>4. \A w \in 1 .. n : <<w, starts + 1>> \in Work!Loops
  BY <1>2, <1>3 DEF Work!Loops
<1>5. /\ turn' \in Seq(Work!Loops) /\ Len(turn') = n
      /\ \A k \in 1 .. n : turn'[k] = <<k, starts + 1>>
  BY <1>1, <1>2, <1>4
<1>6. ASSUME NEW m \in Work!Loops
      PROVE  m[2] \in Nat /\ (m[2] > starts + 1 => loop[m].pc = "off")
  <2>1. m[2] \in Nat
    BY DEF Work!Loops
  <2>2. m[2] > starts + 1 => m[2] > starts
    BY <1>3, <2>1
  <2> QED
    BY <2>1, <2>2 DEF LoopsOK
<1>7. ASSUME NEW k \in 1 .. n
      PROVE  /\ loop[turn'[k]].item = 0 /\ turn'[k][2] <= starts + 1
             /\ \A j \in 1 .. n : turn'[j] = turn'[k] => j = k
  <2>1. turn'[k] = <<k, starts + 1>> /\ turn'[k] \in Work!Loops
    BY <1>4, <1>5
  <2>2. turn'[k][2] = starts + 1 /\ turn'[k][2] > starts
    BY <1>3, <2>1
  <2>3. loop[turn'[k]].pc = "off"
    BY <2>1, <2>2 DEF LoopsOK
  <2>4. loop[turn'[k]].item = 0
    BY <2>1, <2>3 DEF LoopsOK
  <2>5. \A j \in 1 .. n : turn'[j] = turn'[k] => j = k
    BY <1>5
  <2> QED
    BY <1>3, <2>2, <2>4, <2>5
<1> QED
  BY <1>1, <1>3, <1>5, <1>6, <1>7 DEF LoopsOK

-----------------------------------------------------------------------------
(* The sets that the actions and the abstract pool speak of.               *)
LEMMA WindowItems ==
  ASSUME DequesOK, NEW w \in WorkerIds
  PROVE  \A i : i \in Work!Queued(w) <=> \E k \in 1 .. Len(lines[w]) : lines[w][k] = i
<1> DEFINE d == deque[w]
<1>1. DequeOK(d) /\ lines[w] = Contents(d)
  BY LinesAre DEF DequesOK
<1>2. /\ Len(lines[w]) = d.bottom - d.top /\ d.top \in Nat /\ d.bottom \in Nat
      /\ \A k \in 1 .. Len(lines[w]) : lines[w][k] = Work!Get(d, d.top + k - 1)
  BY <1>1, ContentsSequence DEF DequeOK
<1>3. Work!Queued(w) = { Work!Get(d, i) : i \in d.top .. d.bottom - 1 }
  BY DEF Work!Queued
<1> HIDE DEF d
<1>4. ASSUME NEW i, i \in Work!Queued(w)
      PROVE  \E k \in 1 .. Len(lines[w]) : lines[w][k] = i
  <2>1. PICK j \in d.top .. d.bottom - 1 : i = Work!Get(d, j)
    BY <1>3, <1>4
  <2>2. j - d.top + 1 \in 1 .. Len(lines[w]) /\ d.top + (j - d.top + 1) - 1 = j
    <3>1. PICK a \in Nat, b \in Nat : a = d.top /\ b = d.bottom
      BY <1>2
    <3>2. j \in a .. b - 1
      BY <2>1, <3>1
    <3>3. j - a + 1 \in 1 .. b - a /\ a + (j - a + 1) - 1 = j
      BY <3>2
    <3> QED
      BY <1>2, <3>1, <3>3
  <2> QED
    BY <1>2, <2>1, <2>2
<1>5. ASSUME NEW k \in 1 .. Len(lines[w])
      PROVE  lines[w][k] \in Work!Queued(w)
  <2>1. d.top + k - 1 \in d.top .. d.bottom - 1
    <3>1. PICK a \in Nat, b \in Nat : a = d.top /\ b = d.bottom
      BY <1>2
    <3>2. k \in 1 .. b - a
      BY <1>2, <3>1
    <3>3. a + k - 1 \in a .. b - 1
      BY <3>2
    <3> QED
      BY <3>1, <3>3
  <2> QED
    BY <1>2, <1>3, <2>1
<1> QED
  BY <1>4, <1>5

LEMMA KnownSets ==
  ASSUME DequesOK
  PROVE  /\ \A i : i \in Work!Submitted <=> Known(i)
         /\ \A i : i \in Work!Queues!Known <=> Known(i)
<1>1. \A i : i \in UNION { Work!Queued(w) : w \in WorkerIds } <=> OnLines(lines, i)
  BY WindowItems DEF OnLines
<1>2. \A i : i \in Work!Submitted <=> Known(i)
  BY <1>1 DEF Work!Submitted, Known
<1>3. \A w \in WorkerIds : lines[w] \in Seq(Nat)
  BY LinesAre
<1>4. \A w \in WorkerIds : \A i :
        i \in Work!Queues!ToSet(lines[w]) <=> \E k \in 1 .. Len(lines[w]) : lines[w][k] = i
  BY <1>3 DEF Work!Queues!ToSet
<1>5. \A i : i \in UNION { Work!Queues!ToSet(lines[w]) : w \in WorkerIds } <=> OnLines(lines, i)
  <2>1. \A i : i \in UNION { Work!Queues!ToSet(lines[w]) : w \in WorkerIds }
                <=> \E w \in WorkerIds : i \in Work!Queues!ToSet(lines[w])
    OBVIOUS
  <2>2. \A i : OnLines(lines, i) <=> \E w \in WorkerIds : i \in Work!Queues!ToSet(lines[w])
    BY <1>4, Zenon DEF OnLines
  <2> QED
    BY <2>1, <2>2
<1>6. Work!Queues!Known = Work!Held \cup over \cup UNION { Work!Queues!ToSet(lines[w]) : w \in WorkerIds }
  BY DEF Work!Queues!Known, lines, Contents
<1>7. \A i : i \in Work!Queues!Known <=> Known(i)
  BY <1>5, <1>6 DEF Known
<1> QED
  BY <1>2, <1>7

LEMMA NextNumber ==
  ASSUME DequesOK, Numbered, NEW i, i = 1 + Work!Cardinality(Work!Submitted)
  PROVE  /\ ~Known(i) /\ i \in Nat
         /\ \E n \in Nat : n + 1 = i /\ \A j : j \in 1 .. n <=> Known(j)
<1>1. PICK n \in Nat : \A j : j \in 1 .. n <=> Known(j)
  BY DEF Numbered
<1>2. Work!Submitted = 1 .. n
  BY <1>1, KnownSets
<1>3. Work!Cardinality(1 .. n) = Cardinality(1 .. n)
  BY DEF Work!Cardinality, Cardinality
<1>4. Cardinality(1 .. n) = n
  BY FS_Interval
<1>5. i = n + 1
  BY <1>2, <1>3, <1>4
<1> QED
  BY <1>1, <1>5

-----------------------------------------------------------------------------
(* The steps, and what they are for the abstract pool.                     *)
LEMMA LinesChange ==
  ASSUME DequesOK, NEW w \in WorkerIds, NEW e, DequeOK(e),
         deque' = [deque EXCEPT ![w] = e]
  PROVE  DequesOK' /\ lines' = [lines EXCEPT ![w] = Contents(e)]
<1>1. /\ deque' = [v \in WorkerIds |-> IF v = w THEN e ELSE deque[v]]
  BY DEF DequesOK
<1>2. DequesOK'
  BY <1>1 DEF DequesOK
<1>3. lines' = [v \in WorkerIds |-> Contents(deque'[v])]
  BY DEF lines
<1>4. lines = [v \in WorkerIds |-> Contents(deque[v])]
  BY DEF lines
<1>5. \A v \in WorkerIds : Contents(deque'[v]) = IF v = w THEN Contents(e) ELSE Contents(deque[v])
  BY <1>1
<1>6. lines' = [v \in WorkerIds |-> IF v = w THEN Contents(e) ELSE lines[v]]
  BY <1>3, <1>4, <1>5
<1>7. lines = [v \in WorkerIds |-> lines[v]]
  BY <1>4
<1> QED
  BY <1>2, <1>6, <1>7

LEMMA LinesSame ==
  ASSUME deque' = deque
  PROVE  lines' = lines /\ (DequesOK => DequesOK')
  BY DEF lines, DequesOK

LEMMA Stutters ==
  ASSUME deque' = deque, Work!Held' = Work!Held, over' = over
  PROVE  Work!StepOfQueues
<1>1. Work!Queues!queueVars' = Work!Queues!queueVars
  BY DEF Work!Queues!queueVars
<1> QED
  BY <1>1 DEF Work!StepOfQueues

LEMMA SubmitStep ==
  ASSUME WorkInv, NEW i \in Items, Work!Submit(i)
  PROVE  WorkInv' /\ Work!StepOfQueues
<1>1. /\ i = 1 + Work!Cardinality(Work!Submitted)
      /\ starts' = starts /\ loop' = loop /\ turn' = turn /\ over' = over
  BY DEF Work!Submit
<1>2. PICK w \in {Work!LeastLoaded} \cup WorkerIds :
        deque' = [deque EXCEPT ![w] = Work!Push(@, i)]
  BY DEF Work!Submit
<1>3. Work!Held' = Work!Held
  BY <1>1, HeldSame
<1>4. DequesOK /\ LoopsOK /\ Numbered /\ Apart(lines, Work!Held)
  BY DEF WorkInv
<1>5. LoopsOK'
  BY <1>1, <1>4 DEF LoopsOK, Work!Loops
<1>6. CASE w \notin WorkerIds
  <2>1. deque' = deque
    BY <1>2, <1>4, <1>6 DEF DequesOK
  <2>2. lines' = lines /\ DequesOK'
    BY <1>4, <2>1, LinesSame
  <2>3. Numbered'
    BY <1>1, <1>3, <1>4, <2>2 DEF Numbered, Known, OnLines
  <2>4. Apart(lines, Work!Held)'
    BY <1>3, <1>4, <2>2 DEF Apart
  <2> QED
    BY <1>1, <1>3, <1>5, <2>1, <2>2, <2>3, <2>4, Stutters DEF WorkInv
<1>7. CASE w \in WorkerIds
  <2>1. /\ ~Known(i) /\ i \in Nat
        /\ \E n \in Nat : n + 1 = i /\ \A j : j \in 1 .. n <=> Known(j)
    BY <1>1, <1>4, NextNumber
  <2>2. PICK n \in Nat : n + 1 = i /\ \A j : j \in 1 .. n <=> Known(j)
    BY <2>1
  <2>3. DequeOK(deque[w])
    BY <1>4, <1>7 DEF DequesOK
  <2> DEFINE e == Work!Push(deque[w], i)
  <2>4. DequeOK(e) /\ Contents(e) = Append(Contents(deque[w]), i)
    BY <2>1, <2>3, Pushed
  <2>5. deque' = [deque EXCEPT ![w] = e]
    BY <1>2
  <2> HIDE DEF e
  <2>6. lines[w] = Contents(deque[w]) /\ lines \in [WorkerIds -> Seq(Nat)]
    BY <1>4, <1>7, LinesAre
  <2>7. DequesOK' /\ lines' = [lines EXCEPT ![w] = Append(@, i)]
    BY <1>4, <1>7, <2>4, <2>5, <2>6, LinesChange
  <2>8. i \notin Work!Held /\ ~OnLines(lines, i)
    BY <2>1 DEF Known
  <2>9. /\ Apart(lines', Work!Held)
        /\ \A j : OnLines(lines', j) <=> OnLines(lines, j) \/ j = i
    <3>1. PICK q, p, H : q = lines /\ p = lines' /\ H = Work!Held
      OBVIOUS
    <3>2. q \in [WorkerIds -> Seq(Nat)] /\ Apart(q, H) /\ i \notin H /\ ~OnLines(q, i)
      BY <1>4, <2>6, <2>8, <3>1, Zenon
    <3>3. p = AppendedTo(q, w, i)
      BY <2>7, <3>1, Zenon DEF AppendedTo
    <3>4. Apart(p, H) /\ \A j : OnLines(p, j) <=> OnLines(q, j) \/ j = i
      BY <1>7, <3>2, <3>3, AppendKeepsApart
    <3> QED
      BY <3>1, <3>4, Zenon
  <2>10. Apart(lines, Work!Held)'
    BY <1>3, <2>9
  <2>11. \A j : Known(j)' <=> Known(j) \/ j = i
    <3>1. \A j : Known(j)' <=> j \in over \/ j \in Work!Held \/ OnLines(lines', j)
      BY <1>1, <1>3 DEF Known, OnLines
    <3> QED
      BY <2>9, <3>1 DEF Known
  <2>12. Numbered'
    <3>1. \A j : j \in 1 .. n + 1 <=> j \in 1 .. n \/ j = n + 1
      OBVIOUS
    <3>2. \A j : j \in 1 .. i <=> Known(j)'
      BY <2>2, <2>11, <3>1
    <3> QED
      BY <2>1, <3>2 DEF Numbered
  <2>13. i \notin Work!Queues!Known
    BY <1>4, <2>1, KnownSets
  <2>14. Work!StepOfQueues
    BY <1>1, <1>3, <1>7, <2>7, <2>13
    DEF Work!StepOfQueues, Work!Queues!Next, Work!Queues!Submit, lines, Contents
  <2> QED
    BY <1>1, <1>5, <2>7, <2>10, <2>12, <2>14 DEF WorkInv
<1> QED
  BY <1>6, <1>7

(* A loop takes the item at an end of a deque.                             *)
LEMMA TakeStep ==
  ASSUME WorkInv, NEW l \in Work!Loops, Work!InTurn(l), NEW w \in WorkerIds,
         NEW a, NEW b, NEW m, AtAnEnd(Len(lines[w]), a, b, m),
         NEW taken, Work!Takes(l, w, taken), DequeOK(taken.deque),
         Contents(taken.deque) = SubSeq(lines[w], a, b), taken.item = lines[w][m]
  PROVE  /\ WorkInv'
         /\ lines' = [lines EXCEPT ![w] = SubSeq(lines[w], a, b)]
         /\ Work!Held' = Work!Held \cup {taken.item}
<1> DEFINE n == Len(lines[w])
<1> DEFINE e == taken.deque
<1> DEFINE i == taken.item
<1>0. /\ DequeOK(e) /\ Contents(e) = SubSeq(lines[w], a, b) /\ i = lines[w][m]
      /\ deque' = [deque EXCEPT ![w] = e]
      /\ loop' = [loop EXCEPT ![l] = [pc |-> "executing", item |-> i]]
      /\ starts' = starts /\ over' = over /\ n = Len(lines[w]) /\ AtAnEnd(n, a, b, m)
  BY DEF Work!Takes
<1> HIDE DEF n, e, i
<1>1. DequesOK /\ LoopsOK /\ Numbered /\ Apart(lines, Work!Held)
  BY DEF WorkInv
<1>2. lines \in [WorkerIds -> Seq(Nat)]
  BY <1>1, LinesAre
<1>3. DequesOK' /\ lines' = [lines EXCEPT ![w] = SubSeq(lines[w], a, b)]
  BY <1>0, <1>1, LinesChange
<1>4. /\ i \in Items /\ i \notin Work!Held
      /\ Apart(lines', Work!Held \cup {i})
      /\ \A j : OnLines(lines, j) <=> OnLines(lines', j) \/ j = i
  <2>1. PICK q, p, H : q = lines /\ p = lines' /\ H = Work!Held
    OBVIOUS
  <2>2. /\ q \in [WorkerIds -> Seq(Nat)] /\ Apart(q, H)
        /\ n = Len(q[w]) /\ i = q[w][m] /\ p = TakenFrom(q, w, a, b)
    BY <1>0, <1>1, <1>2, <1>3, <2>1, Zenon DEF TakenFrom
  <2>3. TakesApart(q, H, p, q[w][m])
    BY <1>0, <2>2, TakingKeepsApart
  <2> QED
    BY <2>1, <2>2, <2>3, Zenon DEF TakesApart
<1> DEFINE s == [pc |-> "executing", item |-> i]
<1>5. i \in Nat \ {0} /\ s \in LoopStates /\ s.item = i /\ s.pc = "executing"
  BY <1>4, WorkAssumption DEF LoopStates
<1> HIDE DEF s
<1>6. loop' = [loop EXCEPT ![l] = s]
  BY <1>0 DEF s
<1>7. LoopsOK' /\ loop[l].item = 0
  BY <1>1, <1>4, <1>5, <1>6, <1>0, TurnStep
<1>8. Work!Held' = Work!Held \cup {i}
  BY <1>1, <1>5, <1>6, <1>7, HeldGains
<1>9. Apart(lines, Work!Held)'
  BY <1>4, <1>8
<1>10. \A j : Known(j)' <=> Known(j)
  <2>1. \A j : Known(j)' <=> j \in over \/ j \in Work!Held' \/ OnLines(lines', j)
    BY <1>0 DEF Known, OnLines
  <2> QED
    BY <1>4, <1>8, <2>1 DEF Known
<1>11. Numbered'
  BY <1>1, <1>10 DEF Numbered
<1> QED
  BY <1>0, <1>3, <1>7, <1>8, <1>9, <1>11 DEF WorkInv, i

LEMMA TakesOwnStep ==
  ASSUME WorkInv, NEW l \in Work!Loops, Work!TakesOwn(l)
  PROVE  WorkInv' /\ Work!StepOfQueues
<1> DEFINE w == l[1]
<1> DEFINE s == lines[w]
<1> DEFINE n == Len(s)
<1> DEFINE taken == Work!Pop(deque[w])
<1> DEFINE i == taken.item
<1>1. /\ Work!InTurn(l) /\ Work!Size(deque[w]) > 0 /\ Work!Takes(l, w, taken)
      /\ over' = over
  BY DEF Work!TakesOwn, Work!Takes
<1>2. w \in WorkerIds
  BY DEF Work!Loops
<1>3. DequesOK /\ DequeOK(deque[w]) /\ s = Contents(deque[w])
  BY <1>2, LinesAre DEF WorkInv, DequesOK
<1>4. /\ DequeOK(taken.deque) /\ n \in Nat \ {0} /\ taken.item = s[n]
      /\ Contents(taken.deque) = SubSeq(s, 1, n - 1)
  BY <1>1, <1>3, Popped
<1>5. AtAnEnd(Len(lines[w]), 1, n - 1, n)
  BY <1>4 DEF AtAnEnd
<1> HIDE DEF taken, n, w
<1>6. /\ WorkInv'
      /\ lines' = [lines EXCEPT ![w] = SubSeq(lines[w], 1, n - 1)]
      /\ Work!Held' = Work!Held \cup {i}
  <2>1. PICK c, b, v, z : c = n /\ b = n - 1 /\ v = w /\ z = taken
    OBVIOUS
  <2>2. /\ v \in WorkerIds /\ Work!InTurn(l) /\ Work!Takes(l, v, z)
        /\ AtAnEnd(Len(lines[v]), 1, b, c) /\ DequeOK(z.deque)
        /\ Contents(z.deque) = SubSeq(lines[v], 1, b) /\ z.item = lines[v][c]
    <3>1. Work!Takes(l, v, z)
      BY <1>1, <2>1 DEF Work!Takes
    <3> QED
      BY <1>1, <1>2, <1>4, <1>5, <2>1, <3>1, Zenon
  <2>3. /\ WorkInv'
        /\ lines' = [lines EXCEPT ![v] = SubSeq(lines[v], 1, b)]
        /\ Work!Held' = Work!Held \cup {z.item}
    BY <2>2, TakeStep
  <2> QED
    BY <2>1, <2>3
<1>7. /\ Work!Queues!Front(s) = SubSeq(s, 1, n - 1) /\ Work!Queues!Last(s) = i
  BY <1>4 DEF Work!Queues!Front, Work!Queues!Last, n
<1>8. s # <<>>
  BY <1>4 DEF n
<1>9. Work!StepOfQueues
  <2>1. Work!Queues!TakeNewest(w)
    BY <1>1, <1>2, <1>6, <1>7, <1>8 DEF Work!Queues!TakeNewest, lines, Contents
  <2> QED
    BY <1>2, <2>1 DEF Work!StepOfQueues, Work!Queues!Next
<1> QED
  BY <1>6, <1>9

LEMMA StealsStep ==
  ASSUME WorkInv, NEW l \in Work!Loops, Work!Steals(l)
  PROVE  WorkInv' /\ Work!StepOfQueues
<1>1. /\ Work!InTurn(l) /\ Work!Size(deque[l[1]]) = 0 /\ l[1] \in WorkerIds
      /\ starts' = starts /\ over' = over
  BY DEF Work!Steals, Work!Takes, Work!Loops
<1>2. PICK w \in WorkerIds : Work!Size(deque[w]) > 0 /\ Work!Takes(l, w, Work!Steal(deque[w]))
  BY DEF Work!Steals
<1> DEFINE s == lines[w]
<1> DEFINE n == Len(s)
<1> DEFINE taken == Work!Steal(deque[w])
<1> DEFINE i == taken.item
<1>4. DequesOK /\ DequeOK(deque[w]) /\ s = Contents(deque[w])
  BY LinesAre DEF WorkInv, DequesOK
<1>5. /\ DequeOK(taken.deque) /\ n \in Nat \ {0} /\ taken.item = s[1]
      /\ Contents(taken.deque) = SubSeq(s, 2, n)
  BY <1>2, <1>4, Stolen
<1>6. AtAnEnd(Len(lines[w]), 2, n, 1)
  BY <1>5 DEF AtAnEnd
<1> HIDE DEF taken, n
<1>7. /\ WorkInv'
      /\ lines' = [lines EXCEPT ![w] = SubSeq(lines[w], 2, n)]
      /\ Work!Held' = Work!Held \cup {i}
  <2>1. PICK c, z : c = n /\ z = taken
    OBVIOUS
  <2>2. /\ Work!InTurn(l) /\ Work!Takes(l, w, z)
        /\ AtAnEnd(Len(lines[w]), 2, c, 1) /\ DequeOK(z.deque)
        /\ Contents(z.deque) = SubSeq(lines[w], 2, c) /\ z.item = lines[w][1]
    <3>1. Work!Takes(l, w, z)
      BY <1>2, <2>1 DEF Work!Takes, taken
    <3> QED
      BY <1>1, <1>5, <1>6, <2>1, <3>1, Zenon
  <2>3. /\ WorkInv'
        /\ lines' = [lines EXCEPT ![w] = SubSeq(lines[w], 2, c)]
        /\ Work!Held' = Work!Held \cup {z.item}
    BY <2>2, TakeStep
  <2> QED
    BY <2>1, <2>3
<1>8. s \in Seq(Nat) /\ s # <<>> /\ Tail(s) = SubSeq(s, 2, n) /\ Head(s) = i
  <2>1. s \in Seq(Nat) /\ s # <<>>
    BY <1>4, <1>5, ContentsSequence DEF n
  <2>2. Tail(s) = SubSeq(s, 2, n)
    BY <2>1, TailIsSubSeq DEF n
  <2> QED
    BY <1>5, <2>1, <2>2
<1>9. lines[l[1]] = <<>>
  <2>1. lines[l[1]] = Contents(deque[l[1]]) /\ DequeOK(deque[l[1]])
    BY <1>1, <1>4, LinesAre DEF DequesOK
  <2>2. lines[l[1]] \in Seq(Nat) /\ Len(lines[l[1]]) = 0
    BY <1>1, <2>1, ContentsSequence
  <2> QED
    BY <2>2, EmptySeq
<1>10. Work!StepOfQueues
  <2>1. Work!Queues!StealOldest(l[1], w)
    BY <1>1, <1>7, <1>8, <1>9 DEF Work!Queues!StealOldest, lines, Contents
  <2> QED
    BY <1>1, <2>1 DEF Work!StepOfQueues, Work!Queues!Next
<1> QED
  BY <1>7, <1>10

(* Steps that move no item.                                                *)
LEMMA QuietStep ==
  ASSUME WorkInv, LoopsOK', deque' = deque, Work!Held' = Work!Held, over' = over
  PROVE  WorkInv' /\ Work!StepOfQueues
<1>1. lines' = lines /\ DequesOK'
  BY LinesSame DEF WorkInv
<1>2. Numbered'
  BY <1>1 DEF WorkInv, Numbered, Known, OnLines
<1>3. Apart(lines, Work!Held)'
  BY <1>1 DEF WorkInv, Apart
<1> QED
  BY <1>1, <1>2, <1>3, Stutters DEF WorkInv

LEMMA QuietSteps ==
  ASSUME WorkInv, NEW l \in Work!Loops,
         Work!Waits(l) \/ Work!LoopEnds(l) \/ Work!WaitIsOver(l)
  PROVE  WorkInv' /\ Work!StepOfQueues
<1>1. LoopsOK
  BY DEF WorkInv
<1>2. CASE Work!Waits(l) \/ Work!LoopEnds(l)
  <2>1. PICK s \in LoopStates : /\ s.item = 0 /\ s.pc \in {"waiting", "ended"}
                               /\ loop' = [loop EXCEPT ![l] = s]
    <3>1. CASE Work!Waits(l)
      <4>1. [Work!Off EXCEPT !.pc = "waiting"] = [pc |-> "waiting", item |-> 0]
        BY DEF Work!Off
      <4>2. [pc |-> "waiting", item |-> 0] \in LoopStates
        BY DEF LoopStates
      <4>3. loop' = [loop EXCEPT ![l] = [pc |-> "waiting", item |-> 0]]
        BY <3>1, <4>1 DEF Work!Waits
      <4> QED
        BY <4>2, <4>3
    <3>2. CASE Work!LoopEnds(l)
      <4>1. [Work!Off EXCEPT !.pc = "ended"] = [pc |-> "ended", item |-> 0]
        BY DEF Work!Off
      <4>2. [pc |-> "ended", item |-> 0] \in LoopStates
        BY DEF LoopStates
      <4>3. loop' = [loop EXCEPT ![l] = [pc |-> "ended", item |-> 0]]
        BY <3>2, <4>1 DEF Work!LoopEnds
      <4> QED
        BY <4>2, <4>3
    <3> QED
      BY <1>2, <3>1, <3>2
  <2>2. Work!InTurn(l) /\ deque' = deque /\ starts' = starts /\ over' = over
    BY <1>2 DEF Work!Waits, Work!LoopEnds
  <2>3. LoopsOK' /\ loop[l].item = 0
    BY <1>1, <2>1, <2>2, TurnStep
  <2>4. Work!Held' = Work!Held
    BY <1>1, <2>1, <2>3, HeldGains
  <2> QED
    BY <2>2, <2>3, <2>4, QuietStep
<1>3. CASE Work!WaitIsOver(l)
  <2>1. /\ loop[l].pc = "waiting" /\ loop' = [loop EXCEPT ![l].pc = "turning"]
        /\ turn' = <<l>> /\ deque' = deque /\ starts' = starts /\ over' = over
    BY <1>3 DEF Work!WaitIsOver
  <2>2. loop[l] \in LoopStates /\ loop[l].item = 0
    <3>1. loop[l] \in LoopStates /\ (loop[l].pc = "executing" <=> loop[l].item # 0)
      BY <1>1 DEF LoopsOK
    <3> QED
      BY <2>1, <3>1
  <2> DEFINE s == [pc |-> "turning", item |-> 0]
  <2>3. loop' = [loop EXCEPT ![l] = s]
    <3>1. loop' = [loop EXCEPT ![l] = [loop[l] EXCEPT !.pc = "turning"]]
      BY <2>1
    <3>2. [loop[l] EXCEPT !.pc = "turning"] = s
      BY <2>2 DEF LoopStates
    <3> QED
      BY <3>1, <3>2
  <2>4. s \in LoopStates /\ s.item = 0
    BY DEF LoopStates
  <2>5. LoopsOK'
    BY <1>1, <2>1, <2>3, TurnGiven
  <2> HIDE DEF s
  <2>6. Work!Held' = Work!Held
    BY <1>1, <2>2, <2>3, <2>4, HeldGains
  <2> QED
    BY <2>1, <2>5, <2>6, QuietStep
<1> QED
  BY <1>2, <1>3

LEMMA ExecutedStep ==
  ASSUME WorkInv, NEW l \in Work!Loops, Work!Executed(l)
  PROVE  WorkInv' /\ Work!StepOfQueues
<1> DEFINE i == loop[l].item
<1> DEFINE s == [pc |-> "turning", item |-> 0]
<1>1. /\ loop[l].pc = "executing" /\ over' = over \cup {i}
      /\ turn' = <<l>> /\ deque' = deque /\ starts' = starts
  BY DEF Work!Executed
<1>2. loop' = [loop EXCEPT ![l] = s]
  <2>1. [Work!Off EXCEPT !.pc = "turning"] = s
    BY DEF Work!Off
  <2> QED
    BY <2>1 DEF Work!Executed
<1>3. s \in LoopStates /\ s.item = 0
  BY DEF LoopStates
<1>4. LoopsOK /\ i # 0 /\ i \in Items
  BY <1>1 DEF WorkInv, LoopsOK
<1>5. LoopsOK'
  BY <1>1, <1>2, <1>4, TurnGiven
<1> HIDE DEF s
<1>6. i \in Work!Held /\ Work!Held' = Work!Held \ {i}
  BY <1>2, <1>3, <1>4, HeldLoses
<1>7. lines' = lines /\ DequesOK'
  BY <1>1, LinesSame DEF WorkInv
<1> HIDE DEF i
<1>8. Numbered'
  <2>1. \A j : Known(j)' <=> j \in over' \/ j \in Work!Held' \/ OnLines(lines', j)
    BY DEF Known, OnLines
  <2>2. \A j : Known(j)' <=> Known(j)
    BY <1>1, <1>6, <1>7, <2>1 DEF Known
  <2> QED
    BY <2>2 DEF WorkInv, Numbered
<1>9. Apart(lines, Work!Held)'
  BY <1>6, <1>7 DEF WorkInv, Apart
<1>10. Work!StepOfQueues
  <2>1. Work!Queues!Finish(i)
    BY <1>1, <1>6, <1>7 DEF Work!Queues!Finish, lines, Contents
  <2> QED
    BY <1>4, <2>1 DEF Work!StepOfQueues, Work!Queues!Next
<1> QED
  BY <1>1, <1>4, <1>5, <1>7, <1>8, <1>9, <1>10 DEF WorkInv

LEMMA WorkStep ==
  ASSUME WorkInv, [Work!Next]_(Work!workVars)
  PROVE  WorkInv' /\ Work!StepOfQueues
<1>1. CASE UNCHANGED Work!workVars
  <2>1. deque' = deque /\ starts' = starts /\ loop' = loop /\ turn' = turn /\ over' = over
    BY <1>1 DEF Work!workVars
  <2>2. LoopsOK'
    BY <2>1 DEF WorkInv, LoopsOK, Work!Loops
  <2> QED
    BY <2>1, <2>2, HeldSame, QuietStep
<1>2. CASE \E i \in Items : Work!Submit(i)
  BY <1>2, SubmitStep
<1>3. CASE \E l \in Work!Loops : Work!TakesOwn(l)
  BY <1>3, TakesOwnStep
<1>4. CASE \E l \in Work!Loops : Work!Steals(l)
  BY <1>4, StealsStep
<1>5. CASE \E l \in Work!Loops : Work!Executed(l)
  BY <1>5, ExecutedStep
<1>6. CASE \E l \in Work!Loops : Work!Waits(l) \/ Work!LoopEnds(l) \/ Work!WaitIsOver(l)
  BY <1>6, QuietSteps
<1>7. CASE Work!Start \/ Work!Stop
  <2>1. CASE Work!Start
    <3>1. LoopsOK' /\ loop' = loop /\ deque' = deque /\ over' = over
      BY <2>1, StartsLoops DEF WorkInv
    <3> QED
      BY <3>1, HeldSame, QuietStep
  <2>2. CASE Work!Stop
    <3>1. loop' = loop /\ deque' = deque /\ over' = over /\ starts' = starts /\ turn' = turn
      BY <2>2 DEF Work!Stop
    <3>2. LoopsOK'
      BY <3>1 DEF WorkInv, LoopsOK, Work!Loops
    <3> QED
      BY <3>1, <3>2, HeldSame, QuietStep
  <2> QED
    BY <1>7, <2>1, <2>2
<1> QED
  BY <1>1, <1>2, <1>3, <1>4, <1>5, <1>6, <1>7 DEF Work!Next

LEMMA WorkStarts == Work!Init => WorkInv /\ Work!Queues!Init
<1> SUFFICES ASSUME Work!Init PROVE WorkInv /\ Work!Queues!Init
  OBVIOUS
<1> DEFINE c == InitialCapacity
<1> DEFINE none == [top |-> 0, bottom |-> 0, capacity |-> c, items |-> [k \in 0 .. c - 1 |-> 0]]
<1>1. /\ deque = [w \in WorkerIds |-> none] /\ starts = 0 /\ turn = <<>> /\ over = {}
      /\ loop = [l \in Work!Loops |-> [pc |-> "off", item |-> 0]]
  BY DEF Work!Init, Work!Empty, Work!Off
<1>2. DequeOK(none)
  <2>1. c \in Nat \ {0}
    BY WorkAssumption
  <2> DEFINE array == [k \in 0 .. c - 1 |-> 0]
  <2>2. array \in [0 .. c - 1 -> Nat]
    OBVIOUS
  <2> HIDE DEF array
  <2> QED
    BY <2>1, <2>2 DEF DequeOK
<1>3. none.top = 0 /\ none.bottom = 0
  OBVIOUS
<1> HIDE DEF none
<1>4. Contents(none) \in Seq(Nat) /\ Len(Contents(none)) = 0
  BY <1>2, <1>3, ContentsSequence
<1>5. Contents(none) = <<>>
  BY <1>4, EmptySeq
<1>6. DequesOK /\ lines = [w \in WorkerIds |-> <<>>]
  BY <1>1, <1>2, <1>5 DEF DequesOK, lines
<1>7. Work!Held = {}
  BY <1>1 DEF Work!Held
<1>8. LoopsOK
  <2>1. [pc |-> "off", item |-> 0] \in LoopStates
    BY DEF LoopStates
  <2>2. loop \in [Work!Loops -> LoopStates]
    BY <1>1, <2>1
  <2>3. \A l \in Work!Loops : loop[l].pc = "off" /\ loop[l].item = 0
    BY <1>1
  <2>4. turn \in Seq(Work!Loops) /\ Len(turn) = 0 /\ starts \in Nat
    BY <1>1
  <2> QED
    BY <2>2, <2>3, <2>4 DEF LoopsOK
<1>9. Apart(lines, Work!Held) /\ \A i : ~Known(i)
  BY <1>1, <1>6, <1>7 DEF Apart, Known, OnLines
<1>10. Numbered
  <2>1. 0 \in Nat /\ \A i : i \in 1 .. 0 <=> Known(i)
    BY <1>9
  <2> QED
    BY <2>1 DEF Numbered
<1>11. Work!Queues!Init
  BY <1>1, <1>6, <1>7 DEF Work!Queues!Init, lines, Contents
<1> QED
  BY <1>1, <1>6, <1>8, <1>9, <1>10, <1>11 DEF WorkInv

LEMMA WorkTypes == WorkInv => Work!WorkTypeOK
  BY DEF WorkInv, DequesOK, DequeOK, LoopsOK, LoopStates, Work!WorkTypeOK

(* Every deque is a window of its array, whatever it grew to and wrapped   *)
(* around; every loop holds an item just while it executes it; no item is  *)
(* in two places, and those in some place are the first that were          *)
(* submitted (work-stealing-deque.ts, worker-pool.ts).                     *)
THEOREM WorkCorrect == Work!Spec => []WorkInv
<1>1. Work!Init => WorkInv
  BY WorkStarts
<1>2. WorkInv /\ [Work!Next]_(Work!workVars) => WorkInv'
  BY WorkStep
<1> QED
  BY <1>1, <1>2, PTL DEF Work!Spec

-----------------------------------------------------------------------------
(* 4. The helpers: which is called x1, the retry loop x2, the work pool x3. *)

LoopInv ==
  /\ x2 \in [pc : {"calling", "waiting", "resolved", "rejected"}, failed : Nat, kinds : SUBSET Helpers!Kinds]
  /\ "gibberish" \notin x2.kinds =>
       LET most == IF x1 = "retryWithBackoff" THEN RetryLimit ELSE RetryLimit - 1
       IN  x2.failed <= IF x2.pc \in {"calling", "waiting"} THEN most ELSE most + 1

Pools ==
  [pending : Seq(WorkItems), rejected : BOOLEAN, results : [WorkItems -> {0} \cup WorkItems],
   worker : [Helpers!Workers -> WorkItems \cup {Helpers!Idle, Helpers!Gone}]]

(* Every item is pending, with a worker, or done: the workers that are     *)
(* gone left nothing, unless one of them failed.                           *)
PoolInv ==
  /\ x3 \in Pools
  /\ \A i \in WorkItems : x3.results[i] \in {0, i}
  /\ \A i \in DOMAIN x3.pending : x3.pending[i] = i
  /\ ~x3.rejected =>
       /\ \A i \in WorkItems : \/ i <= Len(x3.pending) \/ x3.results[i] = i
                               \/ \E w \in Helpers!Workers : x3.worker[w] = i
       /\ (\E w \in Helpers!Workers : x3.worker[w] = Helpers!Gone) => x3.pending = <<>>

HelpersInv == LoopInv /\ PoolInv

LEMMA HelpersData ==
  /\ RetryLimit \in Nat /\ RetryLimit > 0 /\ Concurrency \in Nat /\ Concurrency > 0
  /\ Helpers!Idle = 0 /\ \E n \in Nat : WorkItems = 1 .. n /\ Helpers!Gone = n + 1
<1>1. IsFiniteSet(WorkItems) /\ WorkItems = 1 .. Cardinality(WorkItems)
  BY HelpersAssumption
<1>2. Cardinality(WorkItems) \in Nat
  BY <1>1, FS_CardinalityType
<1>3. Helpers!Gone = Cardinality(WorkItems) + 1
  BY DEF Helpers!Gone, Helpers!Cardinality, Cardinality
<1> QED
  BY <1>1, <1>2, <1>3, HelpersAssumption DEF Helpers!Idle

LEMMA HelpersStart == Helpers!Init => HelpersInv
<1> SUFFICES ASSUME Helpers!Init PROVE HelpersInv
  OBVIOUS
<1> PICK n \in Nat : WorkItems = 1 .. n /\ Helpers!Gone = n + 1
  BY HelpersData
<1>1. LoopInv
  BY HelpersData DEF Helpers!Init, LoopInv
<1>2. PICK pending, worker, results :
        /\ pending = [i \in WorkItems |-> i] /\ worker = [w \in Helpers!Workers |-> 0]
        /\ results = [i \in WorkItems |-> 0]
        /\ x3 = [pending |-> pending, worker |-> worker, results |-> results, rejected |-> FALSE]
  BY HelpersData DEF Helpers!Init
<1>3. /\ pending \in Seq(WorkItems) /\ Len(pending) = n
      /\ results \in [WorkItems -> {0} \cup WorkItems]
      /\ worker \in [Helpers!Workers -> WorkItems \cup {Helpers!Idle, Helpers!Gone}]
  <2>1. pending = [i \in 1 .. n |-> i]
    BY <1>2
  <2>2. pending \in Seq(WorkItems) /\ Len(pending) = n
    BY <2>1
  <2> QED
    BY <1>2, <2>2, HelpersData
<1>4. x3 \in Pools
  BY <1>2, <1>3 DEF Pools
<1>5. PoolInv
  BY <1>2, <1>3, <1>4, HelpersData DEF PoolInv
<1> QED
  BY <1>1, <1>5 DEF HelpersInv

LEMMA LoopStep ==
  ASSUME HelpersInv,
         \/ Helpers!Succeeds \/ Helpers!Slept \/ \E kind \in Helpers!Kinds : Helpers!Fails(kind)
  PROVE  LoopInv' /\ UNCHANGED <<x1, x3>>
<1>1. CASE Helpers!Succeeds
  BY <1>1, HelpersData DEF HelpersInv, LoopInv, Helpers!Succeeds
<1>2. CASE Helpers!Slept
  BY <1>2, HelpersData DEF HelpersInv, LoopInv, Helpers!Slept
<1>3. ASSUME NEW kind \in Helpers!Kinds, Helpers!Fails(kind) PROVE LoopInv' /\ UNCHANGED <<x1, x3>>
  <2> PICK failed \in Nat, kinds \in SUBSET Helpers!Kinds :
        failed = x2.failed + 1 /\ kinds = x2.kinds \cup {kind}
    <3>1. x2.failed + 1 \in Nat /\ x2.kinds \cup {kind} \in SUBSET Helpers!Kinds
      BY DEF HelpersInv, LoopInv
    <3> QED
      BY <3>1, Zenon
  <2> PICK pc : pc = IF Helpers!TriesAgain(kind, failed) THEN "waiting" ELSE "rejected"
    OBVIOUS
  <2>1. UNCHANGED <<x1, x3>> /\ x2' = [failed |-> failed, kinds |-> kinds, pc |-> pc] /\ x2.pc = "calling"
    BY <1>3 DEF Helpers!Fails
  <2>2. x2' \in [pc : {"calling", "waiting", "resolved", "rejected"}, failed : Nat, kinds : SUBSET Helpers!Kinds]
    BY <2>1
  <2>3. ASSUME "gibberish" \notin kinds
        PROVE  LET most == IF x1 = "retryWithBackoff" THEN RetryLimit ELSE RetryLimit - 1
               IN  failed <= IF pc = "waiting" THEN most ELSE most + 1
    <3>1. kind # "gibberish" /\ "gibberish" \notin x2.kinds
      BY <2>3
    <3>2. x2.failed \in Nat /\ x2.failed <= IF x1 = "retryWithBackoff" THEN RetryLimit ELSE RetryLimit - 1
      BY <2>1, <3>1 DEF HelpersInv, LoopInv
    <3>3. ASSUME Helpers!TriesAgain(kind, failed)
          PROVE  failed <= IF x1 = "retryWithBackoff" THEN RetryLimit ELSE RetryLimit - 1
      <4>1. CASE x1 = "retryWithBackoff"
        BY <3>3, <4>1, HelpersData DEF Helpers!TriesAgain
      <4>2. CASE x1 = "withRetry"
        BY <3>3, <4>2, HelpersData DEF Helpers!TriesAgain
      <4>3. CASE x1 = "withRecovery"
        <5>1. Helpers!HandleError(kind, failed) \in 1 .. RetryLimit
          BY <3>3, <4>3 DEF Helpers!TriesAgain
        <5>2. Helpers!HandleError(kind, failed) \in {0, failed + 1}
          BY <3>1 DEF Helpers!HandleError
        <5> QED
          BY <4>3, <5>1, <5>2, HelpersData
      <4> QED
        BY <3>3, <4>1, <4>2, <4>3 DEF Helpers!TriesAgain
    <3> QED
      BY <3>2, <3>3, HelpersData
  <2> QED
    BY <2>1, <2>2, <2>3 DEF LoopInv
<1> QED
  BY <1>1, <1>2, <1>3

LEMMA PoolTakes ==
  ASSUME PoolInv, NEW w \in Helpers!Workers, Helpers!Takes(w)
  PROVE  PoolInv' /\ UNCHANGED <<x1, x2>>
<1> PICK n \in Nat : WorkItems = 1 .. n /\ Helpers!Gone = n + 1
  BY HelpersData
<1> PICK pending \in Seq(WorkItems) : pending = x3.pending
  BY DEF PoolInv, Pools
<1> PICK worker, results : worker = x3.worker /\ results = x3.results
  OBVIOUS
<1>1. UNCHANGED <<x1, x2>> /\ worker[w] = 0
  BY HelpersData DEF Helpers!Takes
<1>2. /\ worker \in [Helpers!Workers -> WorkItems \cup {0, n + 1}] /\ x3 \in Pools
      /\ \A i \in DOMAIN pending : pending[i] = i /\ \A k \in WorkItems : results[k] \in {0, k}
  BY HelpersData DEF PoolInv, Pools
<1>3. CASE pending = <<>>
  <2> PICK after : after = [worker EXCEPT ![w] = n + 1]
    OBVIOUS
  <2>1. x3' = [x3 EXCEPT !.worker = after]
    BY <1>3 DEF Helpers!Takes
  <2>2. after \in [Helpers!Workers -> WorkItems \cup {0, n + 1}] /\ after[w] = n + 1
        /\ \A v \in Helpers!Workers : v # w => after[v] = worker[v]
    BY <1>2
  <2>3. /\ x3' \in Pools /\ x3'.pending = pending /\ x3'.results = results /\ x3'.worker = after
        /\ x3'.rejected = x3.rejected
    BY <1>2, <2>1, <2>2, HelpersData DEF Pools
  <2>4. \A i \in WorkItems : (\E v \in Helpers!Workers : worker[v] = i) => \E v \in Helpers!Workers : after[v] = i
    BY <1>1, <2>2
  <2> QED
    BY <1>1, <1>2, <1>3, <2>3, <2>4 DEF PoolInv
<1>4. CASE pending # <<>>
  <2> PICK last : last = Len(pending)
    OBVIOUS
  <2>1. last \in Nat /\ last > 0 /\ DOMAIN pending = 1 .. last /\ last \in WorkItems
    <3>1. last \in Nat /\ last > 0 /\ DOMAIN pending = 1 .. last
      BY <1>4
    <3>2. pending[last] \in WorkItems /\ pending[last] = last
      BY <1>2, <3>1
    <3> QED
      BY <3>1, <3>2
  <2> PICK rest : rest = SubSeq(pending, 1, last - 1)
    OBVIOUS
  <2>2. Helpers!Last(pending) = last /\ Helpers!Front(pending) = rest
    BY <1>2, <2>1 DEF Helpers!Last, Helpers!Front
  <2>3. rest \in Seq(WorkItems) /\ Len(rest) = last - 1 /\ \A i \in DOMAIN rest : rest[i] = i
    <3>1. rest \in Seq(WorkItems) /\ Len(rest) = last - 1 /\ DOMAIN rest = 1 .. last - 1
      BY <2>1
    <3>2. \A i \in 1 .. last - 1 : rest[i] = pending[i] /\ i \in DOMAIN pending
      BY <2>1
    <3> QED
      BY <1>2, <3>1, <3>2
  <2> PICK after : after = [worker EXCEPT ![w] = last]
    OBVIOUS
  <2>4. x3' = [x3 EXCEPT !.worker = after, !.pending = rest]
    BY <1>4, <2>2 DEF Helpers!Takes
  <2>5. after \in [Helpers!Workers -> WorkItems \cup {0, n + 1}] /\ after[w] = last
        /\ \A v \in Helpers!Workers : v # w => after[v] = worker[v]
    BY <1>2, <2>1
  <2>6. /\ x3' \in Pools /\ x3'.pending = rest /\ x3'.results = results /\ x3'.worker = after
        /\ x3'.rejected = x3.rejected
    BY <1>2, <2>3, <2>4, <2>5, HelpersData DEF Pools
  <2>7. ASSUME ~x3.rejected, NEW i \in WorkItems
        PROVE  i <= Len(rest) \/ results[i] = i \/ \E v \in Helpers!Workers : after[v] = i
    <3>1. i <= last \/ results[i] = i \/ \E v \in Helpers!Workers : worker[v] = i
      BY <2>7 DEF PoolInv
    <3>2. i = last => after[w] = i
      BY <2>5
    <3>3. i <= last /\ i # last => i <= Len(rest)
      BY <2>1, <2>3
    <3>4. \A v \in Helpers!Workers : worker[v] = i => after[v] = i
      BY <1>1, <2>5
    <3> QED
      BY <3>1, <3>2, <3>3, <3>4
  <2>8. ASSUME ~x3.rejected, NEW v \in Helpers!Workers PROVE after[v] # Helpers!Gone
    <3>1. worker[v] # Helpers!Gone
      BY <1>4, <2>8 DEF PoolInv
    <3> QED
      BY <2>1, <2>5, <3>1
  <2> QED
    BY <1>1, <1>2, <2>3, <2>6, <2>7, <2>8 DEF PoolInv
<1> QED
  BY <1>3, <1>4

LEMMA PoolStores ==
  ASSUME PoolInv, NEW w \in Helpers!Workers, Helpers!WorkDone(w)
  PROVE  PoolInv' /\ UNCHANGED <<x1, x2>>
<1> PICK n \in Nat : WorkItems = 1 .. n /\ Helpers!Gone = n + 1
  BY HelpersData
<1> PICK worker, results : worker = x3.worker /\ results = x3.results
  OBVIOUS
<1>1. UNCHANGED <<x1, x2>> /\ worker[w] \in WorkItems
  BY DEF Helpers!WorkDone
<1>2. /\ worker \in [Helpers!Workers -> WorkItems \cup {0, n + 1}] /\ x3 \in Pools
      /\ results \in [WorkItems -> {0} \cup WorkItems] /\ \A i \in WorkItems : results[i] \in {0, i}
  BY HelpersData DEF PoolInv, Pools
<1> PICK item \in WorkItems : item = worker[w]
  BY <1>1
<1>3. CASE x3' = [x3 EXCEPT !.worker[w] = Helpers!Gone, !.rejected = TRUE]
  <2> PICK after : after = [worker EXCEPT ![w] = n + 1]
    OBVIOUS
  <2>1. after \in [Helpers!Workers -> WorkItems \cup {0, n + 1}]
    BY <1>2
  <2>2. /\ x3' \in Pools /\ x3'.pending = x3.pending /\ x3'.results = results /\ x3'.rejected
    BY <1>2, <1>3, <2>1, HelpersData DEF Pools
  <2> QED
    BY <1>1, <2>2 DEF PoolInv
<1>4. CASE x3' = [x3 EXCEPT !.results[item] = item, !.worker[w] = 0]
  <2> PICK after, stored : after = [worker EXCEPT ![w] = 0] /\ stored = [results EXCEPT ![item] = item]
    OBVIOUS
  <2>1. /\ after \in [Helpers!Workers -> WorkItems \cup {0, n + 1}] /\ after[w] = 0
        /\ \A v \in Helpers!Workers : v # w => after[v] = worker[v]
    BY <1>2
  <2>2. /\ stored \in [WorkItems -> {0} \cup WorkItems] /\ stored[item] = item
        /\ \A i \in WorkItems : i # item => stored[i] = results[i]
    BY <1>2
  <2>3. x3' = [x3 EXCEPT !.results = stored, !.worker = after]
    BY <1>2, <1>4 DEF Pools
  <2>4. /\ x3' \in Pools /\ x3'.pending = x3.pending /\ x3'.results = stored /\ x3'.worker = after
        /\ x3'.rejected = x3.rejected
    BY <1>2, <2>1, <2>2, <2>3, HelpersData DEF Pools
  <2>5. \A i \in WorkItems : stored[i] \in {0, i}
    BY <1>2, <2>2
  <2>6. ASSUME ~x3.rejected, NEW i \in WorkItems
        PROVE  i <= Len(x3.pending) \/ stored[i] = i \/ \E v \in Helpers!Workers : after[v] = i
    <3>1. i <= Len(x3.pending) \/ results[i] = i \/ \E v \in Helpers!Workers : worker[v] = i
      BY <2>6 DEF PoolInv
    <3>2. results[i] = i => stored[i] = i
      BY <2>2
    <3>3. \A v \in Helpers!Workers : worker[v] = i => after[v] = i \/ stored[i] = i
      BY <2>1, <2>2
    <3> QED
      BY <3>1, <3>2, <3>3
  <2>7. ASSUME ~x3.rejected, NEW v \in Helpers!Workers, after[v] = Helpers!Gone PROVE x3.pending = <<>>
    <3>1. worker[v] = Helpers!Gone
      BY <2>1, <2>7
    <3> QED
      BY <2>7, <3>1 DEF PoolInv
  <2> QED
    BY <1>1, <2>4, <2>5, <2>6, <2>7 DEF PoolInv
<1> QED
  BY <1>3, <1>4, HelpersData DEF Helpers!WorkDone, Helpers!StoresAt

LEMMA HelpersStep ==
  ASSUME HelpersInv, Helpers!Next \/ UNCHANGED <<x1, x2, x3>>
  PROVE  HelpersInv'
<1>1. CASE Helpers!Succeeds \/ Helpers!Slept \/ \E kind \in Helpers!Kinds : Helpers!Fails(kind)
  BY <1>1, LoopStep DEF HelpersInv, PoolInv
<1>2. CASE \E w \in Helpers!Workers : Helpers!Takes(w) \/ Helpers!WorkDone(w)
  BY <1>2, PoolTakes, PoolStores DEF HelpersInv, LoopInv
<1>3. CASE UNCHANGED <<x1, x2, x3>>
  BY <1>3 DEF HelpersInv, LoopInv, PoolInv
<1> QED
  BY <1>1, <1>2, <1>3 DEF Helpers!Next

(* Loops stop after their retries, and no item of a work pool is lost,     *)
(* whatever the function they call does (x1 to x3 are the variables of     *)
(* AsyncHelpers).                                                          *)
THEOREM HelpersCorrect == Helpers!Spec => []HelpersInv
<1>1. HelpersInv /\ [Helpers!Next]_(Helpers!helperVars) => HelpersInv'
  BY HelpersStep DEF Helpers!helperVars
<1> QED
  BY <1>1, HelpersStart, PTL DEF Helpers!Spec

LEMMA HelpersShow == HelpersInv => Helpers!HelpersAnswer
<1> SUFFICES ASSUME HelpersInv PROVE Helpers!HelpersAnswer
  OBVIOUS
<1>1. Helpers!RetriesBounded
  BY HelpersData DEF HelpersInv, LoopInv, Helpers!RetriesBounded
<1>2. Helpers!ResultsInPlace
  <2> PICK n \in Nat : WorkItems = 1 .. n /\ Helpers!Gone = n + 1
    BY HelpersData
  <2> SUFFICES ASSUME ~x3.rejected, \A w \in Helpers!Workers : x3.worker[w] = Helpers!Gone
               PROVE  \A i \in WorkItems : x3.results[i] = i
    BY DEF HelpersInv, PoolInv, Helpers!ResultsInPlace
  <2>1. 1 \in Helpers!Workers
    BY HelpersData DEF Helpers!Workers
  <2>2. x3.pending = <<>>
    BY <2>1 DEF HelpersInv, PoolInv
  <2>3. \A i \in WorkItems : ~(i <= Len(x3.pending)) /\ i # Helpers!Gone
    BY <2>2
  <2> QED
    BY <2>3 DEF HelpersInv, PoolInv
<1> QED
  BY <1>1, <1>2 DEF Helpers!HelpersAnswer

-----------------------------------------------------------------------------
(* 5. The memory of the tasks: mem is x1, execution x2, retries x3, gcs x4. *)

Numbers == {0} \cup TaskIds
TaskRecords == [id : Numbers, status : {"pending", "running", "completed", "error"}, age : 0 .. 2]
Memories ==
  [tasks : [Numbers -> Numbers], record : [TaskIds -> TaskRecords], available : Seq(TaskIds),
   inUse : SUBSET TaskIds]

Distinct(seq) == \A i, j \in DOMAIN seq : i # j => seq[i] # seq[j]
OnceOnly(m) ==
  /\ m \in Memories /\ Len(m.available) <= PoolSize /\ Distinct(m.available)
  /\ \A i \in DOMAIN m.available : m.available[i] \notin m.inUse

(* A loop that has begun has its record, in use or not.                    *)
Executions == [TaskIds -> [pc : {"new", "waiting", "prompting", "backoff", "over"}, r : Numbers]]
Collections == [1 .. MaxGcs -> SUBSET Numbers]

MemoryInv ==
  /\ OnceOnly(x1)
  /\ x2 \in Executions /\ \A i \in TaskIds : x2[i].pc # "new" => x2[i].r # 0
  /\ x4 \in Collections

LEMMA NumbersFinite == IsFiniteSet(Numbers) /\ 0 \notin TaskIds /\ Memory!Records = TaskIds
<1>1. IsFiniteSet({0})
  BY FS_Singleton
<1> QED
  BY <1>1, FS_Union, MemoryAssumption DEF Numbers, Memory!Records

(* Two names for what the provers need not look into.                      *)
FirstOf(s, l) == SubSeq(s, 1, l)
Chained(s, t) == s \o t

LEMMA FirstOnes ==
  ASSUME NEW S, NEW s \in Seq(S), NEW l \in Nat, l <= Len(s)
  PROVE  /\ FirstOf(s, l) \in Seq(S) /\ Len(FirstOf(s, l)) = l
         /\ \A k \in DOMAIN FirstOf(s, l) : k \in DOMAIN s /\ FirstOf(s, l)[k] = s[k]
<1> PICK t : t = SubSeq(s, 1, l)
  OBVIOUS
<1>1. t \in Seq(S) /\ Len(t) = l /\ DOMAIN t = 1 .. l
  OBVIOUS
<1>2. \A k \in 1 .. l : t[k] = s[k]
  OBVIOUS
<1>3. \A k \in 1 .. l : k \in DOMAIN s
  OBVIOUS
<1> QED
  BY <1>1, <1>2, <1>3, Zenon DEF FirstOf

LEMMA DistinctPart ==
  ASSUME NEW s, NEW t, Distinct(t), \A k \in DOMAIN s : k \in DOMAIN t /\ s[k] = t[k]
  PROVE  Distinct(s)
  BY Zenon DEF Distinct

Foreign(s, t) == Distinct(s) /\ Distinct(t) /\ \A i \in DOMAIN s, j \in DOMAIN t : s[i] # t[j]
Shared(u, s, t) ==
  \A k \in DOMAIN u : (\E i \in DOMAIN s : u[k] = s[i]) \/ (\E i \in DOMAIN t : u[k] = t[i])

LEMMA DistinctJoined ==
  ASSUME NEW S, NEW s \in Seq(S), NEW t \in Seq(S), Foreign(s, t)
  PROVE  Chained(s, t) \in Seq(S) /\ Distinct(Chained(s, t)) /\ Shared(Chained(s, t), s, t)
<1> PICK u : u = s \o t
  OBVIOUS
<1>1. Len(s) \in Nat /\ Len(t) \in Nat
  OBVIOUS
<1> PICK m \in Nat, n \in Nat : m = Len(s) /\ n = Len(t)
  BY <1>1, Zenon
<1>2. u \in Seq(S) /\ DOMAIN u = 1 .. m + n /\ DOMAIN s = 1 .. m /\ DOMAIN t = 1 .. n
  OBVIOUS
<1>3. \A k \in 1 .. m : u[k] = s[k]
  OBVIOUS
<1>4. \A k \in (m + 1) .. (m + n) : u[k] = t[k - m]
  <2> SUFFICES ASSUME NEW k \in (m + 1) .. (m + n) PROVE u[k] = t[k - m]
    OBVIOUS
  <2>1. k \in 1 .. Len(s) + Len(t) /\ k > Len(s)
    OBVIOUS
  <2> QED
    BY <2>1
<1>5. \A k \in (m + 1) .. (m + n) : k - m \in 1 .. n
  OBVIOUS
<1>6. \A k \in 1 .. m + n : k \in 1 .. m \/ k \in (m + 1) .. (m + n)
  OBVIOUS
<1>7. \A k \in DOMAIN u : (\E i \in DOMAIN s : u[k] = s[i]) \/ (\E i \in DOMAIN t : u[k] = t[i])
  BY <1>2, <1>3, <1>4, <1>5, <1>6, Zenon
<1>8. ASSUME NEW i \in DOMAIN u, NEW j \in DOMAIN u, i # j PROVE u[i] # u[j]
  <2>1. CASE i \in 1 .. m /\ j \in 1 .. m
    BY <1>2, <1>3, <1>8, <2>1, Zenon DEF Distinct, Foreign
  <2>2. CASE i \in 1 .. m /\ j \in (m + 1) .. (m + n)
    <3>1. u[i] = s[i] /\ i \in DOMAIN s
      BY <1>2, <1>3, <2>2, Zenon
    <3>2. u[j] = t[j - m] /\ j - m \in DOMAIN t
      BY <1>2, <1>4, <1>5, <2>2, Zenon
    <3> QED
      BY <3>1, <3>2, Zenon DEF Foreign
  <2>3. CASE j \in 1 .. m /\ i \in (m + 1) .. (m + n)
    <3>1. u[j] = s[j] /\ j \in DOMAIN s
      BY <1>2, <1>3, <2>3, Zenon
    <3>2. u[i] = t[i - m] /\ i - m \in DOMAIN t
      BY <1>2, <1>4, <1>5, <2>3, Zenon
    <3> QED
      BY <3>1, <3>2, Zenon DEF Foreign
  <2>4. CASE i \in (m + 1) .. (m + n) /\ j \in (m + 1) .. (m + n)
    <3>1. i - m # j - m
      BY <1>8, <2>4
    <3>2. u[i] = t[i - m] /\ i - m \in DOMAIN t
      BY <1>2, <1>4, <1>5, <2>4, Zenon
    <3>3. u[j] = t[j - m] /\ j - m \in DOMAIN t
      BY <1>2, <1>4, <1>5, <2>4, Zenon
    <3> QED
      BY <3>1, <3>2, <3>3, Zenon DEF Distinct, Foreign
  <2> QED
    BY <1>2, <1>6, <2>1, <2>2, <2>3, <2>4, Zenon
<1> QED
  BY <1>2, <1>7, <1>8, Zenon DEF Distinct, Chained, Shared

(* What a stack holds when it took what there is room for, and when its    *)
(* last element was taken.                                                 *)
Refill(s, t, n) == SubSeq(s \o t, 1, IF Len(s \o t) < n THEN Len(s \o t) ELSE n)

LEMMA Refilled ==
  ASSUME NEW S, NEW s \in Seq(S), NEW t \in Seq(S), NEW n \in Nat, Foreign(s, t)
  PROVE  /\ Refill(s, t, n) \in Seq(S) /\ Len(Refill(s, t, n)) <= n /\ Distinct(Refill(s, t, n))
         /\ Shared(Refill(s, t, n), s, t)
<1>1. Chained(s, t) \in Seq(S) /\ Distinct(Chained(s, t)) /\ Shared(Chained(s, t), s, t)
  BY DistinctJoined, Zenon
<1>2. PICK l \in Nat : l <= Len(Chained(s, t)) /\ l <= n /\ Refill(s, t, n) = FirstOf(Chained(s, t), l)
  <2>1. Len(Chained(s, t)) \in Nat
    BY <1>1
  <2>2. CASE Len(Chained(s, t)) < n
    <3>1. Refill(s, t, n) = FirstOf(Chained(s, t), Len(Chained(s, t)))
      BY <2>2, Zenon DEF Refill, FirstOf, Chained
    <3>2. Len(Chained(s, t)) <= Len(Chained(s, t)) /\ Len(Chained(s, t)) <= n
      BY <2>1, <2>2
    <3> QED
      BY <2>1, <3>1, <3>2, Zenon
  <2>3. CASE ~(Len(Chained(s, t)) < n)
    <3>1. Refill(s, t, n) = FirstOf(Chained(s, t), n)
      BY <2>3, Zenon DEF Refill, FirstOf, Chained
    <3>2. n <= Len(Chained(s, t)) /\ n <= n
      BY <2>1, <2>3
    <3> QED
      BY <3>1, <3>2, Zenon
  <2> QED
    BY <2>2, <2>3
<1>3. /\ FirstOf(Chained(s, t), l) \in Seq(S) /\ Len(FirstOf(Chained(s, t), l)) = l
      /\ \A k \in DOMAIN FirstOf(Chained(s, t), l) :
            k \in DOMAIN Chained(s, t) /\ FirstOf(Chained(s, t), l)[k] = Chained(s, t)[k]
  BY <1>1, <1>2, FirstOnes, Zenon
<1>4. Distinct(FirstOf(Chained(s, t), l))
  BY <1>1, <1>3, DistinctPart, Zenon
<1>5. Len(FirstOf(Chained(s, t), l)) <= n
  BY <1>2, <1>3
<1> QED
  BY <1>1, <1>2, <1>3, <1>4, <1>5, Zenon DEF Shared

LastOut(s, rest) ==
  \A k \in DOMAIN rest : k \in DOMAIN s /\ rest[k] = s[k] /\ rest[k] # s[Len(s)]

LEMMA Shortened ==
  ASSUME NEW S, NEW s \in Seq(S), s # <<>>, Distinct(s)
  PROVE  /\ Len(s) \in DOMAIN s /\ LastOut(s, FirstOf(s, Len(s) - 1))
         /\ FirstOf(s, Len(s) - 1) \in Seq(S) /\ Len(FirstOf(s, Len(s) - 1)) < Len(s)
         /\ Distinct(FirstOf(s, Len(s) - 1))
<1>1. Len(s) - 1 \in Nat /\ Len(s) - 1 <= Len(s) /\ Len(s) \in DOMAIN s /\ Len(s) - 1 < Len(s)
  OBVIOUS
<1>2. /\ FirstOf(s, Len(s) - 1) \in Seq(S) /\ Len(FirstOf(s, Len(s) - 1)) = Len(s) - 1
      /\ \A k \in DOMAIN FirstOf(s, Len(s) - 1) : k \in DOMAIN s /\ FirstOf(s, Len(s) - 1)[k] = s[k]
  BY <1>1, FirstOnes, Zenon
<1>3. Distinct(FirstOf(s, Len(s) - 1))
  BY <1>2, DistinctPart, Zenon
<1>4. \A k \in DOMAIN FirstOf(s, Len(s) - 1) : k # Len(s)
  <2>1. DOMAIN FirstOf(s, Len(s) - 1) = 1 .. Len(s) - 1
    BY <1>2
  <2> QED
    BY <1>1, <2>1
<1>5. Len(FirstOf(s, Len(s) - 1)) < Len(s)
  BY <1>1, <1>2, Zenon
<1>6. \A k \in DOMAIN FirstOf(s, Len(s) - 1) : FirstOf(s, Len(s) - 1)[k] # s[Len(s)]
  BY <1>1, <1>2, <1>4, Zenon DEF Distinct
<1> QED
  BY <1>1, <1>2, <1>3, <1>5, <1>6, Zenon DEF LastOut

(* No record is given back twice, and each is in use until it is.          *)
LEMMA GivenOnce ==
  ASSUME NEW m, OnceOnly(m), NEW ids, NEW given \in Memory!GivenBack(m, ids)
  PROVE  \E records \in Seq(TaskIds) :
           /\ records = [k \in DOMAIN given |-> m.tasks[given[k]]] /\ Distinct(records)
           /\ \A k \in DOMAIN records : records[k] \in m.inUse
<1> PICK held : held = ids \cap Memory!Stored(m)
  OBVIOUS
<1>1. /\ given \in UNION { Memory!SetToSeqs(some) : some \in SUBSET held }
      /\ \A k \in DOMAIN given : Memory!InUse(m, given, k)
  BY Zenon DEF Memory!GivenBack
<1> PICK some \in SUBSET held : given \in Memory!SetToSeqs(some)
  BY <1>1
<1>2. held \subseteq Numbers
  BY DEF Memory!Stored, Numbers
<1>3. Cardinality(some) \in Nat
  <2>1. some \subseteq Numbers
    BY <1>2
  <2> QED
    BY <2>1, FS_Subset, FS_CardinalityType, NumbersFinite
<1> PICK n \in Nat : n = Cardinality(some)
  BY <1>3
<1>4. given \in [1 .. n -> some]
  BY DEF Memory!SetToSeqs, Memory!Cardinality, Cardinality
<1> PICK records : records = [k \in 1 .. n |-> m.tasks[given[k]]]
  OBVIOUS
<1>5. \A k \in 1 .. n : /\ records[k] \in m.inUse
                        /\ \A j \in 1 .. (k - 1) : records[k] # records[j]
  <2> SUFFICES ASSUME NEW k \in 1 .. n
               PROVE  records[k] \in m.inUse /\ \A j \in 1 .. (k - 1) : records[k] # records[j]
    OBVIOUS
  <2>1. m.tasks[given[k]] \in m.inUse \ { m.tasks[given[j]] : j \in 1 .. (k - 1) }
    BY <1>1, <1>4 DEF Memory!InUse
  <2>2. \A j \in 1 .. (k - 1) : j \in 1 .. n
    OBVIOUS
  <2> QED
    BY <2>1, <2>2
<1>6. m.inUse \subseteq TaskIds
  BY DEF OnceOnly, Memories
<1>7. records \in Seq(TaskIds) /\ DOMAIN records = 1 .. n
  BY <1>5, <1>6
<1>8. Distinct(records)
  <2> SUFFICES ASSUME NEW i \in 1 .. n, NEW j \in 1 .. n, i # j PROVE records[i] # records[j]
    BY <1>7 DEF Distinct
  <2>1. i < j \/ j < i
    OBVIOUS
  <2>2. i \in 1 .. (j - 1) \/ j \in 1 .. (i - 1)
    BY <2>1
  <2> QED
    BY <1>5, <2>2
<1> QED
  BY <1>4, <1>5, <1>7, <1>8

(* What a gc leaves behind is in order again, in whatever order it went.   *)
LEMMA CollectedOnce ==
  ASSUME NEW m, OnceOnly(m), NEW ids, NEW after \in Memory!Removed(m, ids)
  PROVE  OnceOnly(after)
<1> PICK given \in Memory!GivenBack(m, ids) : after = Memory!Collected(m, ids, given)
  BY DEF Memory!Removed
<1> PICK records \in Seq(TaskIds) :
      /\ records = [k \in DOMAIN given |-> m.tasks[given[k]]] /\ Distinct(records)
      /\ \A k \in DOMAIN records : records[k] \in m.inUse
  BY GivenOnce
<1> PICK gone : gone = Memory!ToSet(records)
  OBVIOUS
<1>1. m.available \in Seq(TaskIds) /\ Distinct(m.available) /\ \A i \in DOMAIN m.available : m.available[i] \notin m.inUse
  BY DEF OnceOnly, Memories
<1>2. Foreign(m.available, records)
  BY <1>1, Zenon DEF Foreign
<1>3. PICK kept \in Seq(TaskIds) :
        /\ kept = Refill(m.available, records, PoolSize)
        /\ Len(kept) <= PoolSize /\ Distinct(kept) /\ Shared(kept, m.available, records)
  <2>1. PoolSize \in Nat
    BY MemoryAssumption
  <2> QED
    BY <1>1, <1>2, <2>1, Refilled, Zenon
<1>6. ASSUME NEW k \in DOMAIN kept PROVE kept[k] \notin m.inUse \ gone
  <2>1. CASE \E i \in DOMAIN m.available : kept[k] = m.available[i]
    BY <1>1, <2>1, Zenon
  <2>2. CASE \E i \in DOMAIN records : kept[k] = records[i]
    BY <2>2 DEF Memory!ToSet
  <2> QED
    BY <1>3, <2>1, <2>2, Zenon DEF Shared
<1>7. after.available = kept /\ after.inUse = m.inUse \ gone
  BY <1>3, Zenon DEF Memory!Collected, Memory!Capped, Refill
<1>8. after \in Memories
  <2> PICK tasks, record :
        /\ tasks = [i \in {0} \cup TaskIds |-> IF i \in ids THEN 0 ELSE m.tasks[i]]
        /\ record = [r \in TaskIds |-> IF r \in gone THEN Memory!Blank ELSE m.record[r]]
    OBVIOUS
  <2>1. after = [tasks |-> tasks, record |-> record, available |-> kept, inUse |-> m.inUse \ gone]
    BY <1>3, NumbersFinite, Zenon DEF Memory!Collected, Memory!Capped, Refill
  <2>2. tasks \in [Numbers -> Numbers]
    BY DEF OnceOnly, Memories, Numbers
  <2>3. Memory!Blank \in TaskRecords
    BY DEF Memory!Blank, TaskRecords, Numbers
  <2>4. record \in [TaskIds -> TaskRecords]
    BY <2>3 DEF OnceOnly, Memories
  <2> QED
    BY <2>1, <2>2, <2>4 DEF OnceOnly, Memories
<1> QED
  BY <1>3, <1>6, <1>7, <1>8, Zenon DEF OnceOnly

LEMMA PutOnce ==
  ASSUME NEW m, OnceOnly(m), NEW r \in TaskIds, NEW record \in TaskRecords
  PROVE  OnceOnly(Memory!Put(m, r, record))
<1> PICK records : records = [m.record EXCEPT ![r] = record]
  OBVIOUS
<1>1. records \in [TaskIds -> TaskRecords]
  BY DEF OnceOnly, Memories
<1>2. Memory!Put(m, r, record) = [m EXCEPT !.record = records]
  BY DEF Memory!Put, OnceOnly, Memories
<1> QED
  BY <1>1, <1>2 DEF OnceOnly, Memories

LEMMA SetOnce ==
  ASSUME NEW m, OnceOnly(m), NEW i \in Numbers, NEW r \in TaskIds, x4 \in Collections, Memory!Set(m, i, r)
  PROVE  OnceOnly(x1') /\ x4' \in Collections
<1> PICK n : n = [m EXCEPT !.tasks[i] = r]
  OBVIOUS
<1>1. OnceOnly(n)
  <2> PICK tasks : tasks = [m.tasks EXCEPT ![i] = r]
    OBVIOUS
  <2>1. tasks \in [Numbers -> Numbers]
    BY DEF OnceOnly, Memories, Numbers
  <2>2. n = [m EXCEPT !.tasks = tasks]
    BY DEF OnceOnly, Memories
  <2> QED
    BY <2>1, <2>2 DEF OnceOnly, Memories
<1> PICK full : full = (Memory!Cardinality(Memory!Stored(n)) > MaxTasks)
  OBVIOUS
<1>2. IF full /\ Memory!ToArchive(n) # {}
        THEN \E g \in DOMAIN x4 :
               x4[g] = {} /\ x4' = [x4 EXCEPT ![g] = Memory!ToRemove(n)] /\ x1' = n
        ELSE x1' \in (IF full THEN Memory!Removed(n, Memory!ToRemove(n)) ELSE {n}) /\ UNCHANGED x4
  BY DEF Memory!Set
<1>3. CASE full /\ Memory!ToArchive(n) # {}
  <2> PICK ids : ids = Memory!ToRemove(n)
    OBVIOUS
  <2>1. ids \subseteq Numbers
    BY DEF Memory!ToRemove, Memory!ToArchive, Memory!Stored, Numbers
  <2> PICK g \in DOMAIN x4 : x4' = [x4 EXCEPT ![g] = ids] /\ x1' = n
    BY <1>2, <1>3
  <2> QED
    BY <1>1, <2>1 DEF Collections
<1>4. CASE ~(full /\ Memory!ToArchive(n) # {})
  <2>1. OnceOnly(x1')
    BY <1>1, <1>2, <1>4, CollectedOnce
  <2> QED
    BY <1>2, <1>4, <2>1 DEF Collections
<1> QED
  BY <1>3, <1>4

LEMMA MemoryStart == Memory!Init => MemoryInv
<1> SUFFICES ASSUME Memory!Init PROVE MemoryInv
  OBVIOUS
<1>1. Memory!Blank \in TaskRecords
  BY DEF Memory!Blank, TaskRecords, Numbers
<1> PICK tasks, record : /\ tasks = [i \in {0} \cup TaskIds |-> 0]
                         /\ record = [r \in TaskIds |-> Memory!Blank]
  OBVIOUS
<1>2. x1 = [tasks |-> tasks, record |-> record, available |-> <<1>>, inUse |-> {}]
  BY NumbersFinite DEF Memory!Init
<1>3. tasks \in [Numbers -> Numbers] /\ record \in [TaskIds -> TaskRecords]
  BY <1>1 DEF Numbers
<1>4. <<1>> \in Seq(TaskIds) /\ Len(<<1>>) = 1
  BY MemoryAssumption
<1>5. OnceOnly(x1)
  BY <1>2, <1>3, <1>4, MemoryAssumption DEF OnceOnly, Memories, Distinct
<1>6. x2 \in Executions /\ \A i \in TaskIds : x2[i].pc = "new"
  BY DEF Memory!Init, Executions, Numbers
<1>7. x4 \in Collections
  BY DEF Memory!Init, Collections
<1> QED
  BY <1>5, <1>6, <1>7 DEF MemoryInv

LEMMA MemoryPrepare ==
  ASSUME MemoryInv, NEW i \in TaskIds, Memory!Prepare(i)
  PROVE  MemoryInv'
<1> PICK r \in IF x1.available # <<>> THEN {Memory!Last(x1.available)} ELSE Memory!Unmade :
      /\ LET taken == [x1 EXCEPT !.available = IF @ = <<>> THEN @ ELSE Memory!Front(@),
                                 !.inUse = @ \cup {r}]
         IN  Memory!Set(Memory!Put(taken, r, [x1.record[r] EXCEPT !.id = i, !.status = "pending"]), i, r)
      /\ x2' = [x2 EXCEPT ![i] = [pc |-> "waiting", r |-> r]]
  BY Zenon DEF Memory!Prepare
<1> PICK available \in Seq(TaskIds) : available = x1.available
  BY DEF MemoryInv, OnceOnly, Memories
<1> PICK rest : rest = IF available = <<>> THEN available ELSE Memory!Front(available)
  OBVIOUS
<1>1. /\ rest \in Seq(TaskIds) /\ Len(rest) <= PoolSize /\ Distinct(rest) /\ r \in TaskIds
      /\ \A k \in DOMAIN rest : rest[k] \notin x1.inUse \cup {r}
  <2>1. CASE available = <<>>
    <3>1. r \in TaskIds
      BY <2>1, NumbersFinite DEF Memory!Unmade
    <3> QED
      BY <2>1, <3>1, MemoryAssumption DEF Distinct
  <2>2. CASE available # <<>>
    <3>1. /\ Distinct(available) /\ Len(available) <= PoolSize
          /\ \A k \in DOMAIN available : available[k] \notin x1.inUse
      BY DEF MemoryInv, OnceOnly
    <3>2. r = available[Len(available)] /\ rest = FirstOf(available, Len(available) - 1)
      BY <2>2, Zenon DEF Memory!Last, Memory!Front, FirstOf
    <3>3. /\ Len(available) \in DOMAIN available
          /\ rest \in Seq(TaskIds) /\ Len(rest) < Len(available) /\ Distinct(rest)
          /\ LastOut(available, rest)
      BY <2>2, <3>1, <3>2, Shortened, Zenon
    <3>4. r \in TaskIds
      BY <3>2, <3>3
    <3>5. Len(rest) <= PoolSize
      BY <3>1, <3>3, MemoryAssumption
    <3>6. \A k \in DOMAIN rest : rest[k] \notin x1.inUse \cup {r}
      BY <3>1, <3>2, <3>3, Zenon DEF LastOut
    <3> QED
      BY <3>3, <3>4, <3>5, <3>6, Zenon
  <2> QED
    BY <2>1, <2>2
<1> PICK busy : busy = x1.inUse \cup {r}
  OBVIOUS
<1> PICK taken : taken = [x1 EXCEPT !.available = rest, !.inUse = busy]
  OBVIOUS
<1>2. OnceOnly(taken)
  <2>1. busy \subseteq TaskIds
    BY <1>1 DEF MemoryInv, OnceOnly, Memories
  <2>2. taken.available = rest /\ taken.inUse = busy /\ taken \in Memories
    BY <1>1, <2>1 DEF MemoryInv, OnceOnly, Memories
  <2> QED
    BY <1>1, <2>2 DEF OnceOnly
<1>3. taken = [x1 EXCEPT !.available = IF @ = <<>> THEN @ ELSE Memory!Front(@), !.inUse = @ \cup {r}]
  BY DEF MemoryInv, OnceOnly, Memories
<1> PICK record : record = [x1.record[r] EXCEPT !.id = i, !.status = "pending"]
  OBVIOUS
<1>4. record \in TaskRecords
  <2>1. x1.record[r] \in TaskRecords
    BY <1>1 DEF MemoryInv, OnceOnly, Memories
  <2> QED
    BY <2>1 DEF TaskRecords, Numbers
<1> PICK m : m = Memory!Put(taken, r, record)
  OBVIOUS
<1>5. OnceOnly(m)
  BY <1>1, <1>2, <1>4, PutOnce
<1>6. Memory!Set(m, i, r)
  BY <1>3
<1>7. OnceOnly(x1') /\ x4' \in Collections
  <2>1. i \in Numbers /\ x4 \in Collections
    BY DEF Numbers, MemoryInv
  <2> QED
    BY <1>1, <1>5, <1>6, <2>1, SetOnce
<1>8. x2' \in Executions /\ \A j \in TaskIds : x2'[j].pc # "new" => x2'[j].r # 0
  <2>1. r # 0 /\ r \in Numbers
    BY <1>1, NumbersFinite DEF Numbers
  <2> QED
    BY <2>1 DEF MemoryInv, Executions
<1> QED
  BY <1>7, <1>8 DEF MemoryInv

LEMMA MemoryPrompts ==
  ASSUME MemoryInv, NEW i \in TaskIds, Memory!Prompts(i)
  PROVE  MemoryInv'
<1> PICK r : r = x2[i].r
  OBVIOUS
<1>1. r \in TaskIds
  BY DEF MemoryInv, Executions, Memory!Prompts, Numbers
<1> PICK id : id = x1.record[r].id
  OBVIOUS
<1> PICK record : record = [x1.record[r] EXCEPT !.status = "running"]
  OBVIOUS
<1>2. record \in TaskRecords /\ id \in Numbers
  <2>1. x1.record[r] \in TaskRecords
    BY <1>1 DEF MemoryInv, OnceOnly, Memories
  <2> QED
    BY <2>1 DEF TaskRecords
<1> PICK m : m = Memory!Put(x1, r, record)
  OBVIOUS
<1>3. OnceOnly(m)
  BY <1>1, <1>2, PutOnce DEF MemoryInv
<1>4. Memory!Set(m, id, r) /\ x2' = [x2 EXCEPT ![i].pc = "prompting"]
  BY DEF Memory!Prompts
<1>5. OnceOnly(x1') /\ x4' \in Collections
  BY <1>1, <1>2, <1>3, <1>4, SetOnce DEF MemoryInv
<1>6. x2' \in Executions /\ \A j \in TaskIds : x2'[j].pc # "new" => x2'[j].r # 0
  BY <1>1, <1>4, NumbersFinite DEF MemoryInv, Executions
<1> QED
  BY <1>5, <1>6 DEF MemoryInv

LEMMA EndedRecord ==
  ASSUME NEW old \in TaskRecords, NEW status \in {"completed", "error"}
  PROVE  [old EXCEPT !.status = status, !.age = 0] \in TaskRecords
<1> PICK new : new = [old EXCEPT !.status = status, !.age = 0]
  OBVIOUS
<1>1. new = [id |-> old.id, status |-> status, age |-> 0]
  BY DEF TaskRecords
<1>2. old.id \in Numbers
  BY DEF TaskRecords
<1>3. 0 \in 0 .. 2
  OBVIOUS
<1> QED
  BY <1>1, <1>2, <1>3 DEF TaskRecords

LEMMA MemoryElse ==
  ASSUME MemoryInv,
         \/ \E i \in TaskIds : Memory!Answered(i) \/ Memory!Retries(i) \/ Memory!CleanupTimer(i)
         \/ \E i \in TaskIds, status \in {"completed", "error"} : Memory!Ends(i, status)
         \/ \E r \in TaskIds : Memory!Ages(r)
         \/ \E g \in DOMAIN x4 : Memory!Archived(g)
  PROVE  MemoryInv'
<1>1. ASSUME NEW i \in TaskIds, Memory!Answered(i) \/ Memory!Retries(i) PROVE MemoryInv'
  <2> PICK pc \in {"over", "backoff"} : x2' = [x2 EXCEPT ![i].pc = pc]
    BY <1>1 DEF Memory!Answered, Memory!Retries
  <2>1. x2[i].pc = "prompting" /\ UNCHANGED <<x1, x4>>
    BY <1>1 DEF Memory!Answered, Memory!Retries
  <2> QED
    BY <2>1 DEF MemoryInv, Executions
<1>2. ASSUME NEW i \in TaskIds, Memory!CleanupTimer(i) PROVE MemoryInv'
  <2> PICK tasks : tasks = [x1.tasks EXCEPT ![i] = 0]
    OBVIOUS
  <2>1. tasks \in [Numbers -> Numbers]
    BY DEF MemoryInv, OnceOnly, Memories, Numbers
  <2>2. x1' = [x1 EXCEPT !.tasks = tasks] /\ UNCHANGED <<x2, x4>>
    BY <1>2 DEF Memory!CleanupTimer, Memory!Delete, MemoryInv, OnceOnly, Memories
  <2>3. OnceOnly(x1')
    BY <2>1, <2>2 DEF MemoryInv, OnceOnly, Memories
  <2> QED
    BY <2>2, <2>3 DEF MemoryInv
<1>3. ASSUME NEW i \in TaskIds, NEW status \in {"completed", "error"}, Memory!Ends(i, status) PROVE MemoryInv'
  <2> PICK r : r = x1.tasks[i]
    OBVIOUS
  <2> PICK record : record = [x1.record[r] EXCEPT !.status = status, !.age = 0]
    OBVIOUS
  <2>1. r \in TaskIds
    BY <1>3 DEF Memory!Ends, Memory!Has, MemoryInv, OnceOnly, Memories, Numbers
  <2>2. record \in TaskRecords
    <3>1. x1.record[r] \in TaskRecords
      BY <2>1 DEF MemoryInv, OnceOnly, Memories
    <3> QED
      BY <3>1, EndedRecord
  <2>3. x1' = Memory!Put(x1, r, record) /\ UNCHANGED <<x2, x4>>
    BY <1>3 DEF Memory!Ends
  <2> QED
    BY <2>1, <2>2, <2>3, PutOnce DEF MemoryInv
<1>4. ASSUME NEW r \in TaskIds, Memory!Ages(r) PROVE MemoryInv'
  <2> PICK record : record = [x1.record[r] EXCEPT !.age = @ + 1]
    OBVIOUS
  <2>1. x1.record[r] \in TaskRecords
    BY DEF MemoryInv, OnceOnly, Memories
  <2>2. x1.record[r].age < 2
    BY <1>4, <2>1 DEF Memory!Ages, TaskRecords
  <2>3. record \in TaskRecords
    BY <2>1, <2>2 DEF TaskRecords
  <2>4. x1' = Memory!Put(x1, r, record) /\ UNCHANGED <<x2, x4>>
    BY <1>4 DEF Memory!Ages
  <2> QED
    BY <2>3, <2>4, PutOnce DEF MemoryInv
<1>5. ASSUME NEW g \in DOMAIN x4, Memory!Archived(g) PROVE MemoryInv'
  <2>1. x1' \in Memory!Removed(x1, x4[g]) /\ x4' = [x4 EXCEPT ![g] = {}] /\ UNCHANGED x2
    BY <1>5 DEF Memory!Archived
  <2>2. OnceOnly(x1')
    BY <2>1, CollectedOnce DEF MemoryInv
  <2> QED
    BY <2>1, <2>2 DEF MemoryInv, Collections
<1> QED
  BY <1>1, <1>2, <1>3, <1>4, <1>5

LEMMA MemoryStep ==
  ASSUME MemoryInv, Memory!Next \/ UNCHANGED <<x1, x2, x3, x4>>
  PROVE  MemoryInv'
<1>1. CASE UNCHANGED <<x1, x2, x3, x4>>
  BY <1>1 DEF MemoryInv
<1>2. CASE Memory!Next
  BY <1>2, MemoryPrepare, MemoryPrompts, MemoryElse, NumbersFinite DEF Memory!Next
<1> QED
  BY <1>1, <1>2

(* No record of a task is in the pool twice, or both in the pool and in    *)
(* use, whatever collections overlap (x1 to x4 are the variables of        *)
(* TaskMemory).                                                            *)
THEOREM MemoryCorrect == Memory!Spec => []MemoryInv
<1>1. MemoryInv /\ [Memory!Next]_(Memory!memoryVars) => MemoryInv'
  BY MemoryStep DEF Memory!memoryVars
<1> QED
  BY <1>1, MemoryStart, PTL DEF Memory!Spec

LEMMA MemoryShow == MemoryInv => Memory!HandedOutOnce /\ Memory!MemoryTypeOK
<1> SUFFICES ASSUME MemoryInv PROVE Memory!HandedOutOnce /\ Memory!MemoryTypeOK
  OBVIOUS
<1>1. Memory!HandedOutOnce
  BY DEF MemoryInv, OnceOnly, Distinct, Memory!HandedOutOnce, Memory!IsInjective, Memory!ToSet
<1>2. Memory!MemoryTypeOK
  BY NumbersFinite DEF MemoryInv, OnceOnly, Memories, TaskRecords, Numbers, Memory!MemoryTypeOK, Memory!ToSet
<1> QED
  BY <1>1, <1>2

-----------------------------------------------------------------------------
(* 6. The orderly end.                                                     *)
cleanupHandlers == x1
register == x2
isShuttingDown == x3
running == x4
state == x5

USE DEF cleanupHandlers, register, isShuttingDown, running, state

LEMMA LeastOne ==
  ASSUME NEW T, T \subseteq Nat, T # {}
  PROVE  \E x \in T : \A y \in T : x <= y
<1> DEFINE R == OpToRel(<, Nat)
<1>1. IsWellFoundedOn(R, Nat)
  BY NatLessThanWellFounded
<1>2. R = {ss \in Nat \X Nat : ss[1] < ss[2]}
  BY DEF OpToRel
<1> HIDE DEF R
<1>3. PICK x \in T : \A y \in T : ~(<<y, x>> \in R)
  BY <1>1, WFMin
<1>4. ASSUME NEW y \in T PROVE x <= y
  <2>1. <<y, x>> \in Nat \X Nat /\ ~(<<y, x>> \in R)
    BY <1>3
  <2>2. ~(y < x)
    BY <1>2, <2>1
  <2> QED
    BY <2>2
<1> QED
  BY <1>4

Over == {"finished", "failed", "late", "lateEnd"}

(* Sorted by priority and, within one, in the order of registration.       *)
InOrder(hs) ==
  /\ hs \in Seq(Handlers)
  /\ \A i, j \in DOMAIN hs : i < j => Shutdown!Precedes(hs[i], hs[j])

(* The handlers that were called are the first of those registered, and    *)
(* all of them but the last are over.                                      *)
FirstCalled ==
  /\ running \in Seq(Handlers) /\ Len(running) <= Len(cleanupHandlers)
  /\ \A i \in DOMAIN running : running[i] = cleanupHandlers[i]
  /\ \A i \in DOMAIN running : i < Len(running) => state[running[i]] \in Over

ShutdownInv ==
  /\ register \in Nat
  /\ InOrder(cleanupHandlers)
  /\ \A i \in DOMAIN cleanupHandlers : cleanupHandlers[i] <= register
  /\ state \in [Handlers -> Over \cup {"idle", "running"}]
  /\ isShuttingDown \in BOOLEAN /\ (isShuttingDown \/ running = <<>>)
  /\ FirstCalled

LEMMA ShutdownStarts == Shutdown!Init => ShutdownInv
<1>1. <<>> \in Seq(Handlers) /\ Len(<<>>) = 0 /\ DOMAIN <<>> = {}
  BY EmptySeq
<1> SUFFICES ASSUME Shutdown!Init PROVE ShutdownInv
  OBVIOUS
<1>2. cleanupHandlers = <<>> /\ running = <<>> /\ register = 0 /\ isShuttingDown = FALSE
  BY DEF Shutdown!Init
<1>3. state \in [Handlers -> Over \cup {"idle", "running"}]
  BY DEF Shutdown!Init
<1>4. InOrder(<<>>)
  BY <1>1 DEF InOrder
<1>5. FirstCalled
  BY <1>1, <1>2 DEF FirstCalled
<1>6. \A i \in DOMAIN cleanupHandlers : cleanupHandlers[i] <= register
  BY <1>1, <1>2
<1> QED
  BY <1>2, <1>3, <1>4, <1>5, <1>6, Zenon DEF ShutdownInv

(* Among handlers in order there is a place for one more.                  *)
GoesAt(hs, h, n) == \A i \in DOMAIN hs : i <= n <=> Shutdown!GoesFirst(hs[i], h)

LEMMA PlaceFound ==
  ASSUME NEW hs, InOrder(hs), NEW h \in Handlers
  PROVE  \E n \in 0 .. Len(hs) : GoesAt(hs, h, n)
<1> DEFINE behind == { i \in DOMAIN hs : ~Shutdown!GoesFirst(hs[i], h) }
<1>1. DOMAIN hs = 1 .. Len(hs) /\ Len(hs) \in Nat /\ \A i \in DOMAIN hs : hs[i] \in Handlers
  BY DEF InOrder
<1>2. CASE behind = {}
  BY <1>1, <1>2 DEF GoesAt
<1>3. CASE behind # {}
  <2>1. behind \subseteq Nat
    BY <1>1
  <2>2. PICK m \in behind : \A i \in behind : m <= i
    <3> HIDE DEF behind
    <3> QED
      BY <1>3, <2>1, LeastOne
  <2>3. m \in DOMAIN hs /\ ~Shutdown!GoesFirst(hs[m], h)
    OBVIOUS
  <2>4. ASSUME NEW i \in DOMAIN hs PROVE i <= m - 1 <=> Shutdown!GoesFirst(hs[i], h)
    <3>1. CASE i < m
      <4>1. i \notin behind
        <5> HIDE DEF behind
        <5> QED
          BY <1>1, <2>2, <2>3, <3>1
      <4> QED
        BY <1>1, <2>3, <3>1, <4>1
    <3>2. CASE i = m
      BY <1>1, <2>3, <3>2
    <3>3. CASE m < i
      <4>1. Shutdown!Precedes(hs[m], hs[i])
        BY <2>3, <3>3 DEF InOrder
      <4>2. /\ Priority[hs[m]] \in Nat /\ Priority[hs[i]] \in Nat /\ Priority[h] \in Nat
        BY <1>1, <2>3, ShutdownAssumption
      <4>3. ~Shutdown!GoesFirst(hs[i], h)
        BY <2>3, <4>1, <4>2 DEF Shutdown!Precedes, Shutdown!GoesFirst
      <4> QED
        BY <1>1, <2>3, <3>3, <4>3
    <3> QED
      BY <1>1, <2>3, <3>1, <3>2, <3>3
  <2>5. m - 1 \in 0 .. Len(hs)
    BY <1>1, <2>3
  <2> QED
    BY <2>4, <2>5 DEF GoesAt
<1> QED
  BY <1>2, <1>3

LEMMA Inserted ==
  ASSUME NEW hs, NEW n, NEW h
  PROVE  Shutdown!InsertAt(hs, n, h) = (SubSeq(hs, 1, n - 1) \o <<h>>) \o SubSeq(hs, n, Len(hs))
  BY Zenon DEF Shutdown!InsertAt

(* The new handler stands at its place, and the others around it.          *)
Placed(hs, h, n, new) ==
  /\ GoesAt(hs, h, n)
  /\ new \in Seq(Handlers) /\ Len(new) = Len(hs) + 1
  /\ \A i \in 1 .. Len(hs) + 1 :
       new[i] = IF i <= n THEN hs[i] ELSE IF i = n + 1 THEN h ELSE hs[i - 1]

LEMMA PlaceTaken ==
  ASSUME NEW hs, InOrder(hs), NEW h \in Handlers
  PROVE  \E n \in 0 .. Len(hs) : Placed(hs, h, n, Shutdown!Sorted(hs, h))
<1> DEFINE n == CHOOSE n \in 0 .. Len(hs) : GoesAt(hs, h, n)
<1> DEFINE before == SubSeq(hs, 1, n)
<1> DEFINE after == SubSeq(hs, n + 1, Len(hs))
<1>1. n \in 0 .. Len(hs) /\ GoesAt(hs, h, n)
  BY PlaceFound, Zenon
<1>2. Shutdown!Sorted(hs, h) = Shutdown!InsertAt(hs, n + 1, h)
  BY Zenon DEF Shutdown!Sorted, GoesAt
<1> HIDE DEF n
<1>3. n \in Nat /\ (n + 1) - 1 = n /\ hs \in Seq(Handlers) /\ Len(hs) \in Nat
  BY <1>1 DEF InOrder
<1>4. Shutdown!Sorted(hs, h) = (before \o <<h>>) \o after
  <2>1. Shutdown!InsertAt(hs, n + 1, h)
          = (SubSeq(hs, 1, (n + 1) - 1) \o <<h>>) \o SubSeq(hs, n + 1, Len(hs))
    BY Inserted, Zenon
  <2> QED
    BY <1>2, <1>3, <2>1, Zenon
<1>5. /\ before \in Seq(Handlers) /\ Len(before) = n
      /\ \A i \in 1 .. n : before[i] = hs[i]
  BY <1>1, <1>3
<1>6. /\ after \in Seq(Handlers) /\ Len(after) = Len(hs) - n
      /\ \A i \in 1 .. Len(hs) - n : after[i] = hs[n + i]
  BY <1>1, <1>3
<1> HIDE DEF before, after
<1>7. /\ before \o <<h>> \in Seq(Handlers) /\ Len(before \o <<h>>) = n + 1
      /\ \A i \in 1 .. n + 1 : (before \o <<h>>)[i] = IF i <= n THEN hs[i] ELSE h
  BY <1>3, <1>5
<1> DEFINE first == before \o <<h>>
<1>8. /\ first \o after \in Seq(Handlers) /\ Len(first \o after) = n + 1 + (Len(hs) - n)
      /\ \A i \in 1 .. Len(hs) + 1 :
           (first \o after)[i] = IF i <= n + 1 THEN first[i] ELSE after[i - (n + 1)]
  <2>1. first \in Seq(Handlers) /\ after \in Seq(Handlers)
    BY <1>6, <1>7
  <2>2. Len(first) = n + 1 /\ Len(after) = Len(hs) - n
    BY <1>6, <1>7
  <2> HIDE DEF first
  <2>3. Len(first) + Len(after) = Len(hs) + 1
    BY <1>1, <1>3, <2>2
  <2> QED
    BY <2>1, <2>2, <2>3, ConcatProperties
<1>9. Shutdown!Sorted(hs, h) = first \o after
  BY <1>4
<1>10. ASSUME NEW i \in 1 .. Len(hs) + 1
       PROVE  Shutdown!Sorted(hs, h)[i]
                = IF i <= n THEN hs[i] ELSE IF i = n + 1 THEN h ELSE hs[i - 1]
  <2>1. Shutdown!Sorted(hs, h)[i] = IF i <= n + 1 THEN first[i] ELSE after[i - (n + 1)]
    BY <1>8, <1>9, Zenon
  <2>2. CASE i <= n + 1
    <3>1. first[i] = IF i <= n THEN hs[i] ELSE h
      BY <1>3, <1>7, <2>2
    <3> HIDE DEF first
    <3> QED
      BY <1>3, <2>1, <2>2, <3>1
  <2>3. CASE ~(i <= n + 1)
    <3>1. i - (n + 1) \in 1 .. Len(hs) - n /\ n + (i - (n + 1)) = i - 1
      BY <1>1, <1>3, <2>3
    <3>2. after[i - (n + 1)] = hs[i - 1]
      BY <1>6, <3>1
    <3> HIDE DEF first
    <3> QED
      BY <1>3, <2>1, <2>3, <3>2
  <2> QED
    BY <2>2, <2>3
<1>11. n + 1 + (Len(hs) - n) = Len(hs) + 1
  BY <1>1, <1>3
<1> HIDE DEF first
<1> QED
  BY <1>1, <1>8, <1>9, <1>10, <1>11, Zenon DEF Placed

LEMMA RegisterStep == ASSUME ShutdownInv, Shutdown!Register PROVE ShutdownInv'
<1> DEFINE hs == cleanupHandlers
<1> DEFINE h == register + 1
<1>1. /\ h \in Handlers /\ register' = h
      /\ UNCHANGED <<isShuttingDown, running, state>>
      /\ cleanupHandlers' = IF isShuttingDown THEN hs ELSE Shutdown!Sorted(hs, h)
  BY DEF Shutdown!Register
<1>2. /\ InOrder(hs) /\ register \in Nat /\ h \in Nat
      /\ DOMAIN hs = 1 .. Len(hs) /\ Len(hs) \in Nat
      /\ \A i \in DOMAIN hs : hs[i] \in Handlers /\ hs[i] \in Nat /\ hs[i] <= register
  <2>1. InOrder(hs) /\ register \in Nat /\ \A i \in DOMAIN hs : hs[i] <= register
    BY DEF ShutdownInv
  <2>2. hs \in Seq(Handlers) /\ Handlers \subseteq Nat
    BY <2>1, ShutdownAssumption DEF InOrder
  <2> HIDE DEF hs
  <2>3. DOMAIN hs = 1 .. Len(hs) /\ Len(hs) \in Nat
    BY <2>2
  <2>4. \A i \in DOMAIN hs : hs[i] \in Handlers
    BY <2>2
  <2>5. \A i \in DOMAIN hs : hs[i] \in Nat
    BY <2>2, <2>4, Zenon
  <2> QED
    BY <1>1, <2>1, <2>3, <2>4, <2>5
<1>3. CASE isShuttingDown
  <2>1. \A i \in DOMAIN cleanupHandlers : cleanupHandlers[i] <= h
    BY <1>2
  <2> HIDE DEF h
  <2> QED
    BY <1>1, <1>2, <1>3, <2>1 DEF ShutdownInv, FirstCalled
<1>4. CASE ~isShuttingDown
  <2>1. cleanupHandlers' = Shutdown!Sorted(hs, h)
    BY <1>1, <1>4
  <2> DEFINE new == cleanupHandlers'
  <2>9. \E n \in 0 .. Len(hs) : Placed(hs, h, n, Shutdown!Sorted(hs, h))
    <3> HIDE DEF hs, h
    <3> QED
      BY <1>1, <1>2, PlaceTaken, Zenon
  <2>10. PICK n \in 0 .. Len(hs) : Placed(hs, h, n, new)
    BY <2>1, <2>9
  <2>2. /\ GoesAt(hs, h, n)
        /\ new \in Seq(Handlers) /\ Len(new) = Len(hs) + 1
        /\ \A i \in 1 .. Len(hs) + 1 :
             new[i] = IF i <= n THEN hs[i] ELSE IF i = n + 1 THEN h ELSE hs[i - 1]
    BY <2>10, Zenon DEF Placed
  <2>3. DOMAIN new = 1 .. Len(hs) + 1
    BY <2>2
  <2> HIDE DEF new
  <2>4. ASSUME NEW i \in DOMAIN new
        PROVE  \/ i <= n /\ i \in DOMAIN hs /\ new[i] = hs[i]
               \/ i = n + 1 /\ new[i] = h
               \/ n + 1 < i /\ i - 1 \in DOMAIN hs /\ new[i] = hs[i - 1]
    <3> HIDE DEF hs, h
    <3>1. i <= n \/ i = n + 1 \/ n + 1 < i
      BY <2>3
    <3>2. CASE i <= n
      BY <1>2, <2>2, <2>3, <3>2
    <3>3. CASE i = n + 1
      BY <1>2, <2>2, <2>3, <3>3
    <3>4. CASE n + 1 < i
      BY <1>2, <2>2, <2>3, <3>4
    <3> QED
      BY <3>1, <3>2, <3>3, <3>4
  <2>5. \A i \in DOMAIN new : new[i] <= h
    BY <1>2, <2>4
  <2>6. ASSUME NEW i \in DOMAIN hs
        PROVE  /\ i <= n => Shutdown!Precedes(hs[i], h)
               /\ ~(i <= n) => Shutdown!Precedes(h, hs[i])
    <3>1. i <= n <=> Priority[hs[i]] <= Priority[h]
      BY <2>2 DEF GoesAt, Shutdown!GoesFirst
    <3>2. Priority[hs[i]] \in Nat /\ Priority[h] \in Nat
      <4> HIDE DEF hs, h
      <4> QED
        BY <1>1, <1>2, ShutdownAssumption
    <3>3. hs[i] < h
      BY <1>2
    <3> HIDE DEF hs, h
    <3> QED
      BY <3>1, <3>2, <3>3 DEF Shutdown!Precedes
  <2>7. ASSUME NEW i \in DOMAIN new, NEW j \in DOMAIN new, i < j
        PROVE  Shutdown!Precedes(new[i], new[j])
    <3> HIDE DEF hs, h
    <3>1. i \in Nat /\ j \in Nat /\ n \in Nat
      BY <1>2, <2>3
    <3>2. CASE i <= n /\ j <= n
      <4>1. /\ i \in DOMAIN hs /\ new[i] = hs[i] /\ j \in DOMAIN hs /\ new[j] = hs[j]
        BY <2>4, <3>1, <3>2
      <4> QED
        BY <1>2, <2>7, <4>1 DEF InOrder
    <3>3. CASE i <= n /\ j = n + 1
      <4>1. i \in DOMAIN hs /\ new[i] = hs[i] /\ new[j] = h
        BY <2>4, <3>1, <3>3
      <4> QED
        BY <2>6, <3>3, <4>1
    <3>4. CASE i <= n /\ n + 1 < j
      <4>1. /\ i \in DOMAIN hs /\ new[i] = hs[i] /\ j - 1 \in DOMAIN hs /\ new[j] = hs[j - 1]
            /\ i < j - 1
        BY <2>4, <3>1, <3>4
      <4> QED
        BY <1>2, <4>1 DEF InOrder
    <3>5. CASE i = n + 1
      <4>1. /\ new[i] = h /\ j - 1 \in DOMAIN hs /\ new[j] = hs[j - 1] /\ ~(j - 1 <= n)
        BY <2>4, <2>7, <3>1, <3>5
      <4> QED
        BY <2>6, <4>1
    <3>6. CASE n + 1 < i
      <4>1. /\ i - 1 \in DOMAIN hs /\ new[i] = hs[i - 1] /\ j - 1 \in DOMAIN hs
            /\ new[j] = hs[j - 1] /\ i - 1 < j - 1
        BY <2>4, <2>7, <3>1, <3>6
      <4> QED
        BY <1>2, <4>1 DEF InOrder
    <3> QED
      BY <2>7, <3>1, <3>2, <3>3, <3>4, <3>5, <3>6
  <2>8. InOrder(new)
    BY <2>2, <2>7 DEF InOrder, new
  <2>11. FirstCalled'
    <3>1. running' = <<>> /\ Len(new) \in Nat
      BY <1>1, <1>2, <1>4, <2>2 DEF ShutdownInv
    <3>2. <<>> \in Seq(Handlers) /\ Len(<<>>) = 0 /\ DOMAIN <<>> = {}
      BY EmptySeq
    <3> QED
      BY <3>1, <3>2 DEF FirstCalled, new
  <2> QED
    BY <1>1, <1>2, <1>4, <2>5, <2>8, <2>11 DEF ShutdownInv, new
<1> QED
  BY <1>3, <1>4

LEMMA StartStep == ASSUME ShutdownInv, Shutdown!StartHandler PROVE ShutdownInv'
<1> DEFINE n == Len(running)
<1> DEFINE h == cleanupHandlers[n + 1]
<1>1. /\ isShuttingDown /\ n < Len(cleanupHandlers)
      /\ running' = Append(running, h) /\ state' = [state EXCEPT ![h] = "running"]
      /\ UNCHANGED <<cleanupHandlers, register, isShuttingDown>>
  BY DEF Shutdown!StartHandler
<1>2. /\ running \in Seq(Handlers) /\ n \in Nat /\ DOMAIN running = 1 .. n
      /\ cleanupHandlers \in Seq(Handlers) /\ Len(cleanupHandlers) \in Nat
      /\ DOMAIN cleanupHandlers = 1 .. Len(cleanupHandlers)
  BY DEF ShutdownInv, FirstCalled, InOrder
<1>3. n + 1 \in DOMAIN cleanupHandlers /\ h \in Handlers
  BY <1>1, <1>2
<1>4. state' \in [Handlers -> Over \cup {"idle", "running"}]
  BY <1>1, <1>3 DEF ShutdownInv
<1>5. ASSUME NEW i \in 1 .. n
      PROVE  state[running[i]] \in Over
  <2>1. CASE i < n
    BY <1>2, <2>1 DEF ShutdownInv, FirstCalled
  <2>2. CASE i = n
    <3>1. running # <<>> /\ Shutdown!Last(running) = running[n]
      BY <1>2, <2>2 DEF Shutdown!Last
    <3> QED
      BY <2>2, <3>1 DEF Shutdown!StartHandler, Shutdown!MayStart, Over
  <2>3. i < n \/ i = n
    <3> HIDE DEF n
    <3> QED
      BY <1>2
  <2> QED
    BY <2>1, <2>2, <2>3, Zenon
<1>6. ASSUME NEW i \in 1 .. n
      PROVE  running[i] = cleanupHandlers[i] /\ running[i] \in Handlers /\ running[i] # h
  <2>1. i \in DOMAIN running /\ i \in DOMAIN cleanupHandlers /\ i < n + 1
    BY <1>1, <1>2
  <2>2. running[i] = cleanupHandlers[i] /\ running[i] \in Handlers
    BY <1>2, <2>1 DEF ShutdownInv, FirstCalled
  <2>3. Shutdown!Precedes(running[i], h)
    BY <1>3, <2>1, <2>2 DEF ShutdownInv, InOrder
  <2>4. Priority[h] \in Nat /\ h \in Nat
    BY <1>3, ShutdownAssumption
  <2> HIDE DEF h
  <2> QED
    BY <2>2, <2>3, <2>4 DEF Shutdown!Precedes
<1>7. /\ running' \in Seq(Handlers) /\ Len(running') = n + 1
      /\ DOMAIN running' = 1 .. n + 1
      /\ \A i \in 1 .. n : running'[i] = running[i]
      /\ running'[n + 1] = h
  <2> HIDE DEF h
  <2> QED
    BY <1>1, <1>2, <1>3
<1>8. \A i \in DOMAIN running' : running'[i] = cleanupHandlers[i]
  BY <1>2, <1>6, <1>7
<1>9. ASSUME NEW i \in DOMAIN running', i < Len(running')
      PROVE  state'[running'[i]] \in Over
  <2>1. i \in 1 .. n
    BY <1>2, <1>7, <1>9
  <2>2. state'[running[i]] = state[running[i]]
    BY <1>1, <1>6, <2>1 DEF ShutdownInv
  <2> QED
    BY <1>5, <1>7, <2>1, <2>2
<1>10. FirstCalled'
  BY <1>1, <1>2, <1>7, <1>8, <1>9 DEF FirstCalled
<1> QED
  BY <1>1, <1>4, <1>10 DEF ShutdownInv

LEMMA BecomesStep ==
  ASSUME ShutdownInv, NEW h \in Handlers, NEW from, NEW to, Shutdown!Becomes(h, from, to),
         from \in {"running", "late"}, to \subseteq Over
  PROVE  ShutdownInv'
<1>1. PICK s \in to : state' = [state EXCEPT ![h] = s]
  BY DEF Shutdown!Becomes
<1>2. UNCHANGED <<cleanupHandlers, register, isShuttingDown, running>> /\ s \in Over
  BY DEF Shutdown!Becomes
<1>3. state' \in [Handlers -> Over \cup {"idle", "running"}]
  BY <1>1, <1>2 DEF ShutdownInv
<1>4. \A g \in Handlers : state[g] \in Over => state'[g] \in Over
  BY <1>1, <1>2 DEF ShutdownInv
<1>5. \A i \in DOMAIN running : running[i] \in Handlers
  BY DEF ShutdownInv, FirstCalled
<1>6. FirstCalled'
  BY <1>2, <1>4, <1>5 DEF ShutdownInv, FirstCalled
<1> QED
  BY <1>2, <1>3, <1>6 DEF ShutdownInv

LEMMA ShutdownStep ==
  ShutdownInv /\ [Shutdown!Next]_(Shutdown!shutdownVars) => ShutdownInv'
<1> SUFFICES ASSUME ShutdownInv, [Shutdown!Next]_(Shutdown!shutdownVars)
             PROVE  ShutdownInv'
  OBVIOUS
<1>1. CASE Shutdown!Register
  BY <1>1, RegisterStep
<1>2. CASE Shutdown!Shutdown
  BY <1>2 DEF Shutdown!Shutdown, ShutdownInv, FirstCalled
<1>3. CASE Shutdown!StartHandler
  BY <1>3, StartStep
<1>4. ASSUME NEW h \in Handlers,
             Shutdown!Ends(h) \/ Shutdown!FiveSeconds(h) \/ Shutdown!EndsLate(h)
      PROVE  ShutdownInv'
  BY <1>4, BecomesStep DEF Shutdown!Ends, Shutdown!FiveSeconds, Shutdown!EndsLate, Over
<1>5. CASE UNCHANGED Shutdown!shutdownVars
  BY <1>5 DEF Shutdown!shutdownVars, ShutdownInv, FirstCalled
<1> QED
  BY <1>1, <1>2, <1>3, <1>4, <1>5 DEF Shutdown!Next

LEMMA OrderKept == ShutdownInv => Shutdown!OrderedShutdown
<1> SUFFICES ASSUME ShutdownInv,
                    NEW h \in Shutdown!ToSet(running), NEW g \in Shutdown!ToSet(cleanupHandlers),
                    Shutdown!Precedes(g, h)
             PROVE  state[g] \in Over
  BY DEF Shutdown!OrderedShutdown, Over
<1>1. PICK j \in DOMAIN running : h = running[j]
  BY DEF Shutdown!ToSet
<1>2. PICK i \in DOMAIN cleanupHandlers : g = cleanupHandlers[i]
  BY DEF Shutdown!ToSet
<1>3. /\ i \in 1 .. Len(cleanupHandlers) /\ j \in 1 .. Len(running)
      /\ DOMAIN running = 1 .. Len(running) /\ Len(running) \in Nat
      /\ Len(running) <= Len(cleanupHandlers) /\ Len(cleanupHandlers) \in Nat
      /\ j \in DOMAIN cleanupHandlers /\ h = cleanupHandlers[j]
      /\ g \in Handlers /\ h \in Handlers
  BY <1>1, <1>2 DEF ShutdownInv, FirstCalled, InOrder
<1>4. /\ Priority[g] \in Nat /\ Priority[h] \in Nat /\ g \in Nat /\ h \in Nat
  BY <1>3, ShutdownAssumption
<1>5. ~Shutdown!Precedes(h, g) /\ g # h
  BY <1>4 DEF Shutdown!Precedes
<1>6. i < j
  <2>1. ~(j < i)
    BY <1>2, <1>3, <1>5 DEF ShutdownInv, InOrder
  <2>2. i # j
    BY <1>2, <1>3, <1>5
  <2> QED
    BY <1>3, <2>1, <2>2
<1>7. i \in DOMAIN running /\ i < Len(running)
  BY <1>3, <1>6
<1> QED
  BY <1>2, <1>7 DEF ShutdownInv, FirstCalled

(* In every state of a shutdown the handlers that were called are the      *)
(* first in order of priority and registration, and all but the last of    *)
(* them are over (shutdown-manager.ts 34-85).                              *)
THEOREM ShutdownCorrect == Shutdown!Spec => []ShutdownInv
  BY ShutdownStarts, ShutdownStep, PTL DEF Shutdown!Spec

-----------------------------------------------------------------------------
(* 7. The pool of Rust processes.                                          *)
processes == x1
proc == x2
rustCall == x3
shuttingDown == x4

USE DEF processes, proc, rustCall, shuttingDown

Pieces == [id : Nat, part : {"whole", "first", "last"}]

(* The buffer once a piece has been added n times.                         *)
Grown(out, piece, n) == out \o [i \in 1 .. n |-> piece]

Extends(new, out, piece, n) ==
  /\ new \in Seq(Pieces) /\ Len(new) = Len(out) + n /\ DOMAIN new = 1 .. Len(out) + n
  /\ \A i \in 1 .. Len(out) : new[i] = out[i]
  /\ \A i \in Len(out) + 1 .. Len(out) + n : new[i] = piece

LEMMA Growing ==
  ASSUME NEW out \in Seq(Pieces), NEW piece \in Pieces, NEW n \in Nat
  PROVE  Extends(Grown(out, piece, n), out, piece, n)
<1> DEFINE copies == [i \in 1 .. n |-> piece]
<1>1. copies \in Seq(Pieces) /\ Len(copies) = n /\ \A i \in 1 .. n : copies[i] = piece
  BY IsASeq
<1> HIDE DEF copies
<1>2. Len(out) \in Nat
  OBVIOUS
<1>3. /\ out \o copies \in Seq(Pieces) /\ Len(out \o copies) = Len(out) + n
      /\ \A i \in 1 .. Len(out) + n :
           (out \o copies)[i] = IF i <= Len(out) THEN out[i] ELSE copies[i - Len(out)]
  BY <1>1, ConcatProperties
<1>4. ASSUME NEW i \in Len(out) + 1 .. Len(out) + n PROVE (out \o copies)[i] = piece
  <2>1. i - Len(out) \in 1 .. n /\ i \in 1 .. Len(out) + n /\ ~(i <= Len(out))
    BY <1>2
  <2> QED
    BY <1>1, <1>3, <2>1
<1>5. DOMAIN (out \o copies) = 1 .. Len(out) + n
  BY <1>3
<1>6. \A i \in 1 .. Len(out) : (out \o copies)[i] = out[i]
  BY <1>2, <1>3
<1> QED
  BY <1>3, <1>4, <1>5, <1>6, Zenon DEF Extends, Grown, copies

(* A line begins after the last piece.                                     *)
AtLineEnd(out) == Rust!Begins(out, Len(out) + 1)

(* A response that the pieces complete is the one they are of, and a first *)
(* piece completes none.                                                   *)
LEMMA ResponsesOf ==
  ASSUME NEW out \in Seq(Pieces), NEW piece \in Pieces, NEW n \in Nat, NEW new,
         Extends(new, out, piece, n), NEW r \in Rust!Responses(new)
  PROVE  r \in Rust!Responses(out) \/ (r = piece.id /\ piece.part # "first")
<1>1. PICK i \in DOMAIN new : Rust!EndsResponse(new, i) /\ r = new[i].id
  BY DEF Rust!Responses
<1>2. Len(out) \in Nat /\ DOMAIN out = 1 .. Len(out) /\ i \in 1 .. Len(out) + n
  BY <1>1 DEF Extends
<1>3. CASE i <= Len(out)
  <2>1. \A j \in 1 .. i : new[j] = out[j] /\ j \in DOMAIN out
    BY <1>2, <1>3 DEF Extends
  <2>2. Rust!EndsResponse(out, i)
    BY <1>1, <1>2, <2>1 DEF Rust!EndsResponse, Rust!Begins
  <2> QED
    BY <1>1, <1>2, <1>3, <2>1, <2>2 DEF Rust!Responses
<1>4. CASE ~(i <= Len(out))
  <2>1. new[i] = piece
    BY <1>2, <1>4 DEF Extends
  <2> QED
    BY <1>1, <2>1 DEF Rust!EndsResponse
<1> QED
  BY <1>3, <1>4

(* What the buffer holds after any number of copies it holds after one.    *)
LEMMA CopiesAddNothing ==
  ASSUME NEW out \in Seq(Pieces), NEW piece \in Pieces,
         NEW m \in Nat \ {0}, NEW n \in Nat, m <= n,
         NEW some, Extends(some, out, piece, m), NEW all, Extends(all, out, piece, n),
         piece.part = "whole" => AtLineEnd(out),
         NEW r \in Rust!Responses(all)
  PROVE  r \in Rust!Responses(some)
<1>1. PICK i \in DOMAIN all : Rust!EndsResponse(all, i) /\ r = all[i].id
  BY DEF Rust!Responses
<1> DEFINE l == Len(out)
<1>2. /\ l \in Nat /\ DOMAIN out = 1 .. l /\ i \in 1 .. l + n /\ DOMAIN some = 1 .. l + m
      /\ l + 1 \in DOMAIN some
  BY <1>1 DEF Extends
<1>3. /\ \A j \in 1 .. l + m : some[j] = all[j]
      /\ \A j \in l + 1 .. l + n : all[j] = piece
      /\ some[l + 1] = piece
  <2>1. \A j \in 1 .. l + m : j <= l \/ j \in l + 1 .. l + m
    BY <1>2
  <2>2. \A j \in l + 1 .. l + m : j \in l + 1 .. l + n
    BY <1>2
  <2>3. l + 1 \in l + 1 .. l + m
    BY <1>2
  <2> QED
    <3>1. \A j \in 1 .. l + m : some[j] = all[j]
      BY <1>2, <2>1, <2>2 DEF Extends
    <3>2. \A j \in l + 1 .. l + n : all[j] = piece
      BY DEF Extends
    <3>3. some[l + 1] = piece
      BY <2>3 DEF Extends
    <3> HIDE DEF l
    <3> QED
      BY <3>1, <3>2, <3>3
<1> HIDE DEF l
<1>4. CASE i <= l + 1
  <2>1. i \in DOMAIN some /\ \A j \in 1 .. i : some[j] = all[j]
    BY <1>2, <1>3, <1>4
  <2>2. Rust!EndsResponse(some, i)
    BY <1>1, <1>2, <2>1 DEF Rust!EndsResponse, Rust!Begins
  <2> QED
    BY <1>1, <1>2, <2>1, <2>2 DEF Rust!Responses
<1>5. CASE l + 1 < i
  <2>1. all[i] = piece /\ all[i - 1] = piece
    <3>1. i \in l + 1 .. l + n /\ i - 1 \in l + 1 .. l + n
      BY <1>2, <1>5
    <3> QED
      BY <1>3, <3>1
  <2>2. piece.part = "whole"
    <3>1. piece.part # "last"
      BY <1>1, <2>1 DEF Rust!EndsResponse, Rust!Piece
    <3>2. piece.part = "whole" \/ piece.part = "last"
      BY <1>1, <2>1 DEF Rust!EndsResponse
    <3> QED
      BY <3>1, <3>2
  <2>3. Rust!Begins(some, l + 1)
    <3>1. l + 1 = 1 \/ out[l + 1 - 1].part # "first"
      BY <2>2 DEF AtLineEnd, Rust!Begins, l
    <3>2. l + 1 - 1 = l /\ (l + 1 # 1 => l \in 1 .. l + m /\ l \in 1 .. l)
      BY <1>2
    <3>3. l + 1 # 1 => some[l] = out[l]
      BY <3>2 DEF Extends, l
    <3> QED
      BY <3>1, <3>2, <3>3 DEF Rust!Begins
  <2>4. Rust!EndsResponse(some, l + 1)
    BY <1>3, <2>2, <2>3 DEF Rust!EndsResponse
  <2> QED
    BY <1>1, <1>2, <1>3, <2>1, <2>4 DEF Rust!Responses
<1> QED
  BY <1>2, <1>4, <1>5

ProcRecords ==
  [state : {"unborn", "alive", "dead"}, busy : BOOLEAN, idle : BOOLEAN, requestId : Nat,
   stdout : Seq(Pieces), listeners : SUBSET [call : RustCalls, id : Nat],
   asked : Seq(Nat), half : BOOLEAN]

CallRecords ==
  [pc : {"new", "starting", "waiting", "sent", "resolved", "rejected"},
   p : RustProcs \cup {0}, id : Nat, got : Nat]

(* No listener waits for what the buffer holds already; and only a half    *)
(* answer that somebody hears ends in the middle of a line.                *)
ProcSound(pr) ==
  /\ IsFiniteSet(pr.listeners)
  /\ \A l \in pr.listeners : l.id \notin Rust!Responses(pr.stdout)
  /\ \/ pr.state = "dead" \/ AtLineEnd(pr.stdout)
     \/ pr.half /\ pr.listeners # {}

CallSound(call) ==
  /\ call.pc = "starting" => call.p \in RustProcs
  /\ call.pc = "resolved" => call.got = call.id

Asked == {"sent", "resolved", "rejected"}

(* A listener is that of the one request its call has sent.                *)
ListensFor(l, call) == call.pc \in Asked /\ (call.pc = "sent" => call.id = l.id)

ProcsInv ==
  /\ processes \subseteq RustProcs /\ IsFiniteSet(processes)
  /\ Cardinality(processes) <= MaxProcesses

RustInv ==
  /\ ProcsInv
  /\ proc \in [RustProcs -> ProcRecords] /\ rustCall \in [RustCalls -> CallRecords]
  /\ \A p \in RustProcs : ProcSound(proc[p])
  /\ \A c \in RustCalls : CallSound(rustCall[c])
  /\ \A p \in RustProcs : \A l \in proc[p].listeners : ListensFor(l, rustCall[l.call])

LEMMA NothingRead == AtLineEnd(<<>>) /\ Rust!Responses(<<>>) = {}
  BY DEF AtLineEnd, Rust!Begins, Rust!Responses

LEMMA RustStarts == Rust!Init => RustInv
<1> SUFFICES ASSUME Rust!Init PROVE RustInv
  OBVIOUS
<1>1. ProcsInv
  BY FS_EmptySet, RustAssumption DEF Rust!Init, ProcsInv
<1>2. Rust!NewProcess \in ProcRecords /\ Rust!NewCall \in CallRecords
  BY EmptySeq DEF Rust!NewProcess, Rust!NewCall, ProcRecords, CallRecords
<1>3. ProcSound(Rust!NewProcess) /\ CallSound(Rust!NewCall) /\ Rust!NewProcess.listeners = {}
  BY NothingRead, FS_EmptySet DEF Rust!NewProcess, Rust!NewCall, ProcSound, CallSound
<1> QED
  BY <1>1, <1>2, <1>3 DEF Rust!Init, RustInv

(* A process that dies, is used no more, or is told that it is free.       *)
ProcKept(was, now) ==
  /\ now \in ProcRecords /\ now.stdout = was.stdout /\ now.listeners = was.listeners
  /\ \/ now.state = "dead"
     \/ was.state # "dead" /\ now.half = was.half

CallKept(was, now) ==
  \/ now = was
  \/ /\ now \in CallRecords /\ CallSound(now)
     /\ \/ was.pc \in {"new", "waiting", "starting"}
        \/ was.pc = "sent" /\ now.pc = "rejected"

LEMMA SoundKept ==
  ASSUME RustInv, ProcsInv',
         DOMAIN proc' = RustProcs, \A p \in RustProcs : proc'[p] = proc[p] \/ ProcKept(proc[p], proc'[p]),
         DOMAIN rustCall' = RustCalls, \A c \in RustCalls : CallKept(rustCall[c], rustCall'[c]),
         proc' = [p \in RustProcs |-> proc'[p]], rustCall' = [c \in RustCalls |-> rustCall'[c]]
  PROVE  RustInv'
<1>1. \A p \in RustProcs : proc'[p] \in ProcRecords /\ proc'[p].listeners = proc[p].listeners
  BY DEF RustInv, ProcKept
<1>2. \A c \in RustCalls : rustCall'[c] \in CallRecords /\ CallSound(rustCall'[c])
  BY DEF RustInv, CallKept
<1>3. \A p \in RustProcs : ProcSound(proc'[p])
  BY DEF RustInv, ProcKept, ProcSound
<1>4. ASSUME NEW p \in RustProcs, NEW l \in proc'[p].listeners
      PROVE  ListensFor(l, rustCall'[l.call])
  <2>1. l.call \in RustCalls /\ ListensFor(l, rustCall[l.call])
    BY <1>1 DEF RustInv, ProcRecords
  <2> QED
    BY <2>1 DEF CallKept, ListensFor, Asked
<1> QED
  BY <1>1, <1>2, <1>3, <1>4 DEF RustInv

(* A request is asked of a process that has forgotten what it wrote.       *)
LEMMA SendStep ==
  ASSUME RustInv, NEW c \in RustCalls, NEW p \in RustProcs,
         rustCall[c].pc \in {"new", "waiting", "starting"},
         Rust!SendRequest(c, p), UNCHANGED processes
  PROVE  RustInv'
<1> DEFINE id == proc[p].requestId + 1
<1> DEFINE l == [call |-> c, id |-> id]
<1>1. PICK asked \in Seq(Nat) :
        proc' = [proc EXCEPT ![p] =
           [proc[p] EXCEPT !.busy = TRUE, !.idle = FALSE, !.stdout = <<>>, !.requestId = id,
                           !.listeners = @ \cup {l}, !.asked = asked]]
  <2>1. proc[p].asked \in Seq(Nat) /\ id \in Nat
    BY DEF RustInv, ProcRecords
  <2> DEFINE asked == IF proc[p].state = "alive" THEN Append(proc[p].asked, id) ELSE proc[p].asked
  <2>2. asked \in Seq(Nat)
    <3> HIDE DEF id
    <3> QED
      BY <2>1
  <2>3. proc' = [proc EXCEPT ![p] =
           [proc[p] EXCEPT !.busy = TRUE, !.idle = FALSE, !.stdout = <<>>, !.requestId = id,
                           !.listeners = @ \cup {l}, !.asked = asked]]
    BY Zenon DEF Rust!SendRequest
  <2> QED
    BY <2>2, <2>3, Zenon
<1>2. rustCall' = [rustCall EXCEPT ![c] = [pc |-> "sent", p |-> p, id |-> id, got |-> 0]]
  BY DEF Rust!SendRequest
<1>3. /\ DOMAIN proc = RustProcs /\ proc[p] \in ProcRecords /\ id \in Nat
      /\ l \in [call : RustCalls, id : Nat]
  BY DEF RustInv, ProcRecords
<1>4. /\ proc'[p] \in ProcRecords /\ proc'[p].stdout = <<>>
      /\ proc'[p].listeners = proc[p].listeners \cup {l}
      /\ \A q \in RustProcs \ {p} : proc'[q] = proc[q]
  <2>1. <<>> \in Seq(Pieces)
    BY EmptySeq
  <2> HIDE DEF l, id
  <2> QED
    BY <1>1, <1>3, <2>1 DEF ProcRecords
<1>5. proc' \in [RustProcs -> ProcRecords]
  <2> HIDE DEF l, id
  <2> QED
    BY <1>1, <1>4 DEF RustInv
<1>6. /\ rustCall'[c].pc = "sent" /\ rustCall'[c].id = id
      /\ \A d \in RustCalls \ {c} : rustCall'[d] = rustCall[d]
      /\ rustCall' \in [RustCalls -> CallRecords]
  <2> HIDE DEF id
  <2> QED
    BY <1>2, <1>3 DEF RustInv, CallRecords
<1>7. ProcSound(proc'[p])
  <2>1. IsFiniteSet(proc[p].listeners \cup {l})
    BY FS_AddElement DEF RustInv, ProcSound
  <2> QED
    BY <1>4, <2>1, NothingRead DEF ProcSound
<1>8. ASSUME NEW q \in RustProcs, NEW k \in proc'[q].listeners
      PROVE  ListensFor(k, rustCall'[k.call])
  <2>1. CASE k \in proc[q].listeners
    <3>1. ListensFor(k, rustCall[k.call]) /\ k.call \in RustCalls
      BY <2>1 DEF RustInv, ProcRecords
    <3>2. k.call # c
      BY <3>1 DEF ListensFor, Asked
    <3> QED
      BY <1>6, <3>1, <3>2
  <2>2. CASE k \notin proc[q].listeners
    <3>1. k = l
      BY <1>4, <2>2
    <3> QED
      BY <1>6, <3>1 DEF ListensFor, Asked
  <2> QED
    BY <2>1, <2>2
<1>9. \A d \in RustCalls : CallSound(rustCall'[d])
  BY <1>6 DEF RustInv, CallSound
<1>10. \A q \in RustProcs : ProcSound(proc'[q])
  BY <1>4, <1>7 DEF RustInv
<1>11. ProcsInv'
  BY DEF RustInv, ProcsInv
<1> QED
  BY <1>5, <1>6, <1>8, <1>9, <1>10, <1>11 DEF RustInv

(* The pool's module has FiniteSets of its own.                            *)
LEMMA SameSize == \A S : Rust!Cardinality(S) = Cardinality(S)
  BY DEF Rust!Cardinality, Cardinality

(* The place of a listener among those that came before it.                *)
LEMMA TurnIs ==
  ASSUME RustInv, NEW p \in RustProcs, NEW l \in proc[p].listeners
  PROVE  /\ Rust!Turn(p, l) \in Nat \ {0} /\ Cardinality(proc[p].listeners) \in Nat
         /\ Rust!Turn(p, l) <= Cardinality(proc[p].listeners)
<1> DEFINE before == { k \in proc[p].listeners : k.id <= l.id }
<1>1. IsFiniteSet(proc[p].listeners) /\ before \subseteq proc[p].listeners
  BY DEF RustInv, ProcSound
<1>2. l.id \in Nat
  BY DEF RustInv, ProcRecords
<1>3. l \in before
  BY <1>2
<1> HIDE DEF before
<1>4. IsFiniteSet(before) /\ Cardinality(before) <= Cardinality(proc[p].listeners)
  BY <1>1, FS_Subset
<1>5. Cardinality(before) \in Nat /\ Cardinality(before) # 0
  BY <1>3, <1>4, FS_CardinalityType, FS_EmptySet
<1>6. Cardinality(proc[p].listeners) \in Nat
  BY <1>1, FS_CardinalityType
<1> QED
  <2>1. Rust!Turn(p, l) = Cardinality(before)
    BY SameSize, Zenon DEF Rust!Turn, before
  <2> QED
    BY <1>4, <1>5, <1>6, <2>1

LEMMA AnswerStep ==
  ASSUME RustInv, NEW p \in RustProcs, NEW chunk \in {"whole", "first", "last"},
         Rust!Answers(p, chunk)
  PROVE  RustInv'
<1> DEFINE ls == proc[p].listeners
<1> DEFINE out == proc[p].stdout
<1> DEFINE piece == Rust!Piece(Rust!OldestAsked(p), chunk)
<1> DEFINE done == { l \in ls : Rust!IsAnswered(p, piece, l) }
<1> DEFINE n == Cardinality(ls)
<1> DEFINE new == Rust!Copies(p, piece, n)
<1>1. /\ proc[p] \in ProcRecords /\ proc[p].state = "alive" /\ DOMAIN proc = RustProcs
      /\ out \in Seq(Pieces) /\ ls \subseteq [call : RustCalls, id : Nat]
      /\ IsFiniteSet(ls) /\ n \in Nat
  BY FS_CardinalityType DEF RustInv, ProcSound, ProcRecords, Rust!Answers, Rust!Serving
<1>2. piece \in Pieces /\ piece.part = chunk
  <2>1. proc[p].asked \in Seq(Nat) /\ proc[p].asked # <<>>
    BY <1>1 DEF ProcRecords, Rust!Answers, Rust!Serving
  <2>2. Head(proc[p].asked) \in Nat
    BY <2>1
  <2> QED
    BY <2>2 DEF Rust!Piece, Rust!OldestAsked, Pieces
<1>3. \A m \in Nat : Rust!Copies(p, piece, m) = Grown(out, piece, m)
                      /\ Extends(Rust!Copies(p, piece, m), out, piece, m)
  <2>1. \A m \in Nat : Rust!Copies(p, piece, m) = Grown(out, piece, m)
    BY DEF Rust!Copies, Grown
  <2> HIDE DEF out, piece
  <2> QED
    BY <1>1, <1>2, <2>1, Growing
<1>4. /\ (chunk = "last") <=> proc[p].half
      /\ UNCHANGED processes
      /\ \E busy \in BOOLEAN, idle \in BOOLEAN, asked \in Seq(Nat) :
           proc' = [proc EXCEPT ![p] =
             [proc[p] EXCEPT !.stdout = new, !.listeners = ls \ done, !.asked = asked,
                             !.half = (chunk = "first"), !.busy = busy, !.idle = idle]]
  <2> DEFINE asked == IF chunk = "first" THEN proc[p].asked ELSE Tail(proc[p].asked)
  <2> DEFINE busy == proc[p].busy /\ \A l \in done : ~Rust!Calling(l.call, "sent")
  <2> DEFINE idle == proc[p].idle /\ done = {}
  <2>1. proc' = [proc EXCEPT ![p] =
             [proc[p] EXCEPT !.stdout = new, !.listeners = ls \ done, !.asked = asked,
                             !.half = (chunk = "first"), !.busy = busy, !.idle = idle]]
    BY SameSize, Zenon DEF Rust!Answers
  <2>2. busy \in BOOLEAN /\ idle \in BOOLEAN
    <3>1. proc[p].busy \in BOOLEAN /\ proc[p].idle \in BOOLEAN
      BY <1>1 DEF ProcRecords
    <3> QED
      BY <3>1, Zenon
  <2>3. asked \in Seq(Nat)
    <3>1. proc[p].asked \in Seq(Nat) /\ proc[p].asked # <<>>
      BY <1>1 DEF ProcRecords, Rust!Answers, Rust!Serving
    <3> QED
      BY <3>1
  <2>4. ((chunk = "last") <=> proc[p].half) /\ UNCHANGED processes
    BY DEF Rust!Answers
  <2> HIDE DEF asked, busy, idle, done, new
  <2> QED
    BY <2>1, <2>2, <2>3, <2>4
<1>5. rustCall' = [c \in RustCalls |->
           IF rustCall[c].pc = "sent" /\ \E l \in done : l.call = c
             THEN [rustCall[c] EXCEPT !.pc = "resolved", !.got = piece.id] ELSE rustCall[c]]
  BY DEF Rust!Answers, Rust!Calling
<1>6. \A l \in done : l.id = piece.id /\ chunk # "first"
  <2> SUFFICES ASSUME NEW l \in done PROVE l.id = piece.id /\ chunk # "first"
    OBVIOUS
  <2>1. l \in ls /\ Rust!IsAnswered(p, piece, l)
    OBVIOUS
  <2>2. Rust!Turn(p, l) \in Nat
    BY <2>1, TurnIs
  <2> HIDE DEF done, piece
  <2>3. PICK r \in Rust!Responses(Rust!Copies(p, piece, Rust!Turn(p, l))) : r = l.id
    BY <2>1 DEF Rust!IsAnswered, Rust!Fits
  <2>4. l.id \notin Rust!Responses(out)
    BY <2>1 DEF RustInv, ProcSound
  <2> HIDE DEF out, ls
  <2> QED
    BY <1>1, <1>2, <1>3, <2>2, <2>3, <2>4, ResponsesOf
<1>7. AtLineEnd(out) \/ (proc[p].half /\ ls # {})
  BY <1>1 DEF RustInv, ProcSound
<1>8. \A l \in ls \ done : l.id \notin Rust!Responses(new)
  <2> SUFFICES ASSUME NEW l \in ls, l \notin done, l.id \in Rust!Responses(new)
               PROVE  FALSE
    OBVIOUS
  <2>1. /\ Rust!Turn(p, l) \in Nat \ {0} /\ Rust!Turn(p, l) <= n
    BY TurnIs
  <2>2. piece.part = "whole" => AtLineEnd(out)
    BY <1>2, <1>4, <1>7
  <2>3. l.id \in Rust!Responses(Rust!Copies(p, piece, Rust!Turn(p, l)))
    <3> DEFINE m == Rust!Turn(p, l)
    <3>1. Extends(Rust!Copies(p, piece, m), out, piece, m) /\ Extends(new, out, piece, n)
      BY <1>1, <1>3, <2>1
    <3> HIDE DEF m, n, new, piece, out, ls, done
    <3> QED
      BY <1>1, <1>2, <2>1, <2>2, <3>1, CopiesAddNothing DEF m
  <2> QED
    BY <2>3 DEF Rust!IsAnswered, Rust!Fits
<1>9. /\ new \in Seq(Pieces)
      /\ AtLineEnd(new) \/ (chunk = "first" /\ ls \ done # {})
  <2>1. Extends(new, out, piece, n)
    BY <1>1, <1>3
  <2>2. new \in Seq(Pieces) /\ Len(new) = Len(out) + n
    BY <2>1 DEF Extends
  <2>3. CASE n = 0
    <3>1. ls = {} /\ AtLineEnd(out)
      BY <1>1, <1>7, <2>3, FS_EmptySet
    <3>2. Len(new) = Len(out) /\ Len(out) \in Nat
      BY <1>1, <2>2, <2>3
    <3>3. Len(out) # 0 => new[Len(out)] = out[Len(out)]
      <4>1. Len(out) # 0 => Len(out) \in 1 .. Len(out)
        BY <3>2
      <4> HIDE DEF new, out
      <4> QED
        BY <2>1, <4>1 DEF Extends
    <3>4. Len(out) + 1 - 1 = Len(out)
      BY <3>2
    <3> HIDE DEF new, out
    <3> QED
      BY <2>2, <3>1, <3>2, <3>3, <3>4 DEF AtLineEnd, Rust!Begins
  <2>4. CASE n # 0
    <3>1. ls # {}
      BY <2>4, FS_EmptySet
    <3>2. CASE chunk = "first"
      BY <1>6, <2>2, <3>1, <3>2
    <3>3. CASE chunk # "first"
      <4>1. Len(new) \in Len(out) + 1 .. Len(out) + n /\ Len(new) + 1 - 1 = Len(new)
        <5> HIDE DEF new, out, n
        <5> QED
          BY <1>1, <2>2, <2>4
      <4>2. new[Len(new)] = piece
        BY <2>1, <4>1 DEF Extends
      <4> HIDE DEF new, piece
      <4> QED
        BY <1>2, <2>2, <3>3, <4>1, <4>2 DEF AtLineEnd, Rust!Begins
    <3> QED
      BY <3>2, <3>3
  <2> QED
    BY <2>2, <2>3, <2>4
<1>10. /\ proc' \in [RustProcs -> ProcRecords]
       /\ proc'[p].stdout = new /\ proc'[p].listeners = ls \ done
       /\ proc'[p].half = (chunk = "first")
       /\ \A q \in RustProcs \ {p} : proc'[q] = proc[q]
  <2> HIDE DEF new, done
  <2>1. PICK busy \in BOOLEAN, idle \in BOOLEAN, asked \in Seq(Nat) :
           proc' = [proc EXCEPT ![p] =
             [proc[p] EXCEPT !.stdout = new, !.listeners = ls \ done, !.asked = asked,
                             !.half = (chunk = "first"), !.busy = busy, !.idle = idle]]
    BY <1>4
  <2>2. ls \ done \in SUBSET [call : RustCalls, id : Nat] /\ (chunk = "first") \in BOOLEAN
    BY <1>1
  <2>3. /\ proc'[p] \in ProcRecords /\ proc'[p].stdout = new /\ proc'[p].listeners = ls \ done
        /\ proc'[p].half = (chunk = "first")
        /\ \A q \in RustProcs \ {p} : proc'[q] = proc[q]
    BY <1>1, <1>9, <2>1, <2>2 DEF ProcRecords
  <2>4. proc' = [q \in RustProcs |-> proc'[q]]
    BY <1>1, <2>1
  <2>5. \A q \in RustProcs : proc'[q] \in ProcRecords
    BY <2>3 DEF RustInv
  <2> QED
    BY <2>3, <2>4, <2>5
<1>11. ProcSound(proc'[p])
  <2>1. IsFiniteSet(ls \ done)
    BY <1>1, FS_Subset
  <2> HIDE DEF new, done
  <2> QED
    BY <1>8, <1>9, <1>10, <2>1 DEF ProcSound
<1>12. \A q \in RustProcs : ProcSound(proc'[q])
  BY <1>10, <1>11 DEF RustInv
<1>13. ASSUME NEW c \in RustCalls
       PROVE  /\ rustCall'[c] \in CallRecords /\ CallSound(rustCall'[c])
              /\ \/ rustCall'[c] = rustCall[c]
                 \/ rustCall'[c].pc = "resolved"
  <2> HIDE DEF done, piece
  <2>1. rustCall[c] \in CallRecords /\ CallSound(rustCall[c])
    BY DEF RustInv
  <2>2. CASE rustCall[c].pc = "sent" /\ \E l \in done : l.call = c
    <3>1. PICK l \in done : l.call = c
      BY <2>2
    <3>2. rustCall[c].id = l.id
      BY <2>2, <3>1 DEF RustInv, ListensFor, done
    <3>3. l.id = piece.id /\ piece.id \in Nat
      BY <1>2, <1>6 DEF Pieces
    <3>4. rustCall'[c] = [rustCall[c] EXCEPT !.pc = "resolved", !.got = piece.id]
      BY <1>5, <2>2
    <3> QED
      BY <2>1, <3>2, <3>3, <3>4 DEF CallRecords, CallSound
  <2>3. CASE ~(rustCall[c].pc = "sent" /\ \E l \in done : l.call = c)
    BY <1>5, <2>1, <2>3
  <2> QED
    BY <2>2, <2>3
<1>14. \A q \in RustProcs : \A l \in proc'[q].listeners : ListensFor(l, rustCall'[l.call])
  <2> SUFFICES ASSUME NEW q \in RustProcs, NEW l \in proc'[q].listeners
               PROVE  ListensFor(l, rustCall'[l.call])
    OBVIOUS
  <2> HIDE DEF done
  <2>1. l \in proc[q].listeners
    BY <1>10
  <2>2. l.call \in RustCalls /\ ListensFor(l, rustCall[l.call])
    BY <2>1 DEF RustInv, ProcRecords
  <2> QED
    BY <1>13, <2>2 DEF ListensFor, Asked
<1>15. ProcsInv'
  BY <1>4 DEF RustInv, ProcsInv
<1>16. rustCall' = [c \in RustCalls |-> rustCall'[c]]
  BY <1>5
<1> QED
  BY <1>10, <1>12, <1>13, <1>14, <1>15, <1>16 DEF RustInv

LEMMA CallStarts ==
  ASSUME RustInv, NEW c \in RustCalls, Rust!StartProcess(c)
  PROVE  RustInv'
<1>1. PICK p \in RustProcs :
        /\ proc[p].state = "unborn" /\ processes' = processes \cup {p}
        /\ proc' = [proc EXCEPT ![p].state = "alive"]
        /\ rustCall' = [rustCall EXCEPT ![c] = [pc |-> "starting", p |-> p, id |-> 0, got |-> 0]]
  BY DEF Rust!StartProcess
<1>2. rustCall[c].pc = "new" /\ Cardinality(processes) < MaxProcesses
  BY SameSize DEF Rust!StartProcess, Rust!Calling, Rust!UnderLimit
<1>3. ProcsInv'
  <2>1. IsFiniteSet(processes) /\ processes' \subseteq RustProcs
    BY <1>1 DEF RustInv, ProcsInv
  <2>2. /\ IsFiniteSet(processes') /\ Cardinality(processes) \in Nat
        /\ Cardinality(processes') \in {Cardinality(processes), Cardinality(processes) + 1}
    BY <1>1, <2>1, FS_AddElement, FS_CardinalityType
  <2>3. Cardinality(processes') <= MaxProcesses
    BY <1>2, <2>2, RustAssumption
  <2> QED
    BY <2>1, <2>2, <2>3 DEF ProcsInv
<1>4. /\ DOMAIN proc' = RustProcs /\ proc' = [q \in RustProcs |-> proc'[q]]
      /\ \A q \in RustProcs : proc'[q] = proc[q] \/ ProcKept(proc[q], proc'[q])
  BY <1>1 DEF RustInv, ProcRecords, ProcKept
<1>5. /\ DOMAIN rustCall' = RustCalls /\ rustCall' = [d \in RustCalls |-> rustCall'[d]]
      /\ \A d \in RustCalls : CallKept(rustCall[d], rustCall'[d])
  BY <1>1, <1>2 DEF RustInv, CallRecords, CallSound, CallKept
<1> QED
  BY <1>3, <1>4, <1>5, SoundKept

(* A process is released, dies or is killed.                               *)
LEMMA ProcSteps ==
  ASSUME NEW was \in ProcRecords
  PROVE  /\ ProcKept(was, [was EXCEPT !.state = "dead"])
         /\ ProcKept(was, [was EXCEPT !.busy = FALSE, !.idle = FALSE])
         /\ ProcKept(was, [was EXCEPT !.idle = TRUE])
<1>1. ProcKept(was, [was EXCEPT !.state = "dead"])
  BY DEF ProcRecords, ProcKept
<1>2. ProcKept(was, [was EXCEPT !.busy = FALSE, !.idle = FALSE])
  BY DEF ProcRecords, ProcKept
<1>3. ProcKept(was, [was EXCEPT !.idle = TRUE])
  BY DEF ProcRecords, ProcKept
<1> QED
  BY <1>1, <1>2, <1>3

(* A step that changes one process, by one of these.                       *)
LEMMA OneProc ==
  ASSUME RustInv, NEW p, NEW new, proc' = [proc EXCEPT ![p] = new],
         p \in RustProcs => ProcKept(proc[p], new)
  PROVE  /\ DOMAIN proc' = RustProcs /\ proc' = [q \in RustProcs |-> proc'[q]]
         /\ \A q \in RustProcs : proc'[q] = proc[q] \/ ProcKept(proc[q], proc'[q])
<1>1. proc \in [RustProcs -> ProcRecords]
  BY DEF RustInv
<1>2. \A q \in RustProcs : proc'[q] = IF q = p THEN new ELSE proc[q]
  BY <1>1
<1>3. DOMAIN proc' = RustProcs /\ proc' = [q \in RustProcs |-> proc'[q]]
  BY <1>1
<1> QED
  BY <1>2, <1>3, Zenon

LEMMA Killing ==
  ASSUME RustInv, NEW S \in SUBSET RustProcs, Rust!Kill(S)
  PROVE  /\ DOMAIN proc' = RustProcs /\ proc' = [q \in RustProcs |-> proc'[q]]
         /\ \A q \in RustProcs : proc'[q] = proc[q] \/ ProcKept(proc[q], proc'[q])
<1>1. <<>> \in Seq(Nat)
  BY EmptySeq
<1> QED
  BY <1>1 DEF RustInv, ProcRecords, ProcKept, Rust!Kill

LEMMA Fewer ==
  ASSUME RustInv, processes' \subseteq processes
  PROVE  ProcsInv'
<1>1. /\ IsFiniteSet(processes) /\ Cardinality(processes) \in Nat
      /\ IsFiniteSet(processes') /\ Cardinality(processes') \in Nat
      /\ Cardinality(processes') <= Cardinality(processes)
  BY FS_Subset, FS_CardinalityType DEF RustInv, ProcsInv
<1> QED
  BY <1>1, RustAssumption DEF RustInv, ProcsInv

LEMMA CallGoes ==
  ASSUME RustInv, NEW c \in RustCalls, NEW pc \in {"waiting", "rejected"}, Rust!Goes(c, pc),
         rustCall[c].pc \in {"new", "waiting", "starting"} \/ (rustCall[c].pc = "sent" /\ pc = "rejected")
  PROVE  /\ DOMAIN rustCall' = RustCalls /\ rustCall' = [d \in RustCalls |-> rustCall'[d]]
         /\ \A d \in RustCalls : CallKept(rustCall[d], rustCall'[d])
  BY DEF RustInv, CallRecords, CallSound, CallKept, Rust!Goes

LEMMA RustStep == RustInv /\ [Rust!Next]_(Rust!rustVars) => RustInv'
<1> SUFFICES ASSUME RustInv, [Rust!Next]_(Rust!rustVars)
             PROVE  RustInv'
  OBVIOUS
<1> DEFINE ProcsKept ==
      /\ DOMAIN proc' = RustProcs /\ proc' = [q \in RustProcs |-> proc'[q]]
      /\ \A q \in RustProcs : proc'[q] = proc[q] \/ ProcKept(proc[q], proc'[q])
<1> DEFINE CallsKept ==
      /\ DOMAIN rustCall' = RustCalls /\ rustCall' = [d \in RustCalls |-> rustCall'[d]]
      /\ \A d \in RustCalls : CallKept(rustCall[d], rustCall'[d])
<1>0. /\ proc \in [RustProcs -> ProcRecords] /\ rustCall \in [RustCalls -> CallRecords]
      /\ processes \subseteq RustProcs
  BY DEF RustInv, ProcsInv
<1>a. UNCHANGED proc => ProcsKept
  BY <1>0
<1>b. UNCHANGED rustCall => CallsKept
  BY <1>0 DEF CallKept
<1>c. (processes' \subseteq processes /\ ProcsKept /\ CallsKept) => RustInv'
  BY Fewer, SoundKept
<1> HIDE DEF ProcsKept, CallsKept
<1>1. ASSUME NEW c \in RustCalls, Rust!TakeIdle(c)
      PROVE  RustInv'
  <2>1. PICK p \in Rust!Idle : Rust!SendRequest(c, p)
    BY <1>1 DEF Rust!TakeIdle
  <2>2. p \in RustProcs
    BY <1>0 DEF Rust!Idle
  <2> QED
    BY <1>1, <2>1, <2>2, SendStep DEF Rust!TakeIdle, Rust!Calling
<1>2. ASSUME NEW c \in RustCalls, Rust!Started(c)
      PROVE  RustInv'
  <2>1. rustCall[c].pc = "starting" /\ rustCall[c].p \in RustProcs
    BY <1>2 DEF Rust!Started, Rust!Calling, RustInv, CallSound
  <2> QED
    BY <1>2, <2>1, SendStep DEF Rust!Started
<1>3. ASSUME NEW c \in RustCalls, Rust!StartFails(c)
      PROVE  RustInv'
  <2>1. /\ processes' \subseteq processes /\ rustCall[c].pc = "starting" /\ Rust!Goes(c, "rejected")
        /\ proc' = [proc EXCEPT ![rustCall[c].p].state = "dead"]
    BY <1>3 DEF Rust!StartFails, Rust!Calling
  <2>2. ProcsKept
    <3> DEFINE p == rustCall[c].p
               new == [proc[p] EXCEPT !.state = "dead"]
    <3>1. proc' = [proc EXCEPT ![p] = new]
      BY <2>1
    <3>2. p \in RustProcs => ProcKept(proc[p], new)
      BY <1>0, ProcSteps
    <3> HIDE DEF p, new
    <3> QED
      BY <3>1, <3>2, OneProc DEF ProcsKept
  <2>3. CallsKept
    BY <2>1, CallGoes DEF CallsKept
  <2> QED
    BY <1>c, <2>1, <2>2, <2>3
<1>4. ASSUME NEW c \in RustCalls, Rust!WaitForAvailable(c) \/ Rust!Refused(c)
      PROVE  RustInv'
  <2>1. /\ UNCHANGED <<processes, proc>> /\ rustCall[c].pc = "new"
        /\ Rust!Goes(c, "waiting") \/ Rust!Goes(c, "rejected")
    BY <1>4 DEF Rust!WaitForAvailable, Rust!Refused, Rust!Calling
  <2>2. CallsKept
    BY <2>1, CallGoes DEF CallsKept
  <2> QED
    BY <1>a, <1>c, <2>1, <2>2
<1>5. ASSUME NEW c \in RustCalls, Rust!RequestTimeout(c)
      PROVE  RustInv'
  <2>1. /\ UNCHANGED processes /\ rustCall[c].pc = "sent" /\ Rust!Goes(c, "rejected")
        /\ proc' = [proc EXCEPT ![rustCall[c].p].busy = FALSE, ![rustCall[c].p].idle = FALSE]
    BY <1>5 DEF Rust!RequestTimeout, Rust!Calling
  <2>2. ProcsKept
    <3> DEFINE p == rustCall[c].p
               new == [proc[p] EXCEPT !.busy = FALSE, !.idle = FALSE]
    <3>1. proc' = [proc EXCEPT ![p] = new]
      BY <2>1
    <3>2. p \in RustProcs => ProcKept(proc[p], new)
      BY <1>0, ProcSteps
    <3> HIDE DEF p, new
    <3> QED
      BY <3>1, <3>2, OneProc DEF ProcsKept
  <2>3. CallsKept
    BY <2>1, CallGoes DEF CallsKept
  <2> QED
    BY <1>c, <2>1, <2>2, <2>3
<1>6. ASSUME NEW p \in RustProcs, Rust!ProcessDies(p)
      PROVE  RustInv'
  <2>1. /\ UNCHANGED rustCall /\ processes' \subseteq processes /\ Rust!Kill({p})
    BY <1>6 DEF Rust!ProcessDies
  <2>2. ProcsKept
    BY <2>1, Killing DEF ProcsKept
  <2> QED
    BY <1>b, <1>c, <2>1, <2>2
<1>7. ASSUME NEW p \in RustProcs, Rust!BecomesIdle(p)
      PROVE  RustInv'
  <2>1. /\ UNCHANGED <<rustCall, processes>> /\ proc' = [proc EXCEPT ![p].idle = TRUE]
    BY <1>7 DEF Rust!BecomesIdle
  <2>2. ProcsKept
    <3> DEFINE new == [proc[p] EXCEPT !.idle = TRUE]
    <3>1. proc' = [proc EXCEPT ![p] = new]
      BY <2>1
    <3>2. ProcKept(proc[p], new)
      BY <1>0, ProcSteps
    <3> HIDE DEF new
    <3> QED
      BY <3>1, <3>2, OneProc DEF ProcsKept
  <2> QED
    BY <1>b, <1>c, <2>1, <2>2
<1>8. CASE Rust!CleansUpIdle
  <2>1. PICK S \in SUBSET processes :
          UNCHANGED rustCall /\ processes' = processes \ S /\ Rust!Kill(S)
    BY <1>8 DEF Rust!CleansUpIdle
  <2>2. ProcsKept
    BY <1>0, <2>1, Killing DEF ProcsKept
  <2> QED
    BY <1>b, <1>c, <2>1, <2>2
<1>9. CASE Rust!ShutdownPool
  <2>1. UNCHANGED rustCall /\ processes' = {} /\ Rust!Kill(processes)
    BY <1>9 DEF Rust!ShutdownPool
  <2>2. ProcsKept
    BY <1>0, <2>1, Killing DEF ProcsKept
  <2> QED
    BY <1>b, <1>c, <2>1, <2>2
<1>10. CASE UNCHANGED Rust!rustVars
  BY <1>a, <1>b, <1>c, <1>10 DEF Rust!rustVars
<1> QED
  BY <1>1, <1>2, <1>3, <1>4, <1>5, <1>6, <1>7, <1>8, <1>9, <1>10, CallStarts, AnswerStep
  DEF Rust!Next

LEMMA CallsApart == RustInv => Rust!CallsKeptApart
  BY SameSize DEF RustInv, ProcsInv, CallSound, Rust!CallsKeptApart, Rust!Calling

(* A response that fits a request is the one to that request, whatever the *)
(* listeners of earlier ones have left in the buffer (rust-pool.ts).       *)
THEOREM RustPoolCorrect == Rust!Spec => []RustInv
  BY RustStarts, RustStep, PTL DEF Rust!Spec

-----------------------------------------------------------------------------
(* 8. Whatever service a behaviour is one of.                              *)

CommandsSound == part = "commands" => CommandsInv

LEMMA CommandsSoundStep == CommandsSound /\ [ServicesNext]_vars => CommandsSound'
<1> SUFFICES ASSUME CommandsSound, [ServicesNext]_vars, part' = "commands"
             PROVE  CommandsInv'
  BY DEF CommandsSound
<1>1. part = "commands" /\ [Background!Next]_(Background!commandVars)
  BY DEF ServicesNext, vars, Background!commandVars
<1> QED
  BY <1>1, CommandsStep DEF CommandsSound

(* Timeout, kill, close and shutdown race, and yet the records tell what   *)
(* became of the processes: one that is alive and has not been signalled   *)
(* is a running task of the map, where kill and shutdown find it; a task   *)
(* that is "done" had a process that ended with code 0; and one that timed *)
(* out keeps that status though its process closes afterwards.             *)
THEOREM StatusStaysTrue == ServicesSpec => []StatusTellsTruth
<1>1. ServicesInit => CommandsSound
  BY CommandsInitOK DEF ServicesInit, CommandsSound
<1>2. CommandsSound => StatusTellsTruth
  BY CommandsTell DEF CommandsSound, StatusTellsTruth
<1> QED
  BY <1>1, <1>2, CommandsSoundStep, PTL DEF ServicesSpec

QueueSound == part = "queue" => QueueInv

LEMMA QueueSoundStep == QueueSound /\ [ServicesNext]_vars => QueueSound'
<1> SUFFICES ASSUME QueueSound, [ServicesNext]_vars, part' = "queue"
             PROVE  QueueInv'
  BY DEF QueueSound
<1>1. part = "queue" /\ [Queue!Next]_(Queue!asyncQueueVars)
  BY DEF ServicesNext, vars, Queue!asyncQueueVars
<1> QED
  BY <1>1, QueueNextStep DEF QueueSound

(* No consumer sleeps while there is an item for it or the queue is closed; *)
(* items leave in the order they came, each once, whoever takes them.      *)
THEOREM NobodySleeps == ServicesSpec => []NobodyWaitsForNothing
<1>1. ServicesInit => QueueSound
  BY QueueInitOK DEF ServicesInit, QueueSound
<1>2. QueueSound => NobodyWaitsForNothing
  BY QueueServes DEF QueueSound, NobodyWaitsForNothing
<1> QED
  BY <1>1, <1>2, QueueSoundStep, PTL DEF ServicesSpec

WorkSound == part = "work" => WorkInv

LEMMA WorkSoundStep ==
  WorkSound /\ [ServicesNext]_vars => WorkSound' /\ (part = "work" => Work!StepOfQueues)
<1> SUFFICES ASSUME WorkSound, [ServicesNext]_vars, part = "work" \/ part' = "work"
             PROVE  WorkInv' /\ Work!StepOfQueues
  BY DEF WorkSound
<1>1. part = "work" /\ [Work!Next]_(Work!workVars)
  BY DEF ServicesNext, vars, Work!workVars
<1> QED
  BY <1>1, WorkStep DEF WorkSound

(* Capacity, indices, stale slots and doubled loops change nothing of what *)
(* the pool promises: queues taken newest first by their owner and oldest  *)
(* first by others, and every item executed once.                          *)
THEOREM PoolImplementsQueues == ServicesSpec => ImplementsWorkQueues
<1>1. ServicesInit => WorkSound /\ (part = "work" => Work!Queues!Init)
  BY WorkStarts DEF ServicesInit, WorkSound
<1>2. WorkSound /\ [ServicesNext]_vars =>
        WorkSound' /\ [part = "work" => Work!StepOfQueues]_vars
  BY WorkSoundStep
<1> QED
  BY <1>1, <1>2, PTL DEF ServicesSpec, ImplementsWorkQueues

HelpersSound == part = "helpers" => HelpersInv

LEMMA HelpersSoundStep == HelpersSound /\ [ServicesNext]_vars => HelpersSound'
<1> SUFFICES ASSUME HelpersSound, [ServicesNext]_vars, part' = "helpers"
             PROVE  HelpersInv'
  BY DEF HelpersSound
<1>1. part = "helpers" /\ (Helpers!Next \/ UNCHANGED <<x1, x2, x3>>)
  BY DEF ServicesNext, vars
<1> QED
  BY <1>1, HelpersStep DEF HelpersSound

(* Retries stop, at the attempt the options name, whichever errors come;   *)
(* and when the workers of a pool are gone and none of them failed, every  *)
(* item has its own result in its own place (async-utils.ts, work pool).   *)
THEOREM LoopsAnswer == ServicesSpec => []HelpersAnswer
<1>1. ServicesInit => HelpersSound
  BY HelpersStart DEF ServicesInit, HelpersSound
<1>2. HelpersSound => HelpersAnswer
  BY HelpersShow DEF HelpersSound, HelpersAnswer
<1> QED
  BY <1>1, <1>2, HelpersSoundStep, PTL DEF ServicesSpec

MemorySound == part = "memory" => MemoryInv

LEMMA MemorySoundStep == MemorySound /\ [ServicesNext]_vars => MemorySound'
<1> SUFFICES ASSUME MemorySound, [ServicesNext]_vars, part' = "memory"
             PROVE  MemoryInv'
  BY DEF MemorySound
<1>1. part = "memory" /\ (Memory!Next \/ UNCHANGED <<x1, x2, x3, x4>>)
  BY DEF ServicesNext, vars
<1> QED
  BY <1>1, MemoryStep DEF MemorySound

(* No two tasks get the same record from the pool: not when collections    *)
(* overlap at their archive, not when one record is stored under two ids,  *)
(* not when a loop goes on with a record that was given back               *)
(* (object-pool.ts 43-91, task-store.ts 150-195).                          *)
THEOREM RecordsOnce == ServicesSpec => []HandedOutOnce
<1>1. ServicesInit => MemorySound
  BY MemoryStart DEF ServicesInit, MemorySound
<1>2. MemorySound => HandedOutOnce
  BY MemoryShow DEF MemorySound, HandedOutOnce
<1> QED
  BY <1>1, <1>2, MemorySoundStep, PTL DEF ServicesSpec

ShutdownSound == part = "shutdown" => ShutdownInv

LEMMA ShutdownSoundStep == ShutdownSound /\ [ServicesNext]_vars => ShutdownSound'
<1> SUFFICES ASSUME ShutdownSound, [ServicesNext]_vars, part' = "shutdown"
             PROVE  ShutdownInv'
  BY DEF ShutdownSound
<1>1. part = "shutdown" /\ [Shutdown!Next]_(Shutdown!shutdownVars)
  BY DEF ServicesNext, vars, Shutdown!shutdownVars
<1> QED
  BY <1>1, ShutdownStep DEF ShutdownSound

(* A handler is called when those of a lower priority number, and those of *)
(* its own that were registered before it, are over or had their time      *)
(* (shutdown-manager.ts 31-79): no failure and no slow handler changes it. *)
THEOREM OrderStays == ServicesSpec => []OrderedShutdown
<1>1. ServicesInit => ShutdownSound
  BY ShutdownStarts DEF ServicesInit, ShutdownSound
<1>2. ShutdownSound => OrderedShutdown
  BY OrderKept DEF ShutdownSound, OrderedShutdown
<1> QED
  BY <1>1, <1>2, ShutdownSoundStep, PTL DEF ServicesSpec

RustSound == part = "rust" => RustInv

LEMMA RustSoundStep == RustSound /\ [ServicesNext]_vars => RustSound'
<1> SUFFICES ASSUME RustSound, [ServicesNext]_vars, part' = "rust"
             PROVE  RustInv'
  BY DEF RustSound
<1>1. part = "rust" /\ [Rust!Next]_(Rust!rustVars)
  BY DEF ServicesNext, vars, Rust!rustVars
<1> QED
  BY <1>1, RustStep DEF RustSound

(* A call gets the answer to its own request or none, though requests that *)
(* timed out leave their listeners, answers come late and in pieces, and   *)
(* two calls share a process; and there are never more than maxSize        *)
(* processes (rust-pool.ts 44-206).                                        *)
THEOREM CallsStayApart == ServicesSpec => []CallsKeptApart
<1>1. ServicesInit => RustSound
  BY RustStarts DEF ServicesInit, RustSound
<1>2. RustSound => CallsKeptApart
  BY CallsApart DEF RustSound, CallsKeptApart
<1> QED
  BY <1>1, <1>2, RustSoundStep, PTL DEF ServicesSpec
=============================================================================
