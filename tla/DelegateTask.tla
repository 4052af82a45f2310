---------------------------- MODULE DelegateTask ----------------------------
(***************************************************************************)
(* A call of delegate_task (tools/parallel/delegate-task.ts): in the       *)
(* background, on a session to resume, or blocking; the blocking modes     *)
(* poll the session until the agent seems to be done.  The agent works     *)
(* between any two of the call's awaits.                                   *)
(***************************************************************************)
EXTENDS Naturals, FiniteSets

CONSTANTS
  Depths,              \* depths of the caller's task
  TerminalDepth,       \* PARALLEL_TASK.TERMINAL_DEPTH: 2
  MaxPollCount,        \* 150
  StablePollsRequired, \* 2
  MaxMessages          \* bound: messages of the agent

VARIABLES
  delegation,          \* the call
  agent,               \* its session: status, messages, whether there is output
  quiet                \* polls that have counted since the last message

delegateVars == <<delegation, agent, quiet>>

Modes == {"background", "sync", "resumeBackground", "resumeSync"}

Init ==
  /\ \E mode \in Modes, depth \in Depths :
       delegation = [mode |-> mode, depth |-> depth, pc |-> "called", session |-> "none", result |-> "none",
                     pollCount |-> 0, stablePolls |-> 0, lastMsgCount |-> 0,
                     hasValidOutput |-> FALSE, idleTime |-> FALSE, confirmed |-> 0]
  /\ agent = [type |-> "missing", messages |-> 0, output |-> FALSE]
  /\ quiet = 0

At(pc) == delegation.pc = pc
Goes(pc) == delegation' = [delegation EXCEPT !.pc = pc]
Returns(result) == delegation' = [delegation EXCEPT !.pc = "returned", !.result = result]
Alone == UNCHANGED <<agent, quiet>>

(* execute(): a caller at the terminal depth delegates to nobody.          *)
Blocked ==
  /\ At("called") /\ delegation.depth >= TerminalDepth
  /\ Returns("error") /\ Alone

(* A session to resume is passed to launch(), which takes no notice of it  *)
(* and gives the task a session of the pool.                               *)
Launches ==
  /\ At("called") /\ delegation.depth < TerminalDepth /\ delegation.mode # "sync"
  /\ \/ delegation' = [delegation EXCEPT !.session = "pool", !.pc =
          IF delegation.mode = "resumeSync" THEN "polling" ELSE "returned",
          !.result = IF delegation.mode = "resumeSync" THEN "none" ELSE "launched"]
     \/ Returns("error")
  /\ Alone

CreatesSession ==
  /\ At("called") /\ delegation.depth < TerminalDepth /\ delegation.mode = "sync"
  /\ \/ delegation' = [delegation EXCEPT !.session = "own", !.pc = "prompting"]
     \/ Returns("error")
  /\ Alone

Prompted == At("prompting") /\ (Goes("polling") \/ Returns("error")) /\ Alone

-----------------------------------------------------------------------------
(* pollWithSafetyLimits(): elapsed is taken before the wait.               *)
PollBegins ==
  /\ At("polling") /\ delegation.pollCount < MaxPollCount
  /\ \/ \E long \in {delegation.idleTime, TRUE} :
          delegation' = [delegation EXCEPT !.pc = "waiting", !.pollCount = @ + 1, !.idleTime = long]
     \/ Returns("timeout")
  /\ Alone

PollsExhausted ==
  /\ At("polling") /\ delegation.pollCount = MaxPollCount
  /\ Returns("timeout") /\ Alone

StatusRead ==
  /\ At("waiting")
  /\ delegation' =
       IF agent.type = "idle"
         THEN [delegation EXCEPT !.pc = CASE ~delegation.idleTime -> "polling"
                                          [] delegation.idleTime /\ delegation.hasValidOutput -> "counting"
                                          [] OTHER -> "validating"]
         ELSE [delegation EXCEPT !.pc = "polling", !.stablePolls = 0]
  /\ Alone

(* Any of the requests may fail; the next poll goes on with what there is. *)
RequestFails ==
  /\ At("waiting") \/ At("counting")
  /\ Goes("polling") /\ Alone

(* A failed request counts as output; once there is some, nobody asks again. *)
Validated ==
  /\ At("validating")
  /\ \E valid \in {agent.output, TRUE} :
       delegation' = [delegation EXCEPT !.hasValidOutput = valid,
                                        !.pc = IF valid THEN "counting" ELSE "polling"]
  /\ Alone

(* Mutant of Stable: polls of the same number are counted, in a row or not. *)
StableInAll == IF agent.messages = delegation.lastMsgCount THEN delegation.stablePolls + 1 ELSE delegation.stablePolls

Stable == IF agent.messages = delegation.lastMsgCount THEN delegation.stablePolls + 1 ELSE 0

Counted ==
  /\ At("counting")
  /\ quiet' = IF quiet > StablePollsRequired THEN quiet ELSE quiet + 1
  /\ delegation' = [delegation EXCEPT !.stablePolls = Stable, !.lastMsgCount = agent.messages,
       !.confirmed = quiet', !.pc = IF Stable >= StablePollsRequired THEN "extracting" ELSE "polling"]
  /\ UNCHANGED agent

(* The last text of the assistant, which may be none.                      *)
Extracted == At("extracting") /\ Returns("done") /\ Alone

-----------------------------------------------------------------------------
AgentWorks ==
  /\ agent.type = "busy" /\ agent.messages < MaxMessages
  /\ \E output \in {agent.output, TRUE} :
       agent' = [agent EXCEPT !.messages = @ + 1, !.output = output]
  /\ quiet' = 0
  /\ UNCHANGED delegation

AgentTurns ==
  /\ delegation.session # "none"
  /\ \E type \in {"busy", "idle"} \ {agent.type} : agent' = [agent EXCEPT !.type = type]
  /\ UNCHANGED <<delegation, quiet>>

Next ==
  \/ Blocked \/ Launches \/ CreatesSession \/ Prompted
  \/ PollBegins \/ PollsExhausted \/ StatusRead \/ RequestFails \/ Validated \/ Counted \/ Extracted
  \/ AgentWorks \/ AgentTurns

Spec == Init /\ [][Next]_delegateVars

-----------------------------------------------------------------------------
DelegateTypeOK ==
  /\ delegation.pollCount \in 0 .. MaxPollCount
  /\ delegation.stablePolls \in 0 .. StablePollsRequired
  /\ delegation.lastMsgCount \in 0 .. agent.messages
  /\ delegation.session \in {"none", "own", "pool"}

(* A blocking call says "done" when polls in a row, one more than required, *)
(* saw the same messages, though requests fail, the agent wakes up between *)
(* them and the output is validated only once.  (A session whose requests  *)
(* fail may be done without a message.)                                    *)
DoneMeansStable ==
  delegation.result = "done" /\ delegation.lastMsgCount > 0
    => delegation.confirmed > StablePollsRequired

(* "When set, continues previous work instead of starting fresh": a call   *)
(* that resumes ends up in the session it was given.                       *)
ResumeContinues ==
  delegation.mode \in {"resumeBackground", "resumeSync"}
    => delegation.session \in {"none", "given"}
=============================================================================
