----------------------------- MODULE MissionLoop -----------------------------
(***************************************************************************)
(* The loop that keeps a mission going (core/loop/mission-loop-handler.ts, *)
(* mission-loop.ts, session-state-store.ts, compaction-guard.ts,           *)
(* circuit-breaker.ts; hooks/features/mission-loop.ts; event-handler.ts).  *)
(*                                                                         *)
(* One session and its mission.  The mission file is on disk, every other  *)
(* state is in memory; the agent, its prompts and its turns belong to the  *)
(* OpenCode server.  Handlers are atomic up to an await: the countdown     *)
(* toast, the notifications of a completion, a prompt.                     *)
(***************************************************************************)
EXTENDS Integers

CONSTANTS
  MaxMissions,    \* bound: /task commands
  MaxIterations,  \* maxIterations of the mission file
  MaxPending,     \* bound: prompts, and idle events, under way at once
  MaxHandlers,    \* bound: idle handlers and countdowns without a handle
  DoneHookRuns,   \* do assistant.done and its fire-and-forget prompt work?
  Disruptions     \* what may come between, see below

ASSUME MissionAssumption ==
  /\ MaxMissions \in Nat \ {0}
  /\ MaxIterations \in Nat \ {0}
  /\ MaxPending \in Nat \ {0}
  /\ MaxHandlers \in Nat \ {0}
  /\ DoneHookRuns \in BOOLEAN
  /\ Disruptions \subseteq {"stop", "chat", "lost", "error", "crash",
                            "compaction", "repetition", "delegation", "deletion",
                            "reload", "silence"}

(* detectRepetitiveToolUse(): this many calls of one tool in a row.        *)
RepetitionThreshold == 3

VARIABLES
  mission,     \* iteration in the mission file, 0 when there is no file
  sessionUp,   \* sessions.has(sessionID)
  aborting,    \* state.isAborting           \
  timer,       \* state.countdownTimer        > of the SessionState in the store
  recent,      \* lastCheckTime less than 3s  /
  toasts,      \* idle handlers awaiting the countdown toast with that state
  orphans,     \* ... and with a SessionState the store no longer holds
  strays,      \* countdowns whose handle no stored state has
  completing,  \* handleMissionComplete() awaiting its notifications
  armed,       \* is there a compaction epoch?
  breaker,     \* the session's circuit: [open, window, repeats]
  agent,       \* "idle" or "working"
  sent,        \* prompts on their way to the server
  accepted,    \* has the server a message the agent has not begun on?
  idleEvents,  \* 500ms timers of session.idle events
  verified,    \* would verifyMissionCompletion() pass?
  background,  \* has the session running tasks?
  recovering,  \* isSessionRecovering()
  started,     \* missions begun
  completed    \* missions announced as complete

state   == <<aborting, timer, recent>>
loop    == <<state, toasts, orphans, strays, completing>>
guards  == <<armed, breaker>>
server  == <<agent, sent, accepted, idleEvents>>
work    == <<verified, background, recovering>>
history == <<started, completed>>
vars    == <<mission, sessionUp, loop, guards, server, work, history>>

Breakers ==
  [open : BOOLEAN, window : {"running", "over"}, repeats : 0 .. RepetitionThreshold]

ClosedBreaker == [open |-> FALSE, window |-> "over", repeats |-> 0]

Init ==
  /\ mission = 0 /\ sessionUp = FALSE
  /\ aborting = FALSE /\ timer = FALSE /\ recent = FALSE
  /\ toasts = 0 /\ orphans = 0 /\ strays = 0 /\ completing = 0
  /\ armed = FALSE /\ breaker = ClosedBreaker
  /\ agent = "idle" /\ sent = 0 /\ accepted = FALSE /\ idleEvents = 0
  /\ verified = FALSE /\ background = FALSE /\ recovering = FALSE
  /\ started = 0 /\ completed = 0

-----------------------------------------------------------------------------
(* The session state store and the prompts                                 *)

CancelCountdown == timer' = FALSE

(* cleanup(): a handler that awaits keeps the object it has read.          *)
DropState ==
  /\ aborting' = FALSE /\ timer' = FALSE /\ recent' = FALSE
  /\ toasts' = 0 /\ orphans' = orphans + toasts

SendPrompt == sent < MaxPending /\ sent' = sent + 1

(* Mutant of MissionComplete: whether the file was there is not asked.     *)
CompleteAlways == mission' = 0 /\ completed' = completed + 1

(* clearLoopState() succeeds for one caller only; it then announces.       *)
MissionComplete ==
  \/ /\ mission # 0
     /\ mission' = 0
     /\ completed' = completed + 1
  \/ mission = 0 /\ UNCHANGED <<mission, completed>>

(* writeLoopState(incrementIteration()); no reader tells iterations past   *)
(* MaxIterations + 1 apart.                                                *)
NextIteration == IF mission > MaxIterations THEN mission ELSE mission + 1

-----------------------------------------------------------------------------
(* handleChatCommand(): /task writes the file and lets the message through. *)
StartMission ==
  /\ started < MaxMissions
  /\ SendPrompt
  /\ mission' = 1
  /\ sessionUp' = TRUE
  /\ started' = started + 1
  /\ UNCHANGED <<loop, guards, agent, accepted, idleEvents, work, completed>>

(* The server stores the message: message.updated with role user.          *)
MessageArrives ==
  /\ sent > 0
  /\ sent' = sent - 1
  /\ accepted' = TRUE
  /\ CancelCountdown
  /\ UNCHANGED <<mission, sessionUp, aborting, recent, toasts, orphans, strays,
                 completing, guards, agent, idleEvents, work, history>>

PromptLost ==
  /\ "lost" \in Disruptions
  /\ sent > 0
  /\ sent' = sent - 1
  /\ UNCHANGED <<mission, sessionUp, loop, guards, agent, accepted, idleEvents, work, history>>

UserChats ==
  /\ "chat" \in Disruptions
  /\ SendPrompt
  /\ UNCHANGED <<mission, sessionUp, loop, guards, agent, accepted, idleEvents, work, history>>

(* Every request runs the system transform, which puts the session (back)  *)
(* into the map.                                                           *)
TurnBegins ==
  /\ accepted /\ agent = "idle"
  /\ agent' = "working" /\ accepted' = FALSE
  /\ sessionUp' = TRUE
  /\ UNCHANGED <<mission, loop, guards, sent, idleEvents, work, history>>

Progress ==
  /\ agent = "working"
  /\ verified' \in BOOLEAN
  /\ UNCHANGED <<mission, sessionUp, loop, guards, server, background, recovering, history>>

(* recordToolCall() of the tool of the last call, or of another one.       *)
ToolCall ==
  /\ "repetition" \in Disruptions
  /\ agent = "working" /\ sessionUp
  /\ \E n \in {1, IF breaker.repeats < RepetitionThreshold
                  THEN breaker.repeats + 1 ELSE RepetitionThreshold} :
        breaker' = [breaker EXCEPT !.repeats = n]
  /\ UNCHANGED <<mission, sessionUp, loop, armed, server, work, history>>

-----------------------------------------------------------------------------
(* assistant.done: handleMissionProgress().                                *)

DoneIgnored ==
  /\ ~DoneHookRuns \/ ~sessionUp \/ mission = 0
  /\ UNCHANGED <<mission, background, completed, sent>>

(* The agent's text holds STOP MISSION: cancelMissionLoop().               *)
DoneStops ==
  /\ DoneHookRuns /\ sessionUp /\ mission # 0
  /\ "stop" \in Disruptions
  /\ mission' = 0
  /\ UNCHANGED <<background, completed, sent>>

(* Completion also clears the manager's tasks (parallelAgentManager.cleanup). *)
DoneCompletes ==
  /\ DoneHookRuns /\ sessionUp /\ mission # 0
  /\ verified
  /\ MissionComplete
  /\ background' = FALSE
  /\ UNCHANGED sent

(* Mutant of DoneContinues: the injection is left out.                     *)
DoneSaysNothing ==
  /\ DoneHookRuns /\ sessionUp /\ mission # 0
  /\ ~verified
  /\ UNCHANGED <<mission, background, completed, sent>>

DoneContinues ==
  /\ DoneHookRuns /\ sessionUp /\ mission # 0
  /\ ~verified
  /\ SendPrompt
  /\ UNCHANGED <<mission, background, completed>>

(* The turn ends: the hook, then session.idle for a session of the map.    *)
IdleEvent ==
  /\ agent' = "idle"
  /\ IF sessionUp THEN idleEvents < MaxPending /\ idleEvents' = idleEvents + 1
                  ELSE UNCHANGED idleEvents

TurnEnds ==
  /\ agent = "working"
  /\ DoneIgnored \/ DoneStops \/ DoneCompletes \/ DoneContinues
  /\ IdleEvent
  /\ UNCHANGED <<sessionUp, loop, guards, accepted, verified, recovering, started>>

-----------------------------------------------------------------------------
(* session.idle, 500ms later: handleMissionIdle() while the loop is active. *)

IdleIgnored ==
  /\ ~sessionUp \/ mission = 0 \/ recent
  /\ UNCHANGED <<mission, timer, recent, toasts, completing, breaker, completed>>

MissionIdle ==
  /\ sessionUp /\ mission # 0 /\ ~recent
  /\ recent' = TRUE
  /\ CancelCountdown

IdleWaits ==
  /\ recovering \/ background
  /\ MissionIdle
  /\ UNCHANGED <<mission, toasts, completing, breaker, completed>>

IdleCompletes ==
  /\ ~recovering /\ ~background /\ verified
  /\ MissionIdle
  /\ MissionComplete
  /\ completing' = completing + 1
  /\ UNCHANGED <<toasts, breaker>>

Tripping == ~breaker.open /\ breaker.repeats >= RepetitionThreshold

IdleTrips ==
  /\ ~recovering /\ ~background /\ ~verified /\ Tripping
  /\ MissionIdle
  /\ breaker' = [breaker EXCEPT !.open = TRUE, !.window = "running"]
  /\ UNCHANGED <<mission, toasts, completing, completed>>

IdleCounts ==
  /\ ~recovering /\ ~background /\ ~verified /\ ~Tripping
  /\ MissionIdle
  /\ mission' = NextIteration
  /\ toasts + orphans + strays < MaxHandlers /\ toasts' = toasts + 1
  /\ UNCHANGED <<completing, breaker, completed>>

Idle ==
  /\ idleEvents > 0
  /\ idleEvents' = idleEvents - 1
  /\ IdleIgnored \/ IdleWaits \/ IdleCompletes \/ IdleTrips \/ IdleCounts
  /\ UNCHANGED <<sessionUp, aborting, orphans, strays, armed, agent, sent, accepted,
                 work, started>>

(* Mutant of ToastShown: the file is written after the await, as it was    *)
(* read before it.                                                         *)
ToastWritesFile ==
  /\ toasts > 0
  /\ toasts' = toasts - 1
  /\ timer' = TRUE
  /\ mission' = 1
  /\ UNCHANGED <<sessionUp, aborting, recent, orphans, strays, completing, guards,
                 server, work, history>>

(* The toast is shown: the handler sets the countdown of its SessionState, *)
(* over the handle of another one if there is one.                         *)
ToastShown ==
  /\ \/ /\ toasts > 0
        /\ toasts' = toasts - 1
        /\ timer' = TRUE
        /\ strays' = strays + (IF timer THEN 1 ELSE 0)
        /\ UNCHANGED orphans
     \/ /\ orphans > 0
        /\ orphans' = orphans - 1
        /\ strays' = strays + 1
        /\ UNCHANGED <<toasts, timer>>
  /\ UNCHANGED <<mission, sessionUp, aborting, recent, completing, guards, server, work, history>>

(* MIN_TIME_BETWEEN_CHECKS_MS, no longer than the countdown.               *)
RecentOver ==
  /\ recent
  /\ recent' = FALSE
  /\ UNCHANGED <<mission, sessionUp, aborting, timer, toasts, orphans, strays, completing,
                 guards, server, work, history>>

-----------------------------------------------------------------------------
(* injectContinuation(): it reads the guards and the todo file again, not  *)
(* the mission file.                                                       *)

InjectionBarred == aborting \/ background \/ recovering

CircuitBlocks == breaker.open /\ breaker.window = "running"

InjectSkips ==
  /\ InjectionBarred \/ CircuitBlocks
  /\ UNCHANGED <<mission, completed, completing, breaker, sent>>

(* Mutant of PassCircuit: the circuit is not asked.                        *)
PassAnyCircuit == ~InjectionBarred /\ UNCHANGED breaker

(* isCircuitOpen() closes a circuit whose 30s are over before the          *)
(* compaction guard is asked; any later time is after its epoch.           *)
PassCircuit ==
  /\ ~InjectionBarred /\ ~CircuitBlocks
  /\ breaker' = IF breaker.open THEN ClosedBreaker ELSE breaker

InjectUnsafe ==
  /\ PassCircuit
  /\ armed
  /\ UNCHANGED <<mission, completed, completing, sent>>

InjectCompletes ==
  /\ PassCircuit
  /\ ~armed /\ verified
  /\ MissionComplete
  /\ completing' = completing + (IF mission # 0 THEN 1 ELSE 0)
  /\ UNCHANGED sent

InjectPrompts ==
  /\ PassCircuit
  /\ ~armed /\ ~verified
  /\ SendPrompt
  /\ UNCHANGED <<mission, completed, completing>>

Inject ==
  /\ InjectSkips \/ InjectUnsafe \/ InjectCompletes \/ InjectPrompts
  /\ UNCHANGED <<sessionUp, aborting, recent, toasts, orphans, armed, agent, accepted,
                 idleEvents, work, started>>

(* The countdown is set after the last check and lasts as long as "recent". *)
CountdownFires ==
  /\ timer /\ ~recent
  /\ CancelCountdown
  /\ Inject
  /\ UNCHANGED strays

(* A countdown nobody can cancel: it still cancels the stored one.         *)
StrayFires ==
  /\ strays > 0
  /\ strays' = strays - 1
  /\ CancelCountdown
  /\ Inject

(* handleMissionComplete() goes on after its notifications.                *)
CompletionEnds ==
  /\ completing > 0
  /\ completing' = completing - 1
  /\ DropState
  /\ armed' = FALSE /\ breaker' = ClosedBreaker
  /\ UNCHANGED <<mission, sessionUp, strays, server, work, history>>

-----------------------------------------------------------------------------
(* What comes between                                                      *)

(* session.error ends the turn: handleAbort(), then perhaps a recovery     *)
(* prompt (always, for a "crash") or the wait for a rate limit.            *)
SessionError ==
  /\ agent = "working"
  /\ aborting' = TRUE
  /\ CancelCountdown
  /\ IdleEvent
  /\ \/ "error" \in Disruptions /\ UNCHANGED <<sent, recovering>>
     \/ /\ "error" \in Disruptions
        /\ ~recovering /\ recovering' = TRUE
        /\ UNCHANGED sent
     \/ /\ {"error", "crash"} \cap Disruptions # {}
        /\ ~recovering /\ SendPrompt
        /\ UNCHANGED recovering
  /\ UNCHANGED <<mission, sessionUp, recent, toasts, orphans, strays, completing, guards,
                 accepted, verified, background, history>>

(* The wait is over, or markRecoveryComplete() of an assistant's message.  *)
RecoveryEnds ==
  /\ recovering
  /\ recovering' = FALSE
  /\ UNCHANGED <<mission, sessionUp, loop, guards, server, verified, background, history>>

(* experimental.session.compacting: handleSessionCompacted().              *)
Compacting ==
  /\ "compaction" \in Disruptions
  /\ agent = "working"
  /\ armed' = TRUE
  /\ CancelCountdown
  /\ UNCHANGED <<mission, sessionUp, aborting, recent, toasts, orphans, strays, completing,
                 breaker, server, work, history>>

Delegate ==
  /\ "delegation" \in Disruptions
  /\ agent = "working"
  /\ background' = TRUE
  /\ UNCHANGED <<mission, sessionUp, loop, guards, server, verified, recovering, history>>

(* The last task ends and the parent is prompted for a reply.              *)
TasksEnd ==
  /\ background
  /\ background' = FALSE
  /\ SendPrompt
  /\ UNCHANGED <<mission, sessionUp, loop, guards, agent, accepted, idleEvents, verified,
                 recovering, history>>

(* session.deleted: every per-session state but the file goes.             *)
SessionDeleted ==
  /\ "deletion" \in Disruptions
  /\ sessionUp
  /\ sessionUp' = FALSE
  /\ DropState
  /\ armed' = FALSE /\ breaker' = ClosedBreaker
  /\ agent' = "idle" /\ sent' = 0 /\ accepted' = FALSE
  /\ recovering' = FALSE
  /\ UNCHANGED <<mission, strays, completing, idleEvents, verified, background, history>>

(* The plugin is loaded again: only the two files survive.                 *)
Reload ==
  /\ "reload" \in Disruptions
  /\ sessionUp' = FALSE
  /\ aborting' = FALSE /\ timer' = FALSE /\ recent' = FALSE
  /\ toasts' = 0 /\ orphans' = 0 /\ strays' = 0 /\ completing' = 0
  /\ armed' = FALSE /\ breaker' = ClosedBreaker
  /\ agent' = "idle" /\ sent' = 0 /\ accepted' = FALSE /\ idleEvents' = 0
  /\ background' = FALSE /\ recovering' = FALSE
  /\ UNCHANGED <<mission, verified, history>>

(* CIRCUIT_RESET_TIMEOUT_MS after the trip.                                *)
WindowEnds ==
  /\ breaker.window = "running"
  /\ breaker' = [breaker EXCEPT !.window = "over"]
  /\ UNCHANGED <<mission, sessionUp, loop, armed, server, work, history>>

(* Ten minutes without access: the three prune timers.                     *)
Expires ==
  /\ "silence" \in Disruptions
  /\ \/ ~timer /\ ~recent /\ DropState /\ UNCHANGED guards
     \/ armed /\ armed' = FALSE /\ UNCHANGED <<state, toasts, orphans, breaker>>
     \/ /\ breaker.window = "over"
        /\ breaker' = ClosedBreaker
        /\ UNCHANGED <<state, toasts, orphans, armed>>
  /\ UNCHANGED <<mission, sessionUp, strays, completing, server, work, history>>

-----------------------------------------------------------------------------
ServerStep ==
  MessageArrives \/ PromptLost \/ UserChats \/ TurnBegins \/ Progress \/ ToolCall \/ TurnEnds

LoopStep ==
  StartMission \/ Idle \/ ToastShown \/ RecentOver \/ CountdownFires \/ StrayFires
    \/ CompletionEnds

Disruption ==
  SessionError \/ RecoveryEnds \/ Compacting \/ Delegate \/ TasksEnd \/ SessionDeleted
    \/ Reload \/ WindowEnds \/ Expires

Next == ServerStep \/ LoopStep \/ Disruption

Spec == Init /\ [][Next]_vars

(* Timers fire, the server answers, turns and tasks end.                   *)
Fairness ==
  /\ WF_vars(MessageArrives) /\ WF_vars(TurnBegins) /\ WF_vars(TurnEnds)
  /\ WF_vars(Idle) /\ WF_vars(ToastShown) /\ WF_vars(RecentOver)
  /\ WF_vars(CountdownFires) /\ WF_vars(StrayFires) /\ WF_vars(CompletionEnds)
  /\ WF_vars(RecoveryEnds) /\ WF_vars(TasksEnd) /\ WF_vars(WindowEnds)

FairSpec == Spec /\ Fairness

-----------------------------------------------------------------------------
FlagsOK ==
  /\ sessionUp \in BOOLEAN /\ aborting \in BOOLEAN /\ timer \in BOOLEAN
  /\ recent \in BOOLEAN /\ armed \in BOOLEAN /\ accepted \in BOOLEAN
  /\ verified \in BOOLEAN /\ background \in BOOLEAN /\ recovering \in BOOLEAN

CountersOK ==
  /\ mission \in 0 .. MaxIterations + 1
  /\ toasts \in Nat /\ orphans \in Nat /\ strays \in Nat /\ completing \in Nat
  /\ sent \in 0 .. MaxPending /\ idleEvents \in 0 .. MaxPending
  /\ started \in 0 .. MaxMissions /\ completed \in Nat

TypeOK ==
  /\ FlagsOK /\ CountersOK
  /\ breaker \in Breakers
  /\ agent \in {"idle", "working"}

(* The done hook, an idle event and any number of countdowns may all find  *)
(* the todo file complete, before and after the next /task: a mission is   *)
(* announced once at most.                                                 *)
CompletedOnce == completed + (IF mission = 0 THEN 0 ELSE 1) <= started

(* No handler that read the file before a toast, a countdown or another    *)
(* handler brings a mission back or an older iteration with it.            *)
NoGhostMission ==
  [][ started' = started => (mission' = 0 \/ (mission # 0 /\ mission' >= mission)) ]_vars

(* After session.error, and until the 30s of a tripped circuit are over,   *)
(* countdowns prompt nobody: those that were set before it, those that a   *)
(* toast under way still sets, and those whose handle was lost.            *)
GuardsHold ==
  [][ (CircuitBlocks \/ (aborting /\ aborting')) /\ sent' > sent /\ agent' = agent
        => timer' = timer /\ strays' = strays ]_vars

(* A mission goes on whenever its agent is idle, until it is over.         *)
MissionContinues == (mission # 0 /\ agent = "idle") ~> (mission = 0 \/ agent = "working")
=============================================================================
