--------------------------- MODULE ProgressTracker ---------------------------
(***************************************************************************)
(* The two judges of stagnation in a mission: core/loop/progress-tracker.ts *)
(* for the idle handler (mission-loop-handler.ts), and the count that the  *)
(* done hook (hooks/features/mission-loop.ts) keeps in the mission file.   *)
(* Both look at the same todo list, at times of their own, and both write  *)
(* lastProgress; what they tell the agent is an intervention.              *)
(***************************************************************************)
EXTENDS Naturals

CONSTANTS
  Threshold,      \* DEFAULT_STAGNATION_THRESHOLD
  HookThreshold,  \* stagnationCount at which the done hook intervenes
  MaxTodos,       \* bound: items of the todo list
  MaxPrompts,     \* bound: continuation prompts not answered yet
  IdleChecks      \* bound: idle checks that decided and have not prompted

VARIABLES
  todos,       \* [done, total], the progress "done/total" of the list
  tracker,     \* sessionStates.get(sessionID)
  loopFile,    \* lastProgress and stagnationCount of the mission file
  checks,      \* per idle check: where it is, what its prompt will say, and, if
               \* that blames the agent, whether Threshold checks in a row had
               \* seen no progress by then
  prompts,     \* continuation prompts not answered
  seen, flat,  \* incomplete items at the last idle check, and the checks in a
               \* row, that one included, that saw no fewer than the one before
  steady       \* the progress that the done hook's last run found, and whether
               \* the run before it found the same

progressVars == <<todos, tracker, loopFile, checks, prompts, seen, flat, steady>>

Unknown == MaxTodos + 1    \* lastIncompleteCount ?? Infinity
NoEntry == [stagnation |-> 0, last |-> Unknown, awaiting |-> FALSE, known |-> FALSE]
NoProgress == [done |-> 0, total |-> Unknown]

NoCheck == [at |-> "none", says |-> "none", founded |-> TRUE]

Progress == {p \in [done : 0..MaxTodos, total : 0..MaxTodos] : p.done <= p.total}
Incomplete == todos.total - todos.done
AtMost(n, limit) == IF n > limit THEN limit ELSE n

Init ==
  /\ todos = [done |-> 0, total |-> 0]
  /\ tracker = NoEntry
  /\ loopFile = [last |-> NoProgress, stagnation |-> 0]
  /\ checks = [c \in IdleChecks |-> NoCheck] /\ prompts = 0
  /\ seen = Unknown /\ flat = 0
  /\ steady = [at |-> NoProgress, before |-> FALSE]

(* The agents edit todo.md: they complete, reopen, add and remove items.   *)
AgentWorks ==
  /\ todos' \in {p \in Progress : \/ p.total = todos.total
                                  \/ p.done = todos.done}
  /\ UNCHANGED <<tracker, loopFile, checks, prompts, seen, flat, steady>>

(* /task: a new mission file; the entry of the session's last one stays.   *)
StartMissionLoop ==
  /\ loopFile' = [last |-> NoProgress, stagnation |-> 0]
  /\ UNCHANGED <<todos, tracker, checks, prompts, seen, flat, steady>>

(* getState()                                                              *)
Entry == [tracker EXCEPT !.known = TRUE]

(* Mutant of TrackProgress: progress does not reset the count.             *)
TrackOnlyCounts(entry, incomplete) ==
  [entry EXCEPT !.last = incomplete,
                !.stagnation = IF incomplete >= entry.last /\ entry.awaiting THEN @ + 1 ELSE @]

(* trackProgress() without todos, as its one caller has it.  The flag that *)
(* makes no progress count is cleared by progress alone.                   *)
TrackProgress(entry, incomplete) ==
  [entry EXCEPT
     !.last = incomplete,
     !.awaiting = IF incomplete < entry.last /\ entry.last # Unknown THEN FALSE ELSE @,
     !.stagnation = IF incomplete < entry.last THEN 0
                    ELSE IF entry.awaiting THEN @ + 1 ELSE @]

IsStagnant(entry) == entry.stagnation >= Threshold

(* cancelCountdown(): the timer whose handle the session's state holds.    *)
Cancelled == [c \in IdleChecks |-> IF checks[c].at = "timer" THEN NoCheck ELSE checks[c]]

(* sessionStateStore.cleanup(): a handler that awaits its toast holds a    *)
(* state nobody will find again.                                           *)
Forgotten ==
  [c \in IdleChecks |-> IF checks[c].at = "toast" THEN [checks[c] EXCEPT !.at = "orphan"]
                        ELSE Cancelled[c]]

(* handleMissionIdle() when the mission is neither verified nor stopped by *)
(* a guard: it cancels the countdown, records the progress in the file and *)
(* decides what to say, and then awaits its toast.                         *)
(* The counts are explored to just past their thresholds.                  *)
HandleMissionIdle(c) ==
  LET entry == TrackProgress(Entry, Incomplete)
  IN  /\ Cancelled[c].at = "none" /\ \A d \in IdleChecks : d < c => Cancelled[d].at # "none"
      /\ entry.stagnation <= Threshold + 1
      /\ tracker' = entry
      /\ loopFile' = [loopFile EXCEPT !.last = todos]
      /\ seen' = Incomplete
      /\ flat' = IF Incomplete < seen THEN 0 ELSE AtMost(flat + 1, Threshold)
      /\ checks' = [Cancelled EXCEPT ![c] =
                     [at |-> "toast",
                      says |-> IF IsStagnant(entry) THEN "intervention" ELSE "plain",
                      founded |-> IsStagnant(entry) => flat' = Threshold]]
      /\ UNCHANGED <<todos, prompts, steady>>

(* The toast's call ends.  The handle of a countdown another check set     *)
(* meanwhile is overwritten, and nobody can cancel that one any more.      *)
ToastShown(c) ==
  /\ \/ /\ checks[c].at = "toast"
        /\ checks' = [d \in IdleChecks |->
             IF d = c THEN [checks[d] EXCEPT !.at = "timer"]
             ELSE IF checks[d].at = "timer" THEN [checks[d] EXCEPT !.at = "stray"]
             ELSE checks[d]]
     \/ /\ checks[c].at = "orphan"
        /\ checks' = [checks EXCEPT ![c].at = "stray"]
  /\ UNCHANGED <<todos, tracker, loopFile, prompts, seen, flat, steady>>

(* A user's message, an abort, a compaction or an idle event that a guard  *)
(* returns from.                                                           *)
CancelCountdown ==
  /\ \E c \in IdleChecks : checks[c].at = "timer"
  /\ checks' = Cancelled
  /\ UNCHANGED <<todos, tracker, loopFile, prompts, seen, flat, steady>>

(* A countdown ends, and cancels the one that the state holds if that is   *)
(* another's.  It prompts, or a guard of injectContinuation stops it.      *)
InjectContinuation(c) ==
  /\ checks[c].at \in {"timer", "stray"}
  /\ checks' = [Cancelled EXCEPT ![c] = NoCheck]
  /\ prompts' \in {prompts, prompts + 1} /\ prompts' <= MaxPrompts
  /\ UNCHANGED <<todos, tracker, loopFile, seen, flat, steady>>

(* The prompt's call ends with the turn: before or after the idle event of *)
(* that turn is handled.  markInjectionPerformed() makes a lost entry anew.*)
PromptAnswered ==
  /\ prompts > 0
  /\ prompts' = prompts - 1
  /\ tracker' = [Entry EXCEPT !.awaiting = TRUE]
  /\ UNCHANGED <<todos, loopFile, checks, seen, flat, steady>>

PromptFails ==
  /\ prompts > 0
  /\ prompts' = prompts - 1
  /\ UNCHANGED <<todos, tracker, loopFile, checks, seen, flat, steady>>

(* The timer drops an entry that nothing used for 10min: in a long turn,   *)
(* or while a toast hangs.                                                 *)
PruneEntry ==
  /\ tracker.known
  /\ tracker' = NoEntry
  /\ UNCHANGED <<todos, loopFile, checks, prompts, seen, flat, steady>>

(* A completion, or the timer of the states, drops the session's state.    *)
DropState ==
  /\ checks' = Forgotten
  /\ UNCHANGED <<todos, tracker, loopFile, prompts, seen, flat, steady>>

(* cleanupSession(), when the session is deleted: a later one may resume   *)
(* with the same id.                                                       *)
ResetProgress ==
  /\ tracker' = [NoEntry EXCEPT !.known = tracker.known]
  /\ checks' = Forgotten
  /\ UNCHANGED <<todos, loopFile, prompts, seen, flat, steady>>

(* handleMissionProgress() of the done hook, its fourth step.              *)
HandleMissionProgress ==
  LET stagnation == IF loopFile.last = todos THEN loopFile.stagnation + 1 ELSE 0
  IN  /\ stagnation <= HookThreshold
      /\ loopFile' = [last |-> todos, stagnation |-> stagnation]
      /\ steady' = [at |-> todos, before |-> steady.at = todos]
      /\ UNCHANGED <<todos, tracker, checks, prompts, seen, flat>>

Next ==
  \/ AgentWorks \/ StartMissionLoop
  \/ \E c \in IdleChecks : HandleMissionIdle(c) \/ ToastShown(c) \/ InjectContinuation(c)
  \/ CancelCountdown
  \/ PromptAnswered \/ PromptFails
  \/ PruneEntry \/ DropState \/ ResetProgress
  \/ HandleMissionProgress

Spec == Init /\ [][Next]_progressVars

-----------------------------------------------------------------------------
ProgressTypeOK ==
  /\ todos \in Progress
  /\ tracker \in [stagnation : 0..(Threshold + 1), last : 0..Unknown,
                  awaiting : BOOLEAN, known : BOOLEAN]
  /\ ~tracker.known => tracker = NoEntry
  /\ loopFile.last \in Progress \cup {NoProgress}
  /\ loopFile.stagnation \in 0..HookThreshold
  /\ checks \in [IdleChecks -> [at : {"none", "toast", "orphan", "timer", "stray"},
                                says : {"none", "plain", "intervention"}, founded : BOOLEAN]]
  /\ \A c, d \in IdleChecks : checks[c].at = "timer" /\ checks[d].at = "timer" => c = d
  /\ prompts \in 0..MaxPrompts
  /\ seen \in 0..Unknown /\ flat \in 0..Threshold
  /\ steady.at \in Progress \cup {NoProgress} /\ steady.before \in BOOLEAN

(* However idle checks and their toasts, stray countdowns, late answers, a *)
(* pruned entry and a new mission of the session interleave, the idle      *)
(* handler blames the agent only if Threshold checks in a row, the one     *)
(* that decided it included, had seen no item completed                    *)
(* (mission-loop-handler.ts 225-248, progress-tracker.ts 121-218).         *)
InterventionForAReason ==
  \A c \in IdleChecks : checks[c].says = "intervention" => checks[c].founded

(* STAGNATION_INTERVENTION speaks of the last turns (system-messages.ts    *)
(* 88): no check saw progress since it was decided to say it.              *)
InterventionStillTrue ==
  \A c \in IdleChecks : checks[c].says = "intervention" => flat = Threshold

(* The done hook tells the agent that its last turns brought no progress   *)
(* (system-messages.ts 88), so at the least not the last one: the progress *)
(* is what it was when the turn before ended.                              *)
HookBlamesForAReason ==
  loopFile.stagnation >= HookThreshold => steady.before
=============================================================================
