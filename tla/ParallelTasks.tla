--------------------------- MODULE ParallelTasks ---------------------------
(***************************************************************************)
(* The life of the background tasks that one parent session launches for   *)
(* one agent (core/agents/manager.ts and core/agents/manager/*.ts, with    *)
(* the maps of core/agents/task-store.ts), on top of the agent's           *)
(* concurrency key.                                                        *)
(*                                                                         *)
(* Everything between two awaits is one step.  The steps of the launcher,  *)
(* the session events, the poller, the cleanup timers and the cancel tool  *)
(* interleave at the awaits: for a slot, for the prompt, for the messages  *)
(* of a session, for the message to the parent, for a session's deletion.  *)
(***************************************************************************)
EXTENDS Integers, SequencesExt, FiniteSets

CONSTANTS
  Tasks,             \* the tasks of one parent, all for one agent
  NoTask,
  InitialLimit, SettableLimits, MaxConcurrency,
  CircuitThreshold, HalfOpenSuccess, ScaleUpStreak, ScaleDownStreak,
  ErrorKinds,        \* what a failed prompt may match in errorPatterns
  MaxRetries,        \* MAX_RETRIES of core/recovery
  MaxEndings,        \* bound: endings of one task whose cleanup is to come
  MaxIdleChecks,     \* bound: handleSessionIdle() in flight for one task
  MaxNotifications,  \* MEMORY_LIMITS.MAX_NOTIFICATIONS_PER_PARENT
  MaxClears,         \* bound: calls of the manager's cleanup()
  Interruptions      \* what may end a task from outside, besides its session

(* "endless": rate limit and timeout patterns, retried whatever the        *)
(* attempt; "bounded": retried while attempt < MAX_RETRIES (network and    *)
(* unknown errors); "fatal": no retry (context overflow, auth).            *)
ASSUME TasksAssumption ==
  /\ IsFiniteSet(Tasks) /\ NoTask \notin Tasks
  /\ InitialLimit \in Nat /\ SettableLimits \in SUBSET Nat
  /\ MaxConcurrency \in Nat \ {0}
  /\ CircuitThreshold \in Nat \ {0} /\ HalfOpenSuccess \in Nat \ {0}
  /\ ScaleUpStreak \in Nat \ {0} /\ ScaleDownStreak \in Nat \ {0}
  /\ ErrorKinds \in SUBSET {"endless", "bounded", "fatal"}
  /\ MaxRetries \in Nat \ {0}
  /\ MaxEndings \in Nat \ {0}
  /\ MaxIdleChecks \in Nat
  /\ MaxNotifications \in Nat \ {0}
  /\ MaxClears \in Nat
  /\ Interruptions \in SUBSET {"cancel", "deleted", "expired"}

VARIABLES
  count, queue, limit, holders, circuit, successStreak, failureStreak,
  status,         \* task.status; "none" before prepareTask()
  store,          \* the keys of TaskStore.tasks
  keyed,          \* tasks whose concurrencyKey is still set
  exec,           \* where executeBackground() of a task stands
  attempt,        \* its attempt counter, up to MAX_RETRIES
  pending,        \* pendingByParent.get(parent)
  notifications,  \* notifications.get(parent)
  owed,           \* was the parent promised a message for the end of all?
  idleChecks,     \* handleSessionIdle() calls that await the messages
  telling,        \* ... and those that completed it and await the message
                  \* to the parent
  tellingErrors,  \* handleTaskError() messages to the parent in flight
  cancelling,     \* cancelTask() calls that await the session's deletion
  cleanups,       \* scheduleCleanup() timers not fired yet
  poll,           \* the passes of the poller's timer chains
  polling,        \* the chain whose timer pollingInterval holds, 0 if none
  clears          \* calls of cleanup() so far

Slots == INSTANCE ConcurrencyController
           WITH Callers <- Tasks, AskedPriorities <- {1}, DirectReleases <- TRUE

slots      == <<count, queue, holders>>
feedback   == <<limit, circuit, successStreak, failureStreak>>
controller == <<slots, feedback>>
records    == <<status, store, keyed, pending>>
messages   == <<notifications, owed, telling, tellingErrors>>
running    == <<exec, attempt>>
timers     == <<idleChecks, cancelling, cleanups>>
poller     == <<poll, polling, clears>>
vars == <<controller, records, messages, running, timers, poller>>

Active   == {"PENDING", "RUNNING"}
Terminal == {"COMPLETED", "ERROR", "TIMEOUT"}

(* A timer chain of the poller is stopped, waits for its next pass or is   *)
(* in one; "rest" is what is left of the pass's snapshot.  A cleanup()     *)
(* during a pass lets the next launch start another chain.                 *)
Chains == 1 .. MaxClears + 1
PollAt(place) == [at |-> place, task |-> NoTask, rest |-> {}]

Init ==
  /\ Slots!Init
  /\ status = [t \in Tasks |-> "none"]
  /\ store = {} /\ keyed = {} /\ pending = {}
  /\ exec = [t \in Tasks |-> "none"]
  /\ attempt = [t \in Tasks |-> 1]
  /\ notifications = <<>> /\ owed = FALSE
  /\ idleChecks = [t \in Tasks |-> 0]
  /\ telling = [t \in Tasks |-> 0] /\ tellingErrors = 0
  /\ cancelling = [t \in Tasks |-> 0]
  /\ cleanups = [t \in Tasks |-> 0]
  /\ poll = [c \in Chains |-> PollAt("stopped")]
  /\ polling = 0 /\ clears = 0

Increment(f, t) == [f EXCEPT ![t] = @ + 1]
Decrement(f, t) == [f EXCEPT ![t] = @ - 1]

SetStatus(t, s) == status' = [status EXCEPT ![t] = s]
SetExec(t, e)   == exec' = [exec EXCEPT ![t] = e]
(* Mutant of Untrack: the parent is not told to stop waiting.              *)
UntrackForgets(t) == UNCHANGED pending

Untrack(t)      == pending' = pending \ {t}

-----------------------------------------------------------------------------
(* The key: what a step that ends a task does to it.                       *)

(* Mutant of ReleaseKeyTimes: the counter has no floor.                    *)
ReleaseKeyBelowZero(n) == count' = count - n /\ UNCHANGED <<queue, holders>>

(* n calls of release(key) in a row, in one step.                          *)
ReleaseKeyTimes(n) ==
  LET woken == IF n < Len(queue) THEN n ELSE Len(queue)
  IN  IF limit = Slots!Unlimited
      THEN UNCHANGED slots
      ELSE /\ queue' = SubSeq(queue, woken + 1, Len(queue))
           /\ holders' = holders \cup { queue[i].caller : i \in 1 .. woken }
           /\ count' = IF count > n - woken THEN count - (n - woken) ELSE 0

ReleaseIfKeyed(t) ==
  IF t \in keyed THEN Slots!ReleaseSlotOf({}) ELSE UNCHANGED slots

ReportIfKeyed(t, success) ==
  IF t \in keyed THEN Slots!ReportResult(success) ELSE UNCHANGED feedback

(* Mutant of ReleaseTokenOf: no finally block.                             *)
ReleaseTokenSkipped(t) == UNCHANGED slots

ReleaseTokenOf(t) ==
  IF t \in holders THEN Slots!ReleaseSlotOf({t}) ELSE UNCHANGED slots

-----------------------------------------------------------------------------
(* notifyParentIfAllComplete(): with nothing queued it returns at once;    *)
(* the message asks the parent to go on only if nothing is pending, else   *)
(* it promises another one.  What was queued is dropped once it is sent.   *)

Tell == owed' = (pending' # {})

QueueNotification(t) ==
  LET q == Append(notifications, t)
  IN  notifications' = IF Len(q) > MaxNotifications THEN Tail(q) ELSE q

ErrorTold ==
  /\ tellingErrors > 0
  /\ tellingErrors' = tellingErrors - 1
  /\ notifications' = <<>>
  /\ UNCHANGED <<controller, records, owed, telling, running, timers, poller>>

(* Bound: a task that was ended and is retried may be ended once more, and *)
(* so without end.                                                         *)
FewEndings(t) == telling[t] + cancelling[t] + cleanups[t] < MaxEndings

(* completeTask() and the second half of handleSessionIdle(), up to the    *)
(* message to the parent; neither looks at the status again.               *)
Complete(t) ==
  /\ FewEndings(t)
  /\ SetStatus(t, "COMPLETED")
  /\ ReleaseIfKeyed(t)
  /\ ReportIfKeyed(t, TRUE)
  /\ keyed' = keyed \ {t}
  /\ Untrack(t)
  /\ QueueNotification(t)
  /\ Tell
  /\ UNCHANGED <<store, tellingErrors, running, cancelling, cleanups>>

(* Mutants of CompletionTold: what was queued stays, or no timer is set.   *)
ToldKeepsNotifications(t) ==
  /\ cleanups' = Increment(cleanups, t)
  /\ UNCHANGED <<controller, records, owed, notifications, tellingErrors, running,
                 idleChecks, cancelling>>

ToldWithoutCleanup(t) ==
  /\ notifications' = <<>>
  /\ UNCHANGED <<controller, records, owed, tellingErrors, running, timers>>

(* ... and after it: cleanup is scheduled (and a reviewer launched).        *)
CompletionTold(t) ==
  /\ notifications' = <<>>
  /\ cleanups' = Increment(cleanups, t)
  /\ UNCHANGED <<controller, records, owed, tellingErrors, running, idleChecks, cancelling>>

-----------------------------------------------------------------------------
(* TaskLauncher                                                            *)

(* prepareTask(), once the pool has given a session.                       *)
Prepare(t) ==
  /\ status[t] = "none"
  /\ SetStatus(t, "PENDING")
  /\ store' = store \cup {t}
  /\ keyed' = keyed \cup {t}
  /\ pending' = pending \cup {t}
  /\ SetExec(t, "prepared")
  /\ UNCHANGED <<controller, attempt, messages, timers, poller>>

(* TaskPoller.start(), stop(): the handle of a fired timer stays until the *)
(* pass is over.                                                           *)
StartPolling ==
  LET c == CHOOSE d \in Chains : polling = 0 => poll[d].at = "stopped"
  IN  /\ UNCHANGED clears
      /\ IF polling # 0 THEN UNCHANGED <<poll, polling>>
         ELSE poll' = [poll EXCEPT ![c] = PollAt("off")] /\ polling' = c

StopPolling(stopping) ==
  /\ polling' = 0
  /\ poll' = [c \in Chains |-> IF c \in stopping \/ (c = polling /\ poll[c].at = "off")
                               THEN PollAt("stopped") ELSE poll[c]]

(* executeBackground() up to its first await, where an OPEN circuit makes  *)
(* it throw; launch() then starts the poller.                              *)
Execute(t) ==
  /\ exec[t] = "prepared"
  /\ \/ Slots!Acquire(t, Slots!NORMAL) /\ SetExec(t, "acquiring")
     \/ Slots!CircuitBlocks /\ SetExec(t, "failing") /\ UNCHANGED controller
  /\ StartPolling
  /\ UNCHANGED <<records, attempt, messages, timers>>

WaitTimesOut(t) ==
  /\ Slots!WaiterTimeout(t)
  /\ SetExec(t, "failing")
  /\ UNCHANGED <<records, attempt, messages, timers, poller>>

(* The head of the loop: RUNNING, whatever happened to the task meanwhile. *)
FirePrompt(t) ==
  /\ SetStatus(t, "RUNNING")
  /\ store' = store \cup {t}
  /\ SetExec(t, "prompting")
  /\ UNCHANGED <<controller, keyed, pending, messages, timers, poller>>

Start(t) ==
  /\ exec[t] = "acquiring" /\ t \in holders
  /\ FirePrompt(t)
  /\ UNCHANGED attempt

PromptReturns(t) ==
  /\ exec[t] = "prompting"
  /\ SetExec(t, "ended")
  /\ ReleaseTokenOf(t)
  /\ UNCHANGED <<feedback, records, attempt, messages, timers, poller>>

(* The prompt fails or takes 600s.  "attempt" is only compared with         *)
(* MAX_RETRIES and stays there; FirePrompt() sets startedAt again, so that *)
(* a task that is retried never gets old enough to expire.                 *)
WillRetry(t, kind) ==
  \/ kind = "endless"
  \/ kind = "bounded" /\ attempt[t] < MaxRetries

PromptFails(t, kind) ==
  /\ exec[t] = "prompting"
  /\ IF WillRetry(t, kind)
     THEN SetExec(t, "backoff") /\ UNCHANGED slots
     ELSE SetExec(t, "failing") /\ ReleaseTokenOf(t)
  /\ UNCHANGED <<feedback, records, attempt, messages, timers, poller>>

Retry(t) ==
  /\ exec[t] = "backoff"
  /\ attempt' = [attempt EXCEPT ![t] = IF @ < MaxRetries THEN @ + 1 ELSE @]
  /\ FirePrompt(t)

(* The token's own 10min timer.                                            *)
TokenExpires(t) ==
  /\ exec[t] \in {"prompting", "backoff"}
  /\ Slots!ReleaseToken(t)
  /\ UNCHANGED <<records, messages, running, timers, poller>>

(* handleTaskError(): it leaves the key set and queues no notification.    *)
TaskError(t) ==
  /\ exec[t] = "failing"
  /\ SetExec(t, "ended")
  /\ IF t \in store
     THEN /\ SetStatus(t, "ERROR")
          /\ ReleaseIfKeyed(t)
          /\ ReportIfKeyed(t, FALSE)
          /\ Untrack(t)
          /\ cleanups' = Increment(cleanups, t)
          /\ IF notifications = <<>>
             THEN UNCHANGED <<owed, tellingErrors>>
             ELSE Tell /\ tellingErrors' = tellingErrors + 1
     ELSE UNCHANGED <<controller, status, pending, cleanups, owed, tellingErrors>>
  /\ UNCHANGED <<store, keyed, attempt, notifications, telling, idleChecks,
                 cancelling, poller>>

-----------------------------------------------------------------------------
(* EventHandler                                                            *)

(* session.idle, late enough after startedAt: on to the await for messages. *)
SessionIdle(t) ==
  /\ t \in store /\ status[t] = "RUNNING"
  /\ idleChecks[t] < MaxIdleChecks
  /\ idleChecks' = Increment(idleChecks, t)
  /\ UNCHANGED <<controller, records, messages, running, cancelling, cleanups, poller>>

IdleChecked(t) ==
  /\ idleChecks[t] > 0
  /\ idleChecks' = Decrement(idleChecks, t)
  /\ UNCHANGED poller
  /\ \/ Complete(t) /\ telling' = Increment(telling, t)
     \/ UNCHANGED <<controller, records, messages, running, cancelling, cleanups>>

IdleTold(t) ==
  /\ telling[t] > 0
  /\ telling' = Decrement(telling, t)
  /\ CompletionTold(t)
  /\ UNCHANGED poller

(* clearNotificationsForTask(): a list without t is not touched.           *)
ForgetNotifications(t) ==
  IF t \in ToSet(notifications)
  THEN notifications' = SelectSeq(notifications, LAMBDA u : u # t)
  ELSE UNCHANGED notifications

SessionDeleted(t) ==
  /\ "deleted" \in Interruptions
  /\ t \in store
  /\ status' = [status EXCEPT ![t] = IF @ = "RUNNING" THEN "ERROR" ELSE @]
  /\ ReleaseIfKeyed(t)
  /\ ReportIfKeyed(t, FALSE)
  /\ keyed' = keyed \ {t}
  /\ Untrack(t)
  /\ ForgetNotifications(t)
  /\ store' = store \ {t}
  /\ UNCHANGED <<owed, telling, tellingErrors, running, timers, poller>>

-----------------------------------------------------------------------------
(* cancelTask(): like handleTaskError() it leaves the key set.             *)

Cancel(t) ==
  /\ "cancel" \in Interruptions
  /\ t \in store /\ status[t] = "RUNNING" /\ FewEndings(t)
  /\ SetStatus(t, "ERROR")
  /\ ReleaseIfKeyed(t)
  /\ Untrack(t)
  /\ cancelling' = Increment(cancelling, t)
  /\ UNCHANGED <<feedback, store, keyed, messages, running, idleChecks, cleanups, poller>>

Cancelled(t) ==
  /\ cancelling[t] > 0
  /\ cancelling' = Decrement(cancelling, t)
  /\ cleanups' = Increment(cleanups, t)
  /\ UNCHANGED <<controller, records, messages, running, idleChecks, poller>>

-----------------------------------------------------------------------------
(* TaskCleaner                                                             *)

CleanupFires(t) ==
  /\ cleanups[t] > 0
  /\ cleanups' = Decrement(cleanups, t)
  /\ store' = store \ {t}
  /\ UNCHANGED <<controller, status, keyed, pending, messages, running, idleChecks,
                 cancelling, poller>>

(* A day after startedAt a task neither waits for a slot nor is prompted,  *)
(* and what had a cleanup timer is gone.                                   *)
MayExpire(t) ==
  /\ "expired" \in Interruptions
  /\ t \in store /\ exec[t] = "ended" /\ cleanups[t] = 0

(* pruneExpiredTasks(): the first thing launch() and poll() do.            *)
Prune(expired) ==
  LET ran == { t \in expired : status[t] = "RUNNING" }
  IN  /\ \A t \in expired : MayExpire(t)
      /\ status' = [t \in Tasks |-> IF t \in ran THEN "TIMEOUT" ELSE status[t]]
      /\ ReleaseKeyTimes(Cardinality(ran \cap keyed))
      /\ pending' = pending \ ran
      /\ store' = store \ expired
      /\ UNCHANGED <<feedback, keyed, messages, running, timers>>

PruneAtLaunch ==
  /\ \E expired \in SUBSET store : expired # {} /\ Prune(expired)
  /\ UNCHANGED poller

-----------------------------------------------------------------------------
(* TaskPoller.poll(): prune, then a pass over a snapshot of the active     *)
(* tasks; without any, the poller is stopped.                              *)

PollBegins(c) ==
  /\ poll[c].at = "off"
  /\ \E expired \in SUBSET store : Prune(expired)
  /\ LET active == { t \in store' : status'[t] \in Active }
     IN  IF active = {}
         THEN StopPolling({c})
         ELSE /\ poll' = [poll EXCEPT ![c] = [at |-> "next", task |-> NoTask, rest |-> active]]
              /\ UNCHANGED polling
  /\ UNCHANGED clears

(* Mutant of PollDone: the next pass is not scheduled.                     *)
PollEndsChain(c, t) ==
  /\ poll' = [poll EXCEPT ![c] = IF @.rest = {t} THEN PollAt("stopped")
                                 ELSE [at |-> "next", task |-> NoTask, rest |-> @.rest \ {t}]]
  /\ UNCHANGED <<polling, clears>>

(* At the end of a pass the next one is scheduled, unless the poller was   *)
(* stopped meanwhile; its timer replaces that of a chain started since.    *)
PollDone(c, t) ==
  LET rest == poll[c].rest \ {t}
  IN  /\ poll' = [poll EXCEPT ![c] =
                    IF rest # {} THEN [at |-> "next", task |-> NoTask, rest |-> rest]
                    ELSE PollAt(IF polling = 0 THEN "stopped" ELSE "off")]
      /\ polling' = IF rest = {} /\ polling # 0 THEN c ELSE polling
      /\ UNCHANGED clears

PollSkips(c, t) ==
  /\ poll[c].at = "next" /\ t \in poll[c].rest
  /\ status[t] = "PENDING"
  /\ PollDone(c, t)
  /\ UNCHANGED <<controller, records, messages, running, timers>>

(* The await for the messages of an idle session, or for its progress.     *)
PollChecks(c, t) ==
  /\ poll[c].at = "next" /\ t \in poll[c].rest
  /\ status[t] # "PENDING"
  /\ poll' = [poll EXCEPT ![c].at = "checking", ![c].task = t]
  /\ UNCHANGED <<controller, records, messages, running, timers, polling, clears>>

PollCompletes(c, t) ==
  /\ \/ poll[c].at = "next" /\ t \in poll[c].rest /\ status[t] # "PENDING"
     \/ poll[c].at = "checking" /\ poll[c].task = t
  /\ Complete(t)
  /\ poll' = [poll EXCEPT ![c].at = "telling", ![c].task = t]
  /\ UNCHANGED <<telling, idleChecks, polling, clears>>

PollFindsNothing(c, t) ==
  /\ poll[c].at = "checking" /\ poll[c].task = t
  /\ PollDone(c, t)
  /\ UNCHANGED <<controller, records, messages, running, timers>>

PollTells(c, t) == poll[c].at = "telling" /\ poll[c].task = t

PollTold(c, t) ==
  /\ PollTells(c, t)
  /\ CompletionTold(t)
  /\ PollDone(c, t)
  /\ UNCHANGED telling

-----------------------------------------------------------------------------
(* cleanup(), which the done hook calls when a mission is complete: the    *)
(* records are forgotten, and what executes or awaits goes on.             *)
Clear ==
  /\ clears < MaxClears
  /\ clears' = clears + 1
  /\ StopPolling({})
  /\ store' = {} /\ pending' = {} /\ notifications' = <<>>
  /\ UNCHANGED <<controller, status, keyed, owed, telling, tellingErrors, running, timers>>

-----------------------------------------------------------------------------
(* The key's own steps and the manager's setConcurrencyLimit().            *)
KeyStep ==
  /\ Slots!SetLimit \/ Slots!WindowElapses
  /\ UNCHANGED <<records, messages, running, timers, poller>>

LauncherStep(t) ==
  \/ Prepare(t) \/ Execute(t) \/ WaitTimesOut(t) \/ Start(t)
  \/ PromptReturns(t)
  \/ \E kind \in ErrorKinds : PromptFails(t, kind)
  \/ Retry(t) \/ TokenExpires(t) \/ TaskError(t)

EventStep(t) ==
  SessionIdle(t) \/ IdleChecked(t) \/ IdleTold(t) \/ SessionDeleted(t)

PollStep(c, t) ==
  \/ PollSkips(c, t) \/ PollChecks(c, t) \/ PollCompletes(c, t)
  \/ PollFindsNothing(c, t) \/ PollTold(c, t)

Next ==
  \/ \E t \in Tasks : LauncherStep(t)
  \/ \E t \in Tasks : EventStep(t)
  \/ \E c \in Chains : PollBegins(c) \/ \E t \in Tasks : PollStep(c, t)
  \/ \E t \in Tasks : Cancel(t) \/ Cancelled(t) \/ CleanupFires(t)
  \/ PruneAtLaunch \/ ErrorTold \/ Clear
  \/ KeyStep

Spec == Init /\ [][Next]_vars

(* Timers fire and answered calls go on; a prompt is answered or times out *)
(* at 600s.  The chain of passes goes on while it is not stopped, and one  *)
(* of them comes a day after a task was last started (SF: passes that come *)
(* before do not prune it).  No session event is promised.                 *)
PollPrunes ==
  /\ \E c \in Chains : PollBegins(c)
  /\ \A t \in store : MayExpire(t) => t \notin store'

Fairness ==
  /\ \A t \in Tasks :
       /\ WF_vars(Execute(t)) /\ WF_vars(WaitTimesOut(t)) /\ WF_vars(Start(t))
       /\ WF_vars(PromptReturns(t) \/ \E kind \in ErrorKinds : PromptFails(t, kind))
       /\ WF_vars(Retry(t)) /\ WF_vars(TaskError(t))
  /\ \A c \in Chains : WF_vars(\E t \in Tasks : PollStep(c, t))
  /\ SF_vars(PollPrunes)

FairSpec == Spec /\ Fairness

-----------------------------------------------------------------------------
ExecPlaces ==
  {"none", "prepared", "acquiring", "prompting", "backoff", "failing", "ended"}

Passes ==
  [at   : {"stopped", "off", "next", "checking", "telling"},
   task : Tasks \cup {NoTask},
   rest : SUBSET Tasks]

RecordsOK ==
  /\ status \in [Tasks -> {"none"} \cup Active \cup Terminal]
  /\ store \in SUBSET Tasks /\ keyed \in SUBSET Tasks /\ pending \in SUBSET Tasks
  /\ exec \in [Tasks -> ExecPlaces]
  /\ attempt \in [Tasks -> 1 .. MaxRetries]

AwaitsOK ==
  /\ tellingErrors \in Nat
  /\ idleChecks \in [Tasks -> Nat] /\ telling \in [Tasks -> Nat]
  /\ cancelling \in [Tasks -> Nat] /\ cleanups \in [Tasks -> Nat]

PollerOK ==
  /\ poll \in [Chains -> Passes]
  /\ polling \in {0} \cup Chains /\ clears \in 0 .. MaxClears

TypeOK ==
  /\ Slots!TypeOK /\ RecordsOK /\ AwaitsOK /\ PollerOK
  /\ notifications \in Seq(Tasks) /\ owed \in BOOLEAN

Executing == { t \in Tasks : exec[t] \in {"prompting", "backoff"} }

(* executeBackground() holds its token from the grant to its finally block *)
(* at most, and waits nowhere else ("GUARANTEED cleanup: RAII pattern").   *)
TokensFollowExecution ==
  \A t \in Tasks :
    /\ t \in holders => exec[t] \in {"acquiring", "prompting", "backoff"}
    /\ t \in Slots!Queued => exec[t] = "acquiring"
    /\ exec[t] = "acquiring" => t \in holders \cup Slots!Queued

(* Though tokens, completions, errors, cancellations and the pruner all    *)
(* release the key, no way of ending a task leaves a token or a queue      *)
(* entry behind, no slot is counted that nobody has, and calls wait only   *)
(* while some execution will wake them.                                    *)
KeyNeverStuck ==
  /\ TokensFollowExecution
  /\ count <= Cardinality(holders)
  /\ queue # <<>> =>
       count >= 1 /\ \E t \in holders : exec[t] \in {"acquiring", "prompting", "backoff"}

(* What the parent waits for is in the store and may still end, as no path *)
(* that ends or deletes a task forgets to untrack it; and once launched it *)
(* is looked at by a poller that is not stopped, or stopping (the chain of *)
(* a pass that cleanup() interrupted ends with it).                        *)
PendingTracked ==
  /\ pending \subseteq { t \in store : status[t] \in Active }
  /\ (\E t \in pending : exec[t] # "prepared") => polling # 0 /\ poll[polling].at # "stopped"

BeingTold(t) == telling[t] > 0 \/ \E c \in Chains : PollTells(c, t)

NoRecordLeak ==
  \A t \in store : status[t] \in Terminal =>
    cleanups[t] > 0 \/ cancelling[t] > 0 \/ BeingTold(t)

NoStaleNotification ==
  notifications # <<>> => tellingErrors > 0 \/ \E t \in Tasks : BeingTold(t)

(* A record that has ended leaves the store: it has a cleanup timer, or    *)
(* somebody awaits something after which it gets one.  And a queued        *)
(* notification is in a message under way, whose end drops it.             *)
NothingLeftBehind == NoRecordLeak /\ NoStaleNotification

(* Every task the parent waits for ends, by whatever path; the one         *)
(* exception is a task whose own prompt fails and is retried without end:  *)
(* nobody else's retries, waits or cancellations keep it pending.          *)
PendingSettles ==
  \A t \in Tasks :
    (t \in pending ~> t \notin pending) \/ []<>(exec[t] = "backoff")

(* "Cannot retry or max attempts reached": the retries of a prompt end.    *)
RetriesEnd == \A t \in Tasks : exec[t] = "prompting" ~> exec[t] = "ended"

(* "Max 10 tasks per agent type": no more prompts than slots.              *)
LimitRespected == Cardinality(Executing) <= MaxConcurrency

(* "Cancel a running task": an ended task is not set to RUNNING again.     *)
NoResurrection ==
  [][\A t \in Tasks : status[t] \in Terminal => status'[t] # "RUNNING"]_vars

(* "You will be notified when ALL tasks complete": the promise is kept     *)
(* once nothing is pending.                                                *)
PromiseKept == owed => pending # {}
=============================================================================
