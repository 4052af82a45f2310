# A TLA+ model of open-supervisor

open-supervisor is a plugin of OpenCode. It runs *missions*: a commander agent
works through a todo file until it is complete, delegates tasks to background
agents, and is prompted again whenever it stops early. This directory models the
parts of the plugin in which several things happen at once or may fail half-way:
the concurrency controller, the background tasks, the session pool, the two loops
that keep an agent working, and the services around them (files, caches, queues,
child processes, hooks, installer). TLC checks each on small instances; the safety
of the controller, the tasks, the session pool, the mission loop and of all services
but the hook registry is proved with TLAPS for every instance.

Paths are relative to the repository, whose TypeScript source is under `src/`.

## What runs concurrently

The plugin is single-threaded JavaScript. A function runs alone up to its next
`await`; timers, promise continuations and OpenCode's hooks run in any order in
between. So an action of a module is a piece of a function between two awaits,
and a function with n awaits is up to n + 1 actions. State lives in `Map`s of
singletons, in `.opencode/` files, and in the OpenCode server, which creates,
prompts, compacts and deletes sessions and may be slow, fail, or answer after its
caller has given up.

## Components

| component | state | operations | hard behaviour | what makes it correct |
|---|---|---|---|---|
| `ConcurrencyController`, `ConcurrencyToken` (`core/agents/concurrency*.ts`) | per key: count, queue, limit, circuit, two streaks; per token: released, timer | `acquire`, `acquireToken`, `release`, `reportResult`, `setLimit`, `resetCircuit`; 300s waiter timer, 10min token timer | hand-over against timeouts, rescaling while calls wait, late reports to a breaker | no slot, waiter or wake-up is lost; priority order; breaker cycle |
| `ParallelAgentManager` (`core/agents/manager.ts`, `manager/*.ts`) | pending tasks and notifications per parent, poller chain, cleanup timers | `launch`, `cancelTask`, `handleEvent`, the poll, `pruneExpiredTasks`, `scheduleCleanup`, `notifyParentIfAllComplete`, `handleTaskError`, `cleanup` | event handler, poller, launcher and tool all end the same task across awaits; two handles for one slot; retries | each pending task settles, no token or record is leaked, the parent is told |
| task store and task pool (`task-store.ts`, `core/pool/*.ts`) | records by id, free records, archive | `gc`, `archiveTasks`, `acquire`, `release` | gc awaits the archive; loops keep a record they no longer own | a record has one owner |
| `SessionPool` (`core/agents/session-pool.ts`) | per agent: sessions with inUse, reuseCount, ages | `acquire`, `release`, `invalidate`, `cleanup`, `shutdown` | size checked before awaits, eviction and cleanup overlap releases, late creations, shutdown | no session shared, lost or deleted in use |
| mission loop (`core/loop/mission-loop*.ts`, `session-state-store.ts`, `compaction-guard.ts`, `circuit-breaker.ts`, `hooks/features/mission-loop.ts`) | mission file; per session: abort flag, countdown, last check, compaction epoch, tool history | `/task`, assistant.done, session.idle, countdown, abort, compaction, deletion | two drivers complete and continue one mission; state read before a toast and used after it; reload | completed once, never revived, goes on until it is over |
| stagnation (`core/loop/progress-tracker.ts` and the done hook's count) | tracker entry, `lastProgress` and count in the mission file | `trackProgress`, `handleMissionProgress` | two judges at different times write one field | the agent is blamed for a reason |
| session manager, system transform (`core/orchestrator/session-manager.ts`, `plugin-handlers/system-transform-handler.ts`) | enabled sessions, global mission flag | activation, sanity checks, `isMissionActive` | a global flag, a file and per-session flags disagree | only missions are told and continued |
| todo continuation, session recovery (`core/loop/todo-continuation.ts`, `core/recovery/session-recovery.ts`) | per session: countdown, abort window, grace period; recovering flag, attempts | idle events, errors, messages, deletion | countdown that awaits before it injects; handlers overlap | a handle that stops its countdown, a flag that is reset, attempts that bound prompts |
| verification (`core/loop/verification.ts`, `stats.ts`, `core/sync/todo-parser.ts`) | `lastIndex` of global patterns | `verifyMissionCompletion`, `verifyChecklist` | state hidden in a pattern; two readers of one file | passes only if nothing is open |
| `TodoManager`, `TodoSyncService` (`core/todo`, `core/sync`) | todo.md, version file, mutex, debounce timer | `update`, `addSubTask`, reload | two files, failures between them, a file that is replaced under its watcher | no lost update, last change seen |
| `RustToolPool` (`tools/rust-pool.ts`) | processes, waiters, request ids, buffers | `call`, timeouts, idle cleanup, shutdown | limit checked before an await, listeners of given-up requests | an answer reaches its own call |
| delegation (`tools/parallel/delegate-task.ts`) | poll count, stable polls | background, resume, blocking | completion is inferred from message counts | "done" means stable |
| background commands (`core/commands/manager.ts`) | child processes and their records | `run`, `kill`, timeout, clear, shutdown | exit, kill and timeout race | the status tells what became of the process |
| shutdown manager (`shared/lifecycle/shutdown-manager.ts`) | handlers with priorities | `register`, `shutdown` | 5s race per handler, handlers that go on after it | order; every handler is called |
| hook registry, plugin manager (`hooks/registry.ts`, `core/plugins`) | four chains | registration, walks | a registration sorts a chain that is being walked | no guard is skipped |
| document cache (`core/cache`) | index file, documents | `get`, `set`, `remove`, `clear`, `prune` | read-modify-write across awaits, name collisions | index and documents agree |
| work-stealing deque and worker pools, `AsyncQueue`, retry helpers, work pool (`core/queue`, `core/recovery/retry.ts`) | ring buffers, loops, resolvers, results | `push`, `pop`, `steal`, `next`, `close`, `retry` | last item, growth, doubled loops; what arrives between a resolution and its consumer | each item once, in order; nobody sleeps beside work |
| installer scripts (`scripts/postinstall.ts`, `preuninstall.ts`) | the user's configuration, its backups | register, remove, roll back, prune backups | a kill or a failing call at any point | the user's settings survive |
| sed tool (`crates/orchestrator-core/src/tools/sed.rs`) | files and `.bak` files | one replacing walk | it walks over the backups it makes | the original is on disk |
| cleanup scheduler (`core/cleanup/cleanup-scheduler.ts`) | five intervals; files of `.opencode` | rotate the history, enforce the file limit, clean sessions, docs, `node_modules` | intervals fire together, runs interleave at their awaits, crash between rename and compression | the history is whole somewhere; the limit is enforced but for what cannot be deleted |
| memory manager, context monitor, shared context, task decomposition, buffer and string pools, diagnostics cache | maps and files | reads, writes, pruning | none across awaits, but for the diagnostics cache | not modelled |
| notifications, progress notes, metrics, agent prompts, other Rust tools | output, text, I/O | | | not modelled |

Interactions: the commander's `delegate_task` calls `manager.launch`; the launcher
takes a session from the pool and a token from the controller and prompts the
session; `session.idle` and the poller complete a task, release its key, report
to the breaker, notify the parent by a prompt, and schedule the cleanup that
returns the session. `session.idle` of the parent reaches the mission loop (or,
without a mission, the todo continuation), which asks the manager whether tasks
are running and recovery whether it is under way, asks the verification, and
prompts. Completing a mission clears the manager.

## Modules

`ConcurrencyController` is one key of the controller: every Map is per key and
no operation touches two. `count`, `queue`, `limit`, `circuit`, `successStreak`
and `failureStreak` are the maps' entries (a limit of 0 stands for Infinity, as in
`getConcurrencyLimit`); `holders` are the calls whose token is not released.
`Acquire`, `WaiterTimeout`, `ReleaseToken` (by its owner or its timer),
`ReleaseKey` (`release(key)` by somebody who has no token to give up), `Report`,
`SetLimit` and `ResetCircuit` are the methods; `WindowElapses` is the passing of
the breaker's 30s. Counters that are only compared with a threshold stop there.
`isUnderResourcePressure` may answer either way.

`SlotAdmission` is what a key promises callers that give each slot back once:
enter or wait, hand over in the same step, resize at any time. The controller
implements it with `waiting <- Queued`, `capacity <- limit`.

`ParallelTasks` is the tasks of one parent for one agent, over an INSTANCE of the
controller. `exec` is where `executeBackground()` stands, `idleChecks`, `telling`,
`tellingErrors` and `cancelling` count the handlers that await, `cleanups` the timers, `poll` the
pass of each of the poller's chains with what is left of its snapshot, `polling` the chain
whose timer `pollingInterval` holds, `owed` whether the last message
to the parent promised another one. `Complete` is the common body of
`completeTask()` and `handleSessionIdle()`: neither re-reads the status after its
await, so both may complete one task. That a completed worker gets a reviewer
launched is not a variable: it is a launch like any other, for another agent. `attempt`
counts the retries of a prompt; it stops at `MaxRetries`, where the kinds of errors that have
a maximum give up and the endless ones go on. `FewEndings` bounds
the endings of one task whose cleanup is still to come.

`Clear` is the manager's `cleanup()`, which every completed mission calls: it forgets the
records, while executions, handlers and a pass under way go on with the objects they
hold. A launch during that pass starts a second chain.

`SessionPool` is the sessions of one agent. `place` is a session's place in the
maps, `server` the sessions OpenCode has, `lost` those it keeps though the pool has forgotten
them (created after their caller had given up, or not deleted when it was asked to:
`deleteSession` ignores that), `deleting` deletions under way, `user` where each caller
stands (`evicting` and `compacting` are the awaits of `release()`). Ages are two
flags that may be set at any time. Whether a compaction succeeded is not kept:
the code puts the session back either way.

`MissionLoop` is one session and its mission. `mission` is the iteration in the
file, 0 without a file; `aborting`, `timer` and `recent` are the `SessionState` in the
store; `toasts` and `orphans` count idle handlers that await the toast with that
state or with one the store has dropped; `strays` are countdowns whose handle
nobody stores; `completing` are completions awaiting notifications. The agent's
turns, its messages and the todo file (`verified`) belong to the environment.
`Disruptions` selects what may come between; `DoneHookRuns = FALSE` is the case in
which assistant.done brings nothing, since its prompt is fire-and-forget and may be
lost.

`ProgressTracker` is what both drivers of the loop make of the todo list: the
tracker of the idle handler and the count the done hook keeps in the mission file.
`checks` are the idle handlers from the decision what to say through the await of the
toast to the end of the countdown: others may run at that await, a countdown whose handle is
overwritten is a stray, and one whose state was dropped is an orphan first. `seen`, `flat`,
`steady` and a check's `founded` record what really happened, for the properties.

`SessionManager` is whom the plugin takes for a mission's session: `enabled`,
`missionActive` and the file's owner `missionOf`; every handler is one step.
`missions` are the sessions that ever began one.

`TodoContinuation` is one session without a mission. `entry` is its `SessionState`,
`idler` where each idle handler stands (its two awaits, its countdown, the await
inside the countdown), `recovery` and `rescuer` the same for the error handler,
`unanswered` the recovery prompts since the assistant last spoke.

`Verification` takes files as short sequences of lines, and a line as what the
patterns can tell of it. `lastIndex` is the state that a global pattern keeps
between calls of `test()`: the verdict is a step, not a function. `ParseTodoMd` and
`IsMissionComplete` are the other reader of the same file.

`TodoFile` is the items of todo.md with the version file. A call goes through mutex,
read, version check, temporary file, version write and rename, each of which may
fail; `Crash` may come between any two. `inode` tells a file that was edited in
place from one that was replaced, which is what a watcher sees. `sync` is the watcher: its
debounce timer, the reloads under way, which the timer starts whether or not an earlier one
still reads, and what the last one to end left in `fileTodos`. A reload that fails leaves it.

`RustToolPool`: `proc` holds each process's requests, its pieces of output and the
listeners on them, `rustCall` where each call stands. An answer may arrive whole or
in two pieces; a call that timed out leaves its listener behind. Processes are numbered
as they are pushed and the listeners of a process as its requests are, so that two
sets stand for the two arrays: the first idle process is the lowest one, and a listener
sees a piece as many times in the shared buffer as listeners before it have added it.

`BackgroundCommands`: `command` is the manager's record, `child` the process, which
ends before its `close` event comes. `ShutdownManager`: `cleanupHandlers` in the order of the
code's sort, `running` those called so far, `state` what became of each.

`DelegateTask` is one call of the tool; the agent works between any two of its
awaits, and any request may fail. `TaskMemory` is the records of the store and of the
pool they come from: `mem.tasks[0]` is a record without an id yet, `execution` the loops
that keep writing to their record, `gcs` collections awaiting the archive.

`WorkStealing` is the ring buffer and the workers' loops, one step from await to
await, with the loops that a `stop()` followed by `start()` doubles. It refines
`WorkQueues`: queues taken newest first by their owner, oldest first by thieves, every
item executed once. `AsyncQueue` has the microtask between a resolved promise and its
consumer as a state. `AsyncHelpers` is one call of one helper: three retry loops with
different ways of counting, and the work pool.

`HookRegistry`: `chain` are the four sorted arrays, `call` a walk with its position in an
array that a registration may sort underneath it. The sort (phases, then a
depth-first order by dependencies) is a recursive operator over the hooks that
`initializeHooks()` registers and two plugins.

`DocumentCache` is the index file (`torn` while it is being written), the documents, and
calls that stand at one of their awaits. `File` makes two urls share a file name. Every write
and unlink may fail, `MaxFailures` times; `spoiled` are the names a failure has touched and no
later call has set right. The unlinks of one `clear()` are one step.

`Installer` is the configuration files, their backups and one script that is at one
of its calls; a call fails or the script is killed, with the rollback of the code.
`CleanupScheduler` is the files of `.opencode`, with one run at a time of each cleanup, each
at one of its awaits; `whole` are the files that hold the old history entirely, `limiting`
is the walk of the file limit with what it has listed and what it could not delete (`kept`).
Every call on a file may fail; each cleanup stops or goes on as its `catch` says. Sizes and ages are choices.
`SedTool` is a file, the chain of its `.bak` files, and runs whose walk visits them in any
order; a content is the list of the runs that rewrote it.

`Services` and `MCLiveness` take several modules in turn. In `Services` a behaviour belongs
to one service, named by `part`, whose variables are `x1`, `x2`, ...; the services share
no state, so that interleaving them would show nothing more. `Services` has the seventeen
services the theorems are about, with their constants and the assumptions on them;
`MCServices` gives them values and adds the hook registry, which only TLC checks. `MCLiveness` does the same for the three
parts with liveness. No fair action of a part is enabled in its initial state, so the
fairness of one part asks nothing of a behaviour of another. The other `MC*` modules
add model values and symmetry sets. The modules named `*_proofs` hold the theorems;
those about services speak of `x1`, `x2`, ... by the names the service's module gives them.
In each module a definition commented "Mutant of X" is X with a plausible bug; it
is used by no specification, and shows that the properties can fail.

## Runs

States are distinct states; every passing run finishes in about three minutes or less
with two workers. Deadlock is checked for the controller. It is off elsewhere: tasks,
pools, missions and calls end.

| run | instance | shows |
|---|---|---|
| `ConcurrencyTokens` | 4 token-only callers, 3 priorities, limits 1..3, production thresholds; 6,600 states | refinement of `SlotAdmission`, priority order, no overtaking, breaker cycle: no late result closes it |
| `ConcurrencyShared` | 4 callers, one priority, direct releases, unlimited until a limit of 1 or 2 is set; 7,500 states | no leaked slot, double entry or stranded waiter; every waiter is served or times out |
| `TasksOne` | 1 task, every failure kind, cancel, delete, expire, one idle handler beside the poller, one `cleanup()`, and a second task that comes to wait for the slot (`SecondWaits`); 691,000 states | key never stuck; an active task is pending and polled; nothing of an ended task is left behind |
| `PoolCallers` | 3 callers, 3 sessions, pool of 1, reuse 1, failing creations and deletions; 742,000 states up to symmetry | ownership of sessions, size bound |
| `MissionSafety` | 2 missions, 2 iterations, all eleven disruptions; 2,330,000 states | completed once, no revival, aborts and trips hold |
| `Liveness` | 2 tasks on 1 slot with cancel and expire; 2 tasks whose prompts fail for good or are retried without end; 2 missions with done hook, delegation, user messages; 6 shutdown handlers with the priorities of `index.ts`; 85,000 states | pending tasks settle, unless their own prompt is retried without end; missions go on; handlers are all called |
| `Services` | each of the eighteen services, 3,101,000 states together | one property per service, see below |
| `TasksLimit`, `TasksPromise`, `MissionCompaction`, `VerdictSubtasks`, `SessionsTold` | smallest instance that shows it | a statement of the repository that the code does not keep, see below |

The properties of `Services`:

| property | service and instance | says |
|---|---|---|
| `NothingOpenPasses` | `Verification`, files of up to 2 lines, any sequence of verdicts and edits | no verdict passes over a sync issue or an unchecked item, whatever the patterns remember |
| `ReportedUpdatesStay`, `SyncSeesLastChange` | `TodoFile`, 2 calls, 3 items, 2 attempts, 1 failure, crashes, agents' edits, 2 reloads at a time | a reported update stays, unless one was written over a file that could not be read; without a timer set, the last reload that read the file has read the last change the watcher can see |
| `CallsKeptApart` | `RustToolPool`, 3 calls, 2 processes, limit 1 | nobody gets another call's answer; the limit is kept |
| `OrderedShutdown` | `ShutdownManager`, the 6 handlers of `index.ts` with their priorities (10, 10, 15, 20, 30, 40) | a handler is called after those before it ended, failed or had their 5s |
| `StatusTellsTruth` | `BackgroundCommands`, 2 commands | no live process is forgotten, no "done" without code 0, a timeout stays one |
| `StatesAreTruthful` | `TodoContinuation`, 3 idle events, 2 errors | handles, flags and attempt counts mean what they say |
| `HandedOutOnce` | `TaskMemory`, 3 ids, pool of 2, 2 collections | a record is in use or free, once |
| `DoneMeansStable` | `DelegateTask`, 6 polls, 3 messages | "done" is told after polls in a row with the same messages |
| `NobodyWaitsForNothing` | `AsyncQueue`, 3 consumers, 4 pushes | no sleeper beside an item; items in order, once |
| `HelpersAnswer` | `AsyncHelpers`, 2 retries, 2 workers, 3 items | retries end; results are at their index |
| `SettingsSurvive` | `Installer`, 2 machines, 3 runs, 1 edit, 1 kept backup | the last settings are in the file, or, after a rollback cut short, in a backup kept |
| `IndexIsTrueInTurn` | `DocumentCache`, 3 urls with 2 names, 3 calls, 1 failure | calls that come in turn leave index and documents equal, but for the names a failure has touched |
| `NoHookSkipped` | `HookRegistry`, 1 walk, 2 plugins, a second start | a walk that passes ran every hook that was due |
| `LoopActsForAReason` | `ProgressTracker`, thresholds of the code, 2 checks at a time; `SessionManager`, 3 sessions | no intervention is decided without as many flat checks before; no session goes on that never began a mission |
| `OriginalSurvives` | `SedTool`, chain of 2, 2 runs; `CleanupScheduler`, limit of 5 files | with backup, the original content is somewhere on disk; so is the history, unless the limit takes it, and the limit holds for what was listed, but for files that could not be deleted |
| `ImplementsWorkQueues` | `WorkStealing`, 2 workers, 4 items, capacity 2 | ring buffer, stealing and doubled loops refine `WorkQueues` |

Why the bounds are enough. The controller's operations touch the head, one entry
or the end of the queue: with four callers and a limit of one, three wait, which is
enough for an insertion in the middle, an overtaking and a removal on either side.
`CircuitThreshold = 5` etc. in `ConcurrencyTokens` are the production values. A
second task adds waiting for a slot and a parent with something else pending; a
third adds nothing but another waiter. One idle handler beside the poller is
already two completions of one task; more repeat it. A pool of one session with
three callers has a full pool, an eviction and two releases that overlap. Two
missions in a row let everything left over from the first meet the second.
In `Services`, four items in a ring of two make it grow twice and wrap; three calls on
one process have a waiter, a sharer and a late answer; three idle events are one that
counts down, one that replaces it and one that awaits; one kept backup makes the
pruning of backups delete one in every run but the first; two checks at a time are one that
awaits its toast and one that decides meanwhile; two reloads at a time can end in either
order; one failure at any call shows what each call leaves behind; two lines are enough for
a pattern that starts its search after the line it should have found.
All `Max...` constants bound the exploration only, in the guards of the actions they
are named for (a constraint in the case of `SecondWaits`), except where they are the code's own (`MaxRetries`, `MaxPollCount`,
`MaxReuse`, `MaxPool`, `MaxConcurrency`, `MaxSize`, `MaxAttempts` of `TodoContinuation`).

## Fairness

- A token is released by its own timer after 10 minutes at the latest
  (`WF ReleaseToken`); nobody is obliged to report or to release early.
- Continuations of answered promises run, timers fire, a prompt returns, fails or
  loses its race against 600s, the wait before a retry ends (`WF` on the launcher's steps).
  Nothing says that a prompt ever succeeds: a task whose prompts fail with rate limits or
  timeouts may be retried for ever, and `PendingSettles` asks only that no other task
  is held up by it.
- The poller goes on while its chain is not stopped. A pass that comes before a
  task's day is over does not prune it, so the pass that does is only infinitely
  often enabled: `SF PollPrunes`. No session event is promised, hence this is what
  `PendingSettles` rests on when OpenCode stays silent.
- OpenCode accepts and runs messages, a turn ends, background tasks end
  (`ParallelTasks` shows this for its part), recoveries end, countdowns and toasts
  come (`WF` in `MissionLoop`). No disruption is fair.
- At the end of the plugin the loop over the handlers goes on when its await is
  answered, and each 5s timer fires (`WF StartHandler`, `WF FiveSeconds`). That a handler
  itself ever returns is not assumed.

## What is proved

TLAPS checks every theorem for all values of the constants that the modules' assumptions
allow: finite sets of callers, tasks and sessions, thresholds and limits of at least 1
where the code divides or counts by them, bounds that are numbers. The code's constants
satisfy them. Some hypotheses deserve a word:

- `NeverLifted`: no limit of a key is set to 0 at runtime (a key may *start* unlimited).
  It is needed: `setLimit(key, 0)` on a key with counted slots makes `release()` return
  early for ever after, its waiters stay until their timers, and a later finite limit
  finds the old count. `setConcurrencyLimit()` of the manager is the only way to such a
  call, and nothing in the plugin calls it.
- `TokenCallers` (refinement of `SlotAdmission` only): callers give each slot back once, by
  their token, and the key has a limit from the start. The manager also releases the key
  itself, which is why `TasksLimit` is violated.
- `NoneBlind`, a condition of `ReportedUpdatesStay` itself: a read that fails counts as an empty
  file of version 0, so that an update that expects version 0 writes an empty list.
- `HelpersAssumption`: a work pool has at least one worker. With a concurrency of 0 the code
  starts none and answers at once, without a result.
- `WorkAssumption`, `CleanupAssumption`, `RustAssumption`, ...: workers, items, processes and
  handlers are numbered in the order in which the code makes them; a file of the
  history is no file of a session; the pool of task records holds at least one.

### The argument of each proof

An invariant is proved from an inductive one. What has to be added to the property, and
why, is the content of the proof.

`ConcurrencyController_proofs` (`TypeCorrect`, `SlotsCorrect`, `UnlimitedKeysAdmit`,
`SlotsNeverLeak`, `WaitersNeverStranded`). `SlotInv` is the conjunction of
`UnlimitedNeverWaits`, `EachCallOnce`, `NoSlotLeak` and "while calls wait, at least one slot
is counted". None is inductive alone. That a hand-over does not lose a slot needs the
woken call to be no holder yet (`EachCallOnce`, lemma `HandOverOnce`); that a release
wakes the right call needs the queue to hold it once; that a wait has a slot behind it
needs the counter to be decremented with an empty queue only, and, with `NoSlotLeak`,
makes the set of holders non-empty. What the two splices do to the queue is
`RemoveAtShifts` and `InsertAtShifts`.

`ConcurrencyAdmission_proofs`. `QueueKeepsOrder` (action property): sorted queues stay
sorted only if the waiter goes where `findIndex()` says, and who is first is told apart by
the caller, hence with `EachCallOnce`; this one needs no hypothesis on limits.
`BreakerCycles` needs the count of probes to stay below the number that closes the
breaker while it is HALF_OPEN (`ProbeInv`); what a late result may do in OPEN is in the steps. `KeyImplementsSemaphore` is the step simulation
of `SlotAdmission` with `waiting <- Queued`, `capacity <- limit`; its invariant says that count
and holders agree in number.

`ParallelTasks_proofs` (`TasksCorrect`, `KeysNeverStick`, `PendingStaysTracked`,
`NothingStaysBehind`). What is known of a key is taken from the controller's proofs by an
INSTANCE: a step of a task is a sequence of steps of its key (a release and a report,
two releases) without an await between them, and each lemma of the form `...Kept` says
that such a sequence leaves `SlotInv` and lets at most the calls concerned leave. The
invariant `TasksInv` adds: each token is where its execution is; the records
(`RecordSound`: pending means stored and active; whoever has ended is being told, is being
cancelled, or has a cleanup timer); the counts of handlers that await; the poller
(`PollerInv`: the handle is of a chain that runs, and a chain that is stopped is free for
the next start because each `cleanup()` adds one chain at most); and that a pending
task that was launched keeps the poller's handle set.

`SessionPool_proofs` (`TypeCorrect`, `PoolCorrect`, `SessionsHaveOneCaller`,
`SessionsStayAccounted`, `PoolStaysBounded`). `PoolInv` relates places, server and callers:
no available session has a caller, what the maps hold is open and not being deleted,
what the server has besides is being deleted or counted as lost,
what release puts back may be reused. The bound on the size is by counting: sessions in
use are at most the callers that hold one, and a caller asks OpenCode only when all
pooled sessions are in use.

`MissionLoop_proofs` (`TypeCorrect`, `MissionsCompleteOnce`, `MissionsStayOver`,
`GuardsAreKept`). Completion and removal of the file are one step, so `CompletedOnce` is
inductive; the two action properties follow from the types, action by action.

`Sessions_proofs` (`StatesStayTruthful`, `LoopNeedsAReason`, `DoneStaysStable`,
`NothingOpenEverPasses`). The state variables of a handler that awaits must agree with the
entry it may replace: the flag `isRecovering` is set only while a handler that holds *this*
state waits. The tracker's count is bounded by the checks really seen without progress,
unless it has forgotten the last one; hence each intervention is founded when it is decided, and
neither the toast's await nor a stray countdown changes what a check is to say. The stable polls of a delegation are polls of one
count of messages. For the verdict the invariant is inductive, and the content is in two
lemmas: `PassedIsDone`, in which a line that is no heading survives every pattern wherever
its search begins, so that `lastIndex` cannot hide it; and `CompleteForBoth`, by which the two
readers agree on a plain list.

`Workers_proofs`. The first three services (`StatusStaysTrue`, `NobodySleeps`, `WorkCorrect`,
`PoolImplementsQueues`): records and processes agree pairwise; the queue's items received
and still queued are one increasing line, and a consumer that waits is in the list of
resolvers once. The worker pool is the longest proof: a deque is a window of at most
`capacity - 1` indices, so that no two of them share a slot (`PlacesDiffer`); hence growing
moves every item to a slot of its own (`GrowKeeps`), and `push`, `pop`, `steal` are `Append`,
`Front`, `Tail` on what the deque holds (`Pushed`, `Popped`, `Stolen`). With "no item is in two
places" and "a loop holds an item just while it executes it", every step is a step of
`WorkQueues`.

The helpers (`LoopsAnswer`): how many attempts a loop has behind it while it is still calling,
by its own rule of counting; every item of a pool is pending, with a worker or done, and
workers leave only when nothing is pending. The records of tasks (`RecordsOnce`): the pool
is a sequence of distinct records, no longer than its size, none of them in use
(`OnceOnly`). What a collection gives back is a sequence of ids whose records are in use when
their turn comes, so that one record under two ids, or chosen by two collections, is
given back once (`GivenBack`), and a new one is taken from neither set.
The shutdown (`OrderStays`): the handlers are sorted, stably; those that were called are the
first of them; and all but the last called are over. That `Sorted` inserts in the right
place needs the list to be sorted before (`GoesFirst` then holds of a prefix, which a least
index without it shows). The Rust pool (`CallsStayApart`): a listener is that of the one
request its call has sent; no response in a buffer is one that a listener still waits
for; and a buffer ends with a whole line unless its process owes the second half to a
listener (`RustInv`). `ResponsesOf` is the step: a piece, written as often as there are
listeners, completes no response but that of its own request.

`Files_proofs` (`OriginalsSurvive`, `UpdatesStay`, `SyncSees`, `SettingsStay`, `IndexIsTrue`). For sed:
some backup still has the original, and the walk has been at all with fewer suffixes, so
that it cannot come back to overwrite it. For the history: at each await of a rotation,
which file has it whole. For the limit: the files listed that are still there are at most
as many as were counted, and leave at most `MaxFiles` once the chosen ones are gone, or are in
`kept` because their unlink failed.

The todo file: the mutex of a process lists the calls that wait or run, each once, and
only its head runs (`MutexInv`), so that between the read and the rename of an update no
other one of its process moves; what it is about to write then differs from the file in
its own item alone (`ContentInv`). The watcher's reloads are numbered as they start, and none
is younger than the last (`WatcherInv`): without a timer the last one is still to read, has
read what the file holds, or has handed it over, whatever older ones do. The installer: a backup a script may restore is
the last of its file and holds the user's settings while the file does (`BackupInv`), hence a
rollback loses nothing; one that is cut short leaves them in a backup no older than that,
which the next `KeptBackups` prunings leave (`NthIndex`: what is left of a sequence from
which the oldest are deleted). The document cache: index and disk agree name by
name, `spoiled` ones aside, or the one call under way owes the difference and knows what to
write (`InTurn`). A call that goes through clears its name, since it sets index and disk right.

### What is only model-checked

- Everything with liveness (`PendingSettles`, `MissionContinues`, `WaitersServed`,
  `EveryHandlerCalled`): fairness and ENABLED are out of the prover's reach.
- `NoHookSkipped`: whether a walk skips a hook depends on where the depth-first sort puts it
  before and after a registration, and the sort is a recursive operator: the prover can
  neither unfold it nor do the induction. The hooks are those of the code, so the run
  leaves out only other plugins.
- One conjunct of the types of `ParallelTasks`: that the notifications of a parent stay a
  sequence of tasks when `SelectSeq`, an induction, takes one out; the proofs do without it.
- `ServicesTypeOK` and `LivenessTypeOK` as a whole, since they speak of the hooks and of that
  sequence too; the types of the other services are in their inductive invariants as
  far as the proofs need them.

## Where the code departs from what it says

Shown by a run:

1. `TasksLimit`. Token and key are both released for one slot, so a second waiter is
   woken while the limit is used up ("Max 10 tasks per agent type").
2. `TasksPromise`. If the last pending task fails, the promised notification is not
   sent: errors queue none, and with none queued the function returns.
3. `MissionCompaction`. A compaction arms a guard that never lets a countdown pass.
4. `VerdictSubtasks`. A mission without checklist is concluded over open sub-tasks:
   `addSubTask` indents them, and the verdict's patterns look at the first column.
5. `SessionsTold`. The global mission flag is never cleared, and a sanity check enables
   any session: sessions that never began a mission get the commander's prompt.

Refuted by TLC with the constants given, without a run of their own in this directory:

- `ParallelTasks.NoResurrection` (`TasksOne.cfg`): a task cancelled while its prompt is
  retried becomes RUNNING ("Cancel a running task.", `cancel-task.ts:10`).
- `ParallelTasks.RetriesEnd` (`TasksPromise.cfg` with `FairSpec` and `ErrorKinds = {"endless"}`): rate
  limits and timeouts, the launcher's own after 600s among them, are retried without a
  maximum, and each attempt starts the clock of the expiry anew ("Cannot retry or max
  attempts reached", `task-launcher.ts:239`).
- `SessionPool.ReleaseKeepsSession` (`PoolCallers.cfg` with `ReleasesLate = TRUE`): sessions
  are released 10 minutes after their task, when they are just too old to be kept.
- `MCServices` with `Parts` = the one service: `AbortRespected` (`todo`; a handler that was
  awaiting sets its countdown after an abort, `todo-continuation.ts:10`), `ResumeContinues`
  (`delegate`; a blocking call that resumes starts afresh, `delegate-task.ts:226`),
  `SyncSettles` (`todoMd`; the last read fails, or an earlier reload ends after the last one, and
  the watcher keeps what was, `todo-sync-service.ts:113`), `ClearLeavesNothing` (`docs`; a clear
  empties the index over a document it could not delete, `cache/operations.ts:128`),
  `InterventionStillTrue` (`progress`; the agent goes on during the toast or the countdown,
  and is told that it stagnates, `mission-loop-handler.ts:243`), `LimitHolds` (`cleanup`; the file limit ignores
  an unlink that fails, `cleanup-scheduler.ts:248`), `CachedForThatUrl` (`docs`; urls with one file name, `cache/operations.ts:12`),
  `ModifiedArgsReachTool` (`hooks`; the handler drops what hooks made of the arguments,
  `hooks/types.ts:31`), `HookBlamesForAReason` (`progress`; the idle handler wrote
  `lastProgress` before the done hook compared, `system-messages.ts:88`), `BakIsTheBackup`
  (`sed`; the walk rewrites the backups it made, `search.ts:78`), `OnlyExcessPruned` (`cleanup`;
  the excess is computed from the listing while other cleanups delete listed files, so
  that files go though the limit no longer needs it, `cleanup-scheduler.ts:253`).

Met while modelling:

- Controller and tasks: a call in the queue of a key whose circuit opens is let in by
  the next release; after a scale-up a new call of any priority overtakes those that
  wait; two completions of one task launch two reviews. Records that the cleanup timer or the pruner deletes are never given back
  to the pool; the archive of `gc()` at 30 minutes finds nothing, since the cleanup deletes
  at 10; a loop whose record was recycled may write RUNNING to another task's record.
- `cleanup()` at the end of a mission: a prompt that is retried afterwards puts its
  record back into the store, RUNNING, where no poller looks for it; sessions of the
  forgotten tasks are not returned to the pool; two polling chains may go on side by
  side while tasks run, and `stop()` stops only one of them.
- Session pool: it overshoots its size while releases overlap, reuses a session whose
  compaction failed, and forgets one created during a shutdown or not deleted when asked.
- Mission: nothing compares the iteration with `maxIterations`; after STOP MISSION, or
  the end of a completion, a countdown that lost its handle still prompts; with the
  done hook's prompt lost, a trip of the circuit, an abort, background tasks that end
  without a reply or an idle event within 3s of the last check leave the mission
  waiting for the user. The tracker's `awaiting` flag outlives checks without progress,
  its hashes (`progress-tracker.ts:4`) are never compared, neither `/task` nor a
  completion resets it, and the plugin's cleanup clears a different tracker.
- Todo continuation: two overlapping idle handlers can both prompt.
- Todo file: a read that fails empties the list when the update expects version 0, because
  there was none yet or because its own first read failed too (`todo-manager.ts:79`); two processes lose each other's updates; an agent's edit between the read
  and the rename of an update is lost; after the first update has replaced the file
  the watcher hears nothing more; `sendTodosToSession` does nothing.
- Verification: a sync issues file that cannot be read passes as an empty one.
- Rust pool: calls that wait at a shutdown wait for ever.
- Document cache: calls that overlap lose entries of the index.
- Hooks: a hook may run twice if a registration shifts the chain during a walk; a
  plugin's hook with the name of a built-in one replaces it; hooks of plugins that
  were shut down stay; the first INJECT ends the chain of the done hooks; a cyclic
  dependency throws and leaves its hook registered.
- Installer: the rollback copies over the file and is not atomic; as many more runs as
  backups are kept then delete the one good backup; `preuninstall.ts:294` says "Backup
  saved" of a corrupt file, but no backup was made.
- sed: CRLF becomes LF; a client that gives up after 60s may retry while the server
  still works; a timeout ends the walk half-way and is reported as success.
- Queues: `stop()` and `start()` during an await leave two loops per worker, harmlessly; a
  "gibberish" answer asks for attempt 1 for ever; superseded debounced promises never
  settle.
- Cleanups: `enforceFileLimit` may delete live files of `.opencode`, the history among
  them; `cleanNodeModules` deletes its `package.json`; after a crash between the rename and
  the end of the compression no later run compresses that archive.
- Not modelled, seen in reading: the second rotation of a day overwrites the first; cancelled, failed or deleted tasks stay in the toast's list; dependencies
  "depends:task_1" of the task parser never match generated ids; the diagnostics
  cache reads the modification time after the check, so that stale diagnostics are
  kept under the new time for 30s.

## What is not modelled, and what comes next

`SessionPool` and `ParallelTasks` are separate: a task's session is not a variable
of `ParallelTasks`. Sessions of other agents, priorities beyond those asked for,
message texts, toasts, logs and statistics are left out, and so are the delays of
retries. Left out of modelled parts: several parents; the run of a task that was resumed; debounced
functions; two `sed` runs at a time; the user directory that the installer picks on
Windows. Not modelled as parts: buffer and string pools, memory manager and context
monitor (sequential, no await between a read and its write); shared context and task
decomposition (exported, unused); notifications and metrics (output); the diagnostics
cache (times of the file system); the other Rust tools and the prompts.

Every safety property of a passing run is a theorem now, but for `NoHookSkipped` and the two
type invariants above. What would come next is more model, not more proof: several
parents with one controller, the session of a task, and the retries' delays.
