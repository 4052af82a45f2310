------------------------------ MODULE Services ------------------------------
(***************************************************************************)
(* The services around the tasks, the sessions and the mission, for any    *)
(* constants.  They share no state, so that one specification can take     *)
(* them in turn: a behaviour is one of the service that part names, and    *)
(* x1, x2, ... are the variables of that service, in the order in which    *)
(* its module declares them.  MCServices adds those that only TLC checks.  *)
(***************************************************************************)
EXTENDS Naturals, Sequences, FiniteSets

CONSTANT Parts     \* the services a behaviour may be one of

VARIABLES part, x1, x2, x3, x4, x5, x6, x7, x8, x9

vars == <<part, x1, x2, x3, x4, x5, x6, x7, x8, x9>>

CONSTANTS Commands
Background == INSTANCE BackgroundCommands
  WITH command <- x1, child <- x2, down <- x3

CONSTANTS Consumers, Iterating, MaxPushes
Queue == INSTANCE AsyncQueue
  WITH queued <- x1, resolvers <- x2, closed <- x3, consumer <- x4,
       pushes <- x5, received <- x6

CONSTANTS WorkerIds, Items, InitialCapacity, MaxStarts, MaxMoves
ASSUME WorkAssumption ==    \* workers and items are numbered from 1
  /\ IsFiniteSet(WorkerIds) /\ WorkerIds = 1 .. Cardinality(WorkerIds)
  /\ Items \subseteq Nat \ {0} /\ InitialCapacity \in Nat \ {0} /\ MaxStarts \in Nat
Work == INSTANCE WorkStealing
  WITH deque <- x1, running <- x2, workerLoops <- x3, starts <- x4,
       loop <- x5, turn <- x6, over <- x7

CONSTANTS IdleEvents, Errors, MaxAttempts
ASSUME TodoAssumption ==    \* handlers are numbered; timer = 0 is no timer
  IdleEvents \subseteq Nat \ {0} /\ Errors \subseteq Nat /\ MaxAttempts \in Nat
Todo == INSTANCE TodoContinuation
  WITH open <- x1, entry <- x2, idler <- x3, recovery <- x4, rescuer <- x5,
       unanswered <- x6

CONSTANTS SessionIds, NoSession
Manager == INSTANCE SessionManager
  WITH sessions <- x1, missionActive <- x2, enabled <- x3, missionOf <- x4,
       missions <- x5, transformed <- x6, continued <- x7

CONSTANTS Threshold, HookThreshold, MaxTodos, MaxPrompts, IdleChecks
ASSUME ProgressAssumption ==    \* idle checks are numbered
  {Threshold, HookThreshold, MaxTodos} \cup IdleChecks \subseteq Nat
Progress == INSTANCE ProgressTracker
  WITH todos <- x1, tracker <- x2, loopFile <- x3, checks <- x4,
       prompts <- x5, seen <- x6, flat <- x7, steady <- x8

CONSTANTS Depths, TerminalDepth, MaxPollCount, StablePollsRequired, MaxMessages
ASSUME DelegateAssumption == StablePollsRequired \in Nat \ {0}
Delegate == INSTANCE DelegateTask
  WITH delegation <- x1, agent <- x2, quiet <- x3

CONSTANTS LongestChain, MaxSedRuns
ASSUME SedAssumption == LongestChain \in Nat
Sed == INSTANCE SedTool
  WITH disk <- x1, sed <- x2

CONSTANTS OldSessions, NewSessions, Modules, Current, MaxFiles
ASSUME CleanupAssumption ==   \* the history is no file of a session or of a package
  /\ IsFiniteSet(OldSessions \cup NewSessions \cup Modules \cup Current)
  /\ (OldSessions \cup Modules) \cap {"history", "archive", "gzip"} = {}
  /\ MaxFiles \in Nat
Cleanup == INSTANCE CleanupScheduler
  WITH scheduled <- x1, disk <- x2, whole <- x3, limiting <- x4,
       sessions <- x5, modules <- x6, rotation <- x7, pruned <- x8

CONSTANTS TodoCalls, Job, Process, TodoItems, FirstListed, Tries, Attempts, MaxFailures, MaxReloads
ASSUME TodoFileAssumption ==    \* an update asks for one of the markers
  /\ \A c \in TodoCalls :
       /\ {Job[c].item, Job[c].under} \subseteq TodoItems
       /\ Job[c].status \in {"pending", "progress", "completed", "failed"}
  /\ FirstListed \subseteq TodoItems /\ {Tries, Attempts} \subseteq Nat
TodoMd == INSTANCE TodoFile
  WITH Calls <- TodoCalls, Items <- TodoItems, Listed <- FirstListed, todoMd <- x1, inode <- x2,
       version <- x3, mutex <- x4, call <- x5, failures <- x6, sync <- x7

CONSTANTS Machines, KeptBackups, MaxRuns, MaxEdits
ASSUME InstallerAssumption ==
  Machines \subseteq [xdg : BOOLEAN, windows : BOOLEAN, wsl : BOOLEAN] /\ {KeptBackups, MaxEdits} \subseteq Nat
Setup == INSTANCE Installer
  WITH files <- x1, backups <- x2, latest <- x3, cut <- x4, script <- x5,
       runs <- x6

CONSTANTS Fetchers, Urls, FileName, MaxClock, MaxFetches, SizeLimit
ASSUME DocsAssumption ==
  IsFiniteSet(Urls) /\ {"none", "cut"} \cap Urls = {} /\ {MaxClock, MaxFetches} \subseteq Nat
Docs == INSTANCE DocumentCache
  WITH Callers <- Fetchers, File <- FileName, MaxCalls <- MaxFetches, index <- x1,
       torn <- x2, docs <- x3, clock <- x4, caller <- x5, calls <- x6, disturbed <- x7,
       spoiled <- x8, failures <- x9

CONSTANTS RetryLimit, Concurrency, WorkItems, MaxLoopFailures
ASSUME HelpersAssumption ==     \* a loop may retry, and a pool has a worker
  /\ {RetryLimit, Concurrency} \subseteq Nat \ {0}
  /\ IsFiniteSet(WorkItems) /\ WorkItems = 1 .. Cardinality(WorkItems)
Helpers == INSTANCE AsyncHelpers
  WITH Retries <- RetryLimit, MaxFailures <- MaxLoopFailures,
       helper <- x1, retrying <- x2, pooled <- x3

CONSTANTS TaskIds, PoolSize, MaxTasks, MaxTaskRetries, MaxGcs
ASSUME MemoryAssumption ==      \* tasks are numbered, and the pool holds the first record
  /\ IsFiniteSet(TaskIds) /\ TaskIds \subseteq Nat \ {0} /\ 1 \in TaskIds
  /\ PoolSize \in Nat \ {0} /\ {MaxTaskRetries, MaxGcs} \subseteq Nat
Memory == INSTANCE TaskMemory
  WITH MaxSize <- PoolSize, MaxRetries <- MaxTaskRetries,
       mem <- x1, execution <- x2, retries <- x3, gcs <- x4

CONSTANTS TodoLines, ChecklistLines, SyncLines, MaxLines
Verdict == INSTANCE Verification
  WITH todoFile <- x1, checklistFile <- x2, syncFile <- x3, lastIndex <- x4, verdict <- x5

CONSTANTS RustCalls, RustProcs, MaxProcesses
ASSUME RustAssumption == RustProcs \subseteq Nat /\ MaxProcesses \in Nat
Rust == INSTANCE RustToolPool
  WITH MaxSize <- MaxProcesses, processes <- x1, proc <- x2, rustCall <- x3,
       shuttingDown <- x4

CONSTANTS Handlers, Priority
ASSUME ShutdownAssumption == Handlers \subseteq Nat /\ \A h \in Handlers : Priority[h] \in Nat
Shutdown == INSTANCE ShutdownManager
  WITH cleanupHandlers <- x1, register <- x2, isShuttingDown <- x3, running <- x4,
       state <- x5

-----------------------------------------------------------------------------
NoneFrom9 == x9 = "none"
NoneFrom8 == x8 = "none" /\ NoneFrom9
NoneFrom7 == x7 = "none" /\ NoneFrom8
NoneFrom6 == x6 = "none" /\ NoneFrom7
NoneFrom5 == x5 = "none" /\ NoneFrom6
NoneFrom4 == x4 = "none" /\ NoneFrom5
NoneFrom3 == x3 = "none" /\ NoneFrom4

ServicesInit ==
  \/ part = "commands" /\ Background!Init /\ NoneFrom4
  \/ part = "work" /\ Work!Init /\ NoneFrom8
  \/ part = "todo" /\ Todo!Init /\ NoneFrom7
  \/ part = "delegate" /\ Delegate!Init /\ NoneFrom4
  \/ part = "queue" /\ Queue!Init /\ NoneFrom7
  \/ part = "progress" /\ Progress!Init /\ NoneFrom9
  \/ part = "manager" /\ Manager!Init /\ NoneFrom8
  \/ part = "sed" /\ Sed!Init /\ NoneFrom3
  \/ part = "cleanup" /\ Cleanup!Init /\ NoneFrom9
  \/ part = "todoMd" /\ TodoMd!Init /\ NoneFrom8
  \/ part = "setup" /\ Setup!Init /\ NoneFrom7
  \/ part = "docs" /\ Docs!Init
  \/ part = "helpers" /\ Helpers!Init /\ NoneFrom4
  \/ part = "memory" /\ Memory!Init /\ NoneFrom5
  \/ part = "verdict" /\ Verdict!Init /\ NoneFrom6
  \/ part = "rust" /\ Rust!Init /\ NoneFrom5
  \/ part = "shutdown" /\ Shutdown!Init /\ NoneFrom6

ServicesNext ==
  \/ part = "commands" /\ Background!Next /\ UNCHANGED <<part, x4, x5, x6, x7, x8, x9>>
  \/ part = "work" /\ Work!Next /\ UNCHANGED <<part, x8, x9>>
  \/ part = "todo" /\ Todo!Next /\ UNCHANGED <<part, x7, x8, x9>>
  \/ part = "delegate" /\ Delegate!Next /\ UNCHANGED <<part, x4, x5, x6, x7, x8, x9>>
  \/ part = "queue" /\ Queue!Next /\ UNCHANGED <<part, x7, x8, x9>>
  \/ part = "progress" /\ Progress!Next /\ UNCHANGED <<part, x9>>
  \/ part = "manager" /\ Manager!Next /\ UNCHANGED <<part, x8, x9>>
  \/ part = "sed" /\ Sed!Next /\ UNCHANGED <<part, x3, x4, x5, x6, x7, x8, x9>>
  \/ part = "cleanup" /\ Cleanup!Next /\ UNCHANGED <<part, x9>>
  \/ part = "todoMd" /\ TodoMd!Next /\ UNCHANGED <<part, x8, x9>>
  \/ part = "setup" /\ Setup!Next /\ UNCHANGED <<part, x7, x8, x9>>
  \/ part = "docs" /\ Docs!Next /\ UNCHANGED part
  \/ part = "helpers" /\ Helpers!Next /\ UNCHANGED <<part, x4, x5, x6, x7, x8, x9>>
  \/ part = "memory" /\ Memory!Next /\ UNCHANGED <<part, x5, x6, x7, x8, x9>>
  \/ part = "verdict" /\ Verdict!Next /\ UNCHANGED <<part, x6, x7, x8, x9>>
  \/ part = "rust" /\ Rust!Next /\ UNCHANGED <<part, x5, x6, x7, x8, x9>>
  \/ part = "shutdown" /\ Shutdown!Next /\ UNCHANGED <<part, x6, x7, x8, x9>>

ServicesSpec == part \in Parts /\ ServicesInit /\ [][ServicesNext]_vars

-----------------------------------------------------------------------------
(* Each service's variables have the types its module states.              *)
PartTypesOK ==
  /\ part = "commands" => Background!CommandsTypeOK
  /\ part = "work" => Work!WorkTypeOK
  /\ part = "todo" => Todo!ContinuationTypeOK
  /\ part = "delegate" => Delegate!DelegateTypeOK
  /\ part = "queue" => Queue!AsyncQueueTypeOK
  /\ part = "progress" => Progress!ProgressTypeOK
  /\ part = "manager" => Manager!SessionTypeOK
  /\ part = "sed" => Sed!SedTypeOK
  /\ part = "cleanup" => Cleanup!CleanupTypeOK
  /\ part = "todoMd" => TodoMd!TodoTypeOK
  /\ part = "setup" => Setup!InstallerTypeOK
  /\ part = "docs" => Docs!CacheTypeOK
  /\ part = "memory" => Memory!MemoryTypeOK
  /\ part = "rust" => Rust!RustTypeOK
  /\ part = "shutdown" => Shutdown!ShutdownTypeOK

(* Timeout, kill, close and shutdown race, and yet the records tell what   *)
(* became of the processes: one that is alive and has not been signalled   *)
(* is a running task of the map, where kill and shutdown find it; a task   *)
(* that is "done" had a process that ended with code 0; and one that timed *)
(* out keeps that status though its process closes afterwards.             *)
StatusTellsTruth == part = "commands" => Background!StatusTellsTruth

(* No consumer sleeps while there is an item for it or the queue is closed; *)
(* items leave in the order they came, each once, whoever takes them.      *)
NobodyWaitsForNothing == part = "queue" => Queue!NobodyWaitsForNothing

(* Capacity, indices, stale slots and doubled loops change nothing of what *)
(* the pool promises: queues taken newest first by their owner and oldest  *)
(* first by others, and every item executed once.                          *)
ImplementsWorkQueues ==
  /\ part = "work" => Work!Queues!Init
  /\ [][part = "work" => Work!StepOfQueues]_vars

(* What the two states say is true, whichever handlers overlap, fire, or   *)
(* cancel each other: the handle is of a countdown that runs, so that      *)
(* cancelling it stops a prompt; isRecovering, which silences both loops,  *)
(* is set only while a handler that holds this very state is going to      *)
(* reset it; and the attempts counted bound the prompts an assistant gets  *)
(* that never answers.                                                     *)
StatesAreTruthful == part = "todo" => Todo!StatesAreTruthful

(* However idle checks and their toasts, stray countdowns, late answers, a *)
(* pruned entry and a new mission of the session interleave, the idle      *)
(* handler blames the agent only if Threshold checks in a row, the one     *)
(* that decided it included, had seen no item completed                    *)
(* (mission-loop-handler.ts 225-248, progress-tracker.ts 121-218).         *)
(* And whatever flags other missions, other sessions' tools and reloads    *)
(* leave behind, the done hook makes no session go on that never began a   *)
(* mission (hooks/features/mission-loop.ts 109; the flags alone would).    *)
LoopActsForAReason ==
  /\ part = "progress" => Progress!InterventionForAReason
  /\ part = "manager" => Manager!OnlyMissionsContinue

(* A blocking call says "done" when polls in a row, one more than required, *)
(* saw the same messages, though requests fail, the agent wakes up between *)
(* them and the output is validated only once.  (A session whose requests  *)
(* fail may be done without a message.)                                    *)
DoneMeansStable == part = "delegate" => Delegate!DoneMeansStable

(* MVCC and mutex together: an update that was reported as made is in the  *)
(* file, or a later one of that item is, though other updates of the       *)
(* process were read, written, failed and retried around it; and a crash   *)
(* at any point leaves a file that some update wrote whole.  All of it     *)
(* unless an update was written over a file that could not be read.        *)
ReportedUpdatesStay == part = "todoMd" => TodoMd!ReportedUpdatesStay

(* The debounced watcher misses no change of the file it watches: however *)
(* reloads overlap and changes fall between their reads, once no timer is  *)
(* set the last reload has read, or will read, the last change.  (It       *)
(* follows the inode, and is deaf once an update has replaced the file.)   *)
SyncSeesLastChange == part = "todoMd" => TodoMd!SyncSeesLastChange

(* Whatever fails and wherever a script is killed, the settings the user   *)
(* wrote last are in the configuration file; only a rollback that was cut  *)
(* short may leave them in a backup alone, and then in one of the          *)
(* KeptBackups newest, whose turn to be deleted comes that much later      *)
(* (postinstall.ts 301-308 promises to preserve all but the entry).        *)
SettingsSurvive == part = "setup" => Setup!SettingsSurvive

(* While calls come one at a time and none is cut short, only failing      *)
(* writes and unlinks part the index from the disk, and each only for the  *)
(* names it was about (all of them, if it leaves the index cut short),     *)
(* until a set or a removal of the name goes through.  For every other     *)
(* name the index lists the document that is on disk, under the url it was *)
(* fetched from, in any order of fetches, removals, prunings and clears,   *)
(* collisions of names and other failures included.                        *)
IndexIsTrueInTurn == part = "docs" => Docs!IndexIsTrueInTurn

(* A retry loop stops after its retries, whatever mixture of errors it     *)
(* meets (an answer that is "gibberish" asks for attempt 1 for ever).      *)
(* Results stand at the index of their item, in whatever order the workers *)
(* finish; when all are gone without a failure, every item has its result. *)
HelpersAnswer == part = "helpers" => Helpers!HelpersAnswer

(* No record is handed out twice: overlapping gcs, records that are stored *)
(* under two ids, and loops that go on writing to a record that was given  *)
(* back and taken anew leave it once in the pool, or in use.               *)
HandedOutOnce == part = "memory" => Memory!HandedOutOnce

(* Whatever the global patterns remember of earlier calls, a verdict never *)
(* passes over a line of the sync file that is not a heading, nor over an  *)
(* item of the checklist that is not checked; nor, without a checklist,    *)
(* over what the other reader finds open in the plain list both were       *)
(* written for (dashes in the first column, open or done).                 *)
NothingOpenPasses == part = "verdict" => Verdict!NothingOpenPasses

(* However calls overlap, a call never gets the answer to the request of   *)
(* another one: though timed-out requests leave their listeners and are    *)
(* answered late, and two calls can come to share a process, one that      *)
(* takes it while its creator waits for it to start or after the release   *)
(* of the other.  And calls that find no process start one each, before    *)
(* any is ready, but never more than maxSize.                              *)
CallsKeptApart == part = "rust" => Rust!CallsKeptApart

(* A handler is called when those of a lower priority number, and those of *)
(* its own that were registered before it, have finished, failed or had    *)
(* their five seconds: failures and slow handlers change no order.         *)
OrderedShutdown == part = "shutdown" => Shutdown!OrderedShutdown

(* With backup, what the file held before the run is whole on the disk at  *)
(* every moment of the run and after it, in the file or in one of its      *)
(* backups: though the run's walk comes to the backups it makes and        *)
(* rewrites them too, though it overwrites the backups of earlier runs,    *)
(* and whichever write fails or is cut off (sed.rs 101-117).               *)
(* The same of the history that the scheduler compresses and deletes, with *)
(* other cleanups and crashes at its awaits, unless the file limit took    *)
(* one of its files; and that limit is enforced on what was listed but for *)
(* the files it could not delete, though others rename and delete files    *)
(* meanwhile (cleanup-scheduler.ts 102-257).                               *)
OriginalSurvives ==
  /\ part = "sed" => Sed!OriginalSurvives
  /\ part = "cleanup" => Cleanup!HistorySurvives /\ Cleanup!LimitEnforced
=============================================================================
