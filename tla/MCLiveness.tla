----------------------------- MODULE MCLiveness -----------------------------
(***************************************************************************)
(* What must eventually happen, for TLC: the tasks of a parent, the mission *)
(* of a session and the shutdown of the plugin on small constants.  None   *)
(* of the parts waits for another one, so that one run takes them in turn: *)
(* a behaviour is one of the part that the variable part names, and the    *)
(* others stay in their initial states.                                    *)
(***************************************************************************)
EXTENDS Naturals, Sequences

CONSTANT Parts     \* the parts that are checked

VARIABLES
  part,
  count, queue, limit, holders, circuit, successStreak, failureStreak,
  status, store, keyed, exec, attempt, pending, notifications, owed,
  idleChecks, telling, tellingErrors, cancelling, cleanups, poll, polling, clears,
  mission, sessionUp, aborting, timer, recent, toasts, orphans, strays,
  completing, armed, breaker, agent, sent, accepted, idleEvents, verified,
  background, recovering, started, completed,
  cleanupHandlers, register, isShuttingDown, running, state

taskVars == <<count, queue, limit, holders, circuit, successStreak,
              failureStreak, status, store, keyed, exec, attempt, pending,
              notifications, owed, idleChecks, telling, tellingErrors,
              cancelling, cleanups, poll, polling, clears>>
missionVars == <<mission, sessionUp, aborting, timer, recent, toasts,
                 orphans, strays, completing, armed, breaker, agent, sent,
                 accepted, idleEvents, verified, background, recovering,
                 started, completed>>
shutdownVars == <<cleanupHandlers, register, isShuttingDown, running, state>>
vars == <<part, taskVars, missionVars, shutdownVars>>

(* Two tasks of one key and one parent: fair timers and polling, no        *)
(* session events.  Cancellations at any time and prompts that succeed, so *)
(* that what fails is a task whose wait for its slot times out, ...        *)
Launched == INSTANCE ParallelTasks
  WITH Tasks <- {"t1", "t2"}, NoTask <- "none", InitialLimit <- 1,
       SettableLimits <- {}, MaxConcurrency <- 1, CircuitThreshold <- 1,
       HalfOpenSuccess <- 1, ScaleUpStreak <- 1, ScaleDownStreak <- 1,
       ErrorKinds <- {}, MaxRetries <- 1, MaxEndings <- 1,
       MaxIdleChecks <- 0, MaxNotifications <- 2, MaxClears <- 0,
       Interruptions <- {"cancel", "expired"}

(* ... or, without cancellations, prompts that fail for good and prompts   *)
(* that are retried as often as they fail.                                 *)
Retried == INSTANCE ParallelTasks
  WITH Tasks <- {"t1", "t2"}, NoTask <- "none", InitialLimit <- 1,
       SettableLimits <- {}, MaxConcurrency <- 1, CircuitThreshold <- 1,
       HalfOpenSuccess <- 1, ScaleUpStreak <- 1, ScaleDownStreak <- 1,
       ErrorKinds <- {"endless", "fatal"}, MaxRetries <- 1, MaxEndings <- 1,
       MaxIdleChecks <- 0, MaxNotifications <- 2, MaxClears <- 0,
       Interruptions <- {"expired"}

(* Both drivers of the loop, the done hook and the idle countdown, at work. *)
Mission == INSTANCE MissionLoop
  WITH MaxMissions <- 2, MaxIterations <- 2, MaxPending <- 1,
       MaxHandlers <- 2, DoneHookRuns <- TRUE,
       Disruptions <- {"delegation", "chat"}

(* The handlers of index.ts, with the priorities they are registered with. *)
Shutdown == INSTANCE ShutdownManager
  WITH Handlers <- 1 .. 6, Priority <- <<10, 10, 15, 20, 30, 40>>

Init == part \in Parts /\ Launched!Init /\ Mission!Init /\ Shutdown!Init

Next ==
  /\ \/ part = "tasks" /\ Launched!Next /\ UNCHANGED <<missionVars, shutdownVars>>
     \/ part = "retries" /\ Retried!Next /\ UNCHANGED <<missionVars, shutdownVars>>
     \/ part = "mission" /\ Mission!Next /\ UNCHANGED <<taskVars, shutdownVars>>
     \/ part = "shutdown" /\ Shutdown!Next /\ UNCHANGED <<taskVars, missionVars>>
  /\ UNCHANGED part

(* No fair action is enabled in an initial state, so that the fairness of  *)
(* one part asks nothing of the behaviours of the others.  That of Retried *)
(* wants a prompt answered or failed: where none fails, it is Launched's.  *)
Spec ==
  /\ Init /\ [][Next]_vars
  /\ Retried!Fairness /\ Mission!Fairness /\ Shutdown!ShutdownFairness

-----------------------------------------------------------------------------
(* The variables have the types their modules state.                       *)
LivenessTypeOK == Launched!TypeOK /\ Mission!TypeOK /\ Shutdown!ShutdownTypeOK

(* Every task the parent waits for ends, by whatever path, unless its own  *)
(* prompt is retried without end.                                          *)
PendingSettles == Launched!PendingSettles

(* A mission goes on whenever its agent is idle, until it is over.         *)
MissionContinues == Mission!MissionContinues

(* A handler that hangs or fails keeps no other from being called.         *)
EveryHandlerCalled == Shutdown!EveryHandlerCalled
=============================================================================
