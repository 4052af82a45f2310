----------------------------- MODULE MCServices -----------------------------
(***************************************************************************)
(* For TLC, instances on small constants: of the services of Services,     *)
(* whose constants the configuration gives, and of those that only TLC     *)
(* checks.                                                                 *)
(***************************************************************************)
EXTENDS Services

(* Items open, checked or under way, in the first column or indented as    *)
(* sub-tasks are; and one with another bullet.                             *)
LinesOfTodo ==
  [mark : {"open", "done", "progress"}, star : {FALSE}, indented : BOOLEAN]
    \cup {[mark |-> "open", star |-> TRUE, indented |-> FALSE]}
LinesOfChecklist == [mark : {"open", "done"}]

(* An update and a new sub-task under it; agents edit the other item.      *)
TodoJobs ==
  <<[item |-> "t1", under |-> "t1", status |-> "completed"],
    [item |-> "s1", under |-> "t1", status |-> "pending"]>>
OneProcess == <<1, 1>>

(* The priorities of the six handlers that index.ts 89-99 registers, in    *)
(* that order.                                                             *)
ShutdownPriorities == <<10, 10, 15, 20, 30, 40>>

(* A Linux machine, and the Linux side of a Windows machine.               *)
LinuxMachines ==
  {[xdg |-> TRUE, windows |-> FALSE, wsl |-> FALSE],
   [xdg |-> FALSE, windows |-> FALSE, wsl |-> TRUE]}

(* Two urls that differ only in characters which file names lose.          *)
NamesThatCollide == [u1 |-> "f1", u2 |-> "f1", u3 |-> "f2"]

Hooks == INSTANCE HookRegistry
  WITH HookCalls <- {1}, MaxStarts <- 1,
       Plugins <- [audit |-> {"preTool", "postTool"}, lint |-> {"preTool", "chat"}],
       chain <- x1, loaded <- x2, starts <- x3, call <- x4

-----------------------------------------------------------------------------
Init ==
  /\ part \in Parts
  /\ \/ ServicesInit
     \/ part = "hooks" /\ Hooks!Init /\ NoneFrom5

Next ==
  \/ ServicesNext
  \/ part = "hooks" /\ Hooks!Next /\ UNCHANGED <<part, x5, x6, x7, x8, x9>>

Spec == Init /\ [][Next]_vars

-----------------------------------------------------------------------------
(* Each service's variables have the types its module states.              *)
ServicesTypeOK ==
  /\ PartTypesOK
  /\ part = "hooks" => Hooks!HooksTypeOK

(* "complete ALL [ ] items before concluding": a mission without checklist *)
(* is not concluded over an open item of todo.md.  The patterns only see   *)
(* the first column, and sub-tasks are indented.                           *)
ConcludedMeansDone == part = "verdict" => Verdict!ConcludedMeansDone

(* A walk that passes has run every hook that was in the chain when it     *)
(* began, and no hook whose errors are to stop it threw: registrations in  *)
(* the middle of a walk shift the chain under it but let no guard slip by. *)
NoHookSkipped == part = "hooks" => Hooks!NoHookSkipped

(* system-transform-handler.ts 30-36 injects "only ... for orchestrated    *)
(* sessions": the commander's and the mission's prompt go to a session     *)
(* that began a mission.                                                   *)
OnlyMissionsAreTold == part = "manager" => Manager!OnlyMissionsAreTold

-----------------------------------------------------------------------------
(* What documents and messages say and the code does not keep, as the      *)
(* README reports: TLC refutes each of these with Parts = the one service. *)

(* "Respects abort/cancel from user": nothing is injected within the abort *)
(* window.  A handler that was awaiting sets its countdown all the same.   *)
AbortRespected == Todo!AbortRespected

(* "When set, continues previous work instead of starting fresh": a call   *)
(* that resumes ends up in the session it was given.                       *)
ResumeContinues == part = "delegate" => Delegate!ResumeContinues

(* "Clear all cached documents" (operations.ts 118): with nothing listed,  *)
(* nothing is left.  A document whose unlink failed is, or one cut short.  *)
ClearLeavesNothing == part = "docs" => Docs!ClearLeavesNothing

(* "Get cached document by URL" (operations.ts 12): what webfetch answers  *)
(* from the cache was fetched from the url it was asked for.               *)
CachedForThatUrl == part = "docs" => Docs!CachedForThatUrl

(* "Watch for file changes" (todo-sync-service.ts 51): when all is quiet,  *)
(* the service holds what the file says.                                   *)
SyncSettles == part = "todoMd" => TodoMd!SyncSettles

(* "Can block execution or modify arguments" (hooks/types.ts 31): what the *)
(* hooks make of the arguments of a tool call reaches the tool.            *)
ModifiedArgsReachTool == part = "hooks" => Hooks!ModifiedArgsReachTool

(* STAGNATION_INTERVENTION speaks of the last turns (system-messages.ts    *)
(* 88): no check saw progress since it was decided to say it.  One can,    *)
(* while the check that decided awaits its toast.                          *)
InterventionStillTrue == part = "progress" => Progress!InterventionStillTrue

(* The done hook tells the agent that its last turns brought no progress   *)
(* (system-messages.ts 88), so at the least not the last one: the progress *)
(* is what it was when the turn before ended.                              *)
HookBlamesForAReason == part = "progress" => Progress!HookBlamesForAReason

(* search.ts 78, "Create .bak backup before modifying": after a run in     *)
(* which no write failed and which changed the file, the .bak file is what *)
(* the file was.                                                           *)
BakIsTheBackup == part = "sed" => Sed!BakIsTheBackup

(* "Enforce file count limit (500 files max)": with no more than MaxFiles  *)
(* of the files that the run listed.  One that it could not delete stays.  *)
LimitHolds == part = "cleanup" => Cleanup!LimitHolds

(* "Pruned ... files to enforce limit" (cleanup-scheduler.ts 253): a file  *)
(* is only deleted while more than MaxFiles of those listed are left.      *)
OnlyExcessPruned == [][part = "cleanup" => Cleanup!ExcessPruned]_vars

=============================================================================
