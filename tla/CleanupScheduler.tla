--------------------------- MODULE CleanupScheduler ---------------------------
(***************************************************************************)
(* The periodic cleanups of a project's .opencode directory                *)
(* (core/cleanup/cleanup-scheduler.ts).  Their intervals are multiples of  *)
(* five minutes, so that they fire together and their runs interleave at   *)
(* every await; one run of each kind at a time.  cleanDocs() is in         *)
(* DocumentCache, and compactWAL() does nothing.                           *)
(***************************************************************************)
EXTENDS Integers, FiniteSets

CONSTANTS
  OldSessions, NewSessions,  \* archived task files, a week old or younger
  Modules,                   \* files of .opencode/node_modules
  Current,                   \* todo.md and what else is in use
  MaxFiles                   \* MAX_FILES of enforceFileLimit()

VARIABLES
  scheduled,  \* are the intervals set?
  disk,       \* the files of .opencode, and its directory node_modules
  whole,      \* those that hold the history of changes, all of it
  limiting,   \* enforceFileLimit()
  sessions,   \* cleanOldSessions(): the files it has yet to look at
  modules,    \* cleanNodeModules()
  rotation,   \* rotateHistory()
  pruned      \* has enforceFileLimit() deleted a file with the history?

cleanupVars == <<scheduled, disk, whole, limiting, sessions, modules, rotation, pruned>>

Sessions == OldSessions \cup NewSessions
Archives == {"archive", "gzip", "lastMonth"}

(* What a directory holds.  A walk lists .opencode first and then the      *)
(* directories it has found in it.                                         *)
Under(dir) ==
  CASE dir = "opencode" -> Current \cup {"package"}
    [] dir = "archive"  -> Sessions \cup Archives \cup {"history"}
    [] dir = "modules"  -> Modules
Files == Under("opencode") \cup Under("archive") \cup Under("modules")

(* Of a walk: the directories still to list, the number of files listed,   *)
(* those of them that nobody has deleted since, what the run is to ask for *)
(* or to delete, and what it could not delete.                             *)
Resting ==
  [at |-> "resting", dirs |-> {}, count |-> 0, here |-> {}, left |-> {}, kept |-> {}]

(* The history is a relic of versions that logged changes: none appends.   *)
Init ==
  /\ scheduled = FALSE
  /\ disk = (Files \ {"archive", "gzip"}) \cup {"node_modules"}
  /\ whole = {"history"}
  /\ limiting = Resting
  /\ sessions = {}
  /\ modules = "resting" /\ rotation = "resting"
  /\ pruned = FALSE

-----------------------------------------------------------------------------
Delete(F) ==
  /\ disk' = disk \ F
  /\ whole' = whole \ F

(* Every other run takes files away from under the walk.                   *)
Vanish(F) == Delete(F) /\ limiting' = [limiting EXCEPT !.here = @ \ F]

(* The first run of cleanNodeModules() does not wait for its interval.     *)
Start ==
  /\ ~scheduled /\ modules = "resting"
  /\ scheduled' = TRUE
  /\ modules' = "begun"
  /\ UNCHANGED <<disk, whole, limiting, sessions, rotation, pruned>>

(* stop(): the runs under way go on.                                       *)
Stop ==
  /\ scheduled /\ scheduled' = FALSE
  /\ UNCHANGED <<disk, whole, limiting, sessions, modules, rotation, pruned>>

(* The process ends, wherever its runs are.                                *)
Crash ==
  /\ scheduled' = FALSE
  /\ limiting' = Resting /\ sessions' = {}
  /\ modules' = "resting" /\ rotation' = "resting"
  /\ UNCHANGED <<disk, whole, pruned>>

-----------------------------------------------------------------------------
(* enforceFileLimit()                                                      *)

limitOnly == <<scheduled, sessions, modules, rotation>>

LimitBegins ==
  /\ scheduled /\ limiting.at = "resting"
  /\ LET here == Under("opencode") \cap disk
     IN  limiting' = [Resting EXCEPT !.at = "listing", !.count = Cardinality(here),
                        !.here = here,
                        !.dirs = {"archive"} \cup
                                 (IF "node_modules" \in disk THEN {"modules"} ELSE {})]
  /\ UNCHANGED <<limitOnly, disk, whole, pruned>>

(* A directory that is gone or cannot be read ends the run.                *)
LimitLists(dir) ==
  /\ limiting.at = "listing" /\ dir \in limiting.dirs
  /\ LET here == Under(dir) \cap disk
     IN  \/ limiting' = Resting
         \/ /\ dir = "modules" => "node_modules" \in disk
            /\ limiting' = [limiting EXCEPT !.dirs = @ \ {dir}, !.here = @ \cup here,
                              !.count = @ + Cardinality(here)]
  /\ UNCHANGED <<limitOnly, disk, whole, pruned>>

LimitCounts ==
  /\ limiting.at = "listing" /\ limiting.dirs = {}
  /\ limiting' = IF limiting.count <= MaxFiles THEN Resting
                 ELSE [limiting EXCEPT !.at = "asking", !.left = limiting.here]
  /\ UNCHANGED <<limitOnly, disk, whole, pruned>>

(* Mutant of Excess: one file too few.                                     *)
ExcessLessOne(run) == run.count - MaxFiles - 1

(* The excess is that of the listing, not of what is still there.          *)
Excess(run) == run.count - MaxFiles

(* The access times are asked for all at once: a file that is deleted      *)
(* meanwhile may have answered or be left out.  Which files were accessed  *)
(* longest ago is a choice.                                                *)
LimitSorts ==
  /\ limiting.at = "asking"
  /\ \E gone \in SUBSET (limiting.left \ disk) :
       LET found == limiting.left \ gone
       IN  \E doomed \in SUBSET found :
             /\ \/ Cardinality(doomed) = Excess(limiting)
                \/ doomed = found /\ Cardinality(doomed) < Excess(limiting)
             /\ limiting' = [limiting EXCEPT !.at = "deleting", !.left = doomed]
  /\ UNCHANGED <<limitOnly, disk, whole, pruned>>

(* A file that is gone is passed over, and so is one that cannot be        *)
(* deleted: it stays.                                                      *)
LimitDeletes(f) ==
  /\ limiting.at = "deleting" /\ f \in limiting.left
  /\ \/ /\ Delete({f})
        /\ limiting' = [limiting EXCEPT !.left = @ \ {f}, !.here = @ \ {f}]
        /\ pruned' = (pruned \/ f \in disk \cap {"history", "archive", "gzip"})
     \/ /\ f \in disk
        /\ limiting' = [limiting EXCEPT !.left = @ \ {f}, !.kept = @ \cup {f}]
        /\ UNCHANGED <<disk, whole, pruned>>
  /\ UNCHANGED limitOnly

LimitEnds ==
  /\ limiting.at = "deleting" /\ limiting.left = {}
  /\ limiting' = Resting
  /\ UNCHANGED <<limitOnly, disk, whole, pruned>>

-----------------------------------------------------------------------------
(* cleanOldSessions(): a file that is gone when its turn comes, or another *)
(* call that fails, ends the run.                                          *)
SessionsBegin ==
  /\ scheduled /\ sessions = {}
  /\ sessions' = Sessions \cap disk
  /\ UNCHANGED <<scheduled, disk, whole, limiting, modules, rotation, pruned>>

SessionsClean(f) ==
  /\ f \in sessions
  /\ IF f \in OldSessions \cap disk THEN Vanish({f}) ELSE UNCHANGED <<disk, whole, limiting>>
  /\ sessions' = IF f \in disk THEN sessions \ {f} ELSE {}
  /\ UNCHANGED <<scheduled, modules, rotation, pruned>>

SessionsFail ==
  /\ sessions # {} /\ sessions' = {}
  /\ UNCHANGED <<scheduled, disk, whole, limiting, modules, rotation, pruned>>

-----------------------------------------------------------------------------
(* cleanNodeModules(): file by file, the directory, and the package files; *)
(* a call that fails ends it.                                              *)
ModulesBegin ==
  /\ scheduled /\ modules = "resting" /\ modules' = "begun"
  /\ UNCHANGED <<scheduled, disk, whole, limiting, sessions, rotation, pruned>>

ModulesClean ==
  /\ modules = "begun"
  /\ \/ \E f \in Modules \cap disk : Vanish({f}) /\ UNCHANGED modules
     \/ /\ Modules \cap disk = {}
        /\ Vanish({"node_modules"}) /\ modules' = "packages"
  /\ UNCHANGED <<scheduled, sessions, rotation, pruned>>

PackagesClean ==
  /\ modules = "packages"
  /\ Vanish({"package"}) /\ modules' = "resting"
  /\ UNCHANGED <<scheduled, sessions, rotation, pruned>>

ModulesFail ==
  /\ modules # "resting" /\ modules' = "resting"
  /\ UNCHANGED <<scheduled, disk, whole, limiting, sessions, rotation, pruned>>

-----------------------------------------------------------------------------
(* rotateHistory(): a call that fails, the file being gone or another      *)
(* error, ends the run.                                                    *)

rotationOnly == <<scheduled, sessions, modules, pruned>>

Rotates(from, to) == rotation = from /\ rotation' = to

(* An empty history is not rotated.                                        *)
RotationBegins ==
  /\ scheduled /\ Rotates("resting", "renaming")
  /\ "history" \in disk \cap whole
  /\ UNCHANGED <<rotationOnly, disk, whole, limiting>>

RotationFails ==
  /\ rotation # "resting" /\ rotation' = "resting"
  /\ UNCHANGED <<rotationOnly, disk, whole, limiting>>

HistoryRenamed ==
  /\ Rotates("renaming", "opening") /\ "history" \in disk
  /\ disk' = (disk \ {"history"}) \cup {"archive"}
  /\ whole' = {"archive"} \cup (whole \ {"history"})
  /\ limiting' = [limiting EXCEPT !.here = @ \ {"history"}]
  /\ UNCHANGED rotationOnly

(* Mutant of ArchiveOpened: the pipeline is not awaited.                   *)
ArchiveNotAwaited ==
  /\ rotation = "opening" /\ "archive" \in disk /\ rotation' = "unlinking"
  /\ disk' = disk \cup {"gzip"} /\ whole' = whole \ {"gzip"}
  /\ UNCHANGED <<rotationOnly, limiting>>

(* Without the archive the pipeline fails; its output may be there by then.*)
ArchiveOpened ==
  /\ rotation = "opening"
  /\ \E made \in SUBSET {"gzip"} :
       /\ "archive" \in disk => made # {}
       /\ disk' = disk \cup made /\ whole' = whole \ made
  /\ rotation' = IF "archive" \in disk THEN "compressing" ELSE "resting"
  /\ UNCHANGED <<rotationOnly, limiting>>

ArchiveCompressed ==
  /\ Rotates("compressing", "unlinking")
  /\ whole' = whole \cup ({"gzip"} \cap disk)
  /\ UNCHANGED <<rotationOnly, disk, limiting>>

ArchiveUnlinked ==
  /\ Rotates("unlinking", "recreating")
  /\ "archive" \in disk /\ Vanish({"archive"})
  /\ UNCHANGED rotationOnly

(* The new history is empty.  Archives of more than 30 days go too, unless *)
(* one that another run deletes meanwhile ends this run.                   *)
HistoryRecreated ==
  /\ Rotates("recreating", "resting")
  /\ \E expired \in SUBSET {"lastMonth"} :
       /\ disk' = (disk \ expired) \cup {"history"} /\ whole' = whole \ {"history"}
       /\ limiting' = [limiting EXCEPT !.here = @ \ expired]
  /\ UNCHANGED rotationOnly

-----------------------------------------------------------------------------
LimitStep ==
  \/ LimitBegins \/ LimitCounts \/ LimitSorts \/ LimitEnds
  \/ \E dir \in {"archive", "modules"} : LimitLists(dir)
  \/ \E f \in Files : LimitDeletes(f)

RotationStep ==
  \/ RotationBegins \/ HistoryRenamed \/ ArchiveOpened \/ ArchiveCompressed
  \/ ArchiveUnlinked \/ HistoryRecreated \/ RotationFails

Next ==
  \/ Start \/ Stop \/ Crash
  \/ LimitStep \/ RotationStep
  \/ SessionsBegin \/ SessionsFail \/ \E f \in Sessions : SessionsClean(f)
  \/ ModulesBegin \/ ModulesClean \/ PackagesClean \/ ModulesFail

Spec == Init /\ [][Next]_cleanupVars

-----------------------------------------------------------------------------
CleanupTypeOK ==
  /\ scheduled \in BOOLEAN /\ disk \in SUBSET (Files \cup {"node_modules"})
  /\ whole \in SUBSET disk /\ pruned \in BOOLEAN
  /\ limiting.at \in {"resting", "listing", "asking", "deleting"}
  /\ limiting.count \in Nat
  /\ limiting.here \cup limiting.left \cup limiting.kept \subseteq Files
  /\ sessions \in SUBSET Sessions
  /\ modules \in {"resting", "begun", "packages"}
  /\ rotation \in {"resting", "renaming", "opening", "compressing", "unlinking", "recreating"}

(* "Enforce file count limit (500 files max)": when a run has tried to     *)
(* delete what it chose, no more than MaxFiles of the files it listed are  *)
(* there still, but for those it could not delete, whoever deleted or      *)
(* renamed others while it listed, asked, chose and deleted.               *)
LimitEnforced ==
  limiting.at = "deleting" /\ limiting.left = {}
    => Cardinality(limiting.here \ limiting.kept) <= MaxFiles

(* The same without the exception.                                         *)
LimitHolds ==
  limiting.at = "deleting" /\ limiting.left = {} => Cardinality(limiting.here) <= MaxFiles

(* Wherever the process ends and whatever else cleans up, the history is   *)
(* whole in one file at least, unless the file limit took one of its files.*)
HistorySurvives == whole # {} \/ pruned

(* "Pruned ... files to enforce limit": a file is only deleted while more  *)
(* than MaxFiles of those listed are left.                                 *)
ExcessPruned ==
  \A f \in disk : LimitDeletes(f) => Cardinality(limiting.here) > MaxFiles
=============================================================================
