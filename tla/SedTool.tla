------------------------------- MODULE SedTool -------------------------------
(***************************************************************************)
(* sed_replace (crates/orchestrator-core/src/tools/sed.rs, called by       *)
(* tools/search.ts through the tool server): one file, the chain of its    *)
(* .bak files, and runs over the file or over its directory.  A content is *)
(* the list of the runs that rewrote it; every write truncates first.      *)
(***************************************************************************)
EXTENDS Naturals, Sequences

CONSTANTS
  LongestChain,    \* bound: .bak suffixes
  MaxSedRuns       \* bound: runs

VARIABLES
  disk,            \* content by number of .bak suffixes
  sed              \* the run under way, or the last one

sedVars == <<disk, sed>>

Paths == 0..LongestChain
Whole(rewrites) == [is |-> "whole", rewrites |-> rewrites]
TornFile == [is |-> "torn", rewrites |-> <<>>]
NoFile == [is |-> "absent", rewrites |-> <<>>]

Init ==
  /\ disk = [p \in Paths |-> IF p = 0 THEN Whole(<<>>) ELSE NoFile]
  /\ sed = [run |-> 0, pc |-> "done", scope |-> "file", backup |-> FALSE,
            before |-> NoFile, visited |-> {}, writes |-> <<>>, clean |-> TRUE]

(* Mutant of Writes: the backup is made of the file as it is afterwards.   *)
WritesFileFirst(path, content, rewritten, backup) ==
  <<[path |-> path, content |-> rewritten]>>
    \o IF backup THEN <<[path |-> path + 1, content |-> content]>> ELSE <<>>

(* What replace_in_file() writes, in this order.                           *)
Writes(path, content, rewritten, backup) ==
  (IF backup THEN <<[path |-> path + 1, content |-> content]>> ELSE <<>>)
    \o <<[path |-> path, content |-> rewritten]>>

(* A file that was cut off stays one when its lines are rewritten.         *)
Rewritten(content) ==
  IF content.is = "whole" THEN Whole(Append(content.rewrites, sed.run)) ELSE TornFile

(* sed_replace(): file has precedence over directory.                      *)
StartRun(scope, backup) ==
  /\ sed.pc = "done" /\ sed.run < MaxSedRuns
  /\ sed' = [run |-> sed.run + 1, pc |-> "walking", scope |-> scope, backup |-> backup,
             before |-> disk[0], visited |-> {}, writes |-> <<>>, clean |-> TRUE]
  /\ UNCHANGED disk

(* The walk has the files of the directory in any order, those it creates  *)
(* itself perhaps among them.                                              *)
MayVisit(p) ==
  /\ sed.pc = "walking" /\ p \notin sed.visited /\ disk[p] # NoFile
  /\ sed.scope = "file" => p = 0

(* Excluded, too large, without a match, or a dry run.                     *)
Pass(p) ==
  /\ MayVisit(p)
  /\ sed' = [sed EXCEPT !.visited = @ \cup {p}]
  /\ UNCHANGED disk

ReplaceInFile(p) ==
  /\ MayVisit(p) /\ (sed.backup => p < LongestChain)
  /\ sed' = [sed EXCEPT !.visited = @ \cup {p}, !.pc = "writing",
               !.writes = Writes(p, disk[p], Rewritten(disk[p]), sed.backup)]
  /\ UNCHANGED disk

WriteNext ==
  /\ sed.pc = "writing"
  /\ disk' = [disk EXCEPT ![Head(sed.writes).path] = Head(sed.writes).content]
  /\ sed' = [sed EXCEPT !.writes = Tail(@),
                        !.pc = IF Len(sed.writes) = 1 THEN "walking" ELSE @]

(* A write fails, before or after it truncated: replace_in_file() returns  *)
(* the error, which ends the call for a file; a directory's walk goes on.  *)
WriteFails ==
  /\ sed.pc = "writing"
  /\ disk' \in {disk, [disk EXCEPT ![Head(sed.writes).path] = TornFile]}
  /\ sed' = [sed EXCEPT !.writes = <<>>, !.clean = FALSE,
                        !.pc = IF sed.scope = "file" THEN "done" ELSE "walking"]

(* The pool kills its server, here in the middle of a write.               *)
Killed ==
  /\ sed.pc \in {"walking", "writing"}
  /\ sed' = [sed EXCEPT !.pc = "done", !.writes = <<>>, !.clean = FALSE]
  /\ IF sed.pc = "writing" THEN disk' = [disk EXCEPT ![Head(sed.writes).path] = TornFile]
                           ELSE UNCHANGED disk

(* The walk is over, or its time is: both are reported as a success.       *)
Finish ==
  /\ sed.pc = "walking"
  /\ sed.scope = "file" => 0 \in sed.visited
  /\ sed' = [sed EXCEPT !.pc = "done"]
  /\ UNCHANGED disk

Next ==
  \/ \E scope \in {"file", "directory"}, backup \in BOOLEAN : StartRun(scope, backup)
  \/ \E p \in Paths : Pass(p) \/ ReplaceInFile(p)
  \/ WriteNext \/ WriteFails \/ Killed \/ Finish

Spec == Init /\ [][Next]_sedVars

------------------------------------------------------------------------------
SedTypeOK ==
  /\ \A p \in Paths : disk[p].is \in {"whole", "torn", "absent"}
  /\ sed.run \in 0..MaxSedRuns /\ sed.pc \in {"walking", "writing", "done"}
  /\ sed.visited \subseteq Paths /\ (sed.pc = "writing" <=> sed.writes # <<>>)

(* With backup, what the file held before the run is whole on the disk at  *)
(* every moment of the run and after it, in the file or in one of its      *)
(* backups: though the run's walk comes to the backups it makes and        *)
(* rewrites them too, though it overwrites the backups of earlier runs,    *)
(* and whichever write fails or is cut off (sed.rs 101-117).               *)
OriginalSurvives ==
  sed.backup => sed.before.is # "whole" \/ \E p \in Paths : disk[p] = sed.before

(* search.ts 78, "Create .bak backup before modifying": after a run in     *)
(* which no write failed and which changed the file, the .bak file is what *)
(* the file was.                                                           *)
BakIsTheBackup ==
  sed.pc = "done" /\ sed.clean /\ sed.backup /\ disk[0] # sed.before => disk[1] = sed.before
==============================================================================
