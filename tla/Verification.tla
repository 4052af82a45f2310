---------------------------- MODULE Verification ----------------------------
(***************************************************************************)
(* What decides that a mission is done (core/loop/verification.ts): the    *)
(* verification checklist if it has items, else .opencode/todo.md, and in  *)
(* either case the sync issues file.  Both loops and the done hook ask it. *)
(* A file is the sequence of its lines, and a line what the patterns can   *)
(* tell of it; a file that is missing reads as an empty one, and so does a *)
(* sync issues file that cannot be read.                                   *)
(***************************************************************************)
EXTENDS Naturals, Sequences

CONSTANTS
  TodoLines,       \* lines an agent or update_todo writes to todo.md
  ChecklistLines,  \* and to the checklist
  SyncLines,       \* and to sync-issues.md
  MaxLines         \* bound: lines of a file

VARIABLES
  todoFile, checklistFile, syncFile,
  lastIndex,       \* where the global patterns of SYNC_ISSUE_PATTERNS stopped
  verdict          \* the last result, or NoVerdict

files == <<todoFile, checklistFile, syncFile>>
verificationVars == <<todoFile, checklistFile, syncFile, lastIndex, verdict>>

(* An item of todo.md: "- [ ] ..." with a marker, a bullet, an indentation. *)
TodoLine(mark, star, indented) == [mark |-> mark, star |-> star, indented |-> indented]

Marked(file, marks) == { i \in DOMAIN file : file[i].mark \in marks }

-----------------------------------------------------------------------------
(* The patterns of the todo file want the bullet in the first column.      *)
InFirstColumn(todo, mark) == { i \in Marked(todo, {mark}) : ~todo[i].indented }

TodoComplete(todo) ==
  InFirstColumn(todo, "open") = {} /\ InFirstColumn(todo, "done") # {}

(* The checklist is trimmed line by line; a line that is no item counts    *)
(* for nothing.                                                            *)
ParseChecklist(checklist) == Marked(checklist, {"open", "done"})

HasChecklist(checklist) == ParseChecklist(checklist) # {}

ChecklistComplete(checklist) ==
  /\ HasChecklist(checklist)
  /\ \A i \in ParseChecklist(checklist) : checklist[i].mark = "done"

-----------------------------------------------------------------------------
(* SYNC_ISSUE_PATTERNS are global regular expressions, and test() starts   *)
(* where the last match ended: lastIndex counts the lines left behind.     *)
(* One keyword stands for ERROR, FAIL and CONFLICT.                        *)
Patterns == {"bullet", "keyword"}
Matches(pattern, line) ==
  \/ pattern = "bullet"  /\ line \in {"issue", "errorIssue"}
  \/ pattern = "keyword" /\ line \in {"errorIssue", "errorHeading"}

Hits(sync, pattern, from) ==
  { i \in DOMAIN sync : i > from /\ Matches(pattern, sync[i]) }

Tested(sync, pattern, last) ==
  LET hits == Hits(sync, pattern, last[pattern])
  IN  [last EXCEPT ![pattern] =
        IF hits = {} THEN 0 ELSE CHOOSE i \in hits : \A j \in hits : i <= j]

(* No line, or the title alone, is no issue and tests nothing.             *)
Clean(sync) == sync \in {<<>>, <<"title">>}

AfterBullet(sync, last) == Tested(sync, "bullet", last)
AfterTests(sync, last) ==
  CASE Clean(sync) -> last
    [] ~Clean(sync) /\ AfterBullet(sync, last)["bullet"] > 0 -> AfterBullet(sync, last)
    [] OTHER -> Tested(sync, "keyword", AfterBullet(sync, last))

Plain(line) == line \notin {"title", "errorHeading", "heading"}

(* Mutant of HasRealSyncIssues: without the count of plain lines at its end. *)
HasMatchingIssues(sync, last) ==
  ~Clean(sync) /\ \E p \in Patterns : Hits(sync, p, last[p]) # {}

HasRealSyncIssues(sync, last) ==
  /\ ~Clean(sync)
  /\ \/ \E p \in Patterns : Hits(sync, p, last[p]) # {}
     \/ \E i \in DOMAIN sync : Plain(sync[i])

-----------------------------------------------------------------------------
Passed(todo, checklist, sync, last) ==
  /\ IF HasChecklist(checklist) THEN ChecklistComplete(checklist) ELSE TodoComplete(todo)
  /\ ~HasRealSyncIssues(sync, last)

(* What the agent is told to finish when the verdict is no.                *)
Reminder(checklist) == IF HasChecklist(checklist) THEN "checklist" ELSE "todo"

NoVerdict == [passed |-> FALSE, reminder |-> "none"]

Verify ==
  /\ lastIndex' = AfterTests(syncFile, lastIndex)
  /\ verdict' =
       IF Passed(todoFile, checklistFile, syncFile, lastIndex)
         THEN [passed |-> TRUE, reminder |-> "none"]
         ELSE [passed |-> FALSE, reminder |-> Reminder(checklistFile)]
  /\ UNCHANGED files

(* An agent or update_todo adds a line, or the file is begun anew.         *)
Rewritten(file, lines) ==
  { Append(file, l) : l \in { x \in lines : Len(file) < MaxLines } } \cup {<<>>}

Edit ==
  /\ verdict' = NoVerdict
  /\ UNCHANGED lastIndex
  /\ \/ /\ todoFile' \in Rewritten(todoFile, TodoLines)
        /\ UNCHANGED <<checklistFile, syncFile>>
     \/ /\ checklistFile' \in Rewritten(checklistFile, ChecklistLines)
        /\ UNCHANGED <<todoFile, syncFile>>
     \/ /\ syncFile' \in Rewritten(syncFile, SyncLines)
        /\ UNCHANGED <<todoFile, checklistFile>>

Init ==
  /\ todoFile = <<>> /\ checklistFile = <<>> /\ syncFile = <<>>
  /\ lastIndex = [p \in Patterns |-> 0]
  /\ verdict = NoVerdict

Next == Verify \/ Edit
Spec == Init /\ [][Next]_verificationVars

-----------------------------------------------------------------------------
(* The other readers of these files.  parseTodoMd (core/sync/todo-parser)  *)
(* reads dash items at any indentation, and isMissionComplete (stats.ts)   *)
(* counts as open what is neither completed nor cancelled.                 *)
Status(mark) ==
  CASE mark = "done" -> "completed"
    [] mark = "progress" -> "in_progress"
    [] mark = "failed" -> "cancelled"
    [] OTHER -> "pending"

ParseTodoMd(todo) ==      \* the todos, by the line of each
  [i \in { j \in DOMAIN todo : ~todo[j].star } |-> Status(todo[i].mark)]

Incomplete(todos) == { i \in DOMAIN todos : todos[i] \notin {"completed", "cancelled"} }

HasRemainingWork(todos) == Incomplete(todos) # {}
IsMissionComplete(todos) == DOMAIN todos # {} /\ ~HasRemainingWork(todos)

(* Whatever the global patterns remember of earlier calls, a verdict never *)
(* passes over a line of the sync file that is not a heading, nor over an  *)
(* item of the checklist that is not checked; nor, without a checklist,    *)
(* over what the other reader finds open in the plain list both were       *)
(* written for (dashes in the first column, open or done).                 *)
NothingOpenPasses ==
  verdict.passed =>
    /\ \A i \in DOMAIN syncFile : ~Plain(syncFile[i])
    /\ \A i \in DOMAIN checklistFile : checklistFile[i].mark # "open"
    /\ \/ HasChecklist(checklistFile)
       \/ \E i \in DOMAIN todoFile :
            todoFile[i].star \/ todoFile[i].indented \/ todoFile[i].mark \notin {"open", "done"}
       \/ IsMissionComplete(ParseTodoMd(todoFile))

(* "complete ALL [ ] items before concluding": a mission without checklist *)
(* is not concluded over an open item of todo.md.  The patterns only see   *)
(* the first column, and sub-tasks are indented.                           *)
ConcludedMeansDone ==
  verdict.passed /\ ~HasChecklist(checklistFile)
    => \A i \in DOMAIN todoFile : todoFile[i].mark # "open"
=============================================================================
