------------------------------ MODULE TodoFile ------------------------------
(***************************************************************************)
(* Writers and the reader of .opencode/todo.md: TodoManager (core/todo),   *)
(* through which update_todo changes single items under a version file,    *)
(* agents, which edit the file directly, and TodoSyncService (core/sync),  *)
(* which watches it.  Calls of one OpenCode process queue behind a         *)
(* promise; every await is a step.                                         *)
(***************************************************************************)
EXTENDS Naturals, Sequences, FiniteSets

CONSTANTS
  Calls,           \* calls of updateItem() and addSubTask()
  Job,             \* what each call asks for: see Wanted
  Process,         \* the process each call runs in
  Items,           \* what the file may list
  Listed,          \* what it lists at first
  Tries,           \* of updateItem() and addSubTask(): 5
  Attempts,        \* MAX_RETRIES of one update: 3
  MaxFailures,     \* bound: failing file operations and crashes
  MaxReloads       \* bound: reloads of TodoSyncService under way at once

Statuses == {"absent", "pending", "progress", "completed", "failed"}

VARIABLES
  todoMd,          \* the file: the status of each item it lists, or "absent"
  inode,           \* counts the files that have been at its path
  version,         \* what todo.version.json says, 0 if it cannot be read
  mutex,           \* updateMutex: the queued updates of each process
  call,            \* where each call stands
  failures,
  sync             \* TodoSyncService

diskVars == <<todoMd, inode, version>>
todoVars == <<todoMd, inode, version, mutex, call, failures, sync>>

Processes == { Process[c] : c \in Calls }

(* updateItem(item, status) or addSubTask(parent, item), whose new line is *)
(* pending; a call that finds no line for its text leaves the file as it is. *)
Wanted(c) == Job[c].status
Applies(c, content) == content[Job[c].under] # "absent"
Updater(c, content) ==
  IF Applies(c, content) THEN [content EXCEPT ![Job[c].item] = Wanted(c)] ELSE content

At(c, pc) == call[c].pc = pc
Moves(c, to) == call' = [call EXCEPT ![c] = to]

(* The locals of an update, gone when it is over.                          *)
Nothing == [i \in Items |-> "absent"]
Over(c, pc) == [call[c] EXCEPT !.pc = pc, !.attempts = 0, !.expected = 0, !.content = Nothing]

(* Mutant of Noticed: a change that comes during a reload starts no timer. *)
NoticedWhenIdle(onInode) ==
  [sync EXCEPT !.timer = @ \/ (onInode = sync.inode /\ sync.reloads = {})]

(* The watcher follows the inode it was started on; a change restarts the  *)
(* 500ms timer whose reload opens the path.                                *)
Noticed(onInode) == [sync EXCEPT !.timer = @ \/ onInode = sync.inode]

Init ==
  /\ todoMd = [i \in Items |-> IF i \in Listed THEN "pending" ELSE "absent"]
  /\ inode = 1 /\ version = 0
  /\ mutex = [p \in Processes |-> <<>>]
  /\ call = [c \in Calls |->
       [pc |-> "new", tries |-> Tries, attempts |-> 0, expected |-> 0,
        content |-> Nothing, hit |-> FALSE, blind |-> FALSE]]
  /\ failures = 0
  /\ sync = [inode |-> 1, timer |-> FALSE, reloads |-> {}, last |-> 0, from |-> 0, seen |-> todoMd]

-----------------------------------------------------------------------------
FileFails == failures < MaxFailures /\ failures' = failures + 1

(* updateItem(), addSubTask(): read the version, then queue the update.  A *)
(* file that cannot be read counts as empty, and its version as 0.         *)
Begin(c) ==
  /\ At(c, "new")
  /\ call[c].tries > 0
  /\ \E found \in {version, 0} :
       /\ Moves(c, [call[c] EXCEPT !.pc = "queued", !.tries = @ - 1,
                                   !.attempts = 0, !.expected = found])
       /\ IF found = version THEN UNCHANGED failures ELSE FileFails
  /\ mutex' = [mutex EXCEPT ![Process[c]] = Append(@, c)]
  /\ UNCHANGED <<diskVars, sync>>

GivesUp(c) ==
  /\ At(c, "new")
  /\ call[c].tries = 0
  /\ Moves(c, [call[c] EXCEPT !.pc = "failed"])
  /\ UNCHANGED <<diskVars, mutex, failures, sync>>

(* Mutant of MyTurn: updates of one process do not wait for each other.    *)
AnyTurn(c) == At(c, "queued")

MyTurn(c) == At(c, "queued") /\ Head(mutex[Process[c]]) = c

(* The first of the queue is over; the promise of the next one goes on.    *)
LeavesMutex(c) == mutex' = [mutex EXCEPT ![Process[c]] = Tail(@)]

(* _internalUpdate()                                                       *)
ReadContent(c) ==
  /\ MyTurn(c)
  /\ Moves(c, [call[c] EXCEPT !.pc = "reading", !.content = todoMd, !.blind = FALSE])
  /\ UNCHANGED <<diskVars, mutex, failures, sync>>

Conflict(c) ==
  /\ At(c, "reading")
  /\ version # call[c].expected
  /\ Moves(c, Over(c, "new"))
  /\ LeavesMutex(c)
  /\ UNCHANGED <<diskVars, failures, sync>>

Prepare(c) ==
  /\ At(c, "reading")
  /\ version = call[c].expected
  /\ Moves(c, [call[c] EXCEPT !.pc = "writing", !.hit = Applies(c, call[c].content),
                              !.content = Updater(c, call[c].content)])
  /\ UNCHANGED <<diskVars, mutex, failures, sync>>

(* The file cannot be read: where version 0 is expected, the updater gets  *)
(* an empty list, and what it returns is written.                          *)
ReadFails(c) ==
  /\ MyTurn(c)
  /\ FileFails
  /\ IF call[c].expected # 0
       THEN Moves(c, Over(c, "new")) /\ LeavesMutex(c)
       ELSE /\ Moves(c, [call[c] EXCEPT !.pc = "writing", !.hit = Applies(c, Nothing),
                                        !.content = Updater(c, Nothing), !.blind = TRUE])
            /\ UNCHANGED mutex
  /\ UNCHANGED <<diskVars, sync>>

(* The temporary file is there; the version file is truncated first, and   *)
(* one that cannot be parsed reads as version 0.                           *)
TruncateVersion(c) ==
  /\ At(c, "writing")
  /\ Moves(c, [call[c] EXCEPT !.pc = "stamping"])
  /\ version' = 0
  /\ UNCHANGED <<todoMd, inode, mutex, failures, sync>>

WriteVersion(c) ==
  /\ At(c, "stamping")
  /\ Moves(c, [call[c] EXCEPT !.pc = "renaming"])
  /\ version' = call[c].expected + 1
  /\ UNCHANGED <<todoMd, inode, mutex, failures, sync>>

Rename(c) ==
  /\ At(c, "renaming")
  /\ todoMd' = call[c].content /\ inode' = inode + 1
  /\ sync' = Noticed(inode)
  /\ Moves(c, Over(c, "done"))
  /\ LeavesMutex(c)
  /\ UNCHANGED <<version, failures>>

(* A write fails; after three attempts the caller gets the error.          *)
OperationFails(c) ==
  /\ call[c].pc \in {"writing", "stamping", "renaming"}
  /\ FileFails
  /\ IF call[c].attempts = Attempts - 1
       THEN Moves(c, Over(c, "threw")) /\ LeavesMutex(c)
       ELSE /\ Moves(c, [call[c] EXCEPT !.pc = "queued", !.attempts = @ + 1, !.content = Nothing])
            /\ UNCHANGED mutex
  /\ UNCHANGED <<diskVars, sync>>

(* The process dies with its calls, whatever they had written.             *)
Crash(p) ==
  /\ FileFails
  /\ mutex' = [mutex EXCEPT ![p] = <<>>]
  /\ call' = [c \in Calls |->
       IF Process[c] = p /\ call[c].pc \notin {"done", "failed", "threw"}
         THEN Over(c, "threw") ELSE call[c]]
  /\ UNCHANGED <<diskVars, sync>>

-----------------------------------------------------------------------------
(* An agent takes up or completes an item with its own edit tool, in place. *)
AgentEdits(i) ==
  /\ todoMd[i] \in {"pending", "progress"} /\ \A c \in Calls : Job[c].item # i
  /\ todoMd' = [todoMd EXCEPT ![i] = IF @ = "pending" THEN "progress" ELSE "completed"]
  /\ sync' = Noticed(inode)
  /\ UNCHANGED <<inode, version, mutex, call, failures>>

(* TodoSyncService: its timer fires and begins a reload, the last one so   *)
(* far, whether or not earlier ones are under way.                         *)
Unread == <<>>
TimerFires ==
  /\ sync.timer /\ Cardinality(sync.reloads) < MaxReloads
  /\ sync' = [sync EXCEPT !.timer = FALSE, !.last = @ + 1,
                          !.reloads = @ \cup {[number |-> sync.last + 1, read |-> Unread]}]
  /\ UNCHANGED <<diskVars, mutex, call, failures>>

(* reloadFileTodos(): the file at the path is read; what was read is kept, *)
(* whatever reload seen came from before.  No session is told.             *)
ReloadReads(r) ==
  /\ r.read = Unread
  /\ sync' = [sync EXCEPT !.reloads = (@ \ {r}) \cup {[r EXCEPT !.read = <<todoMd>>]}]
  /\ UNCHANGED <<diskVars, mutex, call, failures>>

Reloaded(r) ==
  /\ r.read # Unread
  /\ sync' = [sync EXCEPT !.reloads = @ \ {r}, !.from = r.number, !.seen = Head(r.read)]
  /\ UNCHANGED <<diskVars, mutex, call, failures>>

(* The file cannot be opened or read: that is logged, and seen stays.      *)
ReloadFails(r) ==
  /\ r.read = Unread
  /\ FileFails
  /\ sync' = [sync EXCEPT !.reloads = @ \ {r}]
  /\ UNCHANGED <<diskVars, mutex, call>>

CallStep(c) ==
  \/ Begin(c) \/ GivesUp(c) \/ ReadContent(c) \/ Conflict(c) \/ Prepare(c)
  \/ TruncateVersion(c) \/ WriteVersion(c) \/ Rename(c)

Next ==
  \/ \E c \in Calls : CallStep(c) \/ ReadFails(c) \/ OperationFails(c)
  \/ \E p \in Processes : Crash(p)
  \/ \E i \in Items : AgentEdits(i)
  \/ TimerFires
  \/ \E r \in sync.reloads : ReloadReads(r) \/ Reloaded(r) \/ ReloadFails(r)

Spec == Init /\ [][Next]_todoVars

-----------------------------------------------------------------------------
TodoTypeOK ==
  /\ todoMd \in [Items -> Statuses]
  /\ version \in Nat
  /\ \A p \in Processes : \A i \in DOMAIN mutex[p] : Process[mutex[p][i]] = p

Alone(c) == \A d \in Calls : Process[d] = Process[c]
Reported(c) == At(c, "done") /\ call[c].hit
ReportedOf(item) == { Wanted(c) : c \in { d \in Calls : Reported(d) /\ Job[d].item = item } }
NoneBlind == \A c \in Calls : At(c, "done") => ~call[c].blind

(* MVCC and mutex together: an update that was reported as made is in the  *)
(* file, or a later one of that item is, though other updates of the       *)
(* process were read, written, failed and retried around it; and a crash   *)
(* at any point leaves a file that some update wrote whole.  All of it     *)
(* unless an update was written over a file that could not be read.        *)
ReportedUpdatesStay ==
  NoneBlind =>
    /\ \A c \in Calls : Reported(c) /\ Alone(c) => todoMd[Job[c].item] \in ReportedOf(Job[c].item)
    /\ \A i \in Listed : todoMd[i] # "absent"

(* The debounced watcher misses no change of the file it watches: however *)
(* reloads overlap and changes fall between their reads, once no timer is  *)
(* set the last reload has read, or will read, the last change.  (It       *)
(* follows the inode, and is deaf once an update has replaced the file.)   *)
SyncSeesLastChange ==
  ~sync.timer /\ inode = sync.inode =>
    /\ \A r \in sync.reloads : r.number = sync.last /\ r.read # Unread => r.read = <<todoMd>>
    /\ sync.from = sync.last => sync.seen = todoMd

(* What it knows when all is quiet may be older: the last read may fail,   *)
(* and an earlier reload may end after the last one.                       *)
SyncSettles ==
  ~sync.timer /\ inode = sync.inode /\ sync.reloads = {} => sync.seen = todoMd
=============================================================================
