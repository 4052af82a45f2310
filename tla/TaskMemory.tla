----------------------------- MODULE TaskMemory -----------------------------
(***************************************************************************)
(* The memory of the parallel tasks: records taken from an ObjectPool      *)
(* (core/pool), kept in the TaskStore (core/agents/task-store.ts) under    *)
(* their id, held by the loop that executes the task, and given back by    *)
(* the store's garbage collection, which awaits an archive in between.     *)
(***************************************************************************)
EXTENDS Naturals, Sequences, FiniteSets, SequencesExt

CONSTANTS
  TaskIds,         \* tasks that are ever launched: 1, 2, ...
  MaxSize,         \* of the pool: 200
  MaxTasks,        \* MAX_TASKS_IN_MEMORY: 1000
  MaxRetries,      \* bound: retries of all prompts together
  MaxGcs           \* bound: gcs that await an archive at a time

VARIABLES
  mem,             \* store and pool: tasks, record, available, inUse
  execution,       \* executeBackground() of each task, and its record
  retries,
  gcs              \* the ids each waiting gc is going to remove

memoryVars == <<mem, execution, retries, gcs>>

(* One record per task is enough; 0 is no record, and the id "" of a reset *)
(* record.  age: since completedAt, in ERROR_CLEANUP_AGE and ARCHIVE_AGE.  *)
Records == TaskIds
Blank == [id |-> 0, status |-> "pending", age |-> 0]

Put(m, r, record) == [m EXCEPT !.record[r] = record]

-----------------------------------------------------------------------------
(* TaskStore                                                               *)
Stored(m) == { i \in {0} \cup TaskIds : m.tasks[i] # 0 }
Delete(m, i) == [m EXCEPT !.tasks[i] = 0]
Has(m, i, status, age) ==
  m.tasks[i] # 0 /\ m.record[m.tasks[i]].status = status /\ m.record[m.tasks[i]].age >= age

ToArchive(m) == { i \in Stored(m) : Has(m, i, "completed", 2) }
ToRemove(m) == ToArchive(m) \cup { i \in Stored(m) : Has(m, i, "error", 1) }

(* Mutant of InUse: nobody asks whether the object was given back before.  *)
InUseAlways(m, given, k) == TRUE

(* release() of the records of given, a sequence of ids: the k-th is still *)
(* in use when its turn comes.                                             *)
InUse(m, given, k) == m.tasks[given[k]] \in m.inUse \ { m.tasks[given[j]] : j \in 1 .. (k - 1) }

(* Sequences of the ids that give a record back, of those that are removed:*)
(* the store's order may be any.                                           *)
GivenBack(m, ids) ==
  LET held == ids \cap Stored(m)
  IN  {given \in UNION { SetToSeqs(some) : some \in SUBSET held } :
         /\ \A k \in DOMAIN given : InUse(m, given, k)
         /\ \A i \in held \ ToSet(given) : ~InUse(m, Append(given, i), Len(given) + 1)}

(* Records are reset, and dropped when the pool is full.                   *)
Capped(seq) == SubSeq(seq, 1, IF Len(seq) < MaxSize THEN Len(seq) ELSE MaxSize)
Collected(m, ids, given) ==
  LET records == [k \in DOMAIN given |-> m.tasks[given[k]]]
  IN  [tasks |-> [i \in {0} \cup TaskIds |-> IF i \in ids THEN 0 ELSE m.tasks[i]],
       record |-> [r \in Records |-> IF r \in ToSet(records) THEN Blank ELSE m.record[r]],
       available |-> Capped(m.available \o records),
       inUse |-> m.inUse \ ToSet(records)]

Removed(m, ids) == { Collected(m, ids, given) : given \in GivenBack(m, ids) }

(* set(): the gc it may start goes on by itself if it has to archive.      *)
Set(m, i, r) ==
  LET n == [m EXCEPT !.tasks[i] = r]
      over == Cardinality(Stored(n)) > MaxTasks
  IN  IF over /\ ToArchive(n) # {}
        THEN \E g \in DOMAIN gcs :
               gcs[g] = {} /\ gcs' = [gcs EXCEPT ![g] = ToRemove(n)] /\ mem' = n
        ELSE mem' \in (IF over THEN Removed(n, ToRemove(n)) ELSE {n}) /\ UNCHANGED gcs

Archived(g) ==
  /\ gcs[g] # {}
  /\ mem' \in Removed(mem, gcs[g])
  /\ gcs' = [gcs EXCEPT ![g] = {}]
  /\ UNCHANGED <<execution, retries>>

-----------------------------------------------------------------------------
(* The pool is prewarmed with one record.                                  *)
Init ==
  /\ mem = [tasks |-> [i \in {0} \cup TaskIds |-> 0], record |-> [r \in Records |-> Blank],
            available |-> <<1>>, inUse |-> {}]
  /\ execution = [i \in TaskIds |-> [pc |-> "new", r |-> 0]]
  /\ retries = 0
  /\ gcs = [g \in 1 .. MaxGcs |-> {}]

(* prepareTask(): acquire() pops a record or makes one.                    *)
Unmade == Records \ (ToSet(mem.available) \cup mem.inUse \cup {1} \cup { execution[i].r : i \in TaskIds })

Prepare(i) ==
  /\ \A j \in TaskIds : execution[j].pc = "new" <=> j >= i
  /\ \E r \in IF mem.available # <<>> THEN {Last(mem.available)} ELSE Unmade :
       LET taken == [mem EXCEPT !.available = IF @ = <<>> THEN @ ELSE Front(@),
                                !.inUse = @ \cup {r}]
       IN  /\ Set(Put(taken, r, [mem.record[r] EXCEPT !.id = i, !.status = "pending"]), i, r)
           /\ execution' = [execution EXCEPT ![i] = [pc |-> "waiting", r |-> r]]
  /\ UNCHANGED retries

(* executeBackground(): a loop that holds its record through its awaits,   *)
(* and stores it under the id it finds in it.                              *)
Prompts(i) ==
  /\ execution[i].pc \in {"waiting", "backoff"}
  /\ LET r == execution[i].r
     IN  Set(Put(mem, r, [mem.record[r] EXCEPT !.status = "running"]), mem.record[r].id, r)
  /\ execution' = [execution EXCEPT ![i].pc = "prompting"]
  /\ UNCHANGED retries

Answered(i) ==
  /\ execution[i].pc = "prompting"
  /\ execution' = [execution EXCEPT ![i].pc = "over"]
  /\ UNCHANGED <<mem, retries, gcs>>

Retries(i) ==
  /\ execution[i].pc = "prompting" /\ retries < MaxRetries
  /\ retries' = retries + 1
  /\ execution' = [execution EXCEPT ![i].pc = "backoff"]
  /\ UNCHANGED <<mem, gcs>>

(* A task ends: completed or as an error.             *)
Ends(i, status) ==
  /\ Has(mem, i, "running", 0)
  /\ mem' = Put(mem, mem.tasks[i], [mem.record[mem.tasks[i]] EXCEPT !.status = status, !.age = 0])
  /\ UNCHANGED <<execution, retries, gcs>>

CleanupTimer(i) ==
  /\ Has(mem, i, "completed", 1) \/ Has(mem, i, "error", 1)
  /\ mem' = Delete(mem, i)
  /\ UNCHANGED <<execution, retries, gcs>>

Ages(r) ==
  /\ \/ mem.record[r].status = "completed" /\ mem.record[r].age < 2
     \/ mem.record[r].status = "error" /\ mem.record[r].age < 1
  /\ mem' = Put(mem, r, [mem.record[r] EXCEPT !.age = @ + 1])
  /\ UNCHANGED <<execution, retries, gcs>>

Next ==
  \/ \E i \in TaskIds : Prepare(i) \/ Prompts(i) \/ Answered(i) \/ Retries(i) \/ CleanupTimer(i)
  \/ \E i \in TaskIds, status \in {"completed", "error"} : Ends(i, status)
  \/ \E r \in Records : Ages(r)
  \/ \E g \in DOMAIN gcs : Archived(g)

Spec == Init /\ [][Next]_memoryVars

-----------------------------------------------------------------------------
MemoryTypeOK ==
  /\ \A i \in {0} \cup TaskIds : mem.tasks[i] \in {0} \cup Records
  /\ mem.inUse \subseteq Records /\ ToSet(mem.available) \subseteq Records
  /\ \A r \in Records : mem.record[r].status \in {"pending", "running", "completed", "error"}

(* No record is handed out twice: overlapping gcs, records that are stored *)
(* under two ids, and loops that go on writing to a record that was given  *)
(* back and taken anew leave it once in the pool, or in use.               *)
HandedOutOnce ==
  IsInjective(mem.available) /\ ToSet(mem.available) \cap mem.inUse = {}
=============================================================================
