------------------------ MODULE ParallelTasks_proofs ------------------------
(***************************************************************************)
(* Proofs about the background tasks of one parent, for any tasks, limits, *)
(* error kinds, interruptions and calls of cleanup().                      *)
(*                                                                         *)
(* The steps of a task are made of steps of its concurrency key, several   *)
(* of them at once where a release and a report, or two releases, happen   *)
(* without an await between them.  What is proved of the key is taken from *)
(* ConcurrencyController_proofs through an instance of it.                 *)
(***************************************************************************)
EXTENDS ParallelTasks, FiniteSetTheorems, TLAPS

KeyProofs == INSTANCE ConcurrencyController_proofs
               WITH Callers <- Tasks, AskedPriorities <- {1}, DirectReleases <- TRUE

-----------------------------------------------------------------------------
(* The two instances of the key are the same.                              *)

LEMMA SameFiniteness == \A S : KeyProofs!IsFiniteSet(S) <=> IsFiniteSet(S)
BY DEF KeyProofs!IsFiniteSet, IsFiniteSet

LEMMA SameCardinality == Slots!Cardinality(holders) = Cardinality(holders)
                         /\ KeyProofs!Cardinality(holders) = Cardinality(holders)
BY Zenon DEF Slots!Cardinality, KeyProofs!Cardinality, Cardinality

LEMMA KeyAssumed == KeyProofs!ControllerAssumption
BY TasksAssumption, SameFiniteness
DEF KeyProofs!ControllerAssumption, KeyProofs!Priorities, KeyProofs!HIGH,
    KeyProofs!NORMAL, KeyProofs!LOW

LEMMA SameTypes ==
  /\ Slots!TypeOK <=> KeyProofs!TypeOK
  /\ Slots!TypeOK' <=> KeyProofs!TypeOK'
BY DEF Slots!TypeOK, Slots!Waiters, Slots!Circuits, Slots!Priorities, Slots!HIGH,
       Slots!NORMAL, Slots!LOW, KeyProofs!TypeOK, KeyProofs!Waiters,
       KeyProofs!Circuits, KeyProofs!Priorities, KeyProofs!HIGH, KeyProofs!NORMAL,
       KeyProofs!LOW

LEMMA SameQueued == Slots!Queued = KeyProofs!Queued /\ Slots!Queued' = KeyProofs!Queued'
BY Zenon DEF Slots!Queued, KeyProofs!Queued, Slots!ToSet, KeyProofs!ToSet

LEMMA SameRelease ==
  ASSUME NEW L PROVE Slots!ReleaseSlotOf(L) <=> KeyProofs!ReleaseSlotOf(L)
BY DEF Slots!ReleaseSlotOf, KeyProofs!ReleaseSlotOf, Slots!Unlimited, KeyProofs!Unlimited

LEMMA SameReport ==
  ASSUME NEW b PROVE Slots!ReportResult(b) <=> KeyProofs!ReportResult(b)
BY DEF Slots!ReportResult, Slots!ReportSuccess, Slots!ReportFailure,
       Slots!CircuitAfterSuccess, Slots!CircuitAfterFailure, Slots!ClosedCircuit,
       Slots!Saturate, Slots!Unlimited,
       KeyProofs!ReportResult, KeyProofs!ReportSuccess, KeyProofs!ReportFailure,
       KeyProofs!CircuitAfterSuccess, KeyProofs!CircuitAfterFailure,
       KeyProofs!ClosedCircuit, KeyProofs!Saturate, KeyProofs!Unlimited

LEMMA SameTimeout ==
  ASSUME NEW t PROVE Slots!WaiterTimeout(t) <=> KeyProofs!WaiterTimeout(t)
BY DEF Slots!WaiterTimeout, Slots!RemoveAt, Slots!feedback,
       KeyProofs!WaiterTimeout, KeyProofs!RemoveAt, KeyProofs!feedback

LEMMA SameAcquire ==
  ASSUME NEW t, NEW p PROVE Slots!Acquire(t, p) <=> KeyProofs!Acquire(t, p)
BY SameQueued
DEF Slots!Acquire, Slots!CheckCircuit, Slots!CircuitBlocks,
    Slots!ProbingCircuit, Slots!RejectUnderPressure, Slots!GrantUncounted,
    Slots!GrantSlot, Slots!HasFreeSlot, Slots!Enqueue, Slots!InsertsAt,
    Slots!InsertAt, Slots!Unlimited, Slots!LOW, Slots!slots,
    KeyProofs!Acquire, KeyProofs!CheckCircuit, KeyProofs!CircuitBlocks,
    KeyProofs!ProbingCircuit, KeyProofs!RejectUnderPressure,
    KeyProofs!GrantUncounted, KeyProofs!GrantSlot, KeyProofs!HasFreeSlot,
    KeyProofs!Enqueue, KeyProofs!InsertsAt, KeyProofs!InsertAt,
    KeyProofs!Unlimited, KeyProofs!LOW, KeyProofs!slots

LEMMA SameSettings ==
  /\ Slots!SetLimit <=> KeyProofs!SetLimit
  /\ Slots!WindowElapses <=> KeyProofs!WindowElapses
BY DEF Slots!SetLimit, Slots!WindowElapses, Slots!slots,
       KeyProofs!SetLimit, KeyProofs!WindowElapses, KeyProofs!slots

-----------------------------------------------------------------------------
(* The key under the steps of tasks.                                       *)

(* What is inductive about the key: its own invariant, and where the       *)
(* executions that it knows stand.                                         *)
KeyInv == Slots!TypeOK /\ KeyProofs!SlotInv /\ TokensFollowExecution

(* A step leaves the key sound and ends the stay of the calls in gone.     *)
KeyKept(gone) ==
  Slots!TypeOK' /\ KeyProofs!SlotInv' /\ KeyProofs!OnlyLeave(gone)

LEMMA Known == KeyProofs!Known = holders \cup Slots!Queued
BY SameQueued DEF KeyProofs!Known

LEMMA NothingMoves ==
  ASSUME KeyInv, UNCHANGED controller
  PROVE  KeyKept({})
<1>1. UNCHANGED <<count, queue, limit, holders, circuit, successStreak, failureStreak>>
  BY DEF controller, slots, feedback
<1>2. Slots!TypeOK'
  BY <1>1 DEF KeyInv, Slots!TypeOK
<1>3. KeyProofs!Queued' = KeyProofs!Queued
  BY <1>1 DEF KeyProofs!Queued
<1>4. KeyProofs!SlotInv'
  BY <1>1, <1>3 DEF KeyInv, KeyProofs!SlotInv, KeyProofs!UnlimitedNeverWaits,
                    KeyProofs!EachCallOnce, KeyProofs!NoSlotLeak
<1> QED
  BY <1>1, <1>2, <1>3, <1>4 DEF KeyKept, KeyProofs!OnlyLeave, KeyProofs!Known

(* The feedback part of a step: untouched, or one report.                  *)
FeedbackMoves == UNCHANGED feedback \/ \E b \in BOOLEAN : Slots!ReportResult(b)

LEMMA FeedbackKept ==
  ASSUME KeyInv, FeedbackMoves
  PROVE  /\ limit' \in Nat /\ circuit' \in KeyProofs!Circuits
         /\ successStreak' \in 0 .. ScaleUpStreak
         /\ failureStreak' \in 0 .. ScaleDownStreak
         /\ limit' = KeyProofs!Unlimited => limit = KeyProofs!Unlimited
<1>1. KeyProofs!TypeOK
  BY SameTypes DEF KeyInv
<1>2. CASE UNCHANGED feedback
  BY <1>1, <1>2 DEF feedback, KeyProofs!TypeOK
<1>3. ASSUME NEW b \in BOOLEAN, Slots!ReportResult(b)
      PROVE  /\ limit' \in Nat /\ circuit' \in KeyProofs!Circuits
             /\ successStreak' \in 0 .. ScaleUpStreak
             /\ failureStreak' \in 0 .. ScaleDownStreak
             /\ limit' = KeyProofs!Unlimited => limit = KeyProofs!Unlimited
  BY <1>1, <1>3, SameReport, KeyAssumed, KeyProofs!ReportTypes
<1> QED
  BY <1>2, <1>3 DEF FeedbackMoves

(* A release, of a token or of the key, with or without a report.          *)
LEMMA ReleaseKept ==
  ASSUME KeyInv, FeedbackMoves, NEW leaving, Slots!ReleaseSlotOf(leaving),
         leaving = {} \/ \E t \in holders : leaving = {t}
  PROVE  KeyKept(leaving)
<1>1. KeyProofs!TypeOK /\ KeyProofs!SlotInv /\ KeyProofs!ReleaseSlotOf(leaving)
  BY SameTypes, SameRelease DEF KeyInv
<1>2. KeyProofs!EachCallOnce
  BY <1>1 DEF KeyProofs!SlotInv
<1>3. KeyProofs!SlotInv'
  BY <1>1, FeedbackKept, KeyAssumed, KeyProofs!ReleaseKeepsSlotInv
<1>4. KeyProofs!OnlyLeave(leaving)
  BY <1>1, <1>2, KeyAssumed, KeyProofs!ReleaseLeaves
<1>5. count' \in Nat /\ queue' \in Seq(KeyProofs!Waiters) /\ holders' \in SUBSET Tasks
  BY <1>1, KeyAssumed, KeyProofs!ReleaseTypes
<1>6. Slots!TypeOK'
  BY <1>5, FeedbackKept, SameTypes DEF KeyProofs!TypeOK
<1> QED
  BY <1>3, <1>4, <1>6 DEF KeyKept

(* The slots stay, with or without a report.                               *)
LEMMA ReportKept ==
  ASSUME KeyInv, FeedbackMoves, UNCHANGED slots
  PROVE  KeyKept({})
<1>1. KeyProofs!TypeOK /\ KeyProofs!SlotInv
  BY SameTypes DEF KeyInv
<1>2. UNCHANGED <<count, queue, holders>>
  BY DEF slots
<1>3. Slots!TypeOK'
  BY <1>1, <1>2, FeedbackKept, SameTypes DEF KeyProofs!TypeOK
<1>4. KeyProofs!Queued' = KeyProofs!Queued
  BY <1>2 DEF KeyProofs!Queued
<1>5. KeyProofs!SlotInv'
  BY <1>1, <1>2, <1>4, FeedbackKept
  DEF KeyProofs!SlotInv, KeyProofs!UnlimitedNeverWaits, KeyProofs!EachCallOnce,
      KeyProofs!NoSlotLeak
<1> QED
  BY <1>2, <1>3, <1>4, <1>5 DEF KeyKept, KeyProofs!OnlyLeave, KeyProofs!Known

(* What ends a task does to the key: a release and a report, if the task   *)
(* still has its key.                                                      *)
LEMMA EndKept ==
  ASSUME KeyInv, NEW t \in Tasks, ReleaseIfKeyed(t), FeedbackMoves
  PROVE  KeyKept({})
BY ReleaseKept, ReportKept DEF ReleaseIfKeyed

(* The token of an execution that is over.                                 *)
LEMMA TokenKept ==
  ASSUME KeyInv, NEW t \in Tasks, ReleaseTokenOf(t), UNCHANGED feedback
  PROVE  KeyKept(IF t \in holders THEN {t} ELSE {})
<1>1. FeedbackMoves
  BY DEF FeedbackMoves
<1>2. CASE t \in holders
  BY <1>1, <1>2, ReleaseKept DEF ReleaseTokenOf
<1>3. CASE t \notin holders
  BY <1>1, <1>3, ReportKept DEF ReleaseTokenOf
<1> QED
  BY <1>2, <1>3

(* The pruner's releases.                                                  *)
LEMMA PruneKept ==
  ASSUME KeyInv, NEW n \in Nat, ReleaseKeyTimes(n), UNCHANGED feedback
  PROVE  KeyKept({})
<1>1. KeyProofs!TypeOK /\ KeyProofs!SlotInv /\ UNCHANGED limit
  BY SameTypes DEF KeyInv, feedback
<1>2. CASE limit = Slots!Unlimited
  BY <1>2, ReportKept DEF ReleaseKeyTimes, FeedbackMoves
<1>3. CASE limit # Slots!Unlimited
  <2> DEFINE woken == IF n < Len(queue) THEN n ELSE Len(queue)
  <2>1. /\ count \in Nat /\ queue \in Seq(KeyProofs!Waiters) /\ Len(queue) \in Nat
        /\ limit # KeyProofs!Unlimited
        /\ queue # <<>> => count >= 1
    BY <1>1, <1>3 DEF KeyProofs!TypeOK, KeyProofs!SlotInv, Slots!Unlimited,
                      KeyProofs!Unlimited
  <2>2. /\ woken \in 0 .. Len(queue) /\ n - woken \in Nat
        /\ woken < Len(queue) => n - woken = 0
    BY <2>1
  <2>3. /\ KeyProofs!WakesFirst(woken)
        /\ count' = IF count > n - woken THEN count - (n - woken) ELSE 0
    BY <1>3 DEF ReleaseKeyTimes, KeyProofs!WakesFirst
  <2> HIDE DEF woken
  <2>4. count' \in Nat /\ count' <= count
    BY <2>1, <2>2, <2>3
  <2>5. woken < Len(queue) => count' = count
    <3>1. woken < Len(queue) => queue # <<>>
      BY <2>1, <2>2
    <3> QED
      BY <2>1, <2>2, <2>3, <3>1
  <2>6. /\ KeyProofs!SlotInv' /\ KeyProofs!OnlyLeave({})
        /\ queue' \in Seq(KeyProofs!Waiters) /\ holders' \in SUBSET Tasks
    BY <1>1, <2>1, <2>2, <2>3, <2>4, <2>5, KeyAssumed, KeyProofs!ManyReleases
  <2>7. Slots!TypeOK'
    BY <2>4, <2>6, FeedbackKept, SameTypes DEF KeyProofs!TypeOK, FeedbackMoves
  <2> QED
    BY <2>6, <2>7 DEF KeyKept
<1> QED
  BY <1>2, <1>3

(* A wait for a slot that times out.                                       *)
LEMMA TimeoutKept ==
  ASSUME KeyInv, Slots!NeverLifted, NEW t \in Tasks, Slots!WaiterTimeout(t)
  PROVE  KeyKept({t}) /\ t \in Slots!Queued
<1>1. KeyProofs!TypeOK /\ KeyProofs!SlotInv /\ KeyProofs!WaiterTimeout(t)
  BY SameTypes, SameTimeout DEF KeyInv
<1>2. KeyProofs!EachCallOnce
  BY <1>1 DEF KeyProofs!SlotInv
<1>3. [KeyProofs!Next]_(KeyProofs!vars) /\ KeyProofs!NeverLifted
  BY <1>1 DEF KeyProofs!Next, KeyProofs!NeverLifted, Slots!NeverLifted, Slots!Unlimited,
              KeyProofs!Unlimited
<1>4. KeyProofs!SlotInv' /\ KeyProofs!TypeOK'
  BY <1>1, <1>3, KeyAssumed, KeyProofs!SlotStep, KeyProofs!TypeStep
<1>5. t \in KeyProofs!Queued /\ KeyProofs!OnlyLeave({t})
  BY <1>1, <1>2, KeyAssumed, KeyProofs!TimeoutLeaves
<1> QED
  BY <1>4, <1>5, SameTypes, SameQueued DEF KeyKept

(* An execution that asks for its slot.                                    *)
LEMMA AskKept ==
  ASSUME KeyInv, Slots!NeverLifted, NEW t \in Tasks, Slots!Acquire(t, Slots!NORMAL)
  PROVE  /\ Slots!TypeOK' /\ KeyProofs!SlotInv'
         /\ KeyProofs!Known' = KeyProofs!Known \cup {t}
         /\ holders' \subseteq holders \cup {t}
         /\ Slots!Queued' \subseteq Slots!Queued \cup {t}
<1>1. /\ KeyProofs!TypeOK /\ KeyProofs!SlotInv /\ KeyProofs!Acquire(t, 1)
  BY SameTypes, SameAcquire DEF KeyInv, Slots!NORMAL
<1>2. KeyProofs!EachCallOnce /\ 1 # KeyProofs!LOW
  BY <1>1 DEF KeyProofs!SlotInv, KeyProofs!LOW
<1>3. [KeyProofs!Next]_(KeyProofs!vars) /\ KeyProofs!NeverLifted
  BY <1>1 DEF KeyProofs!Next, KeyProofs!NeverLifted, Slots!NeverLifted, Slots!Unlimited,
              KeyProofs!Unlimited
<1>4. KeyProofs!SlotInv' /\ KeyProofs!TypeOK'
  BY <1>1, <1>3, KeyAssumed, KeyProofs!SlotStep, KeyProofs!TypeStep
<1>5. /\ KeyProofs!Known' = KeyProofs!Known \cup {t}
      /\ holders' \subseteq holders \cup {t}
      /\ KeyProofs!Queued' \subseteq KeyProofs!Queued \cup {t}
  BY <1>1, <1>2, KeyAssumed, KeyProofs!AcquireEnters
<1> QED
  BY <1>4, <1>5, SameTypes, SameQueued

(* The settings of the key.                                                *)
LEMMA SettingsKept ==
  ASSUME KeyInv, Slots!NeverLifted, Slots!SetLimit \/ Slots!WindowElapses
  PROVE  KeyKept({})
<1>1. /\ KeyProofs!TypeOK /\ KeyProofs!SlotInv
      /\ KeyProofs!SetLimit \/ KeyProofs!WindowElapses
  BY SameTypes, SameSettings DEF KeyInv
<1>2. [KeyProofs!Next]_(KeyProofs!vars) /\ KeyProofs!NeverLifted
  BY <1>1 DEF KeyProofs!Next, KeyProofs!NeverLifted, Slots!NeverLifted, Slots!Unlimited,
              KeyProofs!Unlimited
<1>3. KeyProofs!SlotInv' /\ KeyProofs!TypeOK'
  BY <1>1, <1>2, KeyAssumed, KeyProofs!SlotStep, KeyProofs!TypeStep
<1>4. UNCHANGED <<queue, holders>>
  BY <1>1 DEF KeyProofs!SetLimit, KeyProofs!WindowElapses, KeyProofs!slots
<1>5. KeyProofs!OnlyLeave({})
  BY <1>4 DEF KeyProofs!OnlyLeave, KeyProofs!Known, KeyProofs!Queued
<1> QED
  BY <1>3, <1>5, SameTypes DEF KeyKept

-----------------------------------------------------------------------------
(* Where executions stand when the key has moved.                          *)

HoldingPlaces == {"acquiring", "prompting", "backoff"}

(* What a step may do with the place of u, when the calls in gone leave.   *)
PlaceFollows(u, gone) ==
  \/ exec'[u] = exec[u] /\ (u \in gone => exec[u] # "acquiring")
  \/ u \notin KeyProofs!Known \ gone /\ exec'[u] # "acquiring"
  \/ u \in holders \ gone /\ exec'[u] \in {"prompting", "backoff"}

LEMMA ExecutionFollows ==
  ASSUME KeyInv, NEW gone, KeyKept(gone), \A u \in Tasks : PlaceFollows(u, gone)
  PROVE  KeyInv'
<1>1. /\ holders' \cup Slots!Queued' = (holders \cup Slots!Queued) \ gone
      /\ Slots!Queued' \subseteq Slots!Queued
  BY SameQueued DEF KeyKept, KeyProofs!OnlyLeave, KeyProofs!Known
<1>2. Slots!Queued \cap holders = {}
  BY SameQueued DEF KeyInv, KeyProofs!SlotInv, KeyProofs!EachCallOnce
<1>3. ASSUME NEW u \in Tasks
      PROVE  /\ u \in holders' => exec'[u] \in HoldingPlaces
             /\ u \in Slots!Queued' => exec'[u] = "acquiring"
             /\ exec'[u] = "acquiring" => u \in holders' \cup Slots!Queued'
  <2>1. /\ u \in holders => exec[u] \in HoldingPlaces
        /\ u \in Slots!Queued => exec[u] = "acquiring"
        /\ exec[u] = "acquiring" => u \in holders \cup Slots!Queued
    BY DEF KeyInv, TokensFollowExecution, HoldingPlaces
  <2>2. PlaceFollows(u, gone)
    BY <1>3
  <2>3. CASE exec'[u] = exec[u] /\ (u \in gone => exec[u] # "acquiring")
    BY <1>1, <2>1, <2>3 DEF HoldingPlaces
  <2>4. CASE u \notin KeyProofs!Known \ gone /\ exec'[u] # "acquiring"
    BY <1>1, <2>4, Known
  <2>5. CASE u \in holders \ gone /\ exec'[u] \in {"prompting", "backoff"}
    BY <1>1, <1>2, <2>5 DEF HoldingPlaces
  <2> QED
    BY <2>2, <2>3, <2>4, <2>5 DEF PlaceFollows
<1>4. TokensFollowExecution'
  BY <1>3 DEF TokensFollowExecution, HoldingPlaces
<1> QED
  BY <1>4 DEF KeyInv, KeyKept

LEMMA SamePlaces ==
  ASSUME KeyInv, KeyKept({}), UNCHANGED exec
  PROVE  KeyInv'
BY ExecutionFollows DEF PlaceFollows

(* One execution moves on while it holds its slot, or outside the key.     *)
LEMMA OneMoves ==
  ASSUME RecordsOK, KeyInv, NEW t \in Tasks, NEW e \in ExecPlaces, SetExec(t, e),
         NEW gone, KeyKept(gone), gone = {} \/ gone = {t},
         e # "acquiring",
         t \in KeyProofs!Known \ gone => t \in holders /\ e \in {"prompting", "backoff"}
  PROVE  KeyInv'
<1>1. exec' = [exec EXCEPT ![t] = e] /\ exec \in [Tasks -> ExecPlaces]
  BY DEF SetExec, RecordsOK
<1>2. \A u \in Tasks : PlaceFollows(u, gone)
  <2> SUFFICES ASSUME NEW u \in Tasks PROVE PlaceFollows(u, gone)
    OBVIOUS
  <2>1. CASE u # t
    BY <1>1, <2>1 DEF PlaceFollows
  <2>2. CASE u = t
    BY <1>1, <2>2 DEF PlaceFollows
  <2> QED
    BY <2>1, <2>2
<1> QED
  BY <1>2, ExecutionFollows

(* Where the calls of a key stand, told by the place of an execution.      *)
LEMMA PlaceTells ==
  ASSUME KeyInv, NEW t \in Tasks
  PROVE  /\ t \in KeyProofs!Known => exec[t] \in HoldingPlaces
         /\ t \in KeyProofs!Known /\ exec[t] # "acquiring" => t \in holders
BY Known DEF KeyInv, TokensFollowExecution, HoldingPlaces

-----------------------------------------------------------------------------
(* Every step keeps the key.                                               *)

(* Nothing executes for a task that no launch has prepared.                *)
Unprepared == \A t \in Tasks : status[t] = "none" => exec[t] = "none"

LEMMA CompleteKeepsKey ==
  ASSUME KeyInv, NEW t \in Tasks, Complete(t)
  PROVE  KeyInv'
<1>1. UNCHANGED exec /\ ReleaseIfKeyed(t)
  BY DEF Complete, running
<1>2. FeedbackMoves
  BY DEF Complete, ReportIfKeyed, FeedbackMoves
<1> QED
  BY <1>1, <1>2, EndKept, SamePlaces

LEMMA LauncherKeepsKey ==
  ASSUME RecordsOK, Unprepared, KeyInv, Slots!NeverLifted,
         NEW t \in Tasks, LauncherStep(t)
  PROVE  KeyInv'
<1>1. CASE Prepare(t)
  <2>1. exec[t] = "none" /\ SetExec(t, "prepared") /\ KeyKept({})
    BY <1>1, NothingMoves DEF Prepare, Unprepared
  <2>2. t \notin KeyProofs!Known
    BY <2>1, PlaceTells DEF HoldingPlaces
  <2> QED
    BY <2>1, <2>2, OneMoves DEF ExecPlaces
<1>2. CASE Execute(t)
  <2>1. CASE Slots!Acquire(t, Slots!NORMAL) /\ SetExec(t, "acquiring")
    <3>1. /\ Slots!TypeOK' /\ KeyProofs!SlotInv'
          /\ holders' \cup Slots!Queued' = holders \cup Slots!Queued \cup {t}
          /\ holders' \subseteq holders \cup {t}
          /\ Slots!Queued' \subseteq Slots!Queued \cup {t}
      BY <2>1, AskKept, SameQueued DEF KeyProofs!Known
    <3>2. exec' = [exec EXCEPT ![t] = "acquiring"] /\ exec \in [Tasks -> ExecPlaces]
      BY <2>1 DEF SetExec, RecordsOK
    <3>3. TokensFollowExecution'
      BY <3>1, <3>2 DEF KeyInv, TokensFollowExecution
    <3> QED
      BY <3>1, <3>3 DEF KeyInv
  <2>2. CASE SetExec(t, "failing") /\ UNCHANGED controller
    <3>1. t \notin KeyProofs!Known
      BY <1>2, PlaceTells DEF Execute, HoldingPlaces
    <3> QED
      BY <2>2, <3>1, NothingMoves, OneMoves DEF ExecPlaces
  <2> QED
    BY <1>2, <2>1, <2>2 DEF Execute
<1>3. CASE WaitTimesOut(t)
  <2>1. KeyKept({t}) /\ SetExec(t, "failing")
    BY <1>3, TimeoutKept DEF WaitTimesOut
  <2> QED
    BY <2>1, OneMoves DEF ExecPlaces
<1>4. CASE Start(t)
  <2>1. t \in holders /\ SetExec(t, "prompting") /\ KeyKept({})
    BY <1>4, NothingMoves DEF Start, FirePrompt
  <2> QED
    BY <2>1, OneMoves DEF ExecPlaces
<1>5. CASE PromptReturns(t)
  <2>1. /\ exec[t] = "prompting" /\ SetExec(t, "ended")
        /\ KeyKept(IF t \in holders THEN {t} ELSE {})
    BY <1>5, TokenKept DEF PromptReturns
  <2>2. t \notin KeyProofs!Known \ (IF t \in holders THEN {t} ELSE {})
    BY <2>1, PlaceTells
  <2> QED
    BY <2>1, <2>2, OneMoves DEF ExecPlaces
<1>6. ASSUME NEW kind \in ErrorKinds, PromptFails(t, kind)
      PROVE  KeyInv'
  <2>1. exec[t] = "prompting" /\ UNCHANGED feedback
    BY <1>6 DEF PromptFails
  <2>2. CASE SetExec(t, "backoff") /\ UNCHANGED slots
    <3>1. KeyKept({})
      BY <2>1, <2>2, NothingMoves DEF controller
    <3>2. t \in KeyProofs!Known => t \in holders
      BY <2>1, PlaceTells
    <3> QED
      BY <2>2, <3>1, <3>2, OneMoves DEF ExecPlaces
  <2>3. CASE SetExec(t, "failing") /\ ReleaseTokenOf(t)
    <3>1. KeyKept(IF t \in holders THEN {t} ELSE {})
      BY <2>1, <2>3, TokenKept
    <3>2. t \notin KeyProofs!Known \ (IF t \in holders THEN {t} ELSE {})
      BY <2>1, PlaceTells
    <3> QED
      BY <2>3, <3>1, <3>2, OneMoves DEF ExecPlaces
  <2> QED
    BY <1>6, <2>2, <2>3 DEF PromptFails
<1>7. CASE Retry(t)
  <2>1. exec[t] = "backoff" /\ SetExec(t, "prompting") /\ KeyKept({})
    BY <1>7, NothingMoves DEF Retry, FirePrompt
  <2>2. t \in KeyProofs!Known => t \in holders
    BY <2>1, PlaceTells
  <2> QED
    BY <2>1, <2>2, OneMoves DEF ExecPlaces
<1>8. CASE TokenExpires(t)
  <2>1. /\ exec[t] \in {"prompting", "backoff"} /\ UNCHANGED exec
        /\ t \in holders /\ Slots!ReleaseSlotOf({t}) /\ FeedbackMoves
    BY <1>8 DEF TokenExpires, Slots!ReleaseToken, running, Slots!feedback, feedback,
                FeedbackMoves
  <2>2. KeyKept({t})
    BY <2>1, ReleaseKept
  <2>3. \A u \in Tasks : PlaceFollows(u, {t})
    BY <2>1 DEF PlaceFollows
  <2> QED
    BY <2>2, <2>3, ExecutionFollows
<1>9. CASE TaskError(t)
  <2>1. exec[t] = "failing" /\ SetExec(t, "ended")
    BY <1>9 DEF TaskError
  <2>2. KeyKept({})
    <3>1. CASE t \in store
      <4>1. ReleaseIfKeyed(t) /\ FeedbackMoves
        BY <1>9, <3>1 DEF TaskError, ReportIfKeyed, FeedbackMoves
      <4> QED
        BY <4>1, EndKept
    <3>2. CASE t \notin store
      BY <1>9, <3>2, NothingMoves DEF TaskError
    <3> QED
      BY <3>1, <3>2
  <2>3. t \notin KeyProofs!Known
    BY <2>1, PlaceTells DEF HoldingPlaces
  <2> QED
    BY <2>1, <2>2, <2>3, OneMoves DEF ExecPlaces
<1> QED
  BY <1>1, <1>2, <1>3, <1>4, <1>5, <1>6, <1>7, <1>8, <1>9 DEF LauncherStep

LEMMA EventKeepsKey ==
  ASSUME KeyInv, NEW t \in Tasks, EventStep(t)
  PROVE  KeyInv'
<1>1. CASE UNCHANGED controller /\ UNCHANGED exec
  BY <1>1, NothingMoves, SamePlaces
<1>2. CASE SessionIdle(t) \/ IdleTold(t)
  BY <1>1, <1>2 DEF SessionIdle, IdleTold, CompletionTold, running
<1>3. CASE IdleChecked(t)
  BY <1>1, <1>3, CompleteKeepsKey DEF IdleChecked, running
<1>4. CASE SessionDeleted(t)
  <2>1. UNCHANGED exec /\ ReleaseIfKeyed(t) /\ FeedbackMoves
    BY <1>4 DEF SessionDeleted, running, ReportIfKeyed, FeedbackMoves
  <2> QED
    BY <2>1, EndKept, SamePlaces
<1> QED
  BY <1>2, <1>3, <1>4 DEF EventStep

LEMMA PollKeepsKey ==
  ASSUME KeyInv, NEW c \in Chains, NEW t \in Tasks, PollStep(c, t)
  PROVE  KeyInv'
<1>1. CASE UNCHANGED controller /\ UNCHANGED exec
  BY <1>1, NothingMoves, SamePlaces
<1>2. CASE PollSkips(c, t) \/ PollChecks(c, t) \/ PollFindsNothing(c, t) \/ PollTold(c, t)
  BY <1>1, <1>2
  DEF PollSkips, PollChecks, PollFindsNothing, PollTold, CompletionTold, running
<1>3. CASE PollCompletes(c, t)
  BY <1>3, CompleteKeepsKey DEF PollCompletes
<1> QED
  BY <1>2, <1>3 DEF PollStep

LEMMA PruneKeepsKey ==
  ASSUME KeyInv, NEW expired \in SUBSET Tasks, Prune(expired)
  PROVE  KeyInv'
<1> DEFINE ran == { t \in expired : status[t] = "RUNNING" }
<1>1. IsFiniteSet(ran \cap keyed)
  BY TasksAssumption, FS_Subset
<1>2. Cardinality(ran \cap keyed) \in Nat
  BY <1>1, FS_CardinalityType
<1>3. ReleaseKeyTimes(Cardinality(ran \cap keyed)) /\ UNCHANGED feedback /\ UNCHANGED exec
  BY DEF Prune, running
<1> HIDE DEF ran
<1> QED
  BY <1>2, <1>3, PruneKept, SamePlaces

(* Every step of the manager keeps the key sound, and each token where its *)
(* execution is.                                                           *)
LEMMA KeyStepKept ==
  ASSUME RecordsOK, Unprepared, KeyInv, Slots!NeverLifted, [Next]_vars
  PROVE  KeyInv'
<1>1. CASE UNCHANGED controller /\ UNCHANGED exec
  BY <1>1, NothingMoves, SamePlaces
<1>2. ASSUME NEW c \in Chains, PollBegins(c) PROVE KeyInv'
  BY <1>2, PruneKeepsKey DEF PollBegins, RecordsOK
<1>3. ASSUME NEW t \in Tasks, Cancel(t) PROVE KeyInv'
  <2>1. UNCHANGED exec /\ ReleaseIfKeyed(t) /\ FeedbackMoves
    BY <1>3 DEF Cancel, running, FeedbackMoves
  <2> QED
    BY <2>1, EndKept, SamePlaces
<1>4. ASSUME NEW t \in Tasks, Cancelled(t) \/ CleanupFires(t) PROVE KeyInv'
  BY <1>1, <1>4 DEF Cancelled, CleanupFires, running
<1>5. CASE PruneAtLaunch
  BY <1>5, PruneKeepsKey DEF PruneAtLaunch, RecordsOK
<1>6. CASE ErrorTold \/ Clear \/ UNCHANGED vars
  BY <1>1, <1>6 DEF ErrorTold, Clear, vars, running
<1>7. CASE KeyStep
  BY <1>7, SettingsKept, SamePlaces DEF KeyStep, running
<1> QED
  BY <1>2, <1>3, <1>4, <1>5, <1>6, <1>7, LauncherKeepsKey, EventKeepsKey, PollKeepsKey
  DEF Next

-----------------------------------------------------------------------------
(* The records.                                                            *)

LEMMA RecordsStart == Init => RecordsOK /\ Unprepared
BY TasksAssumption DEF Init, RecordsOK, Unprepared, ExecPlaces

(* What a launcher's step may do with the record of its task.              *)
LEMMA LauncherRecords ==
  ASSUME RecordsOK, Unprepared, KeyInv, Slots!NeverLifted, NEW t \in Tasks,
         LauncherStep(t)
  PROVE  RecordsOK' /\ Unprepared'
<1> USE DEF RecordsOK, Unprepared, ExecPlaces, Active, Terminal, records, running,
            SetExec, SetStatus, Untrack, Increment
<1>1. CASE Prepare(t)
  BY <1>1 DEF Prepare
<1>2. CASE Execute(t)
  BY <1>2 DEF Execute
<1>3. CASE WaitTimesOut(t)
  <2>1. exec[t] = "acquiring"
    BY <1>3, TimeoutKept DEF WaitTimesOut, KeyInv, TokensFollowExecution
  <2> QED
    BY <1>3, <2>1 DEF WaitTimesOut
<1>4. CASE Start(t)
  BY <1>4 DEF Start, FirePrompt
<1>5. CASE PromptReturns(t)
  BY <1>5 DEF PromptReturns
<1>6. ASSUME NEW kind \in ErrorKinds, PromptFails(t, kind)
      PROVE  RecordsOK' /\ Unprepared'
  BY <1>6 DEF PromptFails
<1>7. CASE Retry(t)
  <2>1. MaxRetries \in Nat \ {0}
    BY TasksAssumption
  <2>2. attempt[t] \in 1 .. MaxRetries
    OBVIOUS
  <2>3. (IF attempt[t] < MaxRetries THEN attempt[t] + 1 ELSE attempt[t]) \in 1 .. MaxRetries
    BY <2>1, <2>2
  <2>4. attempt' \in [Tasks -> 1 .. MaxRetries]
    BY <1>7, <2>3 DEF Retry
  <2> QED
    BY <1>7, <2>4 DEF Retry, FirePrompt
<1>8. CASE TokenExpires(t)
  BY <1>8 DEF TokenExpires
<1>9. CASE TaskError(t)
  BY <1>9 DEF TaskError
<1> QED
  BY <1>1, <1>2, <1>3, <1>4, <1>5, <1>6, <1>7, <1>8, <1>9 DEF LauncherStep

LEMMA CompleteRecords ==
  ASSUME RecordsOK, Unprepared, NEW t \in Tasks, Complete(t)
  PROVE  RecordsOK' /\ Unprepared'
BY DEF Complete, RecordsOK, Unprepared, ExecPlaces, Active, Terminal, running, SetStatus,
       Untrack

LEMMA PruneRecords ==
  ASSUME RecordsOK, Unprepared, NEW expired \in SUBSET Tasks, Prune(expired)
  PROVE  RecordsOK' /\ Unprepared'
BY DEF Prune, RecordsOK, Unprepared, ExecPlaces, Active, Terminal, running

LEMMA RecordsStep ==
  ASSUME RecordsOK, Unprepared, KeyInv, Slots!NeverLifted, [Next]_vars
  PROVE  RecordsOK' /\ Unprepared'
<1>1. CASE UNCHANGED records /\ UNCHANGED running
  BY <1>1 DEF RecordsOK, Unprepared, records, running
<1>2. ASSUME NEW t \in Tasks, EventStep(t) PROVE RecordsOK' /\ Unprepared'
  <2>1. CASE SessionDeleted(t)
    BY <2>1 DEF SessionDeleted, RecordsOK, Unprepared, ExecPlaces, Active, Terminal,
                running, Untrack
  <2>2. CASE IdleChecked(t)
    BY <1>1, <2>2, CompleteRecords DEF IdleChecked
  <2> QED
    BY <1>1, <1>2, <2>1, <2>2 DEF EventStep, SessionIdle, IdleTold, CompletionTold
<1>3. ASSUME NEW c \in Chains, NEW t \in Tasks, PollStep(c, t)
      PROVE  RecordsOK' /\ Unprepared'
  <2>1. CASE PollCompletes(c, t)
    BY <2>1, CompleteRecords DEF PollCompletes
  <2> QED
    BY <1>1, <1>3, <2>1
    DEF PollStep, PollSkips, PollChecks, PollFindsNothing, PollTold, CompletionTold
<1>4. ASSUME NEW c \in Chains, PollBegins(c) PROVE RecordsOK' /\ Unprepared'
  BY <1>4, PruneRecords DEF PollBegins, RecordsOK
<1>5. CASE PruneAtLaunch
  BY <1>5, PruneRecords DEF PruneAtLaunch, RecordsOK
<1>6. ASSUME NEW t \in Tasks, Cancel(t) PROVE RecordsOK' /\ Unprepared'
  BY <1>6 DEF Cancel, RecordsOK, Unprepared, ExecPlaces, Active, Terminal, running,
              SetStatus, Untrack
<1>7. ASSUME NEW t \in Tasks, Cancelled(t) \/ CleanupFires(t)
      PROVE  RecordsOK' /\ Unprepared'
  BY <1>7 DEF Cancelled, CleanupFires, RecordsOK, Unprepared, records, running
<1>8. CASE Clear
  BY <1>8 DEF Clear, RecordsOK, Unprepared, running
<1> QED
  BY <1>1, <1>2, <1>3, <1>4, <1>5, <1>6, <1>7, <1>8, LauncherRecords
  DEF Next, ErrorTold, KeyStep, vars

(* The calls that await something are counted by naturals.                 *)
LEMMA AwaitsStart == Init => AwaitsOK
BY DEF Init, AwaitsOK

LEMMA CompleteAwaits ==
  ASSUME NEW t \in Tasks, Complete(t)
  PROVE  UNCHANGED <<tellingErrors, cancelling, cleanups>>
BY Zenon DEF Complete

LEMMA AwaitsStep ==
  ASSUME AwaitsOK, [Next]_vars
  PROVE  AwaitsOK'
<1> USE DEF AwaitsOK, messages, timers, Increment, Decrement
<1>1. ASSUME NEW t \in Tasks, LauncherStep(t) PROVE AwaitsOK'
  <2>1. CASE TaskError(t)
    <3>1. /\ UNCHANGED <<telling, idleChecks, cancelling>>
          /\ cleanups' = [cleanups EXCEPT ![t] = @ + 1] \/ UNCHANGED cleanups
          /\ tellingErrors' = tellingErrors + 1 \/ UNCHANGED tellingErrors
      BY <2>1, Zenon DEF TaskError
    <3> QED
      BY <3>1
  <2> QED
    BY <1>1, <2>1
    DEF LauncherStep, Prepare, Execute, WaitTimesOut, Start, FirePrompt, PromptReturns,
        PromptFails, Retry, TokenExpires
<1>2. ASSUME NEW t \in Tasks, EventStep(t) PROVE AwaitsOK'
  <2>1. CASE IdleChecked(t)
    BY <2>1, CompleteAwaits DEF IdleChecked
  <2>2. CASE IdleTold(t)
    BY <2>2 DEF IdleTold, CompletionTold
  <2>3. CASE SessionDeleted(t)
    <3>1. UNCHANGED <<telling, tellingErrors, timers>>
      BY <2>3, Zenon DEF SessionDeleted
    <3> QED
      BY <3>1
  <2>4. CASE SessionIdle(t)
    BY <2>4 DEF SessionIdle
  <2> QED
    BY <1>2, <2>1, <2>2, <2>3, <2>4 DEF EventStep
<1>3. ASSUME NEW c \in Chains, NEW t \in Tasks, PollStep(c, t) PROVE AwaitsOK'
  <2>1. CASE PollCompletes(c, t)
    BY <2>1, CompleteAwaits DEF PollCompletes
  <2>2. CASE PollTold(c, t)
    BY <2>2 DEF PollTold, CompletionTold
  <2> QED
    BY <1>3, <2>1, <2>2 DEF PollStep, PollSkips, PollChecks, PollFindsNothing
<1>4. ASSUME NEW t \in Tasks, Cancel(t) \/ Cancelled(t) \/ CleanupFires(t)
      PROVE  AwaitsOK'
  BY <1>4 DEF Cancel, Cancelled, CleanupFires
<1>5. ASSUME NEW c \in Chains, PollBegins(c) PROVE AwaitsOK'
  BY <1>5 DEF PollBegins, Prune
<1>6. CASE PruneAtLaunch
  BY <1>6 DEF PruneAtLaunch, Prune
<1>7. CASE ErrorTold
  BY <1>7 DEF ErrorTold
<1>8. CASE Clear \/ KeyStep \/ UNCHANGED vars
  BY <1>8 DEF Clear, KeyStep, vars
<1> QED
  BY <1>1, <1>2, <1>3, <1>4, <1>5, <1>6, <1>7, <1>8, Zenon DEF Next

(* A promise is made or not, whoever tells the parent.                     *)
LEMMA OwedStep ==
  ASSUME owed \in BOOLEAN, [Next]_vars
  PROVE  owed' \in BOOLEAN
<1>1. ASSUME Tell \/ UNCHANGED owed PROVE owed' \in BOOLEAN
  BY <1>1, Zenon DEF Tell
<1>2. ASSUME NEW t \in Tasks, LauncherStep(t) PROVE Tell \/ UNCHANGED owed
  BY <1>2, Zenon DEF LauncherStep, Prepare, Execute, WaitTimesOut, Start, FirePrompt,
     PromptReturns, PromptFails, Retry, TokenExpires, TaskError, messages
<1>3. ASSUME NEW t \in Tasks, EventStep(t) PROVE Tell \/ UNCHANGED owed
  BY <1>3, Zenon DEF EventStep, SessionIdle, IdleChecked, Complete, IdleTold,
     CompletionTold, SessionDeleted, messages
<1>4. ASSUME NEW c \in Chains, NEW t \in Tasks, PollStep(c, t)
      PROVE  Tell \/ UNCHANGED owed
  BY <1>4, Zenon DEF PollStep, PollSkips, PollChecks, PollCompletes, Complete,
     PollFindsNothing, PollTold, CompletionTold, messages
<1>5. ASSUME NEW c \in Chains, PollBegins(c) PROVE UNCHANGED owed
  BY <1>5, Zenon DEF PollBegins, Prune, messages
<1>6. ASSUME NEW t \in Tasks, Cancel(t) \/ Cancelled(t) \/ CleanupFires(t)
      PROVE  UNCHANGED owed
  BY <1>6, Zenon DEF Cancel, Cancelled, CleanupFires, messages
<1>7. ASSUME PruneAtLaunch \/ ErrorTold \/ Clear \/ KeyStep \/ UNCHANGED vars
      PROVE  UNCHANGED owed
  BY <1>7, Zenon DEF PruneAtLaunch, Prune, ErrorTold, Clear, KeyStep, vars, messages
<1> QED
  BY <1>1, <1>2, <1>3, <1>4, <1>5, <1>6, <1>7, Zenon DEF Next

-----------------------------------------------------------------------------
(* The poller.  A chain that is started needs one that is stopped, and     *)
(* there is one because each cleanup() lets one chain more run on, and     *)
(* MaxClears bounds those.                                                 *)
RunningChains == { c \in Chains : poll[c].at # "stopped" }

ChainsBounded ==
  /\ Cardinality(RunningChains) <= clears + 1
  /\ polling = 0 => Cardinality(RunningChains) <= clears

(* The handle of the poller is that of a chain that has not stopped.       *)
PollingRuns == polling # 0 => poll[polling].at # "stopped"

PollerInv == PollerOK /\ ChainsBounded /\ PollingRuns

LEMMA ChainsFinite ==
  /\ IsFiniteSet(Chains) /\ Cardinality(Chains) = MaxClears + 1
  /\ MaxClears \in Nat /\ Chains \subseteq Nat \ {0}
  /\ \A C \in SUBSET Chains : IsFiniteSet(C) /\ Cardinality(C) \in Nat
<1>1. MaxClears \in Nat
  BY TasksAssumption
<1>2. IsFiniteSet(Chains) /\ Cardinality(Chains) = MaxClears + 1
  BY <1>1, FS_Interval DEF Chains
<1>3. \A C \in SUBSET Chains : IsFiniteSet(C) /\ Cardinality(C) \in Nat
  BY <1>2, FS_Subset, FS_CardinalityType
<1>4. Chains \subseteq Nat \ {0}
  BY <1>1 DEF Chains
<1> QED
  BY <1>1, <1>2, <1>3, <1>4

(* No chain starts, and the poller keeps its handle if it had one.         *)
LEMMA FewerChains ==
  ASSUME PollerOK, ChainsBounded, RunningChains' \subseteq RunningChains,
         UNCHANGED clears, polling' = 0 => polling = 0
  PROVE  ChainsBounded'
<1>1. RunningChains \in SUBSET Chains
  BY DEF RunningChains
<1>2. Cardinality(RunningChains') <= Cardinality(RunningChains)
  BY <1>1, ChainsFinite, FS_Subset
<1>3. Cardinality(RunningChains') \in Nat /\ Cardinality(RunningChains) \in Nat
  BY <1>1, ChainsFinite
<1>4. clears \in Nat
  BY ChainsFinite DEF PollerOK
<1> QED
  BY <1>2, <1>3, <1>4 DEF ChainsBounded

LEMMA PollerStart == Init => PollerInv
<1> SUFFICES ASSUME Init PROVE PollerInv
  OBVIOUS
<1>1. MaxClears \in Nat
  BY ChainsFinite
<1>2. poll = [c \in Chains |-> PollAt("stopped")] /\ polling = 0 /\ clears = 0
  BY DEF Init
<1>3. PollerOK
  BY <1>1, <1>2 DEF PollerOK, Passes, PollAt
<1>4. RunningChains = {}
  BY <1>2 DEF RunningChains, PollAt
<1> QED
  BY <1>2, <1>3, <1>4, FS_EmptySet DEF PollerInv, ChainsBounded, PollingRuns

(* A launch starts a chain that is stopped, if none has the handle.        *)
LEMMA StartKeepsPoller ==
  ASSUME PollerInv, StartPolling
  PROVE  /\ PollerInv' /\ polling' # 0
         /\ \A d \in Chains : \/ poll'[d] = poll[d]
                              \/ poll[d].at = "stopped" /\ poll'[d].at = "off"
<1> DEFINE c == CHOOSE d \in Chains : polling = 0 => poll[d].at = "stopped"
<1>1. CASE polling # 0
  <2>1. UNCHANGED <<poll, polling, clears>>
    BY <1>1 DEF StartPolling
  <2>2. PollerOK' /\ ChainsBounded' /\ PollingRuns'
    BY <2>1 DEF PollerInv, PollerOK, ChainsBounded, RunningChains, PollingRuns
  <2> QED
    BY <1>1, <2>1, <2>2, Zenon DEF PollerInv
<1>2. CASE polling = 0
  <2>1. RunningChains \in SUBSET Chains /\ clears \in 0 .. MaxClears
    BY DEF RunningChains, PollerInv, PollerOK
  <2>2. RunningChains # Chains
    <3>1. Cardinality(RunningChains) <= MaxClears
      BY <1>2, <2>1, ChainsFinite DEF PollerInv, ChainsBounded
    <3> QED
      BY <3>1, ChainsFinite
  <2>3. \E d \in Chains : polling = 0 => poll[d].at = "stopped"
    BY <2>1, <2>2 DEF RunningChains
  <2>4. c \in Chains /\ poll[c].at = "stopped"
    BY <1>2, <2>3
  <2>5. /\ poll' = [poll EXCEPT ![c] = PollAt("off")] /\ polling' = c
        /\ UNCHANGED clears
    BY <1>2 DEF StartPolling
  <2> HIDE DEF c
  <2>6. PollerOK'
    BY <2>4, <2>5 DEF PollerInv, PollerOK, Passes, PollAt
  <2>7. polling' # 0 /\ PollingRuns'
    BY <2>4, <2>5, ChainsFinite DEF PollingRuns, PollerInv, PollerOK, PollAt
  <2>8. RunningChains' = RunningChains \cup {c}
    BY <2>4, <2>5 DEF RunningChains, PollerInv, PollerOK, PollAt
  <2>9. Cardinality(RunningChains') <= Cardinality(RunningChains) + 1
    BY <2>1, <2>8, ChainsFinite, FS_AddElement
  <2>10. ChainsBounded'
    <3>1. Cardinality(RunningChains) \in Nat /\ Cardinality(RunningChains') \in Nat
      BY <2>1, <2>4, <2>8, ChainsFinite
    <3>2. Cardinality(RunningChains) <= clears /\ clears \in Nat
      BY <1>2, <2>1, ChainsFinite DEF PollerInv, ChainsBounded
    <3> QED
      BY <2>5, <2>7, <2>9, <3>1, <3>2 DEF ChainsBounded
  <2>11. \A d \in Chains : \/ poll'[d] = poll[d]
                           \/ poll[d].at = "stopped" /\ poll'[d].at = "off"
    <3>1. poll \in [Chains -> Passes] /\ PollAt("off").at = "off"
      BY DEF PollerInv, PollerOK, PollAt
    <3>2. poll'[c] = PollAt("off") /\ \A d \in Chains : d # c => poll'[d] = poll[d]
      BY <2>4, <2>5, <3>1
    <3> QED
      BY <2>4, <3>1, <3>2, Zenon
  <2> QED
    BY <2>6, <2>7, <2>10, <2>11, Zenon DEF PollerInv
<1> QED
  BY <1>1, <1>2

(* A pass that finds nothing active stops its chain and the poller.        *)
LEMMA StopKeepsPoller ==
  ASSUME PollerInv, NEW c \in Chains, poll[c].at # "stopped", StopPolling({c}),
         UNCHANGED clears
  PROVE  PollerInv'
<1>1. polling' = 0 /\ \A d \in Chains : poll'[d] \in {poll[d], PollAt("stopped")}
  BY DEF StopPolling
<1>2. poll' \in [Chains -> Passes]
  <2>1. PollAt("stopped") \in Passes
    BY DEF PollAt, Passes
  <2>2. poll \in [Chains -> Passes]
    BY DEF PollerInv, PollerOK
  <2> QED
    BY <2>1, <2>2, Zenon DEF StopPolling
<1>3. poll'[c] = PollAt("stopped")
  BY DEF StopPolling
<1>4. RunningChains' \subseteq RunningChains \ {c}
  BY <1>1, <1>3 DEF RunningChains, PollAt
<1>5. RunningChains \in SUBSET Chains /\ c \in RunningChains
  BY DEF RunningChains
<1>6. /\ IsFiniteSet(RunningChains \ {c})
      /\ Cardinality(RunningChains \ {c}) = Cardinality(RunningChains) - 1
  BY <1>5, ChainsFinite, FS_RemoveElement
<1>7. Cardinality(RunningChains') <= Cardinality(RunningChains) - 1
  BY <1>4, <1>6, FS_Subset
<1>8. ChainsBounded'
  <2>1. clears \in Nat /\ Cardinality(RunningChains) \in Nat
    BY <1>5, ChainsFinite DEF PollerInv, PollerOK
  <2>2. Cardinality(RunningChains') \in Nat
    BY <1>4, <1>5, ChainsFinite
  <2> QED
    BY <1>7, <2>1, <2>2 DEF ChainsBounded, PollerInv
<1> QED
  BY <1>1, <1>2, <1>8 DEF PollerInv, PollerOK, PollingRuns

(* The end of a task's turn in a pass, or of the pass.                     *)
LEMMA DoneKeepsPoller ==
  ASSUME PollerInv, NEW c \in Chains, poll[c].at # "stopped", NEW t, PollDone(c, t)
  PROVE  PollerInv'
<1> DEFINE rest == poll[c].rest \ {t}
<1> DEFINE pass == IF rest # {} THEN [at |-> "next", task |-> NoTask, rest |-> rest]
                   ELSE PollAt(IF polling = 0 THEN "stopped" ELSE "off")
<1>1. /\ poll' = [poll EXCEPT ![c] = pass] /\ UNCHANGED clears
      /\ polling' = IF rest = {} /\ polling # 0 THEN c ELSE polling
  BY DEF PollDone
<1>2. /\ poll \in [Chains -> Passes] /\ rest \in SUBSET Tasks
      /\ polling \in {0} \cup Chains
  BY DEF PollerInv, PollerOK, Passes
<1>3. pass \in Passes /\ (polling' # 0 => pass.at # "stopped")
  BY <1>1, <1>2 DEF Passes, PollAt
<1> HIDE DEF pass
<1>4. PollerOK'
  BY <1>1, <1>2, <1>3 DEF PollerInv, PollerOK
<1>5. PollingRuns'
  BY <1>1, <1>2, <1>3 DEF PollerInv, PollingRuns
<1>6. RunningChains' \subseteq RunningChains
  BY <1>1, <1>2 DEF RunningChains
<1>7. polling' = 0 => polling = 0
  BY <1>1, ChainsFinite
<1> QED
  BY <1>1, <1>4, <1>5, <1>6, <1>7, FewerChains DEF PollerInv

(* A pass that goes on.                                                    *)
LEMMA PassKeepsPoller ==
  ASSUME PollerInv, NEW c \in Chains, poll[c].at # "stopped", NEW p \in Passes,
         p.at # "stopped", poll' = [poll EXCEPT ![c] = p], UNCHANGED <<polling, clears>>
  PROVE  PollerInv'
<1>1. PollerOK'
  BY DEF PollerInv, PollerOK
<1>2. PollingRuns'
  BY DEF PollerInv, PollerOK, PollingRuns
<1>3. RunningChains' = RunningChains
  BY DEF RunningChains, PollerInv, PollerOK
<1> QED
  BY <1>1, <1>2, <1>3 DEF PollerInv, ChainsBounded

LEMMA PollKeepsPoller ==
  ASSUME PollerInv, NEW c \in Chains, NEW t \in Tasks, PollStep(c, t)
  PROVE  PollerInv'
<1>1. poll[c].at # "stopped" /\ poll[c] \in Passes
  BY DEF PollStep, PollSkips, PollChecks, PollCompletes, PollFindsNothing, PollTold,
         PollTells, PollerInv, PollerOK
<1>2. CASE PollDone(c, t)
  BY <1>1, <1>2, DoneKeepsPoller
<1>3. ASSUME NEW place \in {"checking", "telling"},
             poll' = [poll EXCEPT ![c].at = place, ![c].task = t],
             UNCHANGED <<polling, clears>>
      PROVE  PollerInv'
  <2> DEFINE p == [poll[c] EXCEPT !.at = place, !.task = t]
  <2>1. p \in Passes /\ p.at # "stopped"
    BY <1>1 DEF Passes
  <2>2. poll' = [poll EXCEPT ![c] = p]
    BY <1>1, <1>3 DEF Passes, PollerInv, PollerOK
  <2> HIDE DEF p
  <2> QED
    BY <1>1, <1>3, <2>1, <2>2, PassKeepsPoller
<1>4. CASE PollChecks(c, t)
  BY <1>3, <1>4 DEF PollChecks
<1>5. CASE PollCompletes(c, t)
  BY <1>3, <1>5, Zenon DEF PollCompletes
<1> QED
  BY <1>2, <1>4, <1>5, Zenon DEF PollStep, PollSkips, PollFindsNothing, PollTold

LEMMA PollerStep ==
  ASSUME PollerInv, RecordsOK, RecordsOK', [Next]_vars
  PROVE  PollerInv'
<1>1. CASE UNCHANGED poller
  BY <1>1 DEF poller, PollerInv, PollerOK, ChainsBounded, RunningChains, PollingRuns
<1>2. ASSUME NEW t \in Tasks, LauncherStep(t) PROVE PollerInv'
  <2>1. CASE Execute(t)
    BY <2>1, StartKeepsPoller DEF Execute
  <2> QED
    BY <1>1, <1>2, <2>1, Zenon
    DEF LauncherStep, Prepare, WaitTimesOut, Start, FirePrompt, PromptReturns,
        PromptFails, Retry, TokenExpires, TaskError
<1>3. ASSUME NEW t \in Tasks, EventStep(t) PROVE PollerInv'
  BY <1>1, <1>3, Zenon DEF EventStep, SessionIdle, IdleChecked, IdleTold, SessionDeleted
<1>4. ASSUME NEW c \in Chains, PollBegins(c) PROVE PollerInv'
  <2> DEFINE active == { t \in store' : status'[t] \in Active }
  <2>1. poll[c].at # "stopped" /\ UNCHANGED clears
    BY <1>4 DEF PollBegins
  <2>2. CASE StopPolling({c})
    BY <2>1, <2>2, StopKeepsPoller
  <2>3. CASE /\ poll' = [poll EXCEPT ![c] = [at |-> "next", task |-> NoTask, rest |-> active]]
             /\ UNCHANGED polling
    <3>1. active \in SUBSET Tasks
      BY DEF RecordsOK
    <3> HIDE DEF active
    <3> DEFINE p == [at |-> "next", task |-> NoTask, rest |-> active]
    <3>2. p \in Passes /\ p.at # "stopped"
      BY <3>1 DEF Passes
    <3> HIDE DEF p
    <3> QED
      BY <2>1, <2>3, <3>2, PassKeepsPoller DEF p
  <2> QED
    BY <1>4, <2>2, <2>3, Zenon DEF PollBegins
<1>5. CASE Clear
  <2>1. StopPolling({}) /\ clears < MaxClears /\ clears' = clears + 1
    BY <1>5 DEF Clear
  <2>2. polling' = 0 /\ \A d \in Chains : poll'[d] \in {poll[d], PollAt("stopped")}
    BY <2>1 DEF StopPolling
  <2>3. poll' \in [Chains -> Passes]
    <3>1. PollAt("stopped") \in Passes
      BY DEF PollAt, Passes
    <3>2. poll \in [Chains -> Passes]
      BY DEF PollerInv, PollerOK
    <3> QED
      BY <2>1, <3>1, <3>2, Zenon DEF StopPolling
  <2>4. RunningChains' \subseteq RunningChains /\ RunningChains \in SUBSET Chains
    BY <2>2 DEF RunningChains, PollAt
  <2>5. Cardinality(RunningChains') <= Cardinality(RunningChains)
    BY <2>4, ChainsFinite, FS_Subset
  <2>6. ChainsBounded'
    <3>1. clears \in Nat /\ Cardinality(RunningChains) \in Nat
          /\ Cardinality(RunningChains') \in Nat
      BY <2>4, ChainsFinite DEF PollerInv, PollerOK
    <3> QED
      BY <2>1, <2>5, <3>1 DEF ChainsBounded, PollerInv
  <2>7. clears' \in 0 .. MaxClears
    BY <2>1, ChainsFinite DEF PollerInv, PollerOK
  <2> QED
    BY <2>2, <2>3, <2>6, <2>7 DEF PollerInv, PollerOK, PollingRuns
<1>6. ASSUME NEW c \in Chains, NEW t \in Tasks, PollStep(c, t) PROVE PollerInv'
  BY <1>6, PollKeepsPoller
<1>7. ASSUME NEW t \in Tasks, Cancel(t) \/ Cancelled(t) \/ CleanupFires(t)
      PROVE  PollerInv'
  BY <1>1, <1>7, Zenon DEF Cancel, Cancelled, CleanupFires
<1>8. CASE PruneAtLaunch \/ ErrorTold \/ KeyStep \/ UNCHANGED vars
  BY <1>1, <1>8, Zenon DEF PruneAtLaunch, ErrorTold, KeyStep, vars
<1> QED
  BY <1>2, <1>3, <1>4, <1>5, <1>6, <1>7, <1>8, Zenon DEF Next

-----------------------------------------------------------------------------
(* Whom the parent is being told about.                                    *)

(* While no handler and no pass moves, the same tasks are told.            *)
LEMMA ToldStays ==
  ASSUME UNCHANGED telling,
         \A c \in Chains : \/ poll'[c] = poll[c]
                           \/ poll[c].at # "telling" /\ poll'[c].at # "telling",
         NEW u \in Tasks
  PROVE  BeingTold(u)' <=> BeingTold(u)
BY DEF BeingTold, PollTells

(* No chain tells more or less because the poller starts or stops.         *)
LEMMA StopTellsSame ==
  ASSUME PollerOK, NEW stopping, StopPolling(stopping),
         \A c \in stopping : poll[c].at = "off"
  PROVE  \A c \in Chains : \/ poll'[c] = poll[c]
                           \/ poll[c].at # "telling" /\ poll'[c].at # "telling"
BY DEF StopPolling, PollAt

(* A pass that begins, or finds nothing to do, tells nothing.              *)
LEMMA BeginTellsSame ==
  ASSUME PollerInv, NEW c \in Chains, PollBegins(c)
  PROVE  \A d \in Chains : \/ poll'[d] = poll[d]
                           \/ poll[d].at # "telling" /\ poll'[d].at # "telling"
<1>1. poll[c].at = "off" /\ PollerOK /\ poll \in [Chains -> Passes]
  BY DEF PollBegins, PollerInv, PollerOK
<1>2. CASE StopPolling({c})
  <2>1. \A d \in {c} : poll[d].at = "off"
    BY <1>1
  <2> QED
    BY <1>1, <1>2, <2>1, StopTellsSame, Zenon
<1>3. ASSUME NEW active,
             poll' = [poll EXCEPT ![c] = [at |-> "next", task |-> NoTask, rest |-> active]]
      PROVE  \A d \in Chains : \/ poll'[d] = poll[d]
                               \/ poll[d].at # "telling" /\ poll'[d].at # "telling"
  BY <1>1, <1>3
<1>4. \/ StopPolling({c})
      \/ \E active : poll' = [poll EXCEPT ![c] = [at |-> "next", task |-> NoTask,
                                                rest |-> active]]
  BY Zenon DEF PollBegins
<1> QED
  BY <1>2, <1>3, <1>4, Zenon

(* The end of a task's turn ends what the pass tells, and nothing else.    *)
LEMMA DoneTells ==
  ASSUME PollerOK, NEW c \in Chains, NEW t, PollDone(c, t)
  PROVE  /\ poll'[c].at # "telling"
         /\ \A d \in Chains : d # c => poll'[d] = poll[d]
BY DEF PollDone, PollerOK, PollAt

-----------------------------------------------------------------------------
(* What each record has to satisfy for the parent to see its end: pending  *)
(* and on its way, or ended and on its way out of the store.               *)

Ended(u) == cleanups[u] > 0 \/ cancelling[u] > 0 \/ BeingTold(u)

RecordSound(u) ==
  /\ u \in pending => u \in store /\ status[u] \in Active
  /\ Ended(u) => u \notin pending /\ status[u] # "none"
  /\ u \in store /\ status[u] \in Terminal => Ended(u)
  /\ exec[u] \in {"prompting", "backoff"} => status[u] # "PENDING"
  /\ exec[u] = "ended" /\ u \in pending => status[u] # "PENDING"

RecordsSound == \A u \in Tasks : RecordSound(u)

LEMMA SoundStart == Init => RecordsSound
BY DEF Init, RecordsSound, RecordSound, Ended, BeingTold, PollTells, PollAt, Terminal

LEMMA LauncherSound ==
  ASSUME RecordsOK, Unprepared, AwaitsOK, PollerInv, KeyInv, Slots!NeverLifted,
         RecordsSound, NEW t \in Tasks, LauncherStep(t)
  PROVE  RecordsSound'
<1> SUFFICES ASSUME NEW u \in Tasks PROVE RecordSound(u)'
  BY DEF RecordsSound
<1> USE DEF RecordsOK, AwaitsOK, RecordSound, Ended, Active, Terminal
<1>1. RecordSound(u)
  BY DEF RecordsSound
<1>2. BeingTold(u)' <=> BeingTold(u)
  <2>1. UNCHANGED telling
    BY Zenon DEF LauncherStep, Prepare, Execute, WaitTimesOut, Start, FirePrompt,
       PromptReturns, PromptFails, Retry, TokenExpires, TaskError, messages
  <2>2. CASE UNCHANGED poll
    BY <2>1, <2>2, ToldStays
  <2>3. CASE StartPolling
    BY <2>1, <2>3, StartKeepsPoller, ToldStays
  <2> QED
    BY <2>2, <2>3, Zenon DEF LauncherStep, Prepare, Execute, WaitTimesOut, Start,
       FirePrompt, PromptReturns, PromptFails, Retry, TokenExpires, TaskError, poller
<1>3. CASE Prepare(t)
  <2>1. exec[t] = "none"
    BY <1>3 DEF Prepare, Unprepared
  <2> QED
    BY <1>1, <1>2, <1>3, <2>1 DEF Prepare, SetStatus, SetExec, timers
<1>4. CASE Execute(t)
  <2>1. /\ exec' = [exec EXCEPT ![t] = "acquiring"] \/ exec' = [exec EXCEPT ![t] = "failing"]
        /\ UNCHANGED <<status, store, pending, cleanups, cancelling>>
    BY <1>4 DEF Execute, SetExec, records, timers
  <2> QED
    BY <1>1, <1>2, <2>1
<1>5. CASE WaitTimesOut(t)
  <2>1. /\ exec' = [exec EXCEPT ![t] = "failing"]
        /\ UNCHANGED <<status, store, pending, cleanups, cancelling>>
    BY <1>5 DEF WaitTimesOut, SetExec, records, timers
  <2> QED
    BY <1>1, <1>2, <2>1
<1>6. CASE Start(t) \/ Retry(t)
  BY <1>1, <1>2, <1>6 DEF Start, Retry, FirePrompt, SetStatus, SetExec, timers
<1>7. CASE PromptReturns(t)
  <2>1. /\ exec[t] = "prompting" /\ exec' = [exec EXCEPT ![t] = "ended"]
        /\ UNCHANGED <<status, store, pending, cleanups, cancelling>>
    BY <1>7 DEF PromptReturns, SetExec, records, timers
  <2> QED
    BY <1>1, <1>2, <2>1
<1>8. ASSUME NEW kind \in ErrorKinds, PromptFails(t, kind)
      PROVE  RecordSound(u)'
  <2>1. /\ exec[t] = "prompting"
        /\ exec' = [exec EXCEPT ![t] = "backoff"] \/ exec' = [exec EXCEPT ![t] = "failing"]
        /\ UNCHANGED <<status, store, pending, cleanups, cancelling>>
    BY <1>8 DEF PromptFails, SetExec, records, timers
  <2> QED
    BY <1>1, <1>2, <2>1
<1>9. CASE TokenExpires(t)
  <2>1. UNCHANGED <<exec, status, store, pending, cleanups, cancelling>>
    BY <1>9 DEF TokenExpires, running, records, timers
  <2> QED
    BY <1>1, <1>2, <2>1
<1>10. CASE TaskError(t)
  <2>1. /\ exec[t] = "failing" /\ exec' = [exec EXCEPT ![t] = "ended"]
        /\ UNCHANGED <<store, cancelling>>
    BY <1>10, Zenon DEF TaskError, SetExec
  <2>2. CASE t \in store
    <3>1. /\ status' = [status EXCEPT ![t] = "ERROR"] /\ pending' = pending \ {t}
          /\ cleanups' = [cleanups EXCEPT ![t] = @ + 1]
      BY <1>10, <2>2, Zenon DEF TaskError, SetStatus, Untrack, Increment
    <3> QED
      BY <1>1, <1>2, <2>1, <3>1
  <2>3. CASE t \notin store
    <3>1. UNCHANGED <<status, pending, cleanups>>
      BY <1>10, <2>3, Zenon DEF TaskError
    <3> QED
      BY <1>1, <1>2, <2>1, <2>3, <3>1
  <2> QED
    BY <2>2, <2>3
<1> QED
  BY <1>3, <1>4, <1>5, <1>6, <1>7, <1>8, <1>9, <1>10 DEF LauncherStep

(* A completion, if whoever makes it now tells the parent.                 *)
LEMMA CompleteSound ==
  ASSUME RecordsOK, AwaitsOK, RecordsSound, NEW t \in Tasks, Complete(t),
         BeingTold(t)',
         \A u \in Tasks : u # t => (BeingTold(u)' <=> BeingTold(u))
  PROVE  RecordsSound'
<1>1. /\ status' = [status EXCEPT ![t] = "COMPLETED"] /\ pending' = pending \ {t}
      /\ UNCHANGED <<store, exec, cancelling, cleanups>>
  BY Zenon DEF Complete, SetStatus, Untrack, running
<1> QED
  BY <1>1 DEF RecordsOK, AwaitsOK, RecordsSound, RecordSound, Ended, Active, Terminal

(* The parent has been told, and cleanup is scheduled.                     *)
LEMMA ToldSound ==
  ASSUME RecordsOK, AwaitsOK, RecordsSound, NEW t \in Tasks, CompletionTold(t),
         BeingTold(t),
         \A u \in Tasks : BeingTold(u)' => BeingTold(u),
         \A u \in Tasks : u # t /\ BeingTold(u) => BeingTold(u)'
  PROVE  RecordsSound'
<1>1. /\ cleanups' = [cleanups EXCEPT ![t] = @ + 1]
      /\ UNCHANGED <<status, pending, store, exec, cancelling>>
  BY DEF CompletionTold, Increment, records, running
<1> QED
  BY <1>1 DEF RecordsOK, AwaitsOK, RecordsSound, RecordSound, Ended, Active, Terminal

(* The pruner takes what expires, and stops waiting for what ran.          *)
LEMMA PruneSound ==
  ASSUME RecordsOK, AwaitsOK, RecordsSound, NEW expired \in SUBSET store,
         Prune(expired), \A u \in Tasks : BeingTold(u)' <=> BeingTold(u)
  PROVE  RecordsSound'
<1> DEFINE ran == { t \in expired : status[t] = "RUNNING" }
<1>1. /\ status' = [t \in Tasks |-> IF t \in ran THEN "TIMEOUT" ELSE status[t]]
      /\ pending' = pending \ ran /\ store' = store \ expired
      /\ UNCHANGED <<exec, cancelling, cleanups>>
      /\ \A t \in expired : exec[t] = "ended"
  BY DEF Prune, MayExpire, running, timers
<1> SUFFICES ASSUME NEW u \in Tasks PROVE RecordSound(u)'
  BY DEF RecordsSound
<1>2. RecordSound(u) /\ (BeingTold(u)' <=> BeingTold(u))
  BY DEF RecordsSound
<1> QED
  BY <1>1, <1>2 DEF RecordsOK, AwaitsOK, RecordSound, Ended, Active, Terminal

LEMMA EventSound ==
  ASSUME RecordsOK, AwaitsOK, RecordsSound, NEW t \in Tasks, EventStep(t)
  PROVE  RecordsSound'
<1>1. UNCHANGED poll
  BY Zenon DEF EventStep, SessionIdle, IdleChecked, IdleTold, SessionDeleted, poller
<1>2. CASE UNCHANGED <<telling, status, store, pending, exec, cancelling, cleanups>>
  <2>1. \A u \in Tasks : BeingTold(u)' <=> BeingTold(u)
    BY <1>1, <1>2, ToldStays
  <2> QED
    BY <1>2, <2>1 DEF RecordsSound, RecordSound, Ended
<1>3. CASE SessionIdle(t)
  BY <1>2, <1>3 DEF SessionIdle, records, messages, running
<1>4. CASE IdleChecked(t)
  <2>1. CASE Complete(t) /\ telling' = [telling EXCEPT ![t] = @ + 1]
    <3>1. /\ BeingTold(t)'
          /\ \A u \in Tasks : u # t => (BeingTold(u)' <=> BeingTold(u))
      BY <1>1, <2>1 DEF BeingTold, PollTells, AwaitsOK
    <3> QED
      BY <2>1, <3>1, CompleteSound
  <2> QED
    BY <1>2, <1>4, <2>1
    DEF IdleChecked, Increment, records, messages, running
<1>5. CASE IdleTold(t)
  <2>1. /\ BeingTold(t)
        /\ \A u \in Tasks : BeingTold(u)' => BeingTold(u)
        /\ \A u \in Tasks : u # t /\ BeingTold(u) => BeingTold(u)'
    BY <1>1, <1>5 DEF IdleTold, Decrement, BeingTold, PollTells, AwaitsOK
  <2> QED
    BY <1>5, <2>1, ToldSound DEF IdleTold
<1>6. CASE SessionDeleted(t)
  <2>1. /\ status' = [status EXCEPT ![t] = IF @ = "RUNNING" THEN "ERROR" ELSE @]
        /\ pending' = pending \ {t} /\ store' = store \ {t}
        /\ UNCHANGED <<telling, exec, cancelling, cleanups>>
    BY <1>6, Zenon DEF SessionDeleted, Untrack, running, timers
  <2>2. \A u \in Tasks : BeingTold(u)' <=> BeingTold(u)
    BY <1>1, <2>1, ToldStays
  <2> QED
    BY <2>1, <2>2
    DEF RecordsOK, AwaitsOK, RecordsSound, RecordSound, Ended, Active, Terminal
<1> QED
  BY <1>3, <1>4, <1>5, <1>6 DEF EventStep

LEMMA PollSound ==
  ASSUME RecordsOK, AwaitsOK, PollerOK, RecordsSound, NEW c \in Chains,
         NEW t \in Tasks, PollStep(c, t)
  PROVE  RecordsSound'
<1>1. CASE /\ poll[c].at # "telling" /\ poll'[c].at # "telling"
           /\ \A d \in Chains : d # c => poll'[d] = poll[d]
           /\ UNCHANGED <<records, messages, running, timers>>
  <2>1. UNCHANGED <<telling, status, store, pending, exec, cancelling, cleanups>>
    BY <1>1 DEF records, messages, running, timers
  <2>2. \A u \in Tasks : BeingTold(u)' <=> BeingTold(u)
    BY <1>1, <2>1, ToldStays
  <2> QED
    BY <2>1, <2>2 DEF RecordsSound, RecordSound, Ended
<1>2. CASE PollSkips(c, t) \/ PollFindsNothing(c, t)
  BY <1>1, <1>2, DoneTells DEF PollSkips, PollFindsNothing
<1>3. CASE PollChecks(c, t)
  BY <1>1, <1>3 DEF PollChecks, PollerOK, Passes
<1>4. CASE PollCompletes(c, t)
  <2>1. /\ poll[c].at # "telling" /\ Complete(t) /\ UNCHANGED telling
        /\ poll' = [poll EXCEPT ![c].at = "telling", ![c].task = t]
    BY <1>4, Zenon DEF PollCompletes
  <2>2. /\ poll'[c].at = "telling" /\ poll'[c].task = t
        /\ \A d \in Chains : d # c => poll'[d] = poll[d]
    BY <2>1 DEF PollerOK, Passes
  <2>3. /\ BeingTold(t)'
        /\ \A u \in Tasks : u # t => (BeingTold(u)' <=> BeingTold(u))
    BY <2>1, <2>2 DEF BeingTold, PollTells
  <2> QED
    BY <2>1, <2>3, CompleteSound
<1>5. CASE PollTold(c, t)
  <2>1. PollTells(c, t) /\ CompletionTold(t) /\ UNCHANGED telling /\ PollDone(c, t)
    BY <1>5 DEF PollTold
  <2>2. /\ poll'[c].at # "telling"
        /\ \A d \in Chains : d # c => poll'[d] = poll[d]
    BY <2>1, DoneTells
  <2>3. /\ BeingTold(t)
        /\ \A u \in Tasks : BeingTold(u)' => BeingTold(u)
        /\ \A u \in Tasks : u # t /\ BeingTold(u) => BeingTold(u)'
    BY <2>1, <2>2 DEF BeingTold, PollTells
  <2> QED
    BY <2>1, <2>3, ToldSound
<1> QED
  BY <1>2, <1>3, <1>4, <1>5 DEF PollStep

LEMMA SoundStep ==
  ASSUME RecordsOK, Unprepared, AwaitsOK, PollerInv, KeyInv, Slots!NeverLifted,
         RecordsSound, [Next]_vars
  PROVE  RecordsSound'
<1> USE DEF RecordsOK, AwaitsOK, RecordsSound, RecordSound, Ended, Active, Terminal
<1>1. ASSUME NEW t \in Tasks, LauncherStep(t) PROVE RecordsSound'
  BY <1>1, LauncherSound
<1>2. ASSUME NEW t \in Tasks, EventStep(t) PROVE RecordsSound'
  BY <1>2, EventSound
<1>3. ASSUME NEW c \in Chains, PollBegins(c) PROVE RecordsSound'
  <2>1. PICK expired \in SUBSET store : Prune(expired)
    BY <1>3 DEF PollBegins
  <2>2. \A d \in Chains : \/ poll'[d] = poll[d]
                          \/ poll[d].at # "telling" /\ poll'[d].at # "telling"
    BY <1>3, BeginTellsSame
  <2>3. UNCHANGED telling
    BY <2>1 DEF Prune, messages
  <2>4. \A u \in Tasks : BeingTold(u)' <=> BeingTold(u)
    BY <2>2, <2>3, ToldStays
  <2> QED
    BY <2>1, <2>4, PruneSound
<1>4. ASSUME NEW c \in Chains, NEW t \in Tasks, PollStep(c, t) PROVE RecordsSound'
  BY <1>4, PollSound DEF PollerInv
<1>5. ASSUME UNCHANGED <<telling, poll>>
      PROVE  \A u \in Tasks : BeingTold(u)' <=> BeingTold(u)
  BY <1>5, ToldStays
<1>6. ASSUME NEW t \in Tasks, Cancel(t) PROVE RecordsSound'
  <2>1. /\ t \in store /\ status' = [status EXCEPT ![t] = "ERROR"]
        /\ pending' = pending \ {t} /\ cancelling' = [cancelling EXCEPT ![t] = @ + 1]
        /\ UNCHANGED <<store, exec, cleanups, telling, poll>>
    BY <1>6 DEF Cancel, SetStatus, Untrack, Increment, running, messages, poller
  <2> QED
    BY <1>5, <2>1
<1>7. ASSUME NEW t \in Tasks, Cancelled(t) PROVE RecordsSound'
  BY <1>5, <1>7 DEF Cancelled, Decrement, Increment, records, running, messages, poller
<1>8. ASSUME NEW t \in Tasks, CleanupFires(t) PROVE RecordsSound'
  BY <1>5, <1>8 DEF CleanupFires, Decrement, running, messages, poller
<1>9. CASE PruneAtLaunch
  <2>1. PICK expired \in SUBSET store : Prune(expired)
    BY <1>9 DEF PruneAtLaunch
  <2>2. UNCHANGED <<telling, poll>>
    BY <1>9, <2>1 DEF PruneAtLaunch, Prune, messages, poller
  <2> QED
    BY <1>5, <2>1, <2>2, PruneSound
<1>10. CASE ErrorTold \/ KeyStep \/ UNCHANGED vars
  <2>1. UNCHANGED <<status, store, pending, exec, cancelling, cleanups, telling, poll>>
    BY <1>10 DEF ErrorTold, KeyStep, vars, records, running, timers, messages, poller
  <2> QED
    BY <1>5, <2>1
<1>11. CASE Clear
  <2>1. /\ StopPolling({}) /\ store' = {} /\ pending' = {}
        /\ UNCHANGED <<telling, status, exec, cancelling, cleanups>>
    BY <1>11 DEF Clear, running, timers
  <2>2. \A u \in Tasks : BeingTold(u)' <=> BeingTold(u)
    BY <2>1, StopTellsSame, ToldStays DEF PollerInv
  <2> QED
    BY <2>1, <2>2
<1> HIDE DEF RecordsSound
<1> QED
  BY <1>1, <1>2, <1>3, <1>4, <1>6, <1>7, <1>8, <1>9, <1>10, <1>11, Zenon DEF Next

-----------------------------------------------------------------------------
(* A queued notification is in a message under way.                        *)

LEMMA NothingForgotten ==
  ASSUME NEW t, ForgetNotifications(t), notifications = <<>>
  PROVE  notifications' = <<>>
<1>1. ToSet(notifications) = {}
  BY DEF ToSet
<1> QED
  BY <1>1, Zenon DEF ForgetNotifications

LEMMA NoticesStart == Init => NoStaleNotification
BY DEF Init, NoStaleNotification

(* Nothing is queued, or what was queued is still on its way.              *)
LEMMA NoticesStay ==
  ASSUME NoStaleNotification, UNCHANGED tellingErrors,
         notifications = <<>> => notifications' = <<>>,
         \A u \in Tasks : BeingTold(u) => BeingTold(u)'
  PROVE  NoStaleNotification'
BY DEF NoStaleNotification

LEMMA NoticesTold ==
  ASSUME notifications' = <<>>
  PROVE  NoStaleNotification'
BY DEF NoStaleNotification

LEMMA NoticeQueued ==
  ASSUME NEW t \in Tasks, BeingTold(t)'
  PROVE  NoStaleNotification'
BY DEF NoStaleNotification

LEMMA NoticesStep ==
  ASSUME AwaitsOK, PollerInv, NoStaleNotification, [Next]_vars
  PROVE  NoStaleNotification'
<1>1. ASSUME UNCHANGED <<telling, poll, tellingErrors, notifications>>
      PROVE  NoStaleNotification'
  BY <1>1, ToldStays, NoticesStay
<1>2. ASSUME NEW t \in Tasks, LauncherStep(t) PROVE NoStaleNotification'
  <2>1. CASE TaskError(t)
    <3>1. UNCHANGED <<notifications, telling, poll>>
      BY <2>1, Zenon DEF TaskError, poller
    <3>2. CASE UNCHANGED tellingErrors
      BY <1>1, <3>1, <3>2
    <3>3. CASE notifications = <<>>
      BY <3>1, <3>3, NoticesTold
    <3>4. CASE tellingErrors' = tellingErrors + 1
      BY <3>4 DEF NoStaleNotification, AwaitsOK
    <3> QED
      BY <2>1, <3>2, <3>3, <3>4, Zenon DEF TaskError
  <2>2. CASE Execute(t)
    <3>1. StartPolling /\ UNCHANGED <<telling, tellingErrors, notifications>>
      BY <2>2 DEF Execute, messages
    <3>2. \A u \in Tasks : BeingTold(u)' <=> BeingTold(u)
      BY <3>1, StartKeepsPoller, ToldStays
    <3> QED
      BY <3>1, <3>2, NoticesStay
  <2> QED
    BY <1>1, <1>2, <2>1, <2>2, Zenon
    DEF LauncherStep, Prepare, WaitTimesOut, Start, FirePrompt, PromptReturns,
        PromptFails, Retry, TokenExpires, messages, poller
<1>3. ASSUME NEW t \in Tasks, EventStep(t) PROVE NoStaleNotification'
  <2>1. CASE SessionIdle(t)
    BY <1>1, <2>1, Zenon DEF SessionIdle, messages, poller
  <2>2. CASE IdleChecked(t)
    <3>1. CASE telling' = [telling EXCEPT ![t] = @ + 1]
      <4>1. BeingTold(t)'
        BY <3>1 DEF BeingTold, AwaitsOK
      <4> QED
        BY <4>1, NoticeQueued
    <3> QED
      BY <1>1, <2>2, <3>1, Zenon DEF IdleChecked, Increment, messages, poller
  <2>3. CASE IdleTold(t)
    BY <2>3, NoticesTold, Zenon DEF IdleTold, CompletionTold
  <2>4. CASE SessionDeleted(t)
    <3>1. ForgetNotifications(t) /\ UNCHANGED <<telling, tellingErrors, poll>>
      BY <2>4, Zenon DEF SessionDeleted, poller
    <3>2. \A u \in Tasks : BeingTold(u)' <=> BeingTold(u)
      BY <3>1, ToldStays
    <3> QED
      BY <3>1, <3>2, NothingForgotten, NoticesStay
  <2> QED
    BY <1>3, <2>1, <2>2, <2>3, <2>4 DEF EventStep
<1>4. ASSUME NEW c \in Chains, PollBegins(c) PROVE NoStaleNotification'
  <2>1. UNCHANGED <<telling, tellingErrors, notifications>>
    BY <1>4 DEF PollBegins, Prune, messages
  <2>2. \A u \in Tasks : BeingTold(u)' <=> BeingTold(u)
    BY <1>4, <2>1, BeginTellsSame, ToldStays
  <2> QED
    BY <2>1, <2>2, NoticesStay
<1>5. ASSUME NEW c \in Chains, NEW t \in Tasks, PollStep(c, t)
      PROVE  NoStaleNotification'
  <2>1. CASE PollSkips(c, t) \/ PollFindsNothing(c, t)
    <3>1. /\ poll[c].at # "telling" /\ PollDone(c, t)
          /\ UNCHANGED <<telling, tellingErrors, notifications>>
      BY <2>1 DEF PollSkips, PollFindsNothing, messages
    <3>2. \A u \in Tasks : BeingTold(u)' <=> BeingTold(u)
      BY <3>1, DoneTells, ToldStays DEF PollerInv
    <3> QED
      BY <3>1, <3>2, NoticesStay
  <2>2. CASE PollChecks(c, t)
    <3>1. /\ poll[c].at # "telling" /\ poll'[c].at # "telling"
          /\ \A d \in Chains : d # c => poll'[d] = poll[d]
          /\ UNCHANGED <<telling, tellingErrors, notifications>>
      BY <2>2 DEF PollChecks, messages, PollerInv, PollerOK, Passes
    <3>2. \A u \in Tasks : BeingTold(u)' <=> BeingTold(u)
      BY <3>1, ToldStays
    <3> QED
      BY <3>1, <3>2, NoticesStay
  <2>3. CASE PollCompletes(c, t)
    <3>1. poll' = [poll EXCEPT ![c].at = "telling", ![c].task = t]
      BY <2>3, Zenon DEF PollCompletes
    <3>2. PollTells(c, t)'
      BY <3>1 DEF PollTells, PollerInv, PollerOK, Passes
    <3> QED
      BY <3>2, NoticeQueued, Zenon DEF BeingTold
  <2>4. CASE PollTold(c, t)
    BY <2>4, NoticesTold, Zenon DEF PollTold, CompletionTold
  <2> QED
    BY <1>5, <2>1, <2>2, <2>3, <2>4 DEF PollStep
<1>6. ASSUME NEW t \in Tasks, Cancel(t) \/ Cancelled(t) \/ CleanupFires(t)
      PROVE  NoStaleNotification'
  BY <1>1, <1>6, Zenon DEF Cancel, Cancelled, CleanupFires, messages, poller
<1>7. CASE ErrorTold \/ Clear
  BY <1>7, NoticesTold, Zenon DEF ErrorTold, Clear
<1>8. CASE PruneAtLaunch \/ KeyStep \/ UNCHANGED vars
  BY <1>1, <1>8, Zenon DEF PruneAtLaunch, Prune, KeyStep, vars, messages, poller
<1> QED
  BY <1>2, <1>3, <1>4, <1>5, <1>6, <1>7, <1>8, Zenon DEF Next

-----------------------------------------------------------------------------
(* The poller has its handle once a task that is pending was launched.     *)
PolledOnceLaunched == (\E t \in pending : exec[t] # "prepared") => polling # 0

LEMMA PolledStart == Init => PolledOnceLaunched
BY DEF Init, PolledOnceLaunched

(* A poller that stays serves whatever else is launched.                   *)
LEMMA PolledStays ==
  ASSUME PolledOnceLaunched, polling # 0 => polling' # 0,
         \A t \in pending' : exec'[t] # "prepared" => t \in pending /\ exec[t] # "prepared"
  PROVE  PolledOnceLaunched'
BY DEF PolledOnceLaunched

LEMMA PolledStep ==
  ASSUME RecordsOK, RecordsOK', KeyInv, Slots!NeverLifted, PollerInv,
         PolledOnceLaunched, RecordsSound', [Next]_vars
  PROVE  PolledOnceLaunched'
<1>1. ASSUME UNCHANGED <<exec, polling>>, pending' \subseteq pending
      PROVE  PolledOnceLaunched'
  BY <1>1, PolledStays
<1>2. ASSUME NEW t \in Tasks, LauncherStep(t) PROVE PolledOnceLaunched'
  <2>1. CASE Execute(t)
    BY <2>1, StartKeepsPoller, Zenon DEF Execute, PolledOnceLaunched
  <2>2. ASSUME NEW e \in ExecPlaces, exec[t] # "prepared", SetExec(t, e),
               UNCHANGED polling, pending' \subseteq pending
        PROVE  PolledOnceLaunched'
    <3>1. \A u \in Tasks : exec'[u] # "prepared" => exec[u] # "prepared"
      BY <2>2 DEF SetExec, RecordsOK
    <3> QED
      BY <2>2, <3>1, PolledStays DEF RecordsOK
  <2>3. CASE Prepare(t)
    <3>1. /\ exec' = [exec EXCEPT ![t] = "prepared"] /\ pending' = pending \cup {t}
          /\ UNCHANGED polling
      BY <2>3 DEF Prepare, SetExec, poller
    <3> QED
      BY <3>1, PolledStays DEF RecordsOK
  <2>4. CASE WaitTimesOut(t)
    <3>1. exec[t] = "acquiring"
      BY <2>4, TimeoutKept DEF WaitTimesOut, KeyInv, TokensFollowExecution
    <3> QED
      BY <2>2, <2>4, <3>1 DEF WaitTimesOut, records, poller, ExecPlaces
  <2>5. CASE Start(t) \/ Retry(t)
    BY <2>2, <2>5 DEF Start, Retry, FirePrompt, poller, ExecPlaces
  <2>6. CASE PromptReturns(t) \/ \E kind \in ErrorKinds : PromptFails(t, kind)
    BY <2>2, <2>6 DEF PromptReturns, PromptFails, records, poller, ExecPlaces
  <2>7. CASE TokenExpires(t)
    BY <1>1, <2>7 DEF TokenExpires, records, running, poller
  <2>8. CASE TaskError(t)
    <3>1. /\ exec[t] = "failing" /\ SetExec(t, "ended") /\ UNCHANGED polling
          /\ Untrack(t) \/ UNCHANGED pending
      BY <2>8, Zenon DEF TaskError, poller
    <3> QED
      BY <2>2, <3>1 DEF Untrack, ExecPlaces
  <2> QED
    BY <1>2, <2>1, <2>3, <2>4, <2>5, <2>6, <2>7, <2>8, Zenon DEF LauncherStep
<1>3. ASSUME NEW t \in Tasks, Complete(t), UNCHANGED polling
      PROVE  PolledOnceLaunched'
  <2>1. UNCHANGED exec /\ Untrack(t)
    BY <1>3, Zenon DEF Complete, running
  <2> QED
    BY <1>1, <1>3, <2>1 DEF Untrack
<1>4. ASSUME NEW t \in Tasks, EventStep(t) PROVE PolledOnceLaunched'
  <2>1. CASE SessionDeleted(t)
    <3>1. UNCHANGED <<exec, polling>> /\ Untrack(t)
      BY <2>1, Zenon DEF SessionDeleted, running, poller
    <3> QED
      BY <1>1, <3>1 DEF Untrack
  <2>2. CASE IdleChecked(t) /\ Complete(t)
    BY <1>3, <2>2, Zenon DEF IdleChecked, poller
  <2>3. CASE UNCHANGED <<exec, polling, pending>>
    BY <1>1, <2>3
  <2> QED
    BY <1>4, <2>1, <2>2, <2>3, Zenon
    DEF EventStep, SessionIdle, IdleChecked, IdleTold, CompletionTold, records, running,
        poller
<1>5. ASSUME NEW c \in Chains, PollBegins(c) PROVE PolledOnceLaunched'
  <2>1. UNCHANGED exec /\ pending' \subseteq pending
    BY <1>5 DEF PollBegins, Prune, running
  <2>2. CASE { t \in store' : status'[t] \in Active } = {}
    <3>1. pending' = {}
      BY <2>2 DEF RecordsSound, RecordSound, RecordsOK
    <3> QED
      BY <3>1 DEF PolledOnceLaunched
  <2>3. CASE UNCHANGED polling
    BY <1>1, <2>1, <2>3
  <2> QED
    BY <1>5, <2>2, <2>3, Zenon DEF PollBegins
<1>6. ASSUME NEW c \in Chains, NEW t \in Tasks, PollStep(c, t)
      PROVE  PolledOnceLaunched'
  <2>1. ASSUME PollDone(c, t), UNCHANGED <<exec, pending>> PROVE PolledOnceLaunched'
    <3>1. polling # 0 => polling' # 0
      BY <2>1, ChainsFinite DEF PollDone
    <3> QED
      BY <2>1, <3>1, PolledStays
  <2>2. CASE PollCompletes(c, t)
    BY <1>3, <2>2, Zenon DEF PollCompletes
  <2>3. CASE PollChecks(c, t)
    BY <1>1, <2>3 DEF PollChecks, records, running
  <2> QED
    BY <1>6, <2>1, <2>2, <2>3, Zenon
    DEF PollStep, PollSkips, PollFindsNothing, PollTold, CompletionTold, records, running
<1>7. ASSUME NEW t \in Tasks, Cancel(t) \/ Cancelled(t) \/ CleanupFires(t)
      PROVE  PolledOnceLaunched'
  BY <1>1, <1>7 DEF Cancel, Cancelled, CleanupFires, Untrack, records, running, poller
<1>8. CASE Clear
  BY <1>8, Zenon DEF Clear, PolledOnceLaunched
<1>9. CASE PruneAtLaunch
  BY <1>1, <1>9 DEF PruneAtLaunch, Prune, running, poller
<1>10. CASE ErrorTold \/ KeyStep \/ UNCHANGED vars
  BY <1>1, <1>10 DEF ErrorTold, KeyStep, vars, records, running, poller
<1> QED
  BY <1>2, <1>4, <1>5, <1>6, <1>7, <1>8, <1>9, <1>10, Zenon DEF Next

-----------------------------------------------------------------------------
(* The inductive invariant of the tasks: the key and the executions that   *)
(* hold its slots, the records, the calls that await something, the        *)
(* poller, and what relates them.                                          *)
TasksInv ==
  /\ RecordsOK /\ Unprepared /\ AwaitsOK
  /\ KeyInv
  /\ PollerInv
  /\ RecordsSound /\ NoStaleNotification /\ PolledOnceLaunched

LEMMA KeyStart == Init => KeyInv
<1> SUFFICES ASSUME Init PROVE KeyInv
  OBVIOUS
<1>1. KeyProofs!Init /\ Slots!Init
  BY DEF Init, Slots!Init, KeyProofs!Init
<1>2. KeyProofs!SlotInv
  BY <1>1, KeyAssumed, KeyProofs!SlotsStart
<1>3. Slots!TypeOK
  BY <1>1, TasksAssumption DEF Slots!Init, Slots!TypeOK, Slots!Circuits
<1>4. holders = {} /\ Slots!Queued = {}
  BY <1>1 DEF Slots!Init, Slots!Queued, Slots!ToSet
<1>5. TokensFollowExecution
  BY <1>4 DEF TokensFollowExecution, Init
<1> QED
  BY <1>2, <1>3, <1>5 DEF KeyInv

LEMMA TasksInvStart == Init => TasksInv
BY RecordsStart, AwaitsStart, KeyStart, PollerStart, SoundStart, NoticesStart, PolledStart,
   Zenon DEF TasksInv

LEMMA TasksInvStep ==
  ASSUME Slots!NeverLifted, TasksInv, [Next]_vars
  PROVE  TasksInv'
<1> USE DEF TasksInv
<1>1. RecordsOK' /\ Unprepared'
  BY RecordsStep, Zenon
<1>2. AwaitsOK' /\ KeyInv'
  BY AwaitsStep, KeyStepKept, Zenon
<1>3. PollerInv'
  BY <1>1, PollerStep, Zenon
<1>4. RecordsSound' /\ NoStaleNotification'
  BY SoundStep, NoticesStep, Zenon
<1>5. PolledOnceLaunched'
  BY <1>1, <1>4, PolledStep, Zenon
<1> QED
  BY <1>1, <1>2, <1>3, <1>4, <1>5, Zenon

(* The tasks of a parent keep all of it, unless the key's limit is lifted  *)
(* at runtime.                                                             *)
THEOREM TasksCorrect ==
  ASSUME Slots!NeverLifted
  PROVE  Spec => []TasksInv
<1>1. TasksInv /\ [Next]_vars => TasksInv'
  BY TasksInvStep
<1> QED
  BY <1>1, TasksInvStart, PTL DEF Spec

(* However a task ends, the key gets back its tokens and its queue         *)
(* entries, and calls that wait will be woken by an execution.             *)
THEOREM KeysNeverStick ==
  ASSUME Slots!NeverLifted
  PROVE  Spec => []KeyNeverStuck
<1>1. KeyInv => KeyNeverStuck
  <2> SUFFICES ASSUME KeyInv PROVE KeyNeverStuck
    OBVIOUS
  <2>1. /\ TokensFollowExecution /\ count \in Nat
        /\ count <= KeyProofs!Cardinality(holders)
        /\ queue # <<>> => count >= 1
    BY DEF KeyInv, KeyProofs!SlotInv, KeyProofs!NoSlotLeak, Slots!TypeOK
  <2>2. count <= Cardinality(holders)
    BY <2>1, SameCardinality
  <2>3. ASSUME queue # <<>>
        PROVE  \E t \in holders : exec[t] \in {"acquiring", "prompting", "backoff"}
    <3>1. holders # {}
      BY <2>1, <2>2, <2>3, FS_EmptySet
    <3>2. holders \subseteq Tasks
      BY DEF KeyInv, Slots!TypeOK
    <3> QED
      BY <2>1, <3>1, <3>2 DEF TokensFollowExecution
  <2> QED
    BY <2>1, <2>2, <2>3 DEF KeyNeverStuck
<1>2. TasksInv => KeyInv
  BY DEF TasksInv
<1> QED
  BY <1>1, <1>2, TasksCorrect, PTL

(* What the parent waits for is in the store, may still end, and once      *)
(* launched is looked at by a poller.                                      *)
THEOREM PendingStaysTracked ==
  ASSUME Slots!NeverLifted
  PROVE  Spec => []PendingTracked
<1>1. TasksInv => PendingTracked
  <2> SUFFICES ASSUME TasksInv PROVE PendingTracked
    OBVIOUS
  <2>1. pending \subseteq { t \in store : status[t] \in Active }
    BY DEF TasksInv, RecordsOK, RecordsSound, RecordSound
  <2>2. (\E t \in pending : exec[t] # "prepared")
           => polling # 0 /\ poll[polling].at # "stopped"
    BY DEF TasksInv, PolledOnceLaunched, PollerInv, PollingRuns
  <2> QED
    BY <2>1, <2>2 DEF PendingTracked
<1> QED
  BY <1>1, TasksCorrect, PTL

(* No record that has ended stays without someone to remove it, and no     *)
(* notification stays queued without a message under way.                  *)
THEOREM NothingStaysBehind ==
  ASSUME Slots!NeverLifted
  PROVE  Spec => []NothingLeftBehind
<1>1. TasksInv => NothingLeftBehind
  BY DEF TasksInv, RecordsOK, RecordsSound, RecordSound, Ended, NothingLeftBehind,
         NoRecordLeak
<1> QED
  BY <1>1, TasksCorrect, PTL
=============================================================================
