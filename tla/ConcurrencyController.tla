----------------------- MODULE ConcurrencyController -----------------------
(***************************************************************************)
(* The slots of one concurrency key (core/agents/concurrency.ts) and the   *)
(* tokens handed out for them (core/agents/concurrency-token.ts).          *)
(*                                                                         *)
(* The controller keeps every Map per key and no operation touches two     *)
(* keys, so one key is modelled.  The plugin is single-threaded: every     *)
(* method below runs to completion without an await, hence each is one     *)
(* action; only the waiter's promise, the 300s waiter timer and the 10min  *)
(* token timer are steps of their own.                                     *)
(***************************************************************************)
EXTENDS Integers, SequencesExt, FiniteSets

CONSTANTS
  Callers,            \* calls of acquireToken() that may be in flight
  AskedPriorities,    \* the priorities they ask for
  InitialLimit,       \* getConcurrencyLimit() before any setLimit()
  SettableLimits,     \* the values passed to setLimit()
  MaxConcurrency,     \* PARALLEL_TASK.MAX_CONCURRENCY
  CircuitThreshold,   \* CIRCUIT_THRESHOLD
  HalfOpenSuccess,    \* HALF_OPEN_SUCCESS
  ScaleUpStreak,      \* successes in a row that raise the limit
  ScaleDownStreak,    \* failures in a row that lower it
  DirectReleases      \* do callers also call release(key) without a token?

HIGH   == 0
NORMAL == 1
LOW    == 2
Priorities == {HIGH, NORMAL, LOW}

ASSUME ControllerAssumption ==
  /\ IsFiniteSet(Callers)
  /\ AskedPriorities \in SUBSET Priorities
  /\ InitialLimit \in Nat
  /\ SettableLimits \in SUBSET Nat
  /\ MaxConcurrency \in Nat \ {0}
  /\ CircuitThreshold \in Nat \ {0}
  /\ HalfOpenSuccess \in Nat \ {0}
  /\ ScaleUpStreak \in Nat \ {0}
  /\ ScaleDownStreak \in Nat \ {0}
  /\ DirectReleases \in BOOLEAN

(* An explicit limit of 0 means Infinity.                                  *)
Unlimited == 0

Waiters == [caller : Callers, priority : Priorities]

(* "failures" and the two streaks are only compared with their thresholds, *)
(* so they stop there.  "window": has CIRCUIT_TIMEOUT passed since         *)
(* lastFailureTime?                                                        *)
Circuits ==
  [state     : {"CLOSED", "OPEN", "HALF_OPEN"},
   failures  : 0 .. CircuitThreshold,
   successes : 0 .. HalfOpenSuccess,
   window    : {"running", "over"}]

VARIABLES
  count,          \* counts.get(key)
  queue,          \* queues.get(key)
  limit,          \* getConcurrencyLimit(key), Unlimited for Infinity
  holders,        \* callers with a token that is not released yet
  circuit,        \* circuits.get(key)
  successStreak,  \* successStreak.get(key)
  failureStreak   \* failureCount.get(key), the auto-scaling one

slots    == <<count, queue, holders>>
feedback == <<limit, circuit, successStreak, failureStreak>>
vars     == <<slots, feedback>>

(* setLimit(key, 0) at runtime would forget the slots counted before.      *)
NeverLifted == Unlimited \notin SettableLimits

Queued == { w.caller : w \in ToSet(queue) }

Saturate(n, bound) == IF n < bound THEN n ELSE bound

Init ==
  /\ count = 0
  /\ queue = <<>>
  /\ limit = InitialLimit
  /\ holders = {}
  /\ circuit = [state |-> "CLOSED", failures |-> 0, successes |-> 0,
                window |-> "over"]
  /\ successStreak = 0
  /\ failureStreak = 0

-----------------------------------------------------------------------------
(* acquire() and acquireToken()                                            *)

(* Mutant of CircuitBlocks: OPEN is left before the window is over.        *)
BlocksNever == FALSE

CircuitBlocks == circuit.state = "OPEN" /\ circuit.window = "running"

ProbingCircuit ==
  [state |-> "HALF_OPEN", failures |-> circuit.failures, successes |-> 0,
   window |-> circuit.window]

(* isCircuitOpen() moves an OPEN circuit whose window is over to HALF_OPEN. *)
CheckCircuit ==
  /\ ~CircuitBlocks
  /\ circuit' = IF circuit.state = "OPEN"
                THEN ProbingCircuit
                ELSE circuit

(* Mutant of InsertsAt: push() instead of splice().                        *)
InsertsAtEnd(p, i) == i = Len(queue) + 1

(* The position findIndex() selects: before the first waiter of a lower    *)
(* priority, else the end.                                                 *)
InsertsAt(p, i) ==
  /\ \A k \in 1 .. i - 1 : queue[k].priority <= p
  /\ i <= Len(queue) => queue[i].priority > p

HasFreeSlot == limit # Unlimited /\ count < limit

GrantUncounted(c) ==
  /\ limit = Unlimited
  /\ holders' = holders \cup {c}
  /\ UNCHANGED <<count, queue>>

GrantSlot(c) ==
  /\ HasFreeSlot
  /\ count' = count + 1
  /\ holders' = holders \cup {c}
  /\ UNCHANGED queue

(* Mutant of Enqueue: Infinity is compared like a limit of 0.              *)
EnqueueUnlimited(c, p) ==
  /\ ~HasFreeSlot
  /\ \E i \in 1 .. Len(queue) + 1 :
        /\ InsertsAt(p, i)
        /\ queue' = InsertAt(queue, i, [caller |-> c, priority |-> p])
  /\ UNCHANGED <<count, holders>>

Enqueue(c, p) ==
  /\ limit # Unlimited /\ ~HasFreeSlot
  /\ \E i \in 1 .. Len(queue) + 1 :
        /\ InsertsAt(p, i)
        /\ queue' = InsertAt(queue, i, [caller |-> c, priority |-> p])
  /\ UNCHANGED <<count, holders>>

(* isUnderResourcePressure() is read from the heap: either answer may come. *)
RejectUnderPressure(p) == p = LOW /\ UNCHANGED slots

Acquire(c, p) ==
  /\ c \notin holders \cup Queued
  /\ CheckCircuit
  /\ \/ RejectUnderPressure(p)
     \/ GrantUncounted(c)
     \/ GrantSlot(c)
     \/ Enqueue(c, p)
  /\ UNCHANGED <<limit, successStreak, failureStreak>>

(* The 300s timer of a queued call: removeFromQueue() and reject.          *)
WaiterTimeout(c) ==
  /\ \E i \in DOMAIN queue :
        /\ queue[i].caller = c
        /\ queue' = RemoveAt(queue, i)
  /\ UNCHANGED <<count, holders, feedback>>

-----------------------------------------------------------------------------
(* release(): the slot goes to the head of the queue, else it is returned. *)

(* Mutants of ReleaseSlotOf: with the counter wrong by one after a         *)
(* hand-over, ...                                                          *)
HandsOver(leaving, i) ==
  /\ queue # <<>>
  /\ holders' = (holders \ leaving) \cup {queue[i].caller}

GivesBack(leaving) ==
  /\ count' = IF count > 0 THEN count - 1 ELSE count
  /\ holders' = holders \ leaving
  /\ UNCHANGED queue

HandOverCountsUp(leaving) ==
  \/ HandsOver(leaving, 1) /\ queue' = Tail(queue) /\ count' = count + 1
  \/ queue = <<>> /\ GivesBack(leaving)

(* ... peeked at instead of shifted out, ...                               *)
HandOverKeepsHead(leaving) ==
  \/ HandsOver(leaving, 1) /\ UNCHANGED <<count, queue>>
  \/ queue = <<>> /\ GivesBack(leaving)

(* ... or never woken.                                                     *)
ReleaseForgetsQueue(leaving) == GivesBack(leaving)

ReleaseSlotOf(leaving) ==
  \/ /\ limit = Unlimited
     /\ holders' = holders \ leaving
     /\ UNCHANGED <<count, queue>>
  \/ /\ limit # Unlimited /\ queue # <<>>
     /\ queue' = Tail(queue)
     /\ holders' = (holders \ leaving) \cup {Head(queue).caller}
     /\ UNCHANGED count
  \/ /\ limit # Unlimited /\ queue = <<>>
     /\ count' = IF count > 0 THEN count - 1 ELSE count
     /\ holders' = holders \ leaving
     /\ UNCHANGED queue

(* ConcurrencyToken.release(), called once or by the token's own timer.    *)
ReleaseToken(c) ==
  /\ c \in holders
  /\ ReleaseSlotOf({c})
  /\ UNCHANGED feedback

(* release(key) by a caller that does not give up its token.               *)
ReleaseKey ==
  /\ DirectReleases
  /\ ReleaseSlotOf({})
  /\ UNCHANGED feedback

-----------------------------------------------------------------------------
(* reportResult(): circuit breaker, then auto-scaling.                     *)

ClosedCircuit ==
  [state |-> "CLOSED", failures |-> 0, successes |-> 0,
   window |-> circuit.window]

(* Mutant of CircuitAfterSuccess: a late success closes an OPEN breaker.    *)
LateSuccessCloses ==
  IF circuit.state = "HALF_OPEN" /\ circuit.successes + 1 < HalfOpenSuccess
  THEN [circuit EXCEPT !.successes = @ + 1]
  ELSE ClosedCircuit

CircuitAfterSuccess ==
  IF circuit.state # "HALF_OPEN"
  THEN [circuit EXCEPT !.failures = 0]
  ELSE IF circuit.successes + 1 >= HalfOpenSuccess
       THEN ClosedCircuit
       ELSE [circuit EXCEPT !.successes = @ + 1]

CircuitAfterFailure ==
  LET probing  == circuit.state = "HALF_OPEN"
      failures == Saturate(circuit.failures + 1, CircuitThreshold)
      opens    == probing \/ failures >= CircuitThreshold
  IN  [state     |-> IF opens THEN "OPEN" ELSE circuit.state,
       failures  |-> failures,
       successes |-> IF probing THEN 0 ELSE circuit.successes,
       window    |-> "running"]

ReportSuccess ==
  LET streak  == Saturate(successStreak + 1, ScaleUpStreak)
      scaleUp == /\ streak >= ScaleUpStreak
                 /\ limit # Unlimited /\ limit < MaxConcurrency
  IN  /\ circuit' = CircuitAfterSuccess
      /\ limit' = IF scaleUp THEN limit + 1 ELSE limit
      /\ successStreak' = IF scaleUp THEN 0 ELSE streak
      /\ failureStreak' = 0

(* Mutant of ReportFailure: scaling down has no floor.                     *)
FailureWithoutFloor ==
  /\ circuit' = CircuitAfterFailure
  /\ limit' = limit - 1
  /\ failureStreak' = 0
  /\ successStreak' = 0

(* Infinity - 1 is Infinity: an unlimited key stays so, but the streak is  *)
(* reset as for a limit above 1.                                           *)
ReportFailure ==
  LET streak    == Saturate(failureStreak + 1, ScaleDownStreak)
      scaleDown == streak >= ScaleDownStreak /\ limit # 1
  IN  /\ circuit' = CircuitAfterFailure
      /\ limit' = IF scaleDown /\ limit # Unlimited THEN limit - 1 ELSE limit
      /\ failureStreak' = IF scaleDown THEN 0 ELSE streak
      /\ successStreak' = 0

ReportResult(success) ==
  \/ success /\ ReportSuccess
  \/ ~success /\ ReportFailure

(* A caller reports whenever it likes: nothing ties a report to a token.   *)
Report ==
  /\ \E success \in BOOLEAN : ReportResult(success)
  /\ UNCHANGED slots

-----------------------------------------------------------------------------
SetLimit ==
  /\ limit' \in SettableLimits
  /\ UNCHANGED <<slots, circuit, successStreak, failureStreak>>

ResetCircuit ==
  /\ circuit' = ClosedCircuit
  /\ UNCHANGED <<slots, limit, successStreak, failureStreak>>

(* CIRCUIT_TIMEOUT after the last failure.                                 *)
WindowElapses ==
  /\ circuit.window = "running"
  /\ circuit' = [circuit EXCEPT !.window = "over"]
  /\ UNCHANGED <<slots, limit, successStreak, failureStreak>>

Next ==
  \/ \E c \in Callers, p \in AskedPriorities : Acquire(c, p)
  \/ \E c \in Callers : WaiterTimeout(c)
  \/ \E c \in Callers : ReleaseToken(c)
  \/ ReleaseKey
  \/ Report
  \/ SetLimit
  \/ ResetCircuit
  \/ WindowElapses

Spec == Init /\ [][Next]_vars

(* The token's timer releases what its owner never does; nothing obliges   *)
(* a caller to report, to reset or to release early.                       *)
Fairness == \A c \in Callers : WF_vars(ReleaseToken(c))

FairSpec == Spec /\ Fairness

-----------------------------------------------------------------------------
TypeOK ==
  /\ count \in Nat
  /\ queue \in Seq(Waiters)
  /\ limit \in Nat
  /\ holders \in SUBSET Callers
  /\ circuit \in Circuits
  /\ successStreak \in 0 .. ScaleUpStreak
  /\ failureStreak \in 0 .. ScaleDownStreak

(* A call waits at most once and never while it has a slot: what           *)
(* removeFromQueue() by resolve function and the hand-over in release()    *)
(* rely on.                                                                *)
EachCallOnce ==
  /\ \A i, j \in DOMAIN queue : queue[i].caller = queue[j].caller => i = j
  /\ Queued \cap holders = {}

(* Every counted slot belongs to a live token: no history of early         *)
(* releases, hand-overs, timeouts and rescaling leaves a slot counted      *)
(* that nobody will give back.                                             *)
NoSlotLeak == count <= Cardinality(holders)

(* acquire() queues a call only when every slot is taken, and release()    *)
(* hands over before it counts down: while calls wait, some token is out   *)
(* whose release will wake the first of them.                              *)
NoStrandedWaiter == queue # <<>> => count >= 1 /\ holders # {}

PriorityOrdered ==
  \A i, j \in DOMAIN queue : i < j => queue[i].priority <= queue[j].priority

WaitersKeepOrder ==
  \A i, j \in DOMAIN queue, k, l \in DOMAIN queue' :
    (i < j /\ queue[i] = queue'[k] /\ queue[j] = queue'[l]) => k < l

OnlyHeadServed == \A c \in Queued \cap holders' : c = queue[1].caller

(* The queue acquire() builds by splicing is sorted by priority; no step   *)
(* lets a waiter overtake another one in it, be it a timeout that removes  *)
(* one from the middle, nor gets another than its head a slot.             *)
QueueDiscipline ==
  [][PriorityOrdered' /\ WaitersKeepOrder /\ OnlyHeadServed]_vars

StaysOpen ==
  circuit.state = "OPEN" =>
    \/ circuit'.state = "OPEN"
    \/ /\ circuit'.state = "HALF_OPEN" /\ circuit'.successes = 0
       /\ circuit.window = "over"
    \/ ResetCircuit

ProbesInFull ==
  circuit.state = "HALF_OPEN" =>
    \/ circuit'.state = "HALF_OPEN" /\ circuit'.successes = circuit.successes
    \/ /\ circuit'.state = "HALF_OPEN" /\ circuit'.successes = circuit.successes + 1
       /\ failureStreak' = 0
    \/ circuit'.state = "CLOSED" /\ circuit.successes + 1 = HalfOpenSuccess
    \/ circuit'.state = "OPEN" /\ circuit'.window = "running"
    \/ ResetCircuit

StaysClosed ==
  circuit.state = "CLOSED" =>
    \/ /\ circuit'.state = "CLOSED"
       /\ circuit'.failures \in {0, circuit.failures, circuit.failures + 1}
    \/ circuit'.state = "OPEN" /\ circuit'.failures = CircuitThreshold

(* The breaker leaves OPEN only for HALF_OPEN, after the recovery window   *)
(* and with no success counted yet, or by resetCircuit(): a late success   *)
(* of a call let in before does not close it.  HALF_OPEN counts successes  *)
(* one by one and closes with the last of HalfOpenSuccess, or opens for a  *)
(* new window.  CLOSED opens with CircuitThreshold failures on record,     *)
(* counted one by one.                                                     *)
CircuitCycle == [][StaysOpen /\ ProbesInFull /\ StaysClosed]_vars

(* With token-only callers and finite limits, one key is a semaphore that  *)
(* loses no slot, no waiter and no wake-up.                                *)
Admission == INSTANCE SlotAdmission WITH waiting <- Queued, capacity <- limit

ImplementsAdmission == Admission!Spec

(* An unlimited key never makes a call wait and counts nothing.            *)
UnlimitedNeverWaits == limit = Unlimited => queue = <<>> /\ count = 0

(* A queued call of a key whose callers all have one priority is served or *)
(* times out, though only the tokens' own timers are sure to release.      *)
WaitersServed == \A c \in Callers : c \in Queued ~> c \notin Queued
=============================================================================
