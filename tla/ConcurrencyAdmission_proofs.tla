-------------------- MODULE ConcurrencyAdmission_proofs --------------------
(***************************************************************************)
(* Proofs about the steps of one concurrency key, for any set of callers   *)
(* and any settings: the order of its queue, the cycle of its breaker, and *)
(* that a key whose callers give each slot back once implements the        *)
(* semaphore of SlotAdmission.                                             *)
(***************************************************************************)
EXTENDS ConcurrencyController_proofs

-----------------------------------------------------------------------------
(* The queue.  A sorted queue stays sorted only if the waiter is put where *)
(* findIndex() says; who is first among equals is told apart by the caller *)
(* of an entry, which is why EachCallOnce is needed as well.               *)
OrderInv == EachCallOnce /\ PriorityOrdered

(* What a step does that leaves the queue as it is.                        *)
LEMMA SameQueue ==
  ASSUME TypeOK, OrderInv, UNCHANGED queue, Queued \cap holders' = {}
  PROVE  OrderInv' /\ WaitersKeepOrder /\ OnlyHeadServed
<1>1. /\ EachCallOnce' /\ PriorityOrdered' /\ OnlyHeadServed
  BY DEF OrderInv, EachCallOnce, PriorityOrdered, OnlyHeadServed, Queued
<1>2. WaitersKeepOrder
  BY DEF OrderInv, EachCallOnce, WaitersKeepOrder
<1> QED
  BY <1>1, <1>2 DEF OrderInv

(* A call that enters: sorted before, sorted after, nobody passed by.      *)
LEMMA EnqueueOrder ==
  ASSUME TypeOK, OrderInv, NEW c \in Callers, NEW p \in Priorities,
         c \notin holders \cup Queued, Enqueue(c, p)
  PROVE  OrderInv' /\ WaitersKeepOrder /\ OnlyHeadServed
<1> DEFINE w == [caller |-> c, priority |-> p]
<1>1. PICK i \in 1 .. Len(queue) + 1 :
        InsertsAt(p, i) /\ queue' = InsertAt(queue, i, w)
  BY DEF Enqueue
<1>2. w \in Waiters /\ w.caller = c /\ w.priority = p
  BY DEF Waiters
<1> HIDE DEF w
<1>3. queue \in Seq(Waiters) /\ Len(queue) \in Nat /\ DOMAIN queue = 1 .. Len(queue)
  BY DEF TypeOK
<1>4. /\ queue' \in Seq(Waiters)
      /\ Len(queue') = Len(queue) + 1
      /\ \A k \in 1 .. Len(queue) + 1 :
           queue'[k] = IF k < i THEN queue[k] ELSE IF k = i THEN w ELSE queue[k - 1]
  <2> DEFINE r == InsertAt(queue, i, w)
  <2>1. /\ r \in Seq(Waiters)
        /\ Len(r) = Len(queue) + 1
        /\ \A k \in 1 .. Len(queue) + 1 :
             r[k] = IF k < i THEN queue[k] ELSE IF k = i THEN w ELSE queue[k - 1]
    BY <1>2, <1>3, InsertAtShifts
  <2>2. queue' = r
    BY <1>1
  <2> HIDE DEF r
  <2> QED
    BY <2>1, <2>2
<1>5. DOMAIN queue' = 1 .. Len(queue) + 1
  BY <1>3, <1>4
<1>6. EachCallOnce' /\ holders' = holders
  BY EnqueueOnce DEF OrderInv
<1>7. /\ \A k \in 1 .. i - 1 : queue[k].priority <= p
      /\ i <= Len(queue) => queue[i].priority > p
  BY <1>1 DEF InsertsAt
<1>8. /\ p \in Int
      /\ \A k \in 1 .. Len(queue) : queue[k].priority \in Int
      /\ \A j, k \in 1 .. Len(queue) : j < k => queue[j].priority <= queue[k].priority
  BY QueueElements, <1>3
  DEF OrderInv, PriorityOrdered, Priorities, HIGH, NORMAL, LOW, TypeOK
<1>9. \A k \in 1 .. Len(queue) : k >= i => queue[k].priority > p
  BY <1>3, <1>7, <1>8
<1>10. PriorityOrdered'
  <2> SUFFICES ASSUME NEW j \in 1 .. Len(queue) + 1, NEW k \in 1 .. Len(queue) + 1, j < k
               PROVE  queue'[j].priority <= queue'[k].priority
    BY <1>5 DEF PriorityOrdered
  <2>1. CASE j < i /\ k < i
    <3>1. j \in 1 .. Len(queue) /\ k \in 1 .. Len(queue)
      BY <1>3, <2>1
    <3>2. queue'[j] = queue[j] /\ queue'[k] = queue[k]
      BY <1>4, <2>1
    <3> QED
      BY <1>8, <3>1, <3>2
  <2>2. CASE j < i /\ k = i
    BY <1>2, <1>3, <1>4, <1>7, <2>2
  <2>3. CASE j < i /\ k > i
    <3>1. /\ j \in 1 .. i - 1 /\ j \in 1 .. Len(queue)
          /\ k - 1 \in 1 .. Len(queue) /\ k - 1 >= i /\ ~(k < i) /\ k # i
      BY <1>3, <2>3
    <3>2. queue'[j] = queue[j] /\ queue'[k] = queue[k - 1]
      BY <1>4, <2>3, <3>1
    <3>3. queue[j].priority <= p /\ queue[k - 1].priority > p
      BY <1>7, <1>9, <3>1
    <3>4. queue[j].priority \in Int /\ queue[k - 1].priority \in Int
      BY <1>8, <3>1
    <3> QED
      BY <1>8, <3>2, <3>3, <3>4
  <2>4. CASE j = i
    <3>1. k - 1 \in 1 .. Len(queue) /\ k - 1 >= i /\ ~(k < i) /\ k # i
      BY <1>3, <2>4
    <3>2. queue'[j] = w /\ queue'[k] = queue[k - 1]
      BY <1>4, <2>4, <3>1
    <3> QED
      BY <1>2, <1>8, <1>9, <3>1, <3>2
  <2>5. CASE j > i
    <3>1. /\ j - 1 \in 1 .. Len(queue) /\ k - 1 \in 1 .. Len(queue) /\ j - 1 < k - 1
          /\ ~(j < i) /\ j # i /\ ~(k < i) /\ k # i
      BY <1>3, <2>5
    <3>2. queue'[j] = queue[j - 1] /\ queue'[k] = queue[k - 1]
      BY <1>4, <3>1
    <3> QED
      BY <1>8, <3>1, <3>2
  <2> QED
    BY <1>3, <2>1, <2>2, <2>3, <2>4, <2>5
<1>11. WaitersKeepOrder
  <2> SUFFICES ASSUME NEW a \in 1 .. Len(queue), NEW b \in 1 .. Len(queue), a < b,
                      NEW k \in 1 .. Len(queue) + 1, NEW l \in 1 .. Len(queue) + 1,
                      queue[a] = queue'[k], queue[b] = queue'[l]
               PROVE  k < l
    BY <1>3, <1>5 DEF WaitersKeepOrder
  <2>1. k # i /\ l # i
    <3>1. queue[a].caller # c /\ queue[b].caller # c
      BY QueueElements DEF TypeOK
    <3>2. queue'[i].caller = c
      BY <1>2, <1>4
    <3> QED
      BY <3>1, <3>2
  <2>2. \A x, y \in 1 .. Len(queue) : queue[x] = queue[y] => x = y
    BY <1>3 DEF OrderInv, EachCallOnce
  <2>3. a = (IF k < i THEN k ELSE k - 1)
    BY <1>3, <1>4, <2>1, <2>2
  <2>4. b = (IF l < i THEN l ELSE l - 1)
    BY <1>3, <1>4, <2>1, <2>2
  <2> QED
    BY <1>3, <2>1, <2>3, <2>4
<1>12. OnlyHeadServed
  BY <1>6 DEF OnlyHeadServed, OrderInv, EachCallOnce
<1> QED
  BY <1>6, <1>10, <1>11, <1>12 DEF OrderInv

(* A call that leaves, from the middle or from the head: the others keep   *)
(* their places.                                                           *)
LEMMA LeavingOrder ==
  ASSUME TypeOK, OrderInv, EachCallOnce', NEW i \in 1 .. Len(queue),
         Len(queue') = Len(queue) - 1, queue' \in Seq(Waiters),
         \A k \in 1 .. Len(queue) - 1 :
           queue'[k] = queue[IF k < i THEN k ELSE k + 1]
  PROVE  OrderInv' /\ WaitersKeepOrder
<1>1. queue \in Seq(Waiters) /\ Len(queue) \in Nat /\ DOMAIN queue = 1 .. Len(queue)
  BY DEF TypeOK
<1>2. DOMAIN queue' = 1 .. Len(queue) - 1
  BY <1>1
<1>3. \A j, k \in 1 .. Len(queue) : j < k => queue[j].priority <= queue[k].priority
  BY <1>1 DEF OrderInv, PriorityOrdered
<1>4. PriorityOrdered'
  <2> SUFFICES ASSUME NEW j \in 1 .. Len(queue) - 1, NEW k \in 1 .. Len(queue) - 1, j < k
               PROVE  queue'[j].priority <= queue'[k].priority
    BY <1>2 DEF PriorityOrdered
  <2> DEFINE a == IF j < i THEN j ELSE j + 1
             b == IF k < i THEN k ELSE k + 1
  <2>1. a \in 1 .. Len(queue) /\ b \in 1 .. Len(queue) /\ a < b
    BY <1>1
  <2>2. queue'[j] = queue[a] /\ queue'[k] = queue[b]
    OBVIOUS
  <2> HIDE DEF a, b
  <2> QED
    BY <1>3, <2>1, <2>2
<1>5. WaitersKeepOrder
  <2> SUFFICES ASSUME NEW a \in 1 .. Len(queue), NEW b \in 1 .. Len(queue), a < b,
                      NEW k \in 1 .. Len(queue) - 1, NEW l \in 1 .. Len(queue) - 1,
                      queue[a] = queue'[k], queue[b] = queue'[l]
               PROVE  k < l
    BY <1>1, <1>2 DEF WaitersKeepOrder
  <2>1. \A x, y \in 1 .. Len(queue) : queue[x] = queue[y] => x = y
    BY <1>1 DEF OrderInv, EachCallOnce
  <2> DEFINE from(m) == IF m < i THEN m ELSE m + 1
  <2>2. \A m \in 1 .. Len(queue) - 1 :
          from(m) \in 1 .. Len(queue) /\ queue'[m] = queue[from(m)]
    BY <1>1
  <2>3. \A m, n \in 1 .. Len(queue) - 1 : from(m) < from(n) => m < n
    BY <1>1
  <2> HIDE DEF from
  <2>4. a = from(k) /\ b = from(l)
    BY <2>1, <2>2
  <2> QED
    BY <2>3, <2>4
<1> QED
  BY <1>4, <1>5 DEF OrderInv

LEMMA TimeoutOrder ==
  ASSUME TypeOK, OrderInv, NEW c \in Callers, WaiterTimeout(c)
  PROVE  OrderInv' /\ WaitersKeepOrder /\ OnlyHeadServed
<1>1. PICK i \in DOMAIN queue : queue' = RemoveAt(queue, i)
  BY DEF WaiterTimeout
<1>2. queue \in Seq(Waiters) /\ DOMAIN queue = 1 .. Len(queue)
  BY DEF TypeOK
<1>3. /\ queue' \in Seq(Waiters)
      /\ Len(queue') = Len(queue) - 1
      /\ \A k \in 1 .. Len(queue) - 1 : queue'[k] = queue[IF k < i THEN k ELSE k + 1]
  BY <1>1, <1>2, RemoveAtShifts
<1>4. EachCallOnce'
  BY TimeoutOnce DEF OrderInv
<1>5. OrderInv' /\ WaitersKeepOrder
  BY <1>2, <1>3, <1>4, LeavingOrder
<1>6. OnlyHeadServed
  BY DEF WaiterTimeout, OnlyHeadServed, OrderInv, EachCallOnce
<1> QED
  BY <1>5, <1>6

LEMMA ReleaseOrder ==
  ASSUME TypeOK, OrderInv, NEW leaving, ReleaseSlotOf(leaving)
  PROVE  OrderInv' /\ WaitersKeepOrder /\ OnlyHeadServed
<1>1. CASE UNCHANGED queue /\ holders' = holders \ leaving
  BY <1>1, SameQueue DEF OrderInv, EachCallOnce
<1>2. CASE /\ queue # <<>>
           /\ queue' = Tail(queue)
           /\ holders' = (holders \ leaving) \cup {Head(queue).caller}
  <2>1. EachCallOnce'
    BY <1>2, HandOverOnce DEF OrderInv
  <2>2. queue \in Seq(Waiters)
    BY DEF TypeOK
  <2>3. /\ Len(queue) \in Nat /\ Len(queue) >= 1 /\ Head(queue) = queue[1]
        /\ queue' \in Seq(Waiters)
        /\ Len(queue') = Len(queue) - 1
        /\ \A k \in 1 .. Len(queue) - 1 : queue'[k] = queue[k + 1]
    BY <1>2, <2>2, HeadTailProperties
  <2>4. /\ 1 \in 1 .. Len(queue)
        /\ \A k \in 1 .. Len(queue) - 1 : queue'[k] = queue[IF k < 1 THEN k ELSE k + 1]
    BY <2>3
  <2>5. OrderInv' /\ WaitersKeepOrder
    BY <2>1, <2>3, <2>4, LeavingOrder
  <2>6. OnlyHeadServed
    BY <1>2, <2>3 DEF OnlyHeadServed, OrderInv, EachCallOnce
  <2> QED
    BY <2>5, <2>6
<1> QED
  BY <1>1, <1>2 DEF ReleaseSlotOf

(* Every step of a key keeps its queue in order.                           *)
LEMMA QueueStep ==
  ASSUME TypeOK, OrderInv, [Next]_vars
  PROVE  OrderInv' /\ WaitersKeepOrder /\ OnlyHeadServed
<1>1. Queued \cap holders = {}
  BY DEF OrderInv, EachCallOnce
<1>2. CASE UNCHANGED slots
  BY <1>1, <1>2, SameQueue DEF slots
<1>3. ASSUME NEW c \in Callers, NEW p \in AskedPriorities, Acquire(c, p)
      PROVE  OrderInv' /\ WaitersKeepOrder /\ OnlyHeadServed
  <2>1. c \notin holders \cup Queued /\ p \in Priorities
    BY <1>3, ControllerAssumption DEF Acquire
  <2>2. CASE Enqueue(c, p)
    BY <2>1, <2>2, EnqueueOrder
  <2>3. CASE GrantUncounted(c) \/ GrantSlot(c)
    <3>1. UNCHANGED queue /\ Queued \cap holders' = {}
      BY <1>1, <2>1, <2>3 DEF GrantUncounted, GrantSlot
    <3> QED
      BY <3>1, SameQueue
  <2> QED
    BY <1>2, <1>3, <2>2, <2>3 DEF Acquire, RejectUnderPressure
<1>4. ASSUME NEW c \in Callers, ReleaseToken(c)
      PROVE  OrderInv' /\ WaitersKeepOrder /\ OnlyHeadServed
  BY <1>4, ReleaseOrder DEF ReleaseToken
<1>5. CASE ReleaseKey
  BY <1>5, ReleaseOrder DEF ReleaseKey
<1>6. CASE Report \/ SetLimit \/ ResetCircuit \/ WindowElapses \/ UNCHANGED vars
  BY <1>2, <1>6 DEF Report, SetLimit, ResetCircuit, WindowElapses, vars
<1> QED
  BY <1>3, <1>4, <1>5, <1>6, TimeoutOrder DEF Next

LEMMA OrderStarts == Init => OrderInv
<1> SUFFICES ASSUME Init PROVE OrderInv
  OBVIOUS
<1>1. Queued = {} /\ DOMAIN queue = {}
  BY DEF Init, Queued, ToSet
<1> QED
  BY <1>1 DEF OrderInv, EachCallOnce, PriorityOrdered

(* A call waits at most once and never while it has a slot, whatever       *)
(* limits are set and whoever releases.                                    *)
THEOREM CallsOnce == Spec => []EachCallOnce
<1>1. TypeOK /\ OrderInv /\ [Next]_vars => OrderInv'
  BY QueueStep
<1>2. OrderInv => EachCallOnce
  BY DEF OrderInv
<1> QED
  BY <1>1, <1>2, OrderStarts, TypeCorrect, PTL DEF Spec

(* The queue is sorted by priority, nobody overtakes in it, and a slot     *)
(* handed over goes to its head, with any callers, limits and releases.    *)
THEOREM QueueKeepsOrder == Spec => QueueDiscipline
<1>1. /\ TypeOK /\ OrderInv /\ [Next]_vars => OrderInv'
      /\ TypeOK /\ OrderInv /\ [Next]_vars
           => [PriorityOrdered' /\ WaitersKeepOrder /\ OnlyHeadServed]_vars
  BY QueueStep DEF OrderInv
<1> QED
  BY <1>1, OrderStarts, TypeCorrect, PTL DEF Spec, QueueDiscipline

-----------------------------------------------------------------------------
(* The breaker.                                                            *)

(* A probing breaker misses a success yet: the last one of HalfOpenSuccess *)
(* would have closed it.                                                   *)
ProbeInv == circuit.state = "HALF_OPEN" => circuit.successes + 1 <= HalfOpenSuccess

(* One step of the breaker, as CircuitCycle tells it.                      *)
CycleStep == StaysOpen /\ ProbesInFull /\ StaysClosed

LEMMA BreakerStep ==
  ASSUME TypeOK, ProbeInv, [Next]_vars
  PROVE  CycleStep /\ ProbeInv'
<1> DEFINE Goal == CycleStep /\ ProbeInv'
<1>1. /\ circuit.state \in {"CLOSED", "OPEN", "HALF_OPEN"}
      /\ circuit.failures \in 0 .. CircuitThreshold
      /\ circuit.successes \in 0 .. HalfOpenSuccess
      /\ circuit.window \in {"running", "over"}
      /\ CircuitThreshold \in Nat \ {0} /\ HalfOpenSuccess \in Nat \ {0}
      /\ circuit \in Circuits
  BY ControllerAssumption DEF TypeOK, Circuits
<1>2. ASSUME circuit'.state = circuit.state, circuit'.successes = circuit.successes,
             circuit'.failures = circuit.failures
      PROVE  Goal
  BY <1>1, <1>2 DEF CycleStep, StaysOpen, ProbesInFull, StaysClosed, ProbeInv
<1>3. ASSUME CheckCircuit PROVE Goal
  <2>1. CASE circuit.state = "OPEN"
    BY <1>1, <1>3, <2>1
    DEF CheckCircuit, CircuitBlocks, ProbingCircuit, CycleStep, StaysOpen, ProbesInFull,
        StaysClosed, ProbeInv
  <2>2. CASE circuit.state # "OPEN"
    BY <1>2, <1>3, <2>2 DEF CheckCircuit
  <2> QED
    BY <2>1, <2>2
<1>4. ASSUME circuit' = CircuitAfterSuccess, failureStreak' = 0 PROVE Goal
  <2>1. CASE circuit.state # "HALF_OPEN"
    <3>1. circuit'.state = circuit.state /\ circuit'.failures = 0
      BY <1>1, <1>4, <2>1 DEF CircuitAfterSuccess, Circuits
    <3> QED
      BY <1>1, <2>1, <3>1 DEF CycleStep, StaysOpen, ProbesInFull, StaysClosed, ProbeInv
  <2>2. CASE circuit.state = "HALF_OPEN" /\ circuit.successes + 1 >= HalfOpenSuccess
    <3>1. circuit'.state = "CLOSED" /\ circuit.successes + 1 = HalfOpenSuccess
      BY <1>1, <1>4, <2>2 DEF CircuitAfterSuccess, ClosedCircuit, ProbeInv
    <3> QED
      BY <2>2, <3>1 DEF CycleStep, StaysOpen, ProbesInFull, StaysClosed, ProbeInv
  <2>3. CASE circuit.state = "HALF_OPEN" /\ ~(circuit.successes + 1 >= HalfOpenSuccess)
    <3>1. circuit'.state = "HALF_OPEN" /\ circuit'.successes = circuit.successes + 1
      BY <1>1, <1>4, <2>3 DEF CircuitAfterSuccess, Circuits
    <3>2. ProbeInv'
      BY <1>1, <2>3, <3>1 DEF ProbeInv
    <3> QED
      BY <1>4, <2>3, <3>1, <3>2 DEF CycleStep, StaysOpen, ProbesInFull, StaysClosed
  <2> QED
    BY <2>1, <2>2, <2>3
<1>5. ASSUME circuit' = CircuitAfterFailure PROVE Goal
  <2> DEFINE f == Saturate(circuit.failures + 1, CircuitThreshold)
  <2>1. /\ f \in 0 .. CircuitThreshold
        /\ f = CircuitThreshold \/ f = circuit.failures + 1
    BY <1>1 DEF Saturate
  <2> HIDE DEF f
  <2>2. /\ circuit'.failures = f
        /\ circuit'.window = "running"
        /\ circuit'.state = IF circuit.state = "HALF_OPEN" \/ f >= CircuitThreshold
                            THEN "OPEN" ELSE circuit.state
    BY <1>5 DEF CircuitAfterFailure, f
  <2>3. f >= CircuitThreshold => f = CircuitThreshold
    BY <1>1, <2>1
  <2>4. CycleStep
    BY <1>1, <2>1, <2>2, <2>3 DEF CycleStep, StaysOpen, ProbesInFull, StaysClosed
  <2>5. ProbeInv'
    BY <1>1, <2>2 DEF ProbeInv
  <2> QED
    BY <2>4, <2>5
<1>6. CASE Report
  BY <1>4, <1>5, <1>6 DEF Report, ReportResult, ReportSuccess, ReportFailure
<1>7. CASE ResetCircuit
  <2>1. circuit'.state = "CLOSED" /\ circuit'.failures = 0
    BY <1>7 DEF ResetCircuit, ClosedCircuit
  <2> QED
    BY <1>7, <2>1 DEF CycleStep, StaysOpen, ProbesInFull, StaysClosed, ProbeInv
<1>8. CASE WindowElapses
  <2>1. /\ circuit'.state = circuit.state /\ circuit'.successes = circuit.successes
        /\ circuit'.failures = circuit.failures
    BY <1>1, <1>8 DEF WindowElapses, Circuits
  <2> QED
    BY <1>2, <2>1
<1> QED
  BY <1>2, <1>3, <1>6, <1>7, <1>8
  DEF Next, Acquire, WaiterTimeout, ReleaseToken, ReleaseKey, SetLimit, feedback, vars

(* The breaker leaves OPEN only when its window is over or by hand, closes *)
(* after HalfOpenSuccess successes counted from the start of the probe,    *)
(* and opens with the threshold's failures, for every threshold.           *)
THEOREM BreakerCycles == Spec => CircuitCycle
<1>1. Init => ProbeInv
  BY DEF Init, ProbeInv
<1>2. TypeOK /\ ProbeInv /\ [Next]_vars => ProbeInv' /\ [CycleStep]_vars
  BY BreakerStep
<1> QED
  BY <1>1, <1>2, TypeCorrect, PTL DEF Spec, CircuitCycle, CycleStep

-----------------------------------------------------------------------------
(* The semaphore.  Callers that only release the tokens they got, on a key *)
(* that has a limit from the start: counts.get(key) is then exact, which   *)
(* SlotInv (at most the number of holders) is not, and the limit stays     *)
(* above Unlimited because scaling down stops at 1.                        *)
TokenCallers ==
  /\ ~DirectReleases
  /\ InitialLimit # Unlimited
  /\ NeverLifted

SemaphoreInv ==
  /\ limit # Unlimited
  /\ count = Cardinality(holders)
  /\ EachCallOnce

(* The instance has a Cardinality of its own, with the same definition.    *)
LEMMA SameCardinality == Admission!Cardinality(holders) = Cardinality(holders)
BY Zenon DEF Admission!Cardinality, Cardinality

(* Reports and explicit limits leave a key limited.                        *)
LEMMA StaysLimited ==
  ASSUME TypeOK, NeverLifted, limit # Unlimited, Report \/ SetLimit
  PROVE  limit' # Unlimited /\ limit' \in Nat
<1>1. limit \in Nat /\ limit # 0
  BY DEF TypeOK, Unlimited
<1>2. CASE SetLimit
  BY <1>2, ControllerAssumption DEF SetLimit, NeverLifted
<1>3. CASE ReportSuccess
  BY <1>1, <1>3 DEF ReportSuccess, Unlimited
<1>4. CASE ReportFailure
  <2>1. limit' = limit \/ (limit # 1 /\ limit' = limit - 1)
    BY <1>4 DEF ReportFailure
  <2> QED
    BY <1>1, <2>1 DEF Unlimited
<1> QED
  BY <1>2, <1>3, <1>4 DEF Report, ReportResult

(* A token given back: to the free slots, or to the head of the queue.     *)
LEMMA TokenLeaves ==
  ASSUME TypeOK, SemaphoreInv, NEW c \in Callers, ReleaseToken(c)
  PROVE  /\ SemaphoreInv'
         /\ Admission!Leave(c) \/ \E w \in Callers : Admission!HandOver(c, w)
<1>1. c \in holders /\ ReleaseSlotOf({c}) /\ limit # Unlimited /\ limit' = limit
      /\ EachCallOnce
  BY DEF ReleaseToken, feedback, SemaphoreInv
<1>2. IsFiniteSet(holders) /\ Cardinality(holders) \in Nat /\ count = Cardinality(holders)
  BY HoldersFinite DEF SemaphoreInv
<1>3. /\ IsFiniteSet(holders \ {c})
      /\ Cardinality(holders \ {c}) = Cardinality(holders) - 1
      /\ Cardinality(holders \ {c}) \in Nat
  BY <1>1, <1>2, FS_RemoveElement, FS_CardinalityType
<1>4. CASE /\ queue # <<>>
           /\ queue' = Tail(queue)
           /\ holders' = (holders \ {c}) \cup {Head(queue).caller}
           /\ UNCHANGED count
  <2> DEFINE w == Head(queue).caller
  <2>1. /\ EachCallOnce' /\ w \in Queued /\ w \in Callers \ holders
        /\ Queued' = Queued \ {w}
    BY <1>1, <1>4, HandOverOnce
  <2>2. holders' = (holders \ {c}) \cup {w}
    BY <1>4
  <2> HIDE DEF w
  <2>3. Cardinality(holders') = Cardinality(holders \ {c}) + 1
    BY <1>3, <2>1, <2>2, FS_AddElement
  <2>4. Admission!HandOver(c, w)
    BY <1>1, <2>1, <2>2 DEF Admission!HandOver
  <2> QED
    BY <1>1, <1>2, <1>3, <1>4, <2>1, <2>3, <2>4 DEF SemaphoreInv
<1>5. CASE /\ queue = <<>>
           /\ count' = IF count > 0 THEN count - 1 ELSE count
           /\ holders' = holders \ {c}
           /\ UNCHANGED queue
  <2>1. Queued = {} /\ Queued' = Queued
    BY <1>5 DEF Queued, ToSet
  <2>2. Admission!Leave(c)
    BY <1>1, <1>5, <2>1 DEF Admission!Leave
  <2>3. Cardinality(holders') = Cardinality(holders) - 1
    BY <1>3, <1>5, Zenon
  <2>4. EachCallOnce'
    BY <1>1, <1>5, <2>1 DEF EachCallOnce
  <2>5. count' = Cardinality(holders')
    BY <1>2, <1>3, <1>5, <2>3
  <2> QED
    BY <1>1, <2>2, <2>4, <2>5 DEF SemaphoreInv
<1> QED
  BY <1>1, <1>4, <1>5 DEF ReleaseSlotOf

(* A call that asks: it is refused, enters, or waits while all is taken.   *)
LEMMA CallEnters ==
  ASSUME TypeOK, SemaphoreInv, NEW c \in Callers, NEW p \in AskedPriorities,
         Acquire(c, p)
  PROVE  /\ SemaphoreInv'
         /\ \/ Admission!Enter(c) \/ Admission!Wait(c)
            \/ UNCHANGED Admission!vars
<1>1. /\ c \notin holders \cup Queued /\ limit' = limit /\ p \in Priorities
      /\ limit # Unlimited /\ limit \in Nat /\ EachCallOnce
  BY ControllerAssumption DEF Acquire, SemaphoreInv, TypeOK
<1>2. IsFiniteSet(holders) /\ Cardinality(holders) \in Nat /\ count = Cardinality(holders)
  BY HoldersFinite DEF SemaphoreInv
<1>3. CASE UNCHANGED slots
  <2>1. Queued' = Queued /\ holders' = holders
    BY <1>3 DEF slots, Queued
  <2>2. SemaphoreInv'
    BY <1>1, <1>3, <2>1 DEF slots, SemaphoreInv, EachCallOnce
  <2> QED
    BY <1>1, <2>1, <2>2 DEF Admission!vars
<1>4. CASE GrantSlot(c)
  <2>1. Queued' = Queued /\ holders' = holders \cup {c} /\ count < limit /\ count' = count + 1
    BY <1>4 DEF GrantSlot, HasFreeSlot, Queued
  <2>2. Cardinality(holders') = Cardinality(holders) + 1
    BY <1>1, <1>2, <2>1, FS_AddElement
  <2>3. Admission!Enter(c)
    <3>1. Admission!Outside(c)
      BY <1>1 DEF Admission!Outside
    <3>2. Cardinality(holders) < limit
      BY <1>2, <2>1
    <3> QED
      BY <1>1, <2>1, <3>1, <3>2, SameCardinality DEF Admission!Enter
  <2>4. EachCallOnce'
    BY <1>1, <1>4, <2>1 DEF GrantSlot, EachCallOnce
  <2> QED
    BY <1>1, <1>2, <2>1, <2>2, <2>3, <2>4 DEF SemaphoreInv
<1>5. CASE Enqueue(c, p)
  <2>1. EachCallOnce' /\ Queued' = Queued \cup {c} /\ holders' = holders
    BY <1>1, <1>5, EnqueueOnce
  <2>2. count' = count /\ ~(count < limit)
    BY <1>1, <1>5 DEF Enqueue, HasFreeSlot
  <2>3. Cardinality(holders) >= limit
    BY <1>1, <1>2, <2>2
  <2>4. Admission!Wait(c)
    <3>1. Admission!Outside(c)
      BY <1>1 DEF Admission!Outside
    <3> QED
      BY <1>1, <2>1, <2>3, <3>1, SameCardinality DEF Admission!Wait
  <2> QED
    BY <1>1, <2>1, <2>2, <2>4 DEF SemaphoreInv
<1> QED
  BY <1>1, <1>3, <1>4, <1>5 DEF Acquire, RejectUnderPressure, GrantUncounted

(* Every step of the key is a step of the semaphore, or none.              *)
LEMMA SemaphoreStep ==
  ASSUME TokenCallers, TypeOK, SemaphoreInv, [Next]_vars
  PROVE  SemaphoreInv' /\ [Admission!Next]_(Admission!vars)
<1>1. ASSUME NEW c \in Callers, NEW p \in AskedPriorities, Acquire(c, p)
      PROVE  SemaphoreInv' /\ [Admission!Next]_(Admission!vars)
  BY <1>1, CallEnters DEF Admission!Next
<1>2. ASSUME NEW c \in Callers, ReleaseToken(c)
      PROVE  SemaphoreInv' /\ [Admission!Next]_(Admission!vars)
  BY <1>2, TokenLeaves DEF Admission!Next
<1>3. ASSUME NEW c \in Callers, WaiterTimeout(c)
      PROVE  SemaphoreInv' /\ [Admission!Next]_(Admission!vars)
  <2>1. /\ EachCallOnce' /\ Queued' = Queued \ {c} /\ c \in Queued
        /\ UNCHANGED <<count, holders, limit>>
    BY <1>3, TimeoutOnce DEF SemaphoreInv, WaiterTimeout, feedback
  <2>2. Admission!GiveUp(c)
    BY <2>1 DEF Admission!GiveUp
  <2>3. SemaphoreInv'
    BY <2>1 DEF SemaphoreInv
  <2> QED
    BY <2>2, <2>3 DEF Admission!Next
<1>4. ASSUME UNCHANGED slots, limit' # Unlimited, limit' \in Nat
      PROVE  SemaphoreInv' /\ [Admission!Next]_(Admission!vars)
  <2>1. UNCHANGED <<holders, Queued>> /\ limit' \in Nat \ {0}
    BY <1>4 DEF slots, Queued, Unlimited
  <2>2. Admission!Resize
    BY <2>1 DEF Admission!Resize
  <2>3. SemaphoreInv'
    BY <1>4, <2>1 DEF slots, SemaphoreInv, EachCallOnce
  <2> QED
    BY <2>2, <2>3 DEF Admission!Next
<1>5. limit # Unlimited /\ limit \in Nat
  BY DEF SemaphoreInv, TypeOK
<1>6. CASE Report \/ SetLimit
  <2>1. UNCHANGED slots
    BY <1>6 DEF Report, SetLimit
  <2> QED
    BY <1>4, <1>5, <1>6, <2>1, StaysLimited DEF TokenCallers
<1>7. CASE ResetCircuit \/ WindowElapses \/ UNCHANGED vars
  BY <1>4, <1>5, <1>7 DEF ResetCircuit, WindowElapses, vars, feedback
<1>8. ~ReleaseKey
  BY DEF ReleaseKey, TokenCallers
<1> QED
  BY <1>1, <1>2, <1>3, <1>6, <1>7, <1>8 DEF Next

(* With token-only callers and a limit, one key is a semaphore that loses  *)
(* no slot, no waiter and no wake-up, for any number of callers and any    *)
(* scaling.                                                                *)
THEOREM KeyImplementsSemaphore ==
  ASSUME TokenCallers
  PROVE  Spec => ImplementsAdmission
<1>1. Init => SemaphoreInv /\ Admission!Init
  <2> SUFFICES ASSUME Init PROVE SemaphoreInv /\ Admission!Init
    OBVIOUS
  <2>1. Queued = {} /\ DOMAIN queue = {} /\ limit \in Nat \ {0} /\ limit # Unlimited
    BY ControllerAssumption DEF Init, Queued, ToSet, TokenCallers, Unlimited
  <2>2. count = Cardinality(holders)
    BY FS_EmptySet DEF Init
  <2> QED
    BY <2>1, <2>2 DEF Init, SemaphoreInv, EachCallOnce, Admission!Init
<1>2. /\ TypeOK /\ SemaphoreInv /\ [Next]_vars => SemaphoreInv'
      /\ TypeOK /\ SemaphoreInv /\ [Next]_vars => [Admission!Next]_(Admission!vars)
  BY SemaphoreStep
<1> QED
  BY <1>1, <1>2, TypeCorrect, PTL DEF Spec, ImplementsAdmission, Admission!Spec
=============================================================================
