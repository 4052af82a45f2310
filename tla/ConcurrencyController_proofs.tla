-------------------- MODULE ConcurrencyController_proofs --------------------
(***************************************************************************)
(* Proofs about one concurrency key, for any set of callers, any limits    *)
(* and any thresholds.                                                     *)
(***************************************************************************)
EXTENDS ConcurrencyController, FiniteSetTheorems, SequenceTheorems, TLAPS

-----------------------------------------------------------------------------
(* What the two splices do to the queue.                                   *)

(* RemoveAt drops one position and shifts what follows.                    *)
LEMMA RemoveAtShifts ==
  ASSUME NEW S, NEW q \in Seq(S), NEW i \in DOMAIN q
  PROVE  /\ RemoveAt(q, i) \in Seq(S)
         /\ Len(RemoveAt(q, i)) = Len(q) - 1
         /\ \A k \in 1 .. Len(q) - 1 :
              RemoveAt(q, i)[k] = q[IF k < i THEN k ELSE k + 1]
<1>1. /\ i \in 1 .. Len(q) /\ Len(q) \in Nat
      /\ \A k \in 1 .. Len(q) : q[k] \in S
  OBVIOUS
<1> DEFINE left  == SubSeq(q, 1, i - 1)
           right == SubSeq(q, i + 1, Len(q))
<1>2. /\ left \in Seq(S)
      /\ Len(left) = i - 1
      /\ \A k \in 1 .. i - 1 : left[k] = q[k]
  BY <1>1, SubSeqProperties
<1>3. /\ right \in Seq(S)
      /\ Len(right) = Len(q) - i
      /\ \A k \in 1 .. Len(q) - i : right[k] = q[i + k]
  BY <1>1, SubSeqProperties
<1>4. RemoveAt(q, i) = left \o right
  BY DEF RemoveAt
<1> HIDE DEF left, right
<1>5. /\ left \o right \in Seq(S)
      /\ Len(left \o right) = Len(q) - 1
      /\ \A k \in 1 .. Len(q) - 1 :
           (left \o right)[k] = IF k < i THEN left[k] ELSE right[k - i + 1]
  <2>1. Len(left) + Len(right) = Len(q) - 1
    BY <1>1, <1>2, <1>3
  <2>2. /\ left \o right \in Seq(S)
        /\ Len(left \o right) = Len(left) + Len(right)
        /\ \A k \in 1 .. Len(left) + Len(right) : (left \o right)[k] =
             IF k <= Len(left) THEN left[k] ELSE right[k - Len(left)]
    BY ONLY <1>2, <1>3, ConcatProperties
  <2>3. Len(left) = i - 1
    BY <1>2
  <2>4. \A k \in 1 .. Len(q) - 1 :
          (k <= i - 1 <=> k < i) /\ k - (i - 1) = k - i + 1
    BY <1>1
  <2> QED
    BY ONLY <2>1, <2>2, <2>3, <2>4
<1>6. \A k \in 1 .. Len(q) - 1 :
        IF k < i THEN left[k] = q[k] ELSE right[k - i + 1] = q[k + 1]
  <2> SUFFICES ASSUME NEW k \in 1 .. Len(q) - 1
               PROVE  IF k < i THEN left[k] = q[k]
                      ELSE right[k - i + 1] = q[k + 1]
    OBVIOUS
  <2>1. CASE k < i
    BY <1>1, <1>2, <2>1
  <2>2. CASE ~(k < i)
    <3>1. k - i + 1 \in 1 .. Len(q) - i /\ i + (k - i + 1) = k + 1
      BY <1>1, <2>2
    <3> QED
      BY <1>3, <2>2, <3>1
  <2> QED
    BY <2>1, <2>2
<1> QED
  BY <1>1, <1>4, <1>5, <1>6

(* InsertAt puts one element at a position and shifts what follows.        *)
LEMMA InsertAtShifts ==
  ASSUME NEW S, NEW q \in Seq(S), NEW i \in 1 .. Len(q) + 1, NEW e \in S
  PROVE  /\ InsertAt(q, i, e) \in Seq(S)
         /\ Len(InsertAt(q, i, e)) = Len(q) + 1
         /\ \A k \in 1 .. Len(q) + 1 :
              InsertAt(q, i, e)[k] = IF k < i THEN q[k]
                                     ELSE IF k = i THEN e ELSE q[k - 1]
<1>1. /\ i \in Nat /\ Len(q) \in Nat
      /\ \A k \in 1 .. Len(q) : q[k] \in S
  OBVIOUS
<1> DEFINE left  == SubSeq(q, 1, i - 1)
           right == SubSeq(q, i, Len(q))
           head  == left \o <<e>>
<1>2. /\ left \in Seq(S)
      /\ Len(left) = i - 1
      /\ \A k \in 1 .. i - 1 : left[k] = q[k]
  BY <1>1, SubSeqProperties
<1>3. /\ right \in Seq(S)
      /\ Len(right) = Len(q) - i + 1
      /\ \A k \in 1 .. Len(q) - i + 1 : right[k] = q[i + k - 1]
  BY <1>1, SubSeqProperties
<1>4. InsertAt(q, i, e) = head \o right
  BY DEF InsertAt
<1> HIDE DEF left, right
<1>5. /\ head \in Seq(S)
      /\ Len(head) = i
      /\ \A k \in 1 .. i : head[k] = IF k < i THEN q[k] ELSE e
  <2>1. <<e>> \in Seq(S) /\ Len(<<e>>) = 1 /\ <<e>>[1] = e
    OBVIOUS
  <2>2. /\ head \in Seq(S)
        /\ Len(head) = i
        /\ \A k \in 1 .. i :
             head[k] = IF k <= i - 1 THEN left[k] ELSE <<e>>[k - (i - 1)]
    BY <1>1, <1>2, <2>1, ConcatProperties
  <2> QED
    BY <1>1, <1>2, <2>1, <2>2
<1> HIDE DEF head
<1>6. /\ head \o right \in Seq(S)
      /\ Len(head \o right) = Len(q) + 1
      /\ \A k \in 1 .. Len(q) + 1 :
           (head \o right)[k] = IF k <= i THEN head[k] ELSE right[k - i]
  <2>1. Len(head) + Len(right) = Len(q) + 1
    BY <1>1, <1>3, <1>5
  <2>2. head \in Seq(S) /\ right \in Seq(S)
    BY <1>3, <1>5
  <2>3. /\ head \o right \in Seq(S)
        /\ Len(head \o right) = Len(head) + Len(right)
        /\ \A k \in 1 .. Len(head) + Len(right) :
             (head \o right)[k] = IF k <= Len(head) THEN head[k]
                                  ELSE right[k - Len(head)]
    BY ONLY <2>2, ConcatProperties
  <2>4. Len(head) = i
    BY <1>5
  <2> QED
    BY ONLY <2>1, <2>3, <2>4
<1> QED
  BY <1>1, <1>3, <1>4, <1>5, <1>6


-----------------------------------------------------------------------------
(* Type correctness.                                                       *)

(* The positions of the queue and the calls in it.                         *)
LEMMA QueueElements ==
  ASSUME queue \in Seq(Waiters)
  PROVE  /\ DOMAIN queue = 1 .. Len(queue)
         /\ Len(queue) \in Nat
         /\ \A i \in 1 .. Len(queue) :
              /\ queue[i] \in Waiters
              /\ queue[i].caller \in Callers
              /\ queue[i].priority \in Priorities
         /\ Queued = { queue[i].caller : i \in 1 .. Len(queue) }
         /\ Queued \subseteq Callers
<1>1. DOMAIN queue = 1 .. Len(queue) /\ Len(queue) \in Nat
  OBVIOUS
<1>2. \A i \in 1 .. Len(queue) : queue[i] \in Waiters
  BY ElementOfSeq
<1>3. \A w \in Waiters : w.caller \in Callers /\ w.priority \in Priorities
  BY DEF Waiters
<1>4. Queued = { queue[i].caller : i \in 1 .. Len(queue) }
  BY <1>1 DEF Queued, ToSet
<1> QED
  BY <1>1, <1>2, <1>3, <1>4

(* The shapes of the next queue and the next holders of a release.         *)
LEMMA ReleaseTypes ==
  ASSUME TypeOK, NEW leaving, ReleaseSlotOf(leaving)
  PROVE  count' \in Nat /\ queue' \in Seq(Waiters) /\ holders' \in SUBSET Callers
<1> USE DEF TypeOK
<1>1. CASE limit = Unlimited /\ holders' = holders \ leaving /\ UNCHANGED <<count, queue>>
  BY <1>1
<1>2. CASE /\ limit # Unlimited /\ queue # <<>>
           /\ queue' = Tail(queue)
           /\ holders' = (holders \ leaving) \cup {Head(queue).caller}
           /\ UNCHANGED count
  <2>1. Head(queue) \in Waiters /\ Tail(queue) \in Seq(Waiters)
    BY <1>2, HeadTailProperties
  <2> QED
    BY <1>2, <2>1 DEF Waiters
<1>3. CASE /\ limit # Unlimited /\ queue = <<>>
           /\ count' = IF count > 0 THEN count - 1 ELSE count
           /\ holders' = holders \ leaving
           /\ UNCHANGED queue
  BY <1>3
<1> QED
  BY <1>1, <1>2, <1>3 DEF ReleaseSlotOf

(* What acquire() makes of the slots, one case per outcome.                *)
LEMMA EnqueueTypes ==
  ASSUME TypeOK, NEW c \in Callers, NEW p \in Priorities, Enqueue(c, p)
  PROVE  queue' \in Seq(Waiters)
<1>1. [caller |-> c, priority |-> p] \in Waiters
  BY DEF Waiters
<1>2. PICK i \in 1 .. Len(queue) + 1 :
             queue' = InsertAt(queue, i, [caller |-> c, priority |-> p])
  BY DEF Enqueue
<1> QED
  BY <1>1, <1>2, InsertAtShifts DEF TypeOK

(* Every state the breaker is put into is one of its states.               *)
LEMMA CircuitUpdates ==
  ASSUME circuit \in Circuits
  PROVE  /\ ProbingCircuit \in Circuits
         /\ ClosedCircuit \in Circuits
         /\ CircuitAfterSuccess \in Circuits
         /\ CircuitAfterFailure \in Circuits
<1>1. ProbingCircuit \in Circuits
  BY ControllerAssumption DEF Circuits, ProbingCircuit
<1>2. ClosedCircuit \in Circuits
  BY ControllerAssumption DEF Circuits, ClosedCircuit
<1>3. [circuit EXCEPT !.failures = 0] \in Circuits
  BY ControllerAssumption DEF Circuits
<1>4. circuit.successes + 1 < HalfOpenSuccess
        => [circuit EXCEPT !.successes = @ + 1] \in Circuits
  BY ControllerAssumption DEF Circuits
<1>5. circuit.successes \in Nat
  BY ControllerAssumption DEF Circuits
<1>6. CircuitAfterSuccess \in Circuits
  BY <1>2, <1>3, <1>4, <1>5, ControllerAssumption DEF CircuitAfterSuccess
<1>7. CircuitAfterFailure \in Circuits
  BY ControllerAssumption DEF Circuits, CircuitAfterFailure, Saturate
<1> QED
  BY <1>1, <1>2, <1>6, <1>7

(* A report keeps the types, and makes no finite limit unlimited.          *)
LEMMA ReportTypes ==
  ASSUME TypeOK, NEW success \in BOOLEAN, ReportResult(success)
  PROVE  /\ limit' \in Nat
         /\ circuit' \in Circuits
         /\ successStreak' \in 0 .. ScaleUpStreak
         /\ failureStreak' \in 0 .. ScaleDownStreak
         /\ limit' = Unlimited => limit = Unlimited
<1>1. CASE ReportSuccess
  <2>1. circuit' \in Circuits
    BY <1>1, CircuitUpdates DEF ReportSuccess, TypeOK
  <2> QED
    BY <1>1, <2>1, ControllerAssumption
    DEF ReportSuccess, TypeOK, Saturate, Unlimited
<1>2. CASE ReportFailure
  <2>1. circuit' \in Circuits
    BY <1>2, CircuitUpdates DEF ReportFailure, TypeOK
  <2> QED
    BY <1>2, <2>1, ControllerAssumption
    DEF ReportFailure, TypeOK, Saturate, Unlimited
<1> QED
  BY <1>1, <1>2 DEF ReportResult

LEMMA TypeStep ==
  ASSUME TypeOK, [Next]_vars
  PROVE  TypeOK'
<1>1. ASSUME NEW c \in Callers, NEW p \in AskedPriorities, Acquire(c, p)
      PROVE  TypeOK'
  <2>1. p \in Priorities
    BY ControllerAssumption
  <2>2. circuit' \in Circuits
    BY <1>1, CircuitUpdates DEF Acquire, CheckCircuit, TypeOK
  <2>3. count' \in Nat /\ queue' \in Seq(Waiters) /\ holders' \in SUBSET Callers
    BY <1>1, <2>1, EnqueueTypes
    DEF Acquire, RejectUnderPressure, GrantUncounted, GrantSlot, Enqueue,
        TypeOK, slots
  <2> QED
    BY <1>1, <2>2, <2>3 DEF Acquire, TypeOK
<1>2. ASSUME NEW c \in Callers, WaiterTimeout(c)
      PROVE  TypeOK'
  <2>1. queue' \in Seq(Waiters)
    BY <1>2, RemoveAtShifts DEF WaiterTimeout, TypeOK
  <2> QED
    BY <1>2, <2>1 DEF WaiterTimeout, TypeOK, feedback
<1>3. ASSUME NEW c \in Callers, ReleaseToken(c)
      PROVE  TypeOK'
  BY <1>3, ReleaseTypes DEF ReleaseToken, TypeOK, feedback
<1>4. CASE ReleaseKey
  BY <1>4, ReleaseTypes DEF ReleaseKey, TypeOK, feedback
<1>5. CASE Report
  BY <1>5, ReportTypes DEF Report, TypeOK, slots
<1>6. CASE SetLimit
  BY <1>6, ControllerAssumption DEF SetLimit, TypeOK, slots
<1>7. CASE ResetCircuit
  BY <1>7, CircuitUpdates DEF ResetCircuit, TypeOK, slots
<1>8. CASE WindowElapses
  BY <1>8 DEF WindowElapses, TypeOK, slots, Circuits
<1>9. CASE UNCHANGED vars
  BY <1>9 DEF vars, slots, feedback, TypeOK
<1> QED
  BY <1>1, <1>2, <1>3, <1>4, <1>5, <1>6, <1>7, <1>8, <1>9 DEF Next

(* Every variable keeps the shape the code gives it.                       *)
THEOREM TypeCorrect == Spec => []TypeOK
<1>1. Init => TypeOK
  BY ControllerAssumption DEF Init, TypeOK, Circuits
<1>2. TypeOK /\ [Next]_vars => TypeOK'
  BY TypeStep
<1> QED
  BY <1>1, <1>2, PTL DEF Spec

-----------------------------------------------------------------------------
(* The slots of a key whose limit is never lifted.  The invariant is       *)
(* inductive only as a whole: a hand-over keeps the number of holders      *)
(* because the head of the queue holds nothing and is queued once, and the *)
(* queue can only be nonempty while a slot is counted, which in turn is a  *)
(* slot of a holder; an unlimited key has nothing of either.               *)
SlotInv ==
  /\ UnlimitedNeverWaits
  /\ EachCallOnce
  /\ NoSlotLeak
  /\ queue # <<>> => count >= 1

(* The calls a key knows, and a step after which some of them are gone and *)
(* no other began to wait.                                                 *)
Known == holders \cup Queued

OnlyLeave(gone) == Known' = Known \ gone /\ Queued' \subseteq Queued

(* Holders are some of the finitely many callers.                          *)
LEMMA HoldersFinite ==
  ASSUME TypeOK
  PROVE  IsFiniteSet(holders) /\ Cardinality(holders) \in Nat
BY ControllerAssumption, FS_Subset, FS_CardinalityType DEF TypeOK

(* A call that enters the queue is neither in it nor a holder.             *)
LEMMA EnqueueOnce ==
  ASSUME TypeOK, EachCallOnce, NEW c \in Callers, NEW p \in Priorities,
         c \notin holders \cup Queued, Enqueue(c, p)
  PROVE  EachCallOnce' /\ Queued' = Queued \cup {c} /\ holders' = holders
<1> DEFINE w == [caller |-> c, priority |-> p]
<1>1. PICK i \in 1 .. Len(queue) + 1 : queue' = InsertAt(queue, i, w)
  BY DEF Enqueue
<1>2. w \in Waiters /\ w.caller = c
  BY DEF Waiters
<1> HIDE DEF w
<1>3. /\ queue' \in Seq(Waiters)
      /\ Len(queue') = Len(queue) + 1
      /\ \A k \in 1 .. Len(queue) + 1 :
           queue'[k] = IF k < i THEN queue[k] ELSE IF k = i THEN w ELSE queue[k - 1]
  <2>1. queue \in Seq(Waiters)
    BY DEF TypeOK
  <2> DEFINE r == InsertAt(queue, i, w)
  <2>2. /\ r \in Seq(Waiters)
        /\ Len(r) = Len(queue) + 1
        /\ \A k \in 1 .. Len(queue) + 1 :
             r[k] = IF k < i THEN queue[k] ELSE IF k = i THEN w ELSE queue[k - 1]
    BY <1>2, <2>1, InsertAtShifts
  <2>3. queue' = r
    BY <1>1
  <2> HIDE DEF r
  <2> QED
    BY <2>2, <2>3
<1>4. Queued' = { queue'[k].caller : k \in 1 .. Len(queue) + 1 }
  <2>1. DOMAIN queue' = 1 .. Len(queue) + 1
    BY <1>3
  <2> QED
    BY <2>1 DEF Queued, ToSet
<1>5. /\ Queued = { queue[k].caller : k \in 1 .. Len(queue) }
      /\ DOMAIN queue = 1 .. Len(queue) /\ Len(queue) \in Nat
  BY QueueElements DEF TypeOK
<1>6. Queued' \subseteq Queued \cup {c}
  <2> SUFFICES ASSUME NEW k \in 1 .. Len(queue) + 1
               PROVE  queue'[k].caller \in Queued \cup {c}
    BY <1>4
  <2>1. CASE k < i
    BY <1>3, <1>5, <2>1
  <2>2. CASE k = i
    BY <1>2, <1>3, <2>2
  <2>3. CASE k > i
    <3>1. queue'[k] = queue[k - 1] /\ k - 1 \in 1 .. Len(queue)
      BY <1>3, <1>5, <2>3
    <3> QED
      BY <1>5, <3>1
  <2> QED
    BY <1>5, <2>1, <2>2, <2>3
<1>7. Queued \cup {c} \subseteq Queued'
  <2>1. c \in Queued'
    BY <1>2, <1>3, <1>4, <1>5
  <2>2. ASSUME NEW k \in 1 .. Len(queue) PROVE queue[k].caller \in Queued'
    <3>1. CASE k < i
      BY <1>3, <1>4, <1>5, <3>1
    <3>2. CASE k >= i
      <4>1. queue'[k + 1] = queue[k] /\ k + 1 \in 1 .. Len(queue) + 1
        BY <1>3, <1>5, <3>2
      <4> QED
        BY <1>4, <4>1
    <3> QED
      BY <1>5, <3>1, <3>2
  <2> QED
    BY <2>1, <2>2, <1>5
<1>8. \A k, l \in 1 .. Len(queue) + 1 : queue'[k].caller = queue'[l].caller => k = l
  <2> SUFFICES ASSUME NEW k \in 1 .. Len(queue) + 1, NEW l \in 1 .. Len(queue) + 1,
                      k < l, queue'[k].caller = queue'[l].caller
               PROVE  FALSE
    OBVIOUS
  <2>1. \A m \in 1 .. Len(queue) : queue[m].caller # c
    BY <1>5
  <2>2. \A m, n \in 1 .. Len(queue) : queue[m].caller = queue[n].caller => m = n
    BY <1>5 DEF EachCallOnce
  <2>3. CASE k = i
    BY <1>2, <1>3, <1>5, <2>1, <2>3
  <2>4. CASE l = i
    BY <1>2, <1>3, <1>5, <2>1, <2>4
  <2>5. CASE k # i /\ l # i
    <3> DEFINE old(m) == IF m < i THEN m ELSE m - 1
    <3>1. /\ old(k) \in 1 .. Len(queue) /\ old(l) \in 1 .. Len(queue)
          /\ old(k) < old(l)
      BY <1>5, <2>5
    <3>2. queue'[k] = queue[old(k)] /\ queue'[l] = queue[old(l)]
      BY <1>3, <2>5
    <3> QED
      BY <2>2, <3>1, <3>2
  <2> QED
    BY <2>3, <2>4, <2>5
<1>9. holders' = holders
  BY DEF Enqueue
<1>10. DOMAIN queue' = 1 .. Len(queue) + 1
  BY <1>3
<1> QED
  BY <1>6, <1>7, <1>8, <1>9, <1>10 DEF EachCallOnce

(* A waiter that times out leaves the queue, all others stay queued once.  *)
LEMMA TimeoutOnce ==
  ASSUME TypeOK, EachCallOnce, NEW c \in Callers, WaiterTimeout(c)
  PROVE  EachCallOnce' /\ Queued' = Queued \ {c} /\ c \in Queued /\ queue # <<>>
<1>1. PICK i \in DOMAIN queue : queue[i].caller = c /\ queue' = RemoveAt(queue, i)
  BY DEF WaiterTimeout
<1>2. /\ Queued = { queue[k].caller : k \in 1 .. Len(queue) }
      /\ DOMAIN queue = 1 .. Len(queue) /\ Len(queue) \in Nat
  BY QueueElements DEF TypeOK
<1>3. /\ queue' \in Seq(Waiters)
      /\ Len(queue') = Len(queue) - 1
      /\ \A k \in 1 .. Len(queue) - 1 : queue'[k] = queue[IF k < i THEN k ELSE k + 1]
  <2>1. queue \in Seq(Waiters)
    BY DEF TypeOK
  <2> DEFINE r == RemoveAt(queue, i)
  <2>2. /\ r \in Seq(Waiters)
        /\ Len(r) = Len(queue) - 1
        /\ \A k \in 1 .. Len(queue) - 1 : r[k] = queue[IF k < i THEN k ELSE k + 1]
    BY <2>1, RemoveAtShifts
  <2>3. queue' = r
    BY <1>1
  <2> HIDE DEF r
  <2> QED
    BY <2>2, <2>3
<1>4. Queued' = { queue'[k].caller : k \in 1 .. Len(queue) - 1 }
  <2>1. DOMAIN queue' = 1 .. Len(queue) - 1
    BY <1>3
  <2> QED
    BY <2>1 DEF Queued, ToSet
<1>5. \A k, l \in 1 .. Len(queue) : queue[k].caller = queue[l].caller => k = l
  BY <1>2 DEF EachCallOnce
<1>6. Queued' \subseteq Queued \ {c}
  <2> SUFFICES ASSUME NEW k \in 1 .. Len(queue) - 1
               PROVE  queue'[k].caller \in Queued \ {c}
    BY <1>4
  <2>1. PICK m \in 1 .. Len(queue) : m # i /\ queue'[k] = queue[m]
    BY <1>2, <1>3
  <2> QED
    BY <1>1, <1>2, <1>5, <2>1
<1>7. Queued \ {c} \subseteq Queued'
  <2> SUFFICES ASSUME NEW m \in 1 .. Len(queue), m # i
               PROVE  queue[m].caller \in Queued'
    BY <1>1, <1>2
  <2>1. PICK k \in 1 .. Len(queue) - 1 : queue'[k] = queue[m]
    <3>1. CASE m < i
      <4>1. m \in 1 .. Len(queue) - 1
        BY <1>2, <3>1
      <4>2. queue'[m] = queue[IF m < i THEN m ELSE m + 1]
        BY ONLY <1>3, <4>1
      <4> QED
        BY <3>1, <4>1, <4>2
    <3>2. CASE m > i
      <4>1. m - 1 \in 1 .. Len(queue) - 1 /\ ~(m - 1 < i) /\ (m - 1) + 1 = m
        BY <1>2, <3>2
      <4>2. queue'[m - 1] = queue[IF m - 1 < i THEN m - 1 ELSE (m - 1) + 1]
        BY ONLY <1>3, <4>1
      <4>3. queue'[m - 1] = queue[m]
        BY ONLY <4>1, <4>2
      <4> QED
        BY <4>1, <4>3
    <3> QED
      BY <1>2, <3>1, <3>2
  <2> QED
    BY <1>4, <2>1
<1>8. \A k, l \in 1 .. Len(queue) - 1 : queue'[k].caller = queue'[l].caller => k = l
  <2> SUFFICES ASSUME NEW k \in 1 .. Len(queue) - 1, NEW l \in 1 .. Len(queue) - 1,
                      queue'[k].caller = queue'[l].caller
               PROVE  k = l
    OBVIOUS
  <2> DEFINE old(m) == IF m < i THEN m ELSE m + 1
  <2>1. old(k) \in 1 .. Len(queue) /\ old(l) \in 1 .. Len(queue)
    BY <1>2
  <2>2. queue'[k] = queue[old(k)] /\ queue'[l] = queue[old(l)]
    BY <1>3
  <2>3. old(k) = old(l)
    BY <1>5, <2>1, <2>2
  <2> QED
    BY <1>2, <2>3
<1>9. holders' = holders
  BY DEF WaiterTimeout
<1>10. DOMAIN queue' = 1 .. Len(queue) - 1
  BY <1>3
<1>11. c \in Queued /\ queue # <<>>
  BY <1>1, <1>2
<1> QED
  BY <1>6, <1>7, <1>8, <1>9, <1>10, <1>11 DEF EachCallOnce

(* The head that a release wakes: queued before, a holder after.           *)
LEMMA HandOverOnce ==
  ASSUME TypeOK, EachCallOnce, NEW leaving,
         queue # <<>>, queue' = Tail(queue),
         holders' = (holders \ leaving) \cup {Head(queue).caller}
  PROVE  /\ EachCallOnce'
         /\ Head(queue).caller \in Queued
         /\ Head(queue).caller \in Callers \ holders
         /\ Queued' = Queued \ {Head(queue).caller}
<1> DEFINE h == Head(queue).caller
<1>1. /\ Queued = { queue[k].caller : k \in 1 .. Len(queue) }
      /\ DOMAIN queue = 1 .. Len(queue) /\ Len(queue) \in Nat
      /\ Queued \subseteq Callers
  BY QueueElements DEF TypeOK
<1>2. /\ Len(queue) >= 1 /\ h = queue[1].caller
      /\ queue' \in Seq(Waiters)
      /\ Len(queue') = Len(queue) - 1
      /\ \A k \in 1 .. Len(queue) - 1 : queue'[k] = queue[k + 1]
  <2>1. queue \in Seq(Waiters)
    BY DEF TypeOK
  <2> QED
    BY <2>1, HeadTailProperties
<1>3. Queued' = { queue'[k].caller : k \in 1 .. Len(queue) - 1 }
  <2>1. DOMAIN queue' = 1 .. Len(queue) - 1
    BY <1>2
  <2> QED
    BY <2>1 DEF Queued, ToSet
<1>4. \A k, l \in 1 .. Len(queue) : queue[k].caller = queue[l].caller => k = l
  BY <1>1 DEF EachCallOnce
<1>5. h \in Queued /\ h \in Callers /\ h \notin holders
  BY <1>1, <1>2 DEF EachCallOnce
<1> HIDE DEF h
<1>6. Queued' \subseteq Queued \ {h}
  <2> SUFFICES ASSUME NEW k \in 1 .. Len(queue) - 1
               PROVE  queue'[k].caller \in Queued \ {h}
    BY <1>3
  <2>1. k + 1 \in 1 .. Len(queue) /\ k + 1 # 1 /\ 1 \in 1 .. Len(queue)
    BY <1>1, <1>2
  <2> QED
    BY <1>1, <1>2, <1>4, <2>1
<1>7. Queued \ {h} \subseteq Queued'
  <2> SUFFICES ASSUME NEW m \in 1 .. Len(queue), m # 1
               PROVE  queue[m].caller \in Queued'
    BY <1>1, <1>2
  <2>1. m - 1 \in 1 .. Len(queue) - 1 /\ queue'[m - 1] = queue[m]
    BY <1>1, <1>2
  <2> QED
    BY <1>3, <2>1
<1>8. \A k, l \in 1 .. Len(queue) - 1 : queue'[k].caller = queue'[l].caller => k = l
  BY <1>1, <1>2, <1>4
<1>9. DOMAIN queue' = 1 .. Len(queue) - 1
  BY <1>2
<1>10. Queued' \cap holders' = {}
  BY <1>6 DEF EachCallOnce, h
<1>11. EachCallOnce'
  BY <1>8, <1>9, <1>10 DEF EachCallOnce
<1> QED
  BY <1>5, <1>6, <1>7, <1>11 DEF h

(* A release gives up at most one token, and adds the head it wakes.       *)
LEMMA ReleaseCounts ==
  ASSUME TypeOK, NEW leaving, leaving = {} \/ \E c \in holders : leaving = {c}
  PROVE  /\ IsFiniteSet(holders \ leaving)
         /\ Cardinality(holders \ leaving) \in Nat
         /\ Cardinality(holders \ leaving) >= Cardinality(holders) - 1
         /\ \A h : h \notin holders =>
              Cardinality((holders \ leaving) \cup {h}) >= Cardinality(holders)
<1>1. IsFiniteSet(holders) /\ Cardinality(holders) \in Nat
  BY HoldersFinite
<1>2. /\ IsFiniteSet(holders \ leaving)
      /\ Cardinality(holders \ leaving) >= Cardinality(holders) - 1
  <2>1. CASE leaving = {}
    <3>1. holders \ leaving = holders
      BY <2>1
    <3>2. /\ IsFiniteSet(holders \ leaving)
          /\ Cardinality(holders \ leaving) = Cardinality(holders)
      BY <1>1, <3>1, Zenon
    <3> QED
      BY <1>1, <3>2
  <2>2. ASSUME NEW c \in holders, leaving = {c}
        PROVE  <1>2
    BY <1>1, <2>2, FS_RemoveElement
  <2> QED
    BY <2>1, <2>2
<1>3. Cardinality(holders \ leaving) \in Nat
  BY <1>2, FS_CardinalityType
<1>4. ASSUME NEW h, h \notin holders
      PROVE  Cardinality((holders \ leaving) \cup {h}) >= Cardinality(holders)
  <2>1. Cardinality((holders \ leaving) \cup {h}) = Cardinality(holders \ leaving) + 1
    BY <1>2, <1>4, FS_AddElement
  <2> QED
    BY <1>1, <1>2, <1>3, <2>1
<1> QED
  BY <1>2, <1>3, <1>4

(* A release of one token, or of none, keeps the whole of SlotInv.         *)
LEMMA ReleaseKeepsSlotInv ==
  ASSUME TypeOK, SlotInv, NEW leaving, ReleaseSlotOf(leaving),
         leaving = {} \/ \E c \in holders : leaving = {c},
         limit' = Unlimited => limit = Unlimited
  PROVE  SlotInv'
<1>1. /\ Cardinality(holders) \in Nat /\ count \in Nat
      /\ count <= Cardinality(holders)
      /\ EachCallOnce
      /\ queue # <<>> => count >= 1
  BY HoldersFinite DEF SlotInv, TypeOK, NoSlotLeak
<1>2. CASE /\ limit # Unlimited
           /\ queue # <<>>
           /\ queue' = Tail(queue)
           /\ holders' = (holders \ leaving) \cup {Head(queue).caller}
           /\ UNCHANGED count
  <2>1. EachCallOnce' /\ Head(queue).caller \notin holders
    BY <1>1, <1>2, HandOverOnce
  <2>2. Cardinality(holders') >= Cardinality(holders) /\ IsFiniteSet(holders \ leaving)
    BY <1>2, <2>1, ReleaseCounts
  <2>3. Cardinality(holders') \in Nat
    BY <1>2, <2>2, FS_AddElement, FS_CardinalityType
  <2>4. NoSlotLeak' /\ count' >= 1
    BY <1>1, <1>2, <2>2, <2>3 DEF NoSlotLeak
  <2> QED
    BY <1>2, <2>1, <2>4 DEF SlotInv, UnlimitedNeverWaits
<1>3. CASE /\ limit # Unlimited
           /\ queue = <<>>
           /\ count' = IF count > 0 THEN count - 1 ELSE count
           /\ holders' = holders \ leaving
           /\ UNCHANGED queue
  <2>1. EachCallOnce'
    BY <1>1, <1>3 DEF EachCallOnce, Queued
  <2>2. /\ Cardinality(holders') \in Nat
        /\ Cardinality(holders') >= Cardinality(holders) - 1
    BY <1>3, ReleaseCounts
  <2>3. NoSlotLeak'
    BY <1>1, <1>3, <2>2 DEF NoSlotLeak
  <2> QED
    BY <1>3, <2>1, <2>3 DEF SlotInv, UnlimitedNeverWaits
<1>4. CASE /\ limit = Unlimited
           /\ holders' = holders \ leaving
           /\ UNCHANGED <<count, queue>>
  <2>1. queue = <<>> /\ count = 0
    BY <1>4 DEF SlotInv, UnlimitedNeverWaits
  <2>2. EachCallOnce'
    BY <1>1, <1>4 DEF EachCallOnce, Queued
  <2>3. Cardinality(holders') \in Nat /\ count' = 0
    BY <1>4, <2>1, ReleaseCounts, Zenon
  <2>4. NoSlotLeak'
    BY <2>3 DEF NoSlotLeak
  <2> QED
    BY <1>4, <2>1, <2>2, <2>4 DEF SlotInv, UnlimitedNeverWaits
<1> QED
  BY <1>2, <1>3, <1>4 DEF ReleaseSlotOf

LEMMA SlotsStart ==
  ASSUME Init
  PROVE  SlotInv
<1>1. Queued = {} /\ DOMAIN queue = {}
  BY DEF Init, Queued, ToSet
<1> QED
  BY <1>1, FS_EmptySet
  DEF Init, SlotInv, UnlimitedNeverWaits, EachCallOnce, NoSlotLeak

LEMMA SlotStep ==
  ASSUME NeverLifted, TypeOK, SlotInv, [Next]_vars
  PROVE  SlotInv'
<1>1. ASSUME NEW c \in Callers, NEW p \in AskedPriorities, Acquire(c, p)
      PROVE  SlotInv'
  <2>1. /\ limit' = limit /\ c \notin holders \cup Queued
        /\ p \in Priorities
    BY <1>1, ControllerAssumption DEF Acquire
  <2>2. /\ EachCallOnce /\ count \in Nat /\ count <= Cardinality(holders)
        /\ limit \in Nat
    BY DEF SlotInv, TypeOK, NoSlotLeak
  <2>3. CASE UNCHANGED slots
    BY <2>1, <2>3
    DEF SlotInv, UnlimitedNeverWaits, EachCallOnce, NoSlotLeak, Queued, slots
  <2>5. CASE GrantUncounted(c)
    <3>1. queue = <<>> /\ count = 0
      BY <2>5 DEF GrantUncounted, SlotInv, UnlimitedNeverWaits
    <3>2. Cardinality(holders') = Cardinality(holders) + 1
      BY <2>1, <2>5, HoldersFinite, FS_AddElement DEF GrantUncounted
    <3>3. NoSlotLeak'
      BY <2>2, <2>5, <3>2, HoldersFinite DEF GrantUncounted, NoSlotLeak
    <3>4. EachCallOnce'
      BY <2>1, <2>2, <2>5 DEF GrantUncounted, EachCallOnce, Queued
    <3> QED
      BY <2>5, <3>1, <3>3, <3>4 DEF GrantUncounted, SlotInv, UnlimitedNeverWaits
  <2>6. CASE GrantSlot(c)
    <3>1. Cardinality(holders') = Cardinality(holders) + 1
      BY <2>1, <2>6, HoldersFinite, FS_AddElement DEF GrantSlot
    <3>2. NoSlotLeak' /\ count' >= 1
      BY <2>2, <2>6, <3>1, HoldersFinite DEF GrantSlot, NoSlotLeak
    <3>3. EachCallOnce'
      BY <2>1, <2>2, <2>6 DEF GrantSlot, EachCallOnce, Queued
    <3> QED
      BY <2>1, <2>6, <3>2, <3>3 DEF GrantSlot, HasFreeSlot, SlotInv, UnlimitedNeverWaits
  <2>7. CASE Enqueue(c, p)
    <3>1. EachCallOnce'
      BY <2>1, <2>2, <2>7, EnqueueOnce
    <3>2. count >= 1
      BY <2>2, <2>7 DEF Enqueue, HasFreeSlot, Unlimited
    <3> QED
      BY <2>1, <2>2, <2>7, <3>1, <3>2
      DEF Enqueue, SlotInv, UnlimitedNeverWaits, NoSlotLeak
  <2> QED
    BY <1>1, <2>3, <2>5, <2>6, <2>7 DEF Acquire, RejectUnderPressure
<1>2. ASSUME NEW c \in Callers, WaiterTimeout(c)
      PROVE  SlotInv'
  <2>1. EachCallOnce' /\ queue # <<>>
    BY <1>2, TimeoutOnce DEF SlotInv
  <2> QED
    BY <1>2, <2>1 DEF WaiterTimeout, SlotInv, UnlimitedNeverWaits, NoSlotLeak, feedback
<1>3. ASSUME NEW c \in Callers, ReleaseToken(c)
      PROVE  SlotInv'
  BY <1>3, ReleaseKeepsSlotInv DEF ReleaseToken, feedback
<1>4. CASE ReleaseKey
  BY <1>4, ReleaseKeepsSlotInv DEF ReleaseKey, feedback
<1>5. ASSUME UNCHANGED slots, limit' = Unlimited => limit = Unlimited
      PROVE  SlotInv'
  BY <1>5 DEF slots, SlotInv, UnlimitedNeverWaits, EachCallOnce, NoSlotLeak, Queued
<1>6. CASE Report
  <2>1. limit' = Unlimited => limit = Unlimited
    BY <1>6, ReportTypes DEF Report
  <2> QED
    BY <1>5, <1>6, <2>1 DEF Report
<1>7. CASE SetLimit
  BY <1>5, <1>7 DEF SetLimit, NeverLifted
<1>8. CASE ResetCircuit \/ WindowElapses \/ UNCHANGED vars
  BY <1>5, <1>8 DEF ResetCircuit, WindowElapses, vars, feedback
<1> QED
  BY <1>1, <1>2, <1>3, <1>4, <1>6, <1>7, <1>8 DEF Next

-----------------------------------------------------------------------------
(* What a step does to the calls that a key knows: for the modules whose   *)
(* steps are made of steps of a key.                                       *)

(* A release gives up the token it names, nobody else leaves.              *)
LEMMA ReleaseLeaves ==
  ASSUME TypeOK, EachCallOnce, NEW leaving, ReleaseSlotOf(leaving),
         leaving = {} \/ \E c \in holders : leaving = {c}
  PROVE  OnlyLeave(leaving)
<1>1. Queued \cap holders = {} /\ leaving \subseteq holders
  BY DEF EachCallOnce
<1>2. CASE UNCHANGED queue /\ holders' = holders \ leaving
  BY <1>1, <1>2 DEF OnlyLeave, Known, Queued
<1>3. CASE /\ queue # <<>>
           /\ queue' = Tail(queue)
           /\ holders' = (holders \ leaving) \cup {Head(queue).caller}
  BY <1>1, <1>3, HandOverOnce DEF OnlyLeave, Known
<1> QED
  BY <1>2, <1>3 DEF ReleaseSlotOf

(* A wait that times out ends, no other does.                              *)
LEMMA TimeoutLeaves ==
  ASSUME TypeOK, EachCallOnce, NEW c \in Callers, WaiterTimeout(c)
  PROVE  c \in Queued /\ OnlyLeave({c})
<1>1. /\ Queued \cap holders = {} /\ c \in Queued /\ Queued' = Queued \ {c}
      /\ holders' = holders
  BY TimeoutOnce DEF EachCallOnce, WaiterTimeout
<1> QED
  BY <1>1 DEF OnlyLeave, Known

(* What is left of a sequence without its first n elements.                *)
LEMMA WithoutFirst ==
  ASSUME NEW S, NEW q \in Seq(S), NEW n \in 0 .. Len(q)
  PROVE  /\ SubSeq(q, n + 1, Len(q)) \in Seq(S)
         /\ Len(SubSeq(q, n + 1, Len(q))) = Len(q) - n
         /\ \A k \in 1 .. Len(q) - n : SubSeq(q, n + 1, Len(q))[k] = q[n + k]
<1>1. Len(q) \in Nat /\ n + 1 \in 1 .. Len(q) + 1 /\ \A k \in 1 .. Len(q) : q[k] \in S
  OBVIOUS
<1> DEFINE r == SubSeq(q, n + 1, Len(q))
<1>2. /\ r \in Seq(S)
      /\ Len(r) = IF n + 1 <= Len(q) THEN Len(q) - (n + 1) + 1 ELSE 0
      /\ \A k \in 1 .. Len(q) - (n + 1) + 1 : r[k] = q[n + 1 + k - 1]
  BY <1>1, SubSeqProperties
<1> HIDE DEF r
<1>3. /\ Len(r) = Len(q) - n
      /\ \A k \in 1 .. Len(q) - n : r[k] = q[n + k]
  BY <1>1, <1>2
<1> QED
  BY <1>2, <1>3 DEF r

(* Several releases in a row, as many of which as there are waiters wake   *)
(* one each.                                                               *)
WakesFirst(woken) ==
  /\ queue' = SubSeq(queue, woken + 1, Len(queue))
  /\ holders' = holders \cup { queue[i].caller : i \in 1 .. woken }

LEMMA ManyReleases ==
  ASSUME TypeOK, SlotInv, limit # Unlimited, UNCHANGED limit,
         NEW woken \in 0 .. Len(queue), WakesFirst(woken),
         count' \in Nat, count' <= count, woken < Len(queue) => count' = count
  PROVE  /\ SlotInv' /\ OnlyLeave({})
         /\ queue' \in Seq(Waiters) /\ holders' \in SUBSET Callers
<1>1. /\ queue \in Seq(Waiters) /\ Len(queue) \in Nat /\ DOMAIN queue = 1 .. Len(queue)
      /\ \A i \in 1 .. Len(queue) : queue[i].caller \in Callers
      /\ Queued = { queue[i].caller : i \in 1 .. Len(queue) }
  BY QueueElements DEF TypeOK
<1>2. /\ \A i, j \in 1 .. Len(queue) : queue[i].caller = queue[j].caller => i = j
      /\ Queued \cap holders = {}
      /\ count <= Cardinality(holders) /\ count \in Nat
      /\ queue # <<>> => count >= 1
  BY <1>1 DEF SlotInv, EachCallOnce, NoSlotLeak, TypeOK
<1>3. /\ queue' \in Seq(Waiters)
      /\ Len(queue') = Len(queue) - woken
      /\ \A k \in 1 .. Len(queue) - woken : queue'[k] = queue[woken + k]
  BY <1>1, WithoutFirst DEF WakesFirst
<1>4. Queued' = { queue'[k].caller : k \in 1 .. Len(queue) - woken }
  <2>1. DOMAIN queue' = 1 .. Len(queue) - woken
    BY <1>1, <1>3
  <2> QED
    BY <2>1 DEF Queued, ToSet
<1>5. Queued' = { queue[i].caller : i \in woken + 1 .. Len(queue) }
  <2>1. \A k \in 1 .. Len(queue) - woken :
          woken + k \in woken + 1 .. Len(queue) /\ queue'[k] = queue[woken + k]
    BY <1>1, <1>3
  <2>2. \A i \in woken + 1 .. Len(queue) :
          i - woken \in 1 .. Len(queue) - woken /\ queue'[i - woken] = queue[i]
    BY <1>1, <1>3
  <2> DEFINE early == 1 .. Len(queue) - woken
             late  == woken + 1 .. Len(queue)
  <2>3. \A k \in early : \E i \in late : queue'[k] = queue[i]
    BY <2>1
  <2>4. \A i \in late : \E k \in early : queue'[k] = queue[i]
    BY <2>2
  <2>5. Queued' = { queue'[k].caller : k \in early }
    BY <1>4
  <2> HIDE DEF early, late
  <2>6. Queued' = { queue[i].caller : i \in late }
    BY <2>3, <2>4, <2>5
  <2> QED
    BY <2>6 DEF late
<1>6. EachCallOnce'
  <2>1. \A j, k \in 1 .. Len(queue) - woken : queue'[j].caller = queue'[k].caller => j = k
    <3>1. \A k \in 1 .. Len(queue) - woken :
            woken + k \in 1 .. Len(queue) /\ queue'[k] = queue[woken + k]
      BY <1>1, <1>3
    <3>2. \A j, k \in 1 .. Len(queue) - woken : woken + j = woken + k => j = k
      BY <1>1
    <3> QED
      BY <1>2, <3>1, <3>2
  <2>2. DOMAIN queue' = 1 .. Len(queue) - woken
    BY <1>1, <1>3
  <2>3. \A i \in woken + 1 .. Len(queue), j \in 1 .. woken :
          queue[i].caller # queue[j].caller
    BY <1>1, <1>2
  <2>4. \A i \in woken + 1 .. Len(queue) : queue[i].caller \notin holders
    BY <1>1, <1>2
  <2>5. Queued' \cap holders' = {}
    BY <1>5, <2>3, <2>4 DEF WakesFirst
  <2> QED
    BY <2>1, <2>2, <2>5 DEF EachCallOnce
<1>7. OnlyLeave({}) /\ holders' \in SUBSET Callers
  <2>1. Queued = Queued' \cup { queue[i].caller : i \in 1 .. woken }
    <3>1. \A i \in 1 .. Len(queue) : i \in 1 .. woken \/ i \in woken + 1 .. Len(queue)
      BY <1>1
    <3>2. /\ \A i \in 1 .. woken : i \in 1 .. Len(queue)
          /\ \A i \in woken + 1 .. Len(queue) : i \in 1 .. Len(queue)
      BY <1>1
    <3> QED
      BY <1>1, <1>5, <3>1, <3>2
  <2> QED
    BY <1>1, <2>1 DEF OnlyLeave, Known, TypeOK, WakesFirst
<1>8. NoSlotLeak'
  <2>1. IsFiniteSet(holders') /\ holders \subseteq holders'
    BY <1>7, ControllerAssumption, FS_Subset DEF WakesFirst
  <2>2. Cardinality(holders) <= Cardinality(holders')
    BY <2>1, FS_Subset
  <2>3. Cardinality(holders) \in Nat /\ Cardinality(holders') \in Nat
    BY <2>1, FS_CardinalityType, HoldersFinite
  <2> QED
    BY <1>2, <2>2, <2>3 DEF NoSlotLeak
<1>9. queue' # <<>> => count' >= 1
  <2>1. queue' # <<>> => woken < Len(queue) /\ queue # <<>>
    BY <1>1, <1>3
  <2> QED
    BY <1>2, <2>1
<1> QED
  BY <1>3, <1>6, <1>7, <1>8, <1>9 DEF SlotInv, UnlimitedNeverWaits

(* A call that asks and is not of LOW priority enters or waits.            *)
LEMMA AcquireEnters ==
  ASSUME TypeOK, EachCallOnce, NEW c \in Callers, NEW p \in AskedPriorities,
         p # LOW, Acquire(c, p)
  PROVE  /\ c \notin Known /\ Known' = Known \cup {c}
         /\ holders' \subseteq holders \cup {c} /\ Queued' \subseteq Queued \cup {c}
<1>1. c \notin Known /\ p \in Priorities
  BY ControllerAssumption DEF Acquire, Known
<1>2. CASE GrantUncounted(c) \/ GrantSlot(c)
  BY <1>1, <1>2 DEF GrantUncounted, GrantSlot, Known, Queued
<1>3. CASE Enqueue(c, p)
  <2>1. Queued' = Queued \cup {c} /\ holders' = holders
    BY <1>1, <1>3, EnqueueOnce DEF Known
  <2> QED
    BY <1>1, <2>1 DEF Known
<1> QED
  BY <1>2, <1>3 DEF Acquire, RejectUnderPressure
-----------------------------------------------------------------------------
(* A slot is neither leaked nor lost to a waiter, and an unlimited key     *)
(* keeps neither, unless the limit is lifted at runtime.                   *)
THEOREM SlotsCorrect ==
  ASSUME NeverLifted
  PROVE  Spec => []SlotInv
<1>1. Init => SlotInv
  BY SlotsStart
<1>2. TypeOK /\ SlotInv /\ [Next]_vars => SlotInv'
  BY SlotStep
<1> QED
  BY <1>1, <1>2, TypeCorrect, PTL DEF Spec

(* No call of an unlimited key waits, and such a key counts no slot.       *)
THEOREM UnlimitedKeysAdmit ==
  ASSUME NeverLifted
  PROVE  Spec => []UnlimitedNeverWaits
<1>1. SlotInv => UnlimitedNeverWaits
  BY DEF SlotInv
<1> QED
  BY <1>1, SlotsCorrect, PTL

(* No slot stays counted that no token gives back.                         *)
THEOREM SlotsNeverLeak ==
  ASSUME NeverLifted
  PROVE  Spec => []NoSlotLeak
<1>1. SlotInv => NoSlotLeak
  BY DEF SlotInv
<1> QED
  BY <1>1, SlotsCorrect, PTL

(* While calls wait, some token is out that will wake the first of them.   *)
THEOREM WaitersNeverStranded ==
  ASSUME NeverLifted
  PROVE  Spec => []NoStrandedWaiter
<1>1. TypeOK /\ SlotInv => NoStrandedWaiter
  <2> SUFFICES ASSUME TypeOK, SlotInv, queue # <<>>
               PROVE  count >= 1 /\ holders # {}
    BY DEF NoStrandedWaiter
  <2>1. count >= 1 /\ count <= Cardinality(holders)
    BY DEF SlotInv, NoSlotLeak
  <2>2. holders = {} => Cardinality(holders) = 0
    BY FS_EmptySet, Zenon
  <2> QED
    BY <2>1, <2>2 DEF TypeOK
<1> QED
  BY <1>1, TypeCorrect, SlotsCorrect, PTL
=============================================================================
