----------------------------- MODULE WorkQueues -----------------------------
(***************************************************************************)
(* What a work-stealing pool promises: each worker has a queue, takes its  *)
(* newest item itself, and when it has none takes the oldest of another.   *)
(* Every item that was submitted is executed once at most.                 *)
(***************************************************************************)
EXTENDS Naturals, Sequences, FiniteSets, SequencesExt

CONSTANTS Workers, Items

VARIABLES
  queue,       \* the items each worker has, oldest first
  executing,   \* the items that are being executed
  executed     \* the items whose execution is over, or has failed

queueVars == <<queue, executing, executed>>

Init ==
  /\ queue = [w \in Workers |-> <<>>]
  /\ executing = {} /\ executed = {}

Known == executing \cup executed \cup UNION { ToSet(queue[w]) : w \in Workers }

Submit(i, w) ==
  /\ i \notin Known
  /\ queue' = [queue EXCEPT ![w] = Append(@, i)]
  /\ UNCHANGED <<executing, executed>>

TakeNewest(w) ==
  /\ queue[w] # <<>>
  /\ queue' = [queue EXCEPT ![w] = Front(@)]
  /\ executing' = executing \cup {Last(queue[w])}
  /\ UNCHANGED executed

StealOldest(w, v) ==
  /\ queue[w] = <<>> /\ queue[v] # <<>>
  /\ queue' = [queue EXCEPT ![v] = Tail(@)]
  /\ executing' = executing \cup {Head(queue[v])}
  /\ UNCHANGED executed

Finish(i) ==
  /\ i \in executing
  /\ executing' = executing \ {i}
  /\ executed' = executed \cup {i}
  /\ UNCHANGED queue

Next ==
  \/ \E i \in Items, w \in Workers : Submit(i, w)
  \/ \E w \in Workers : TakeNewest(w)
  \/ \E w, v \in Workers : StealOldest(w, v)
  \/ \E i \in Items : Finish(i)

Spec == Init /\ [][Next]_queueVars
=============================================================================
