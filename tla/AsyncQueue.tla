----------------------------- MODULE AsyncQueue -----------------------------
(***************************************************************************)
(* The producer/consumer queue (core/queue/async-queue.ts).  A consumer    *)
(* asks with next(), tries with tryNext(), or iterates until the queue is  *)
(* closed; a push serves the consumer that has waited longest.             *)
(***************************************************************************)
EXTENDS Naturals, Sequences, FiniteSets, SequencesExt

CONSTANTS
  Consumers,       \* 1, 2, ...
  Iterating,       \* those of them that iterate
  MaxPushes        \* bound: items, numbered in the order of their push

VARIABLES
  queued,          \* the items of the queue
  resolvers,       \* the consumers that wait, in order
  closed,
  consumer,        \* where each consumer stands
  pushes,
  received         \* items in the order in which they were handed out

asyncQueueVars == <<queued, resolvers, closed, consumer, pushes, received>>

Init ==
  /\ queued = <<>> /\ resolvers = <<>>
  /\ closed = FALSE
  /\ consumer = [c \in Consumers |-> "ready"]
  /\ pushes = 0
  /\ received = <<>>

(* Mutant of Serves: a push looks for a consumer only when items wait too. *)
ServesQueued == resolvers # <<>> /\ queued # <<>>

Serves == resolvers # <<>>

Push ==
  /\ ~closed /\ pushes < MaxPushes
  /\ pushes' = pushes + 1
  /\ IF Serves
       THEN /\ resolvers' = Tail(resolvers)
            /\ consumer' = [consumer EXCEPT ![Head(resolvers)] = "ready"]
            /\ received' = Append(received, pushes')
            /\ UNCHANGED queued
       ELSE queued' = Append(queued, pushes') /\ UNCHANGED <<resolvers, consumer, received>>
  /\ UNCHANGED closed

Shift == queued' = Tail(queued) /\ received' = Append(received, Head(queued))

(* next(), by a caller or by an iterator that goes round once more.        *)
NextTakes(c) ==
  /\ consumer[c] = "ready" /\ queued # <<>>
  /\ Shift
  /\ UNCHANGED <<resolvers, closed, consumer, pushes>>

NextWaits(c) ==
  /\ consumer[c] = "ready" /\ queued = <<>> /\ ~closed
  /\ resolvers' = Append(resolvers, c)
  /\ consumer' = [consumer EXCEPT ![c] = "waiting"]
  /\ UNCHANGED <<queued, closed, pushes, received>>

(* A call is rejected; an iterator ends without an error.                  *)
NextRefused(c) ==
  /\ consumer[c] = "ready" /\ queued = <<>> /\ closed
  /\ consumer' = [consumer EXCEPT ![c] = IF c \in Iterating THEN "ended" ELSE "ready"]
  /\ UNCHANGED <<queued, resolvers, closed, pushes, received>>

TryNext ==
  /\ queued # <<>>
  /\ Shift
  /\ UNCHANGED <<resolvers, closed, consumer, pushes>>

Close ==
  /\ closed' = TRUE
  /\ consumer' = [c \in Consumers |->
       IF c \notin ToSet(resolvers) THEN consumer[c] ELSE IF c \in Iterating THEN "ended" ELSE "ready"]
  /\ resolvers' = <<>>
  /\ UNCHANGED <<queued, pushes, received>>

Clear ==
  /\ queued' = <<>>
  /\ UNCHANGED <<resolvers, closed, consumer, pushes, received>>

Next ==
  \/ Push \/ TryNext \/ Close \/ Clear
  \/ \E c \in Consumers : NextTakes(c) \/ NextWaits(c) \/ NextRefused(c)

Spec == Init /\ [][Next]_asyncQueueVars

-----------------------------------------------------------------------------
AsyncQueueTypeOK ==
  /\ consumer \in [Consumers -> {"ready", "waiting", "ended"}]
  /\ ToSet(resolvers) = { c \in Consumers : consumer[c] = "waiting" } /\ IsInjective(resolvers)

(* No consumer sleeps while there is an item for it or the queue is closed; *)
(* items leave in the order they came, each once, whoever takes them.      *)
NobodyWaitsForNothing ==
  /\ resolvers # <<>> => queued = <<>> /\ ~closed
  /\ \A i, j \in DOMAIN (received \o queued) :
       i < j => (received \o queued)[i] < (received \o queued)[j]
=============================================================================
