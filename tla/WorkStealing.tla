---------------------------- MODULE WorkStealing ----------------------------
(***************************************************************************)
(* WorkStealingWorkerPool (core/queue/worker-pool.ts) on its Chase-Lev     *)
(* deques (core/queue/work-stealing-deque.ts).  All of it runs on one      *)
(* JavaScript thread: a worker's loop goes from one await to the next      *)
(* without interruption, and the loops interleave at their awaits.         *)
(***************************************************************************)
EXTENDS Naturals, Sequences, FiniteSets, SequencesExt

CONSTANTS
  WorkerIds,       \* 1 .. workerCount
  Items,           \* work that is ever submitted, in this order: 1, 2, ...
  InitialCapacity, \* of a deque: 32
  MaxStarts,       \* bound: calls of start()
  MaxMoves         \* bound: calls of submit() and start() together

VARIABLES
  deque,           \* of each worker: top, bottom, capacity, items
  running, workerLoops,
  starts,          \* how often the pool was started
  loop,            \* each start gives every worker one more loop
  turn,            \* the loops that go on now, before anything else happens
  over             \* items whose execution has ended, well or not

workVars == <<deque, running, workerLoops, starts, loop, turn, over>>

Empty == [top |-> 0, bottom |-> 0, capacity |-> InitialCapacity,
          items |-> [k \in 0 .. InitialCapacity - 1 |-> 0]]

Get(d, index) == d.items[index % d.capacity]
Size(d) == IF d.bottom > d.top THEN d.bottom - d.top ELSE 0

(* Mutant of Grow: the slots keep their places in the larger array.        *)
GrowInPlace(d) ==
  [d EXCEPT !.capacity = 2 * @,
            !.items = [k \in 0 .. 2 * d.capacity - 1 |-> IF k < d.capacity THEN d.items[k] ELSE 0]]

(* grow(): the items move to where their index lies in the larger array.   *)
Grow(d) ==
  LET wide == [k \in 0 .. 2 * d.capacity - 1 |-> 0]
      at(k) == { i \in d.top .. d.bottom - 1 : i % (2 * d.capacity) = k }
  IN  [d EXCEPT !.capacity = 2 * @,
         !.items = [k \in DOMAIN wide |-> IF at(k) = {} THEN 0 ELSE Get(d, CHOOSE i \in at(k) : TRUE)]]

Push(d, item) ==
  LET g == IF d.bottom - d.top >= d.capacity - 1 THEN Grow(d) ELSE d
  IN  [g EXCEPT !.items[g.bottom % g.capacity] = item, !.bottom = @ + 1]

(* Mutant of Pop: the bottom, counted down for every item, is not set      *)
(* again when the last one is taken at the top.                            *)
PopKeepsBottom(d) ==
  [item |-> Get(d, d.bottom - 1),
   deque |-> [d EXCEPT !.bottom = @ - 1, !.top = IF Size(d) = 1 THEN @ + 1 ELSE @]]

(* pop() of a deque that is not empty: [item, deque].  The last item is    *)
(* taken at the top; an item that is taken stays in its slot.              *)
Pop(d) ==
  [item |-> Get(d, d.bottom - 1),
   deque |-> IF Size(d) = 1 THEN [d EXCEPT !.top = @ + 1] ELSE [d EXCEPT !.bottom = @ - 1]]

Steal(d) == [item |-> Get(d, d.top), deque |-> [d EXCEPT !.top = @ + 1]]

-----------------------------------------------------------------------------
Loops == WorkerIds \X (1 .. MaxStarts)
Off == [pc |-> "off", item |-> 0]

Init ==
  /\ deque = [w \in WorkerIds |-> Empty]
  /\ running = FALSE
  /\ workerLoops = [w \in WorkerIds |-> FALSE]
  /\ starts = 0
  /\ loop = [l \in Loops |-> Off]
  /\ turn = <<>>
  /\ over = {}

Held == { loop[l].item : l \in Loops } \ {0}
Queued(w) == { Get(deque[w], i) : i \in deque[w].top .. deque[w].bottom - 1 }
Submitted == over \cup Held \cup UNION { Queued(w) : w \in WorkerIds }

(* getLeastLoadedWorker(): the first of the smallest; a caller may name one. *)
LeastLoaded ==
  CHOOSE w \in WorkerIds : \A v \in WorkerIds :
    Size(deque[w]) < Size(deque[v]) \/ (Size(deque[w]) = Size(deque[v]) /\ w <= v)

Submit(i) ==
  /\ turn = <<>> /\ i = 1 + Cardinality(Submitted)
  /\ i + starts <= MaxMoves
  /\ \E w \in {LeastLoaded} \cup WorkerIds :
       deque' = [deque EXCEPT ![w] = Push(@, i)]
  /\ UNCHANGED <<running, workerLoops, starts, loop, turn, over>>

(* start(): the loops run one after the other to their first await; they   *)
(* set workerLoops themselves, for loops of an earlier start as well.      *)
Start ==
  /\ turn = <<>> /\ ~running
  /\ starts < MaxStarts /\ Cardinality(Submitted) + starts < MaxMoves
  /\ running' = TRUE
  /\ starts' = starts + 1
  /\ turn' = [w \in WorkerIds |-> <<w, starts + 1>>]
  /\ UNCHANGED <<deque, workerLoops, loop, over>>

Stop ==
  /\ turn = <<>> /\ running
  /\ running' = FALSE
  /\ workerLoops' = [w \in WorkerIds |-> FALSE]
  /\ UNCHANGED <<deque, starts, loop, turn, over>>

-----------------------------------------------------------------------------
Wakes(l) == workerLoops' = [workerLoops EXCEPT ![l[1]] = @ \/ loop[l].pc = "off"]
MayLoop(l) == running /\ (workerLoops[l[1]] \/ loop[l].pc = "off")

InTurn(l) == turn # <<>> /\ l = Head(turn) /\ turn' = Tail(turn)

Takes(l, w, taken) ==
  /\ deque' = [deque EXCEPT ![w] = taken.deque]
  /\ loop' = [loop EXCEPT ![l] = [pc |-> "executing", item |-> taken.item]]
  /\ UNCHANGED <<running, starts, over>>

TakesOwn(l) ==
  /\ InTurn(l) /\ MayLoop(l) /\ Wakes(l)
  /\ Size(deque[l[1]]) > 0
  /\ Takes(l, l[1], Pop(deque[l[1]]))

(* trySteal(): the first victim with work after a random start.            *)
Steals(l) ==
  /\ InTurn(l) /\ MayLoop(l) /\ Wakes(l)
  /\ Size(deque[l[1]]) = 0
  /\ \E v \in WorkerIds \ {l[1]} :
       Size(deque[v]) > 0 /\ Takes(l, v, Steal(deque[v]))

Waits(l) ==
  /\ InTurn(l) /\ MayLoop(l) /\ Wakes(l)
  /\ \A v \in WorkerIds : Size(deque[v]) = 0
  /\ loop' = [loop EXCEPT ![l] = [Off EXCEPT !.pc = "waiting"]]
  /\ UNCHANGED <<deque, running, starts, over>>

LoopEnds(l) ==
  /\ InTurn(l) /\ ~MayLoop(l)
  /\ loop' = [loop EXCEPT ![l] = [Off EXCEPT !.pc = "ended"]]
  /\ UNCHANGED <<deque, running, workerLoops, starts, over>>

(* The executor's promise settles and the loop goes on at once.            *)
Executed(l) ==
  /\ turn = <<>> /\ loop[l].pc = "executing"
  /\ over' = over \cup {loop[l].item}
  /\ loop' = [loop EXCEPT ![l] = [Off EXCEPT !.pc = "turning"]]
  /\ turn' = <<l>>
  /\ UNCHANGED <<deque, running, workerLoops, starts>>

WaitIsOver(l) ==
  /\ turn = <<>> /\ loop[l].pc = "waiting"
  /\ turn' = <<l>>
  /\ loop' = [loop EXCEPT ![l].pc = "turning"]
  /\ UNCHANGED <<deque, running, workerLoops, starts, over>>

Next ==
  \/ \E i \in Items : Submit(i)
  \/ Start \/ Stop
  \/ \E l \in Loops : TakesOwn(l) \/ Steals(l) \/ Waits(l) \/ LoopEnds(l) \/ Executed(l) \/ WaitIsOver(l)

Spec == Init /\ [][Next]_workVars

-----------------------------------------------------------------------------
WorkTypeOK ==
  /\ \A w \in WorkerIds :
       /\ deque[w].top \in 0 .. deque[w].bottom
       /\ DOMAIN deque[w].items = 0 .. deque[w].capacity - 1
  /\ over \subseteq Items /\ turn \in Seq(Loops)
  /\ \A l \in Loops : loop[l].pc \in {"off", "executing", "turning", "waiting", "ended"}

(* Capacity, indices, stale slots and doubled loops change nothing of what *)
(* the pool promises: queues taken newest first by their owner and oldest  *)
(* first by others, and every item executed once.                          *)
Queues == INSTANCE WorkQueues WITH
  Workers <- WorkerIds,
  queue <- [w \in WorkerIds |->
     [k \in 1 .. Size(deque[w]) |-> Get(deque[w], deque[w].top + k - 1)]],
  executing <- Held,
  executed <- over

StepOfQueues == [Queues!Next]_Queues!queueVars

ImplementsWorkQueues == Queues!Init /\ [][StepOfQueues]_workVars
=============================================================================
