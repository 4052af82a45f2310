-------------------------- MODULE ShutdownManager --------------------------
(***************************************************************************)
(* The orderly end of the plugin (shared/lifecycle/shutdown-manager.ts):   *)
(* index.ts registers the subsystems' handlers, and shutdown() runs them   *)
(* one after the other, each for at most five seconds.                     *)
(***************************************************************************)
EXTENDS Naturals, Sequences, SequencesExt

CONSTANTS
  Handlers,        \* the handlers index.ts registers, in its order: 1, 2, ...
  Priority         \* of each: lower runs first

VARIABLES
  cleanupHandlers, \* registered, in the order they will run
  register,        \* how many index.ts has registered
  isShuttingDown,
  running,         \* the handlers that have been called, in that order
  state            \* of each handler

shutdownVars == <<cleanupHandlers, register, isShuttingDown, running, state>>

Init ==
  /\ cleanupHandlers = <<>> /\ register = 0
  /\ isShuttingDown = FALSE
  /\ running = <<>>
  /\ state = [h \in Handlers |-> "idle"]

(* Mutant of GoesFirst: the new handler goes before its equals.            *)
GoesFirstStrictly(g, h) == Priority[g] < Priority[h]

(* Array.prototype.sort is stable: a new handler goes after its equals     *)
(* among those that are sorted already.                                    *)
GoesFirst(g, h) == Priority[g] <= Priority[h]

Sorted(hs, h) ==
  LET n == CHOOSE n \in 0 .. Len(hs) : \A i \in DOMAIN hs : i <= n <=> GoesFirst(hs[i], h)
  IN  InsertAt(hs, n + 1, h)

Register ==
  /\ register + 1 \in Handlers
  /\ register' = register + 1
  /\ cleanupHandlers' =
       IF isShuttingDown THEN cleanupHandlers ELSE Sorted(cleanupHandlers, register + 1)
  /\ UNCHANGED <<isShuttingDown, running, state>>

(* A second call of shutdown() gets the promise of the first.              *)
Shutdown ==
  /\ ~isShuttingDown
  /\ isShuttingDown' = TRUE
  /\ UNCHANGED <<cleanupHandlers, register, running, state>>

(* Mutant of MayStart: a slow handler is waited for.                       *)
MayStartAtItsEnd ==
  running # <<>> => state[Last(running)] \in {"finished", "failed", "lateEnd"}

(* _executeShutdown() awaits the race of the handler it called last.       *)
MayStart ==
  running # <<>> => state[Last(running)] \in {"finished", "failed", "late", "lateEnd"}

StartHandler ==
  /\ isShuttingDown /\ MayStart
  /\ Len(running) < Len(cleanupHandlers)
  /\ LET h == cleanupHandlers[Len(running) + 1]
     IN  running' = Append(running, h) /\ state' = [state EXCEPT ![h] = "running"]
  /\ UNCHANGED <<cleanupHandlers, register, isShuttingDown>>

Becomes(h, from, to) ==
  /\ state[h] = from
  /\ \E s \in to : state' = [state EXCEPT ![h] = s]
  /\ UNCHANGED <<cleanupHandlers, register, isShuttingDown, running>>

Ends(h) == Becomes(h, "running", {"finished", "failed"})

(* After 5s the shutdown goes on; the handler is not stopped.              *)
FiveSeconds(h) == Becomes(h, "running", {"late"})
EndsLate(h)    == Becomes(h, "late", {"lateEnd"})

Next ==
  \/ Register \/ Shutdown \/ StartHandler
  \/ \E h \in Handlers : Ends(h) \/ FiveSeconds(h) \/ EndsLate(h)

Spec == Init /\ [][Next]_shutdownVars

-----------------------------------------------------------------------------
ShutdownTypeOK ==
  /\ register \in {0} \cup Handlers
  /\ IsInjective(cleanupHandlers) /\ IsPrefix(running, cleanupHandlers)
  /\ state \in [Handlers -> {"idle", "running", "finished", "failed", "late", "lateEnd"}]

Precedes(g, h) == Priority[g] < Priority[h] \/ (Priority[g] = Priority[h] /\ g < h)

(* A handler is called when those of a lower priority number, and those of *)
(* its own that were registered before it, have finished, failed or had    *)
(* their five seconds: failures and slow handlers change no order.         *)
OrderedShutdown ==
  \A h \in ToSet(running), g \in ToSet(cleanupHandlers) :
    Precedes(g, h) => state[g] \in {"finished", "failed", "late", "lateEnd"}

(* What each step of a shutdown waits for comes: a result or its timer.    *)
ShutdownFairness == WF_shutdownVars(StartHandler) /\ \A h \in Handlers : WF_shutdownVars(FiveSeconds(h))

(* A handler that hangs or fails keeps no other from being called.         *)
EveryHandlerCalled ==
  isShuttingDown ~> \A h \in ToSet(cleanupHandlers) : state[h] # "idle"
=============================================================================
