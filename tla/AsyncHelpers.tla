---------------------------- MODULE AsyncHelpers ----------------------------
(***************************************************************************)
(* Helpers that call a function of their user again and again: three       *)
(* retry loops (core/queue/async-utils.ts, core/recovery/retry.ts,         *)
(* core/recovery/handler.ts) and the work pool (core/queue/work-pool.ts).  *)
(* A behaviour is one call of one helper, whose user function may fail in  *)
(* any way at any time.                                                    *)
(***************************************************************************)
EXTENDS Naturals, Sequences, FiniteSets, SequencesExt

CONSTANTS
  Retries,         \* retries of each loop: 3, 5, 3
  Concurrency,     \* of workPoolWithResults()
  WorkItems,       \* its items: 1 .. n
  MaxFailures      \* bound: failures of one loop

VARIABLES
  helper,          \* which helper is called
  retrying,        \* the state of the retry loop
  pooled           \* the state of workPoolWithResults()

helperVars == <<helper, retrying, pooled>>

Loops == {"retryWithBackoff", "withRetry", "withRecovery"}

Kinds == {"rateLimit", "network", "parse", "gibberish", "session", "tool", "lsp", "unknown"}

(* What errorPatterns does with the attempt-th error: the number of the    *)
(* next attempt, or 0 for an action that is no retry.                      *)
HandleError(kind, attempt) ==
  IF kind = "gibberish" THEN 1
  ELSE IF \/ kind \in {"rateLimit", "lsp"}
          \/ kind \in {"network", "unknown"} /\ attempt < Retries
          \/ kind = "parse" /\ attempt < 2
       THEN attempt + 1 ELSE 0

(* isRetryable() looks for words of the message, and finds few.            *)
IsRetryable(kind) == kind = "rateLimit"

(* After the failed-th failure of the loop.                                *)
TriesAgain(kind, failed) ==
  \/ helper = "retryWithBackoff" /\ failed <= Retries
  \/ helper = "withRetry" /\ IsRetryable(kind) /\ failed < Retries
  \/ helper = "withRecovery" /\ HandleError(kind, failed) \in 1 .. Retries

Succeeds ==
  /\ helper \in Loops /\ retrying.pc = "calling"
  /\ retrying' = [retrying EXCEPT !.pc = "resolved"]
  /\ UNCHANGED <<helper, pooled>>

Fails(kind) ==
  /\ helper \in Loops /\ retrying.pc = "calling" /\ retrying.failed < MaxFailures
  /\ LET failed == retrying.failed + 1
     IN  retrying' = [failed |-> failed, kinds |-> retrying.kinds \cup {kind},
                      pc |-> IF TriesAgain(kind, failed) THEN "waiting" ELSE "rejected"]
  /\ UNCHANGED <<helper, pooled>>

(* The delay ends; the signal of withRetry() ends it with an error.        *)
Slept ==
  /\ helper \in Loops /\ retrying.pc = "waiting"
  /\ \/ retrying' = [retrying EXCEPT !.pc = "calling"]
     \/ helper = "withRetry" /\ retrying' = [retrying EXCEPT !.pc = "rejected"]
  /\ UNCHANGED <<helper, pooled>>

-----------------------------------------------------------------------------
Workers == 1 .. Concurrency

Idle == 0                            \* a worker between two items ...
Gone == Cardinality(WorkItems) + 1   \* ... and one that returned or failed

(* A worker takes the last of what is pending; without any it returns.     *)
Takes(w) ==
  /\ helper = "workPool" /\ pooled.worker[w] = Idle
  /\ pooled' = IF pooled.pending = <<>>
                 THEN [pooled EXCEPT !.worker[w] = Gone]
                 ELSE [pooled EXCEPT !.worker[w] = Last(pooled.pending), !.pending = Front(@)]
  /\ UNCHANGED <<helper, retrying>>

(* Mutant of StoresAt: results are appended in the order they come.        *)
StoresAtEnd(i) == 1 + Cardinality({ j \in WorkItems : pooled.results[j] # 0 })

StoresAt(i) == i

(* One failure rejects the whole call, and the other workers go on unheard. *)
WorkDone(w) ==
  /\ helper = "workPool" /\ pooled.worker[w] \in WorkItems
  /\ \/ pooled' = [pooled EXCEPT !.results[StoresAt(pooled.worker[w])] = pooled.worker[w],
                                 !.worker[w] = Idle]
     \/ pooled' = [pooled EXCEPT !.worker[w] = Gone, !.rejected = TRUE]
  /\ UNCHANGED <<helper, retrying>>

Init ==
  /\ helper \in Loops \cup {"workPool"}
  /\ retrying = [pc |-> "calling", failed |-> 0, kinds |-> {}]
  /\ pooled = [pending |-> [i \in WorkItems |-> i], worker |-> [w \in Workers |-> Idle],
               results |-> [i \in WorkItems |-> 0], rejected |-> FALSE]

Next ==
  \/ Succeeds \/ Slept
  \/ \E kind \in Kinds : Fails(kind)
  \/ \E w \in Workers : Takes(w) \/ WorkDone(w)

Spec == Init /\ [][Next]_helperVars

-----------------------------------------------------------------------------
RetriesBounded ==
  "gibberish" \notin retrying.kinds
    => retrying.failed <= Retries + (IF helper = "retryWithBackoff" THEN 1 ELSE 0)

ResultsInPlace ==
  /\ \A i \in WorkItems : pooled.results[i] \in {0, i}
  /\ ~pooled.rejected /\ (\A w \in Workers : pooled.worker[w] = Gone)
       => \A i \in WorkItems : pooled.results[i] = i

(* A retry loop stops after its retries, whatever mixture of errors it     *)
(* meets (an answer that is "gibberish" asks for attempt 1 for ever).      *)
(* Results stand at the index of their item, in whatever order the workers *)
(* finish; when all are gone without a failure, every item has its result. *)
HelpersAnswer == RetriesBounded /\ ResultsInPlace
=============================================================================
