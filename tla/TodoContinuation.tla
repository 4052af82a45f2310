-------------------------- MODULE TodoContinuation --------------------------
(***************************************************************************)
(* One session without a mission: the continuation of its open todos       *)
(* (core/loop/todo-continuation.ts) and the recovery from its errors       *)
(* (core/recovery/session-recovery.ts), which hear the same events.  An    *)
(* idle event is handled across two awaits, and its countdown across one   *)
(* more; handlers overlap.                                                 *)
(***************************************************************************)
EXTENDS Naturals, FiniteSets

CONSTANTS
  IdleEvents,      \* idle events that ever come, 1, 2, ... (bound)
  Errors,          \* errors that ever come (bound)
  MaxAttempts      \* RECOVERY.MAX_ATTEMPTS: 3

VARIABLES
  open,            \* the plugin knows the session
  entry,           \* its ContinuationState
  idler,           \* the handler of each idle event, up to its prompt
  recovery,        \* recoveryState of the session
  rescuer,         \* the handler of each error
  unanswered       \* recovery prompts since the assistant's last message

continuationVars == <<open, entry, idler, recovery, rescuer, unanswered>>

(* timer: whose countdown countdownTimer is, 0 for none.                   *)
NewEntry    == [timer |-> 0, started |-> "no", abort |-> "no", idleSoon |-> FALSE]
NewRecovery == [recovering |-> FALSE, cooling |-> FALSE, count |-> 0]

(* own: the state object the handler holds is still the one of the map.    *)
Init ==
  /\ open = TRUE
  /\ entry = NewEntry
  /\ idler = [n \in IdleEvents |-> [pc |-> "new", own |-> TRUE]]
  /\ recovery = NewRecovery
  /\ rescuer = [r \in Errors |-> [pc |-> "new", own |-> TRUE]]
  /\ unanswered = 0

-----------------------------------------------------------------------------
(* cancelCountdown(): without a timer, countdownStartedAt stays as it is.  *)
Cancelled(e) == IF e.timer = 0 THEN e ELSE [e EXCEPT !.timer = 0, !.started = "no"]

(* The handlers, n's as given, that of a cancelled countdown ended.        *)
Idlers(n, pc) ==
  [m \in IdleEvents |->
     CASE m = n -> [idler[m] EXCEPT !.pc = pc]
       [] m # n /\ m = entry.timer -> [idler[m] EXCEPT !.pc = "ended"]
       [] OTHER -> idler[m]]

(* handleSessionIdle() up to its first await.                              *)
Comes(n) == open /\ \A m \in IdleEvents : idler[m].pc = "new" <=> m >= n

TooSoon(n) ==
  /\ Comes(n) /\ entry.idleSoon
  /\ idler' = [idler EXCEPT ![n].pc = "ended"]
  /\ UNCHANGED <<open, entry, recovery, rescuer, unanswered>>

Idle(n) ==
  /\ Comes(n) /\ ~entry.idleSoon
  /\ \E busy \in BOOLEAN :
       LET on == ~recovery.recovering /\ entry.abort # "recent" /\ ~busy
       IN  idler' = Idlers(n, IF on THEN "fetching" ELSE "ended")
  /\ entry' = [Cancelled(entry) EXCEPT !.idleSoon = TRUE,
                 !.abort = IF recovery.recovering THEN @ ELSE "no"]
  /\ UNCHANGED <<open, recovery, rescuer, unanswered>>

Becomes(n, from, to) ==
  /\ idler[n].pc = from
  /\ \E pc \in to : idler' = [idler EXCEPT ![n].pc = pc]

(* The todos of the session or of the files: work left, none, or an error. *)
Fetched(n) ==
  /\ Becomes(n, "fetching", {"toasting", "ended"})
  /\ UNCHANGED <<open, entry, recovery, rescuer, unanswered>>

(* The countdown starts now, dated from when the idle event came.          *)
ToastShown(n) ==
  /\ Becomes(n, "toasting", {"counting"})
  /\ \E started \in {"now", "past"} :
       entry' = IF idler[n].own THEN [entry EXCEPT !.timer = n, !.started = started] ELSE entry
  /\ UNCHANGED <<open, recovery, rescuer, unanswered>>

(* The callback cancels the countdown of the session, whoever's it is.     *)
Fires(n) ==
  /\ idler[n].pc = "counting"
  /\ entry.timer = n => entry.started # "now"
  /\ idler' = Idlers(n, "refetching")
  /\ entry' = Cancelled(entry)
  /\ UNCHANGED <<open, recovery, rescuer, unanswered>>

(* Work is left: injectContinuation() looks at tasks and recovery again,   *)
(* and not at aborts (isAborting is set by nobody).                        *)
Refetched(n) ==
  /\ Becomes(n, "refetching", {"ended"} \cup IF recovery.recovering THEN {} ELSE {"prompted"})
  /\ UNCHANGED <<open, entry, recovery, rescuer, unanswered>>

-----------------------------------------------------------------------------
(* A message of the user, or of the plugin itself, in the session.         *)
UserMessage ==
  /\ entry.started # "now"
  /\ entry' = [Cancelled(entry) EXCEPT !.abort = "no"]
  /\ idler' = Idlers(0, "ended")
  /\ UNCHANGED <<open, recovery, rescuer, unanswered>>

AssistantMessage ==
  /\ recovery' = [recovery EXCEPT !.recovering = FALSE, !.count = 0]
  /\ unanswered' = 0
  /\ UNCHANGED <<open, entry, idler, rescuer>>

(* handleSessionError() of the recovery; counts above the limit are alike. *)
Counted == IF recovery.count > MaxAttempts THEN recovery.count ELSE recovery.count + 1

WithinAttempts == Counted <= MaxAttempts

Recovers(r, kind) ==
  IF recovery.recovering \/ recovery.cooling
    THEN UNCHANGED <<recovery, unanswered>> /\ rescuer' = [rescuer EXCEPT ![r].pc = "ended"]
    ELSE \E waits \in BOOLEAN :
      LET rate == kind = "rateLimit" /\ WithinAttempts /\ (waits \/ Counted < MaxAttempts)
      IN  /\ recovery' = [recovering |-> rate, cooling |-> TRUE, count |-> Counted]
          /\ rescuer' = [rescuer EXCEPT ![r].pc = IF rate THEN "waiting" ELSE "ended"]
          /\ unanswered' = IF kind = "crash" /\ WithinAttempts THEN unanswered + 1 ELSE unanswered

SessionError(r, kind) ==
  /\ \A q \in Errors : rescuer[q].pc = "new" <=> q >= r
  /\ entry' = [Cancelled(entry) EXCEPT !.abort = IF kind = "abort" THEN "recent" ELSE @]
  /\ idler' = Idlers(0, "ended")
  /\ Recovers(r, kind)
  /\ UNCHANGED open

(* Mutant of WaitIsOver: the flag is left to the next assistant message.   *)
WaitIsOverSilently(r) ==
  /\ rescuer[r].pc = "waiting"
  /\ rescuer' = [rescuer EXCEPT ![r].pc = "ended"]
  /\ UNCHANGED <<open, entry, idler, recovery, unanswered>>

WaitIsOver(r) ==
  /\ rescuer[r].pc = "waiting"
  /\ rescuer' = [rescuer EXCEPT ![r].pc = "ended"]
  /\ recovery' = [recovery EXCEPT !.recovering = @ /\ ~rescuer[r].own]
  /\ UNCHANGED <<open, entry, idler, unanswered>>

(* The delay of a rate limit, at most 8s, is over before the cooldown.     *)
CooldownOver ==
  /\ recovery.cooling
  /\ \A r \in Errors : rescuer[r].pc = "waiting" => ~rescuer[r].own
  /\ recovery' = [recovery EXCEPT !.cooling = FALSE]
  /\ UNCHANGED <<open, entry, idler, rescuer, unanswered>>

(* The session is deleted: both states go, their handlers keep what they   *)
(* hold, and an error or a message that is late makes a new one.           *)
Deleted ==
  /\ open /\ open' = FALSE
  /\ entry' = NewEntry /\ recovery' = NewRecovery /\ unanswered' = 0
  /\ idler' = [m \in IdleEvents |-> [Idlers(0, "ended")[m] EXCEPT !.own = @ /\ idler[m].pc = "new"]]
  /\ rescuer' = [r \in Errors |-> [rescuer[r] EXCEPT !.own = @ /\ rescuer[r].pc = "new"]]

(* 3s after an idle event or an abort, 500ms after a countdown began; ten  *)
(* minutes without an event outlast every await, and the entry is pruned.  *)
Between == \A n \in IdleEvents : idler[n].pc \in {"new", "ended", "prompted"}

TimePasses ==
  /\ \/ entry' = [entry EXCEPT !.idleSoon = FALSE]
     \/ entry.abort = "recent" /\ entry' = [entry EXCEPT !.abort = "old"]
     \/ entry.started = "now" /\ entry' = [entry EXCEPT !.started = "past"]
     \/ Between /\ entry' = NewEntry
  /\ UNCHANGED <<open, idler, recovery, rescuer, unanswered>>

Next ==
  \/ \E n \in IdleEvents :
       TooSoon(n) \/ Idle(n) \/ Fetched(n) \/ ToastShown(n) \/ Fires(n) \/ Refetched(n)
  \/ \E r \in Errors, kind \in {"abort", "crash", "rateLimit", "other"} : SessionError(r, kind)
  \/ \E r \in Errors : WaitIsOver(r)
  \/ UserMessage \/ AssistantMessage \/ CooldownOver \/ Deleted \/ TimePasses

Spec == Init /\ [][Next]_continuationVars

-----------------------------------------------------------------------------
ContinuationTypeOK ==
  /\ entry.timer \in IdleEvents \cup {0} /\ entry.started \in {"no", "now", "past"}
  /\ entry.abort \in {"no", "recent", "old"}
  /\ \A n \in IdleEvents :
       idler[n].pc \in {"new", "fetching", "toasting", "counting", "refetching", "ended", "prompted"}
  /\ recovery.count \in 0 .. MaxAttempts + 1

(* What the two states say is true, whichever handlers overlap, fire, or   *)
(* cancel each other: the handle is of a countdown that runs, so that      *)
(* cancelling it stops a prompt; isRecovering, which silences both loops,  *)
(* is set only while a handler that holds this very state is going to      *)
(* reset it; and the attempts counted bound the prompts an assistant gets  *)
(* that never answers.                                                     *)
StatesAreTruthful ==
  /\ entry.timer # 0 => idler[entry.timer].pc = "counting"
  /\ recovery.recovering => \E r \in Errors : rescuer[r].pc = "waiting" /\ rescuer[r].own
  /\ unanswered <= MaxAttempts

(* "Respects abort/cancel from user": nothing is injected within the abort *)
(* window.  A handler that was awaiting sets its countdown all the same.   *)
AbortRespected ==
  [][entry.abort = "recent" =>
       \A n \in IdleEvents : idler'[n].pc = "prompted" => idler[n].pc = "prompted"]_continuationVars
=============================================================================
