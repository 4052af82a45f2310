--------------------------- MODULE Sessions_proofs ---------------------------
(***************************************************************************)
(* Theorems about the services that steer a session: the continuation of   *)
(* its todos and its recovery from errors, the flags and the file that     *)
(* make it a mission's, and a call that delegates to a session of its own. *)
(***************************************************************************)
EXTENDS Services, TLAPS

(* The variables of each service, by the names its module gives them.      *)
open == x1
entry == x2
idler == x3
recovery == x4
rescuer == x5
unanswered == x6

sessions == x1
missionActive == x2
enabled == x3
missionOf == x4
missions == x5
transformed == x6
continued == x7

delegation == x1
agent == x2
quiet == x3

todos == x1
tracker == x2
loopFile == x3
checks == x4
prompts == x5
seen == x6
flat == x7
steady == x8

USE DEF open, entry, idler, recovery, rescuer, unanswered, sessions, missionActive,
        enabled, missionOf, missions, transformed, continued, delegation, agent, quiet,
        todos, tracker, loopFile, checks, prompts, seen, flat, steady

-----------------------------------------------------------------------------
(* 1. Todo continuation and recovery.                                      *)
HandlerStates ==
  {"new", "fetching", "toasting", "counting", "refetching", "ended", "prompted"}

EntryOK ==
  /\ entry \in [timer : IdleEvents \cup {0}, started : {"no", "now", "past"},
                abort : {"no", "recent", "old"}, idleSoon : BOOLEAN]
  /\ idler \in [IdleEvents -> [pc : HandlerStates, own : BOOLEAN]]

RecoveryOK ==
  /\ recovery \in [recovering : BOOLEAN, cooling : BOOLEAN, count : Nat]
  /\ recovery.count <= MaxAttempts + 1
  /\ rescuer \in [Errors -> [pc : {"new", "waiting", "ended"}, own : BOOLEAN]]
  /\ unanswered \in Nat

(* The handle is of a countdown that runs.                                 *)
TimerRuns == entry.timer # 0 => idler[entry.timer].pc = "counting"

(* A handler that has not begun finds the state of the map; and whoever is *)
(* to reset the flag of that state is still to come.                       *)
FlagIsHeld ==
  /\ \A r \in Errors : rescuer[r].pc = "new" => rescuer[r].own
  /\ recovery.recovering => \E r \in Errors : rescuer[r].pc = "waiting" /\ rescuer[r].own

(* Every prompt without an answer was counted, within the limit.           *)
PromptsCounted == unanswered <= MaxAttempts /\ unanswered <= recovery.count

TodoInv == EntryOK /\ RecoveryOK /\ TimerRuns /\ FlagIsHeld /\ PromptsCounted

LEMMA TodoInitOK == Todo!Init => TodoInv
  BY TodoAssumption DEF TodoInv, Todo!Init, Todo!NewEntry, Todo!NewRecovery, EntryOK,
         RecoveryOK, TimerRuns, FlagIsHeld, PromptsCounted, HandlerStates

(* A countdown that is cancelled leaves no timer, and its handler ends.    *)
LEMMA Cancelling ==
  ASSUME EntryOK, NEW n, NEW pc \in HandlerStates
  PROVE  /\ Todo!Idlers(n, pc) \in [IdleEvents -> [pc : HandlerStates, own : BOOLEAN]]
         /\ Todo!Cancelled(entry) \in [timer : {0}, started : {"no", "now", "past"},
                                       abort : {"no", "recent", "old"}, idleSoon : BOOLEAN]
  BY TodoAssumption DEF EntryOK, HandlerStates, Todo!Idlers, Todo!Cancelled

(* The entry and its handlers: an action per step.                         *)
LEMMA EntryStep ==
  ASSUME EntryOK, TimerRuns, [Todo!Next]_Todo!continuationVars
  PROVE  EntryOK' /\ TimerRuns'
<1> USE DEF EntryOK, TimerRuns
<1>0. \A n \in IdleEvents : n \in Nat /\ n # 0
  BY TodoAssumption
<1>1. CASE \E n \in IdleEvents : Todo!TooSoon(n)
  BY <1>1, <1>0 DEF Todo!TooSoon, Todo!Comes, HandlerStates
<1>2. CASE \E n \in IdleEvents : Todo!Idle(n)
  <2>1. PICK n \in IdleEvents : Todo!Idle(n)
    BY <1>2
  <2>2. PICK pc \in {"fetching", "ended"} : idler' = Todo!Idlers(n, pc)
    BY <2>1 DEF Todo!Idle
  <2>3. pc \in HandlerStates
    BY DEF HandlerStates
  <2>4. entry' \in [timer : {0}, started : {"no", "now", "past"},
                    abort : {"no", "recent", "old"}, idleSoon : BOOLEAN]
    BY <2>1, <2>3, Cancelling DEF Todo!Idle
  <2> QED
    BY <2>2, <2>3, <2>4, Cancelling
<1>3. CASE \E n \in IdleEvents : Todo!Fetched(n)
  BY <1>3, <1>0 DEF Todo!Fetched, Todo!Becomes, HandlerStates
<1>4. CASE \E n \in IdleEvents : Todo!ToastShown(n)
  <2>1. PICK n \in IdleEvents : Todo!ToastShown(n)
    BY <1>4
  <2>2. idler[n].pc = "toasting" /\ idler' = [idler EXCEPT ![n].pc = "counting"]
    BY <2>1 DEF Todo!ToastShown, Todo!Becomes
  <2>3. idler' \in [IdleEvents -> [pc : HandlerStates, own : BOOLEAN]]
    BY <2>2 DEF HandlerStates
  <2>4. \/ entry' = entry
        \/ \E started \in {"now", "past"} :
             entry' = [entry EXCEPT !.timer = n, !.started = started]
    BY <2>1 DEF Todo!ToastShown
  <2>5. CASE entry' = entry
    BY <2>2, <2>3, <2>5, <1>0
  <2>6. CASE \E started \in {"now", "past"} :
               entry' = [entry EXCEPT !.timer = n, !.started = started]
    BY <2>2, <2>3, <2>6, <1>0
  <2> QED
    BY <2>4, <2>5, <2>6
<1>5. CASE \E n \in IdleEvents : Todo!Fires(n)
  <2>1. PICK n \in IdleEvents : Todo!Fires(n)
    BY <1>5
  <2>2. "refetching" \in HandlerStates
    BY DEF HandlerStates
  <2> QED
    BY <2>1, <2>2, Cancelling DEF Todo!Fires
<1>6. CASE \E n \in IdleEvents : Todo!Refetched(n)
  BY <1>6, <1>0 DEF Todo!Refetched, Todo!Becomes, HandlerStates
<1>7. CASE \/ \E r \in Errors, kind \in {"abort", "crash", "rateLimit", "other"} :
                Todo!SessionError(r, kind)
           \/ Todo!UserMessage
  <2>1. "ended" \in HandlerStates
    BY DEF HandlerStates
  <2>2. /\ idler' = Todo!Idlers(0, "ended")
        /\ \E abort \in {"no", "recent", "old"} :
             entry' = [Todo!Cancelled(entry) EXCEPT !.abort = abort]
    <3>1. Todo!Cancelled(entry).abort \in {"no", "recent", "old"}
      BY <2>1, Cancelling
    <3> QED
      BY <1>7, <3>1 DEF Todo!SessionError, Todo!UserMessage
  <2> QED
    BY <2>1, <2>2, Cancelling
<1>8. CASE Todo!Deleted
  <2>1. "ended" \in HandlerStates
    BY DEF HandlerStates
  <2>2. Todo!Idlers(0, "ended") \in [IdleEvents -> [pc : HandlerStates, own : BOOLEAN]]
    BY <2>1, Cancelling
  <2> QED
    BY <1>8, <2>2 DEF Todo!Deleted, Todo!NewEntry
<1>9. CASE Todo!TimePasses
  <2>1. CASE entry' = Todo!NewEntry
    BY <1>9, <2>1 DEF Todo!TimePasses, Todo!NewEntry
  <2>2. CASE \/ entry' = [entry EXCEPT !.idleSoon = FALSE]
             \/ entry' = [entry EXCEPT !.abort = "old"]
             \/ entry' = [entry EXCEPT !.started = "past"]
    <3>1. entry' \in [timer : IdleEvents \cup {0}, started : {"no", "now", "past"},
                      abort : {"no", "recent", "old"}, idleSoon : BOOLEAN]
      BY <2>2
    <3>2. entry'.timer = entry.timer
      BY <2>2
    <3> QED
      BY <1>9, <3>1, <3>2 DEF Todo!TimePasses
  <2> QED
    BY <1>9, <2>1, <2>2 DEF Todo!TimePasses
<1>10. CASE UNCHANGED <<entry, idler>>
  BY <1>10
<1> QED
  BY <1>1, <1>2, <1>3, <1>4, <1>5, <1>6, <1>7, <1>8, <1>9, <1>10
  DEF Todo!Next, Todo!continuationVars, Todo!WaitIsOver, Todo!AssistantMessage, Todo!CooldownOver

(* The state of the recovery, its handlers and the prompts they count.     *)
LEMMA RecoveryStep ==
  ASSUME RecoveryOK, FlagIsHeld, PromptsCounted,
         [Todo!Next]_Todo!continuationVars
  PROVE  RecoveryOK' /\ FlagIsHeld' /\ PromptsCounted'
<1> USE DEF RecoveryOK, FlagIsHeld, PromptsCounted
<1>0. MaxAttempts \in Nat
  BY TodoAssumption
<1>1. CASE \E r \in Errors, kind \in {"abort", "crash", "rateLimit", "other"} :
             Todo!SessionError(r, kind)
  <2>1. PICK r \in Errors, kind \in {"abort", "crash", "rateLimit", "other"} :
          rescuer[r].pc = "new" /\ Todo!Recovers(r, kind)
    <3>1. PICK r \in Errors, kind \in {"abort", "crash", "rateLimit", "other"} :
            Todo!SessionError(r, kind)
      BY <1>1
    <3>2. r \in Nat
      BY TodoAssumption
    <3> QED
      BY <3>1, <3>2 DEF Todo!SessionError
  <2>2. CASE recovery.recovering \/ recovery.cooling
    <3>1. /\ UNCHANGED <<recovery, unanswered>>
          /\ rescuer' = [rescuer EXCEPT ![r].pc = "ended"]
      BY <2>1, <2>2 DEF Todo!Recovers
    <3> QED
      BY <2>1, <3>1
  <2>3. CASE ~(recovery.recovering \/ recovery.cooling)
    <3>1. PICK rate \in BOOLEAN :
            /\ rate => Todo!WithinAttempts
            /\ recovery' = [recovering |-> rate, cooling |-> TRUE, count |-> Todo!Counted]
            /\ rescuer' = [rescuer EXCEPT ![r].pc = IF rate THEN "waiting" ELSE "ended"]
            /\ unanswered' = IF kind = "crash" /\ Todo!WithinAttempts
                             THEN unanswered + 1 ELSE unanswered
      BY <2>1, <2>3 DEF Todo!Recovers
    <3>2. /\ Todo!Counted \in Nat
          /\ Todo!Counted <= MaxAttempts + 1 /\ recovery.count <= Todo!Counted
          /\ Todo!WithinAttempts => Todo!Counted = recovery.count + 1 /\ Todo!Counted <= MaxAttempts
      BY <1>0 DEF Todo!Counted, Todo!WithinAttempts
    <3>3. PromptsCounted' /\ unanswered' \in Nat
      BY <3>1, <3>2, <1>0
    <3>4. RecoveryOK'
      BY <3>1, <3>2, <3>3
    <3>5. FlagIsHeld'
      BY <2>1, <3>1
    <3> QED
      BY <3>3, <3>4, <3>5
  <2> QED
    BY <2>2, <2>3
<1>2. CASE \E r \in Errors : Todo!WaitIsOver(r)
  <2>1. PICK r \in Errors : Todo!WaitIsOver(r)
    BY <1>2
  <2>2. /\ recovery' \in [recovering : BOOLEAN, cooling : BOOLEAN, count : Nat]
        /\ recovery'.count = recovery.count /\ unanswered' = unanswered
        /\ recovery'.recovering => recovery.recovering /\ ~rescuer[r].own
    BY <2>1 DEF Todo!WaitIsOver
  <2>3. rescuer' = [rescuer EXCEPT ![r].pc = "ended"]
    BY <2>1 DEF Todo!WaitIsOver
  <2> QED
    BY <2>2, <2>3, <1>0
<1>3. CASE Todo!AssistantMessage
  <2>1. /\ recovery' \in [recovering : BOOLEAN, cooling : BOOLEAN, count : Nat]
        /\ recovery'.recovering = FALSE /\ recovery'.count = 0
        /\ unanswered' = 0 /\ rescuer' = rescuer
    BY <1>3 DEF Todo!AssistantMessage
  <2>2. RecoveryOK'
    BY <2>1, <1>0
  <2>3. FlagIsHeld'
    BY <2>1
  <2>4. PromptsCounted'
    BY <2>1, <1>0
  <2> QED
    BY <2>2, <2>3, <2>4
<1>4. CASE Todo!CooldownOver
  BY <1>4, <1>0 DEF Todo!CooldownOver
<1>5. CASE Todo!Deleted
  <2>1. /\ recovery' = [recovering |-> FALSE, cooling |-> FALSE, count |-> 0]
        /\ unanswered' = 0
    BY <1>5 DEF Todo!Deleted, Todo!NewRecovery
  <2>2. /\ rescuer' \in [Errors -> [pc : {"new", "waiting", "ended"}, own : BOOLEAN]]
        /\ \A r \in Errors : rescuer'[r].pc = rescuer[r].pc
        /\ \A r \in Errors : rescuer[r].pc = "new" => rescuer'[r].own = rescuer[r].own
    BY <1>5 DEF Todo!Deleted
  <2> QED
    BY <2>1, <2>2, <1>0
<1>6. CASE UNCHANGED <<recovery, rescuer, unanswered>>
  BY <1>6
<1> QED
  BY <1>1, <1>2, <1>3, <1>4, <1>5, <1>6
  DEF Todo!Next, Todo!continuationVars, Todo!TooSoon, Todo!Idle, Todo!Fetched, Todo!ToastShown,
      Todo!Fires, Todo!Refetched, Todo!UserMessage, Todo!TimePasses

LEMMA TodoStep ==
  TodoInv /\ [Todo!Next]_Todo!continuationVars => TodoInv'
  BY EntryStep, RecoveryStep DEF TodoInv

LEMMA TodoTells == TodoInv => Todo!StatesAreTruthful
  BY DEF TodoInv, TimerRuns, FlagIsHeld, PromptsCounted, Todo!StatesAreTruthful

(* The two states of a session have their types, and what they say of the  *)
(* handlers under way is true (todo-continuation.ts, session-recovery.ts). *)
THEOREM TodoCorrect == Todo!Spec => []TodoInv
  BY TodoInitOK, TodoStep, PTL DEF Todo!Spec

-----------------------------------------------------------------------------
(* 2. The sessions of missions.                                            *)

(* The file and the last continuation are of sessions that began a mission *)
(* (or of none).                                                           *)
MissionsInv == {missionOf, continued} \subseteq missions \cup {NoSession}

LEMMA MissionsStart == Manager!Init => MissionsInv
  BY DEF Manager!Init, MissionsInv

LEMMA MissionsStep ==
  MissionsInv /\ [Manager!Next]_Manager!sessionVars => MissionsInv'
<1> SUFFICES ASSUME MissionsInv, [Manager!Next]_Manager!sessionVars
             PROVE  MissionsInv'
  OBVIOUS
<1> USE DEF MissionsInv
<1>1. CASE \E s \in SessionIds : Manager!ChatTask(s)
  BY <1>1 DEF Manager!ChatTask
<1>2. CASE \E s \in SessionIds : Manager!DoneHealthy(s)
  BY <1>2 DEF Manager!DoneHealthy, Manager!MayContinue, Manager!IsLoopActive
<1>3. CASE \E s \in SessionIds : Manager!IdleCompletes(s)
  BY <1>3 DEF Manager!IdleCompletes
<1>4. CASE UNCHANGED <<missionOf, missions, continued>>
  BY <1>4
<1> QED
  BY <1>1, <1>2, <1>3, <1>4
  DEF Manager!Next, Manager!sessionVars, Manager!SystemTransform, Manager!ToolExecuteAfter,
      Manager!DoneUnhealthy, Manager!SessionDeleted, Manager!Reload

LEMMA MissionsOnly == MissionsInv => Manager!OnlyMissionsContinue
  BY DEF MissionsInv, Manager!OnlyMissionsContinue

(* The mission file, and the continuation of the done hook, stay with a    *)
(* session that began a mission (hooks/features/mission-loop.ts 109).      *)
THEOREM MissionsCorrect == Manager!Spec => []MissionsInv
  BY MissionsStart, MissionsStep, PTL DEF Manager!Spec

-----------------------------------------------------------------------------
(* 3. A call that delegates.                                               *)
CallPlaces ==
  {"called", "prompting", "polling", "waiting", "validating", "counting", "extracting", "returned"}

DelegationOK ==
  /\ delegation \in
       [mode : Delegate!Modes, depth : Depths, pc : CallPlaces,
        session : {"none", "own", "pool"},
        result : {"none", "launched", "error", "timeout", "done"},
        pollCount : Nat, stablePolls : Nat, lastMsgCount : Nat,
        hasValidOutput : BOOLEAN, idleTime : BOOLEAN, confirmed : Nat]
  /\ agent \in [type : {"missing", "busy", "idle"}, messages : Nat, output : BOOLEAN]
  /\ quiet \in Nat

(* Polls in a row that saw the same messages, one more than stablePolls    *)
(* says, since the first of them does not count (delegate-task.ts 97-191). *)
QuietSince ==
  /\ delegation.lastMsgCount <= agent.messages
  /\ delegation.lastMsgCount > 0 /\ delegation.lastMsgCount = agent.messages
       => quiet > delegation.stablePolls

(* While the call polls it has not had enough of them.                     *)
NotYetStable ==
  delegation.pc \notin {"extracting", "returned"} => delegation.stablePolls < StablePollsRequired

Confirmed ==
  /\ delegation.pc = "extracting" /\ delegation.lastMsgCount > 0
       => delegation.confirmed > StablePollsRequired
  /\ Delegate!DoneMeansStable
  /\ delegation.result = "done" => delegation.pc = "returned"

DelegateInv == DelegationOK /\ QuietSince /\ NotYetStable /\ Confirmed

LEMMA DelegateInitOK == Delegate!Init => DelegateInv
  BY DelegateAssumption DEF Delegate!Init, DelegateInv, DelegationOK, QuietSince, NotYetStable,
         Confirmed, Delegate!DoneMeansStable, CallPlaces

(* A poll that counts: the agent does nothing between it and its number.   *)
LEMMA CountedStep ==
  ASSUME DelegateInv, Delegate!Counted PROVE DelegateInv'
<1> USE DelegateAssumption DEF DelegateInv, DelegationOK
<1> DEFINE enough == Delegate!Stable >= StablePollsRequired
<1>1. /\ delegation.pc = "counting" /\ agent' = agent
      /\ quiet' = IF quiet > StablePollsRequired THEN quiet ELSE quiet + 1
      /\ delegation' = [delegation EXCEPT !.stablePolls = Delegate!Stable,
                          !.lastMsgCount = agent.messages, !.confirmed = quiet',
                          !.pc = IF enough THEN "extracting" ELSE "polling"]
  BY DEF Delegate!Counted, Delegate!At
<1>2. delegation.stablePolls < StablePollsRequired
  BY <1>1 DEF NotYetStable
<1>3. Delegate!Stable \in Nat /\ quiet' \in Nat
  BY <1>1 DEF Delegate!Stable
<1>4. agent.messages > 0 => quiet' > Delegate!Stable
  BY <1>1, <1>2 DEF Delegate!Stable, QuietSince
<1>5. DelegationOK'
  BY <1>1, <1>3 DEF CallPlaces
<1>6. QuietSince'
  BY <1>1, <1>4 DEF QuietSince
<1>7. NotYetStable'
  BY <1>1, <1>3 DEF NotYetStable
<1>8. Confirmed'
  <2>1. enough /\ agent.messages > 0 => quiet' > StablePollsRequired
    BY <1>3, <1>4
  <2> QED
    BY <1>1, <2>1 DEF Confirmed, Delegate!DoneMeansStable
<1> QED
  BY <1>5, <1>6, <1>7, <1>8

(* A step of the call that counts nothing goes on, or it tells the result  *)
(* that was confirmed.                                                     *)
GoesOn ==
  \/ /\ delegation.pc \notin {"extracting", "returned"}
     /\ delegation'.pc # "extracting" /\ delegation'.result # "done"
  \/ delegation.pc = "extracting" /\ delegation'.pc = "returned"

CountsNothing ==
  /\ DelegationOK' /\ GoesOn
  /\ delegation'.stablePolls \in {0, delegation.stablePolls}
  /\ delegation'.lastMsgCount = delegation.lastMsgCount
  /\ delegation'.confirmed = delegation.confirmed

LEMMA StepWithoutCount ==
  ASSUME DelegateInv, UNCHANGED <<agent, quiet>>, CountsNothing PROVE DelegateInv'
<1> USE DelegateAssumption DEF DelegateInv, CountsNothing
<1>1. delegation.stablePolls \in Nat /\ delegation.lastMsgCount \in Nat /\ quiet \in Nat
  BY DEF DelegationOK
<1>2. QuietSince'
  BY <1>1 DEF QuietSince
<1>3. NotYetStable'
  BY <1>1 DEF NotYetStable, GoesOn
<1>4. Confirmed'
  BY DEF Confirmed, GoesOn, Delegate!DoneMeansStable
<1> QED
  BY <1>2, <1>3, <1>4

LEMMA Returning ==
  ASSUME DelegateInv, UNCHANGED <<agent, quiet>>,
         NEW result \in {"error", "timeout", "done"}, Delegate!Returns(result),
         delegation.pc # "returned", (result = "done") <=> (delegation.pc = "extracting")
  PROVE  CountsNothing
<1>1. delegation' = [delegation EXCEPT !.pc = "returned", !.result = result]
  BY DEF Delegate!Returns
<1>2. DelegationOK'
  BY <1>1 DEF DelegateInv, DelegationOK, CallPlaces
<1> QED
  BY <1>1, <1>2 DEF DelegateInv, DelegationOK, CountsNothing, GoesOn

LEMMA Going ==
  ASSUME DelegateInv, UNCHANGED <<agent, quiet>>,
         delegation.pc \notin {"extracting", "returned"},
         NEW pc \in CallPlaces \ {"extracting", "returned"}, Delegate!Goes(pc)
  PROVE  CountsNothing
<1>1. delegation' = [delegation EXCEPT !.pc = pc]
  BY DEF Delegate!Goes
<1>2. DelegationOK'
  BY <1>1 DEF DelegateInv, DelegationOK, CallPlaces
<1>3. delegation.result # "done"
  BY DEF DelegateInv, Confirmed
<1> QED
  BY <1>1, <1>2, <1>3 DEF DelegateInv, DelegationOK, CountsNothing, GoesOn, CallPlaces

(* The steps of the call that count nothing.                               *)
LEMMA CallStep ==
  ASSUME DelegateInv, UNCHANGED <<agent, quiet>>,
         \/ Delegate!Blocked \/ Delegate!Launches \/ Delegate!CreatesSession \/ Delegate!Prompted
         \/ Delegate!PollBegins \/ Delegate!PollsExhausted \/ Delegate!StatusRead
         \/ Delegate!RequestFails \/ Delegate!Validated \/ Delegate!Extracted
  PROVE  DelegateInv'
<1> USE DEF Delegate!At
<1>1. CASE Delegate!Blocked \/ Delegate!PollsExhausted
  BY <1>1, Returning, StepWithoutCount DEF Delegate!Blocked, Delegate!PollsExhausted
<1>2. CASE Delegate!Extracted
  BY <1>2, Returning, StepWithoutCount DEF Delegate!Extracted
<1>3. CASE Delegate!Prompted \/ Delegate!RequestFails
  BY <1>3, Returning, Going, StepWithoutCount
  DEF Delegate!Prompted, Delegate!RequestFails, CallPlaces
<1>0. delegation.pc # "returned" => delegation.result # "done"
  BY DEF DelegateInv, Confirmed
<1>4. CASE Delegate!Launches \/ Delegate!CreatesSession
  <2>1. delegation.pc = "called"
    BY <1>4 DEF Delegate!Launches, Delegate!CreatesSession
  <2>2. CASE Delegate!Returns("error")
    BY <2>1, <2>2, Returning, StepWithoutCount
  <2>3. CASE \E session \in {"own", "pool"}, pc \in {"prompting", "polling", "returned"},
                result \in {delegation.result, "none", "launched"} :
               delegation' = [delegation EXCEPT !.session = session, !.pc = pc,
                                                !.result = result]
    <3>1. PICK session \in {"own", "pool"}, pc \in {"prompting", "polling", "returned"},
               result \in {delegation.result, "none", "launched"} :
                 delegation' = [delegation EXCEPT !.session = session, !.pc = pc,
                                                  !.result = result]
      BY <2>3
    <3>2. DelegationOK'
      BY <3>1 DEF DelegateInv, DelegationOK, CallPlaces
    <3>3. CountsNothing
      BY <1>0, <2>1, <3>1, <3>2 DEF DelegateInv, DelegationOK, CountsNothing, GoesOn
    <3> QED
      BY <3>3, StepWithoutCount
  <2>4. CASE delegation' = [delegation EXCEPT !.session = "own", !.pc = "prompting"]
    <3>1. DelegationOK'
      BY <2>4 DEF DelegateInv, DelegationOK, CallPlaces
    <3>2. CountsNothing
      BY <1>0, <2>1, <2>4, <3>1 DEF DelegateInv, DelegationOK, CountsNothing, GoesOn
    <3> QED
      BY <3>2, StepWithoutCount
  <2> QED
    BY <1>4, <2>2, <2>3, <2>4 DEF Delegate!Launches, Delegate!CreatesSession
<1>5. CASE Delegate!PollBegins
  <2>1. delegation.pc = "polling"
    BY <1>5 DEF Delegate!PollBegins
  <2>2. CASE Delegate!Returns("timeout")
    BY <2>1, <2>2, Returning, StepWithoutCount
  <2>3. CASE \E long \in {delegation.idleTime, TRUE} :
               delegation' = [delegation EXCEPT !.pc = "waiting", !.pollCount = @ + 1,
                                                !.idleTime = long]
    <3>1. PICK long \in {delegation.idleTime, TRUE} :
                 delegation' = [delegation EXCEPT !.pc = "waiting", !.pollCount = @ + 1,
                                                  !.idleTime = long]
      BY <2>3
    <3>0. delegation.idleTime \in BOOLEAN
      BY DEF DelegateInv, DelegationOK
    <3>2. delegation.pollCount + 1 \in Nat
      BY DEF DelegateInv, DelegationOK
    <3>6. long \in BOOLEAN
      BY <3>0, <3>1, Zenon
    <3>3. DelegationOK'
      BY <3>1, <3>2, <3>6 DEF DelegateInv, DelegationOK, CallPlaces
    <3>4. /\ delegation'.pc = "waiting" /\ delegation'.result = delegation.result
          /\ delegation'.stablePolls = delegation.stablePolls
          /\ delegation'.lastMsgCount = delegation.lastMsgCount
          /\ delegation'.confirmed = delegation.confirmed
      BY <3>1 DEF DelegateInv, DelegationOK
    <3>5. CountsNothing
      BY <1>0, <2>1, <3>3, <3>4 DEF CountsNothing, GoesOn
    <3> QED
      BY <3>5, StepWithoutCount
  <2> QED
    BY <1>5, <2>2, <2>3 DEF Delegate!PollBegins
<1>6. CASE Delegate!StatusRead
  <2>1. delegation.pc = "waiting"
    BY <1>6 DEF Delegate!StatusRead
  <2>2. CASE agent.type # "idle"
    <3>1. delegation' = [delegation EXCEPT !.pc = "polling", !.stablePolls = 0]
      BY <1>6, <2>2 DEF Delegate!StatusRead
    <3>2. DelegationOK'
      BY <3>1 DEF DelegateInv, DelegationOK, CallPlaces
    <3>3. CountsNothing
      BY <1>0, <2>1, <3>1, <3>2 DEF DelegateInv, DelegationOK, CountsNothing, GoesOn
    <3> QED
      BY <3>3, StepWithoutCount
  <2>3. CASE agent.type = "idle"
    <3>1. \E pc \in {"polling", "counting", "validating"} : Delegate!Goes(pc)
      BY <1>6, <2>3 DEF Delegate!StatusRead, Delegate!Goes
    <3> QED
      BY <2>1, <3>1, Going, StepWithoutCount DEF CallPlaces
  <2> QED
    BY <2>2, <2>3
<1>7. CASE Delegate!Validated
  <2>1. PICK valid \in {agent.output, TRUE} :
          delegation' = [delegation EXCEPT !.hasValidOutput = valid,
                                           !.pc = IF valid THEN "counting" ELSE "polling"]
    BY <1>7 DEF Delegate!Validated
  <2>2. valid \in BOOLEAN /\ delegation.pc = "validating"
    BY <1>7 DEF Delegate!Validated, DelegateInv, DelegationOK
  <2>3. PICK pc \in {"counting", "polling"} :
          delegation' = [delegation EXCEPT !.hasValidOutput = valid, !.pc = pc]
    BY <2>1
  <2>4. DelegationOK'
    BY <2>2, <2>3 DEF DelegateInv, DelegationOK, CallPlaces
  <2>5. /\ delegation'.pc = pc /\ delegation'.result = delegation.result
        /\ delegation'.stablePolls = delegation.stablePolls
        /\ delegation'.lastMsgCount = delegation.lastMsgCount
        /\ delegation'.confirmed = delegation.confirmed
    BY <2>3 DEF DelegateInv, DelegationOK
  <2>6. CountsNothing
    BY <1>0, <2>2, <2>4, <2>5 DEF CountsNothing, GoesOn
  <2> QED
    BY <2>6, StepWithoutCount
<1> QED
  BY <1>1, <1>2, <1>3, <1>4, <1>5, <1>6, <1>7

(* The agent: what it writes starts the count anew.                        *)
LEMMA AgentStep ==
  ASSUME DelegateInv, Delegate!AgentWorks \/ Delegate!AgentTurns PROVE DelegateInv'
<1> USE DEF DelegateInv, DelegationOK, QuietSince, NotYetStable, Confirmed,
            Delegate!DoneMeansStable
<1>1. CASE Delegate!AgentWorks
  <2>1. /\ agent' \in [type : {"missing", "busy", "idle"}, messages : Nat, output : BOOLEAN]
        /\ agent'.messages = agent.messages + 1
        /\ quiet' = 0 /\ delegation' = delegation
    <3>1. PICK n \in Nat : n = agent.messages + 1
      OBVIOUS
    <3>2. \/ agent' = [agent EXCEPT !.messages = n, !.output = TRUE]
          \/ agent' = [agent EXCEPT !.messages = n, !.output = agent.output]
      BY <1>1, <3>1 DEF Delegate!AgentWorks
    <3>3. agent' \in [type : {"missing", "busy", "idle"}, messages : Nat, output : BOOLEAN]
      BY <3>2
    <3>4. agent'.messages = n
      BY <3>2
    <3> QED
      BY <1>1, <3>1, <3>3, <3>4 DEF Delegate!AgentWorks
  <2> QED
    BY <2>1
<1>2. CASE Delegate!AgentTurns
  BY <1>2 DEF Delegate!AgentTurns
<1> QED
  BY <1>1, <1>2

LEMMA DelegateStep ==
  DelegateInv /\ [Delegate!Next]_Delegate!delegateVars => DelegateInv'
<1> SUFFICES ASSUME DelegateInv, [Delegate!Next]_Delegate!delegateVars
             PROVE  DelegateInv'
  OBVIOUS
<1>1. CASE UNCHANGED Delegate!delegateVars
  BY <1>1 DEF Delegate!delegateVars, DelegateInv, DelegationOK, QuietSince, NotYetStable,
              Confirmed, Delegate!DoneMeansStable
<1>2. CASE Delegate!Next
  BY <1>2, CountedStep, CallStep, AgentStep
  DEF Delegate!Next, Delegate!Alone, Delegate!Blocked, Delegate!Launches, Delegate!CreatesSession,
      Delegate!Prompted, Delegate!PollBegins, Delegate!PollsExhausted, Delegate!StatusRead,
      Delegate!RequestFails, Delegate!Validated, Delegate!Extracted
<1> QED
  BY <1>1, <1>2

LEMMA DoneIsStable == DelegateInv => Delegate!DoneMeansStable
  BY DEF DelegateInv, Confirmed

(* The call, its session and the number of quiet polls agree               *)
(* (delegate-task.ts 97-191).                                              *)
THEOREM DelegationCorrect == Delegate!Spec => []DelegateInv
  BY DelegateInitOK, DelegateStep, PTL DEF Delegate!Spec

-----------------------------------------------------------------------------
(* 4. Stagnation, as the idle handler judges it.                           *)

TrackerStates ==
  [stagnation : Nat, last : 0 .. Progress!Unknown, awaiting : BOOLEAN, known : BOOLEAN]

CheckStates ==
  [at : {"none", "toast", "orphan", "timer", "stray"}, says : {"none", "plain", "intervention"},
   founded : BOOLEAN]

TrackerOK ==
  /\ todos \in Progress!Progress
  /\ tracker \in TrackerStates
  /\ seen \in 0 .. Progress!Unknown /\ flat \in 0 .. Threshold
  /\ checks \in [IdleChecks -> CheckStates]

(* The tracker has forgotten what it last saw, and then counts from 0, or  *)
(* it was the last check that it saw; and it counts no check that saw an   *)
(* item completed.                                                         *)
TrackerInv ==
  /\ TrackerOK
  /\ tracker.last = seen \/ (tracker.last = Progress!Unknown /\ tracker.stagnation = 0)
  /\ tracker.stagnation <= flat \/ flat = Threshold
  /\ Progress!InterventionForAReason

LEMMA TrackerStarts == Progress!Init => TrackerInv
  BY ProgressAssumption
  DEF Progress!Init, TrackerInv, TrackerOK, TrackerStates, Progress!Progress, Progress!NoEntry,
      Progress!Unknown, Progress!NoCheck, CheckStates,
      Progress!InterventionForAReason

(* A check that sees fewer incomplete items starts the count again.        *)
LEMMA CheckCounts ==
  ASSUME NEW was \in TrackerStates, NEW now \in 0 .. Progress!Unknown
  PROVE  LET counted == Progress!TrackProgress(was, now)
         IN  /\ counted \in TrackerStates /\ counted.last = now
             /\ counted.stagnation \in {0, was.stagnation, was.stagnation + 1}
             /\ now < was.last => counted.stagnation = 0
<1> DEFINE awaits == IF now < was.last /\ was.last # Progress!Unknown
                     THEN FALSE ELSE was.awaiting
<1> DEFINE count == IF now < was.last THEN 0
                    ELSE IF was.awaiting THEN was.stagnation + 1 ELSE was.stagnation
<1>1. was.stagnation \in Nat /\ was.awaiting \in BOOLEAN
  BY DEF TrackerStates
<1>2. awaits \in BOOLEAN
  BY <1>1, Zenon
<1>3. was.stagnation + 1 \in Nat
  BY <1>1
<1>4. /\ count \in Nat /\ count \in {0, was.stagnation, was.stagnation + 1}
      /\ now < was.last => count = 0
  BY <1>1, <1>3
<1>5. Progress!TrackProgress(was, now)
        = [was EXCEPT !.last = now, !.awaiting = awaits, !.stagnation = count]
  BY DEF Progress!TrackProgress
<1> HIDE DEF awaits, count
<1> QED
  BY <1>2, <1>4, <1>5 DEF TrackerStates

(* What is cancelled or forgotten says no more than before.                *)
Founded(some) ==
  /\ some \in [IdleChecks -> CheckStates]
  /\ \A c \in IdleChecks : some[c].says = "intervention" => some[c].founded

LEMMA ChecksCancelled ==
  Founded(checks) => Founded(Progress!Cancelled) /\ Founded(Progress!Forgotten)
<1> SUFFICES ASSUME Founded(checks)
             PROVE  Founded(Progress!Cancelled) /\ Founded(Progress!Forgotten)
  OBVIOUS
<1>1. Progress!NoCheck \in CheckStates /\ Progress!NoCheck.says = "none"
  BY DEF Progress!NoCheck, CheckStates
<1>2. Founded(Progress!Cancelled)
  BY <1>1 DEF Founded, Progress!Cancelled
<1>3. ASSUME NEW c \in IdleChecks
      PROVE  LET orphan == [checks[c] EXCEPT !.at = "orphan"]
             IN  /\ orphan \in CheckStates /\ orphan.says = checks[c].says
                 /\ orphan.founded = checks[c].founded
  BY DEF Founded, CheckStates
<1>4. \A c \in IdleChecks :
        \/ Progress!Forgotten[c] = Progress!Cancelled[c]
        \/ Progress!Forgotten[c] = [checks[c] EXCEPT !.at = "orphan"]
  BY DEF Progress!Forgotten
<1>5. Progress!Forgotten = [c \in IdleChecks |-> Progress!Forgotten[c]]
  BY DEF Progress!Forgotten
<1> QED
  BY <1>2, <1>3, <1>4, <1>5 DEF Founded

LEMMA CheckShown ==
  ASSUME Founded(checks), NEW c \in IdleChecks, Progress!ToastShown(c)
  PROVE  Founded(checks')
<1>1. \A d \in IdleChecks : \A at \in {"timer", "stray"} :
        LET moved == [checks[d] EXCEPT !.at = at]
        IN  /\ moved \in CheckStates /\ moved.says = checks[d].says
            /\ moved.founded = checks[d].founded
  BY DEF Founded, CheckStates
<1>2. CASE checks' = [d \in IdleChecks |->
             IF d = c THEN [checks[d] EXCEPT !.at = "timer"]
             ELSE IF checks[d].at = "timer" THEN [checks[d] EXCEPT !.at = "stray"]
             ELSE checks[d]]
  BY <1>1, <1>2 DEF Founded
<1>3. CASE checks' = [checks EXCEPT ![c] = [checks[c] EXCEPT !.at = "stray"]]
  BY <1>1, <1>3 DEF Founded
<1>4. checks' = [checks EXCEPT ![c].at = "stray"]
        => checks' = [checks EXCEPT ![c] = [checks[c] EXCEPT !.at = "stray"]]
  OBVIOUS
<1> QED
  BY <1>2, <1>3, <1>4 DEF Progress!ToastShown

LEMMA CheckStep ==
  ASSUME TrackerInv, NEW c \in IdleChecks, Progress!HandleMissionIdle(c)
  PROVE  TrackerInv'
<1> USE ProgressAssumption
<1> DEFINE now == Progress!Incomplete
<1> DEFINE counted == Progress!TrackProgress(Progress!Entry, now)
<1>0. TrackerOK /\ Founded(checks)
  BY DEF TrackerInv, TrackerOK, Founded, CheckStates, Progress!InterventionForAReason
<1>1. now \in 0 .. MaxTodos /\ MaxTodos < Progress!Unknown /\ Progress!Unknown \in Nat
  BY <1>0 DEF TrackerOK, Progress!Incomplete, Progress!Progress, Progress!Unknown
<1>6. /\ Progress!Entry \in TrackerStates /\ Progress!Entry.last = tracker.last
      /\ Progress!Entry.stagnation = tracker.stagnation
  BY <1>0 DEF TrackerOK, Progress!Entry, TrackerStates
<1>7. now \in 0 .. Progress!Unknown
  BY <1>1
<1>2. /\ counted \in TrackerStates /\ counted.last = now
      /\ counted.stagnation \in {0, tracker.stagnation, tracker.stagnation + 1}
      /\ now < tracker.last => counted.stagnation = 0
  <2> HIDE DEF now
  <2> QED
    BY <1>6, <1>7, CheckCounts
<1>3. /\ tracker' = counted /\ todos' = todos /\ seen' = now
      /\ flat' = IF now < seen THEN 0 ELSE Progress!AtMost(flat + 1, Threshold)
  BY DEF Progress!HandleMissionIdle
<1>8. checks' = [Progress!Cancelled EXCEPT ![c] =
                  [at |-> "toast",
                   says |-> IF counted.stagnation >= Threshold THEN "intervention" ELSE "plain",
                   founded |-> (counted.stagnation >= Threshold => flat' = Threshold)]]
  BY DEF Progress!HandleMissionIdle, Progress!IsStagnant
<1>9. /\ counted.stagnation \in Nat /\ tracker.stagnation \in Nat
      /\ seen \in 0 .. Progress!Unknown /\ flat \in 0 .. Threshold
      /\ tracker.last \in 0 .. Progress!Unknown
      /\ tracker.last = seen \/ (tracker.last = Progress!Unknown /\ tracker.stagnation = 0)
      /\ tracker.stagnation <= flat \/ flat = Threshold
  BY <1>0, <1>2 DEF TrackerInv, TrackerOK, TrackerStates
<1> HIDE DEF counted, now
<1>4. /\ flat' \in 0 .. Threshold
      /\ counted.stagnation <= flat' \/ flat' = Threshold
  <2>1. CASE now < seen
    <3>1. counted.stagnation = 0 /\ flat' = 0
      BY <1>1, <1>2, <1>3, <1>9, <2>1
    <3> QED
      BY <3>1
  <2>2. CASE ~(now < seen)
    <3>1. flat' = IF flat + 1 > Threshold THEN Threshold ELSE flat + 1
      BY <1>3, <2>2 DEF Progress!AtMost
    <3> QED
      BY <1>2, <1>9, <3>1
  <2> QED
    BY <2>1, <2>2
<1>5. counted.stagnation >= Threshold => flat' = Threshold
  BY <1>4, <1>9
<1>10. Founded(checks')
  <2> DEFINE says == IF counted.stagnation >= Threshold THEN "intervention" ELSE "plain"
  <2> DEFINE check == [at |-> "toast", says |-> says, founded |-> TRUE]
  <2>1. checks' = [Progress!Cancelled EXCEPT ![c] = check]
    BY <1>5, <1>8
  <2>2. check \in CheckStates /\ check.founded
    BY DEF CheckStates
  <2> HIDE DEF check
  <2> QED
    BY <1>0, <2>1, <2>2, ChecksCancelled DEF Founded
<1> QED
  BY <1>0, <1>1, <1>2, <1>3, <1>4, <1>7, <1>10
  DEF TrackerInv, TrackerOK, Founded, CheckStates, Progress!InterventionForAReason

(* What the tracker remembers after a step that is no check: as much, or   *)
(* nothing.                                                                *)
Remembers(was, now) ==
  /\ now \in TrackerStates
  /\ \/ now.last = was.last /\ now.stagnation = was.stagnation
     \/ now.last = Progress!Unknown /\ now.stagnation = 0

LEMMA BetweenChecks ==
  TrackerInv /\ Founded(checks') /\ todos' \in Progress!Progress /\ Remembers(tracker, tracker')
    /\ UNCHANGED <<seen, flat>> => TrackerInv'
  BY ProgressAssumption
  DEF TrackerInv, TrackerOK, TrackerStates, Founded, CheckStates, Remembers, Progress!Unknown,
      Progress!InterventionForAReason

LEMMA TrackerStep ==
  TrackerInv /\ [Progress!Next]_Progress!progressVars => TrackerInv'
<1> SUFFICES ASSUME TrackerInv, [Progress!Next]_Progress!progressVars
             PROVE  TrackerInv'
  OBVIOUS
<1>1. CASE \E c \in IdleChecks : Progress!HandleMissionIdle(c)
  BY <1>1, CheckStep
<1>0. Founded(checks)
  BY DEF TrackerInv, TrackerOK, Founded, CheckStates, Progress!InterventionForAReason
<1>6. todos \in Progress!Progress /\ tracker \in TrackerStates
  BY DEF TrackerInv, TrackerOK
<1>5. tracker' = tracker => Remembers(tracker, tracker')
  BY <1>6 DEF Remembers
<1>2. CASE /\ todos' \in Progress!Progress /\ UNCHANGED <<tracker, seen, flat>>
           /\ checks' = checks
  BY <1>0, <1>2, <1>5, <1>6, BetweenChecks
<1>7. CASE /\ UNCHANGED <<todos, tracker, seen, flat>>
           /\ checks' \in {Progress!Cancelled, Progress!Forgotten}
  BY <1>0, <1>5, <1>6, <1>7, ChecksCancelled, BetweenChecks
<1>8. CASE \E c \in IdleChecks : Progress!ToastShown(c)
  BY <1>0, <1>5, <1>6, <1>8, CheckShown, BetweenChecks DEF Progress!ToastShown
<1>9. CASE \E c \in IdleChecks : Progress!InjectContinuation(c)
  <2>1. PICK c \in IdleChecks : Progress!InjectContinuation(c)
    BY <1>9
  <2>2. Progress!NoCheck \in CheckStates /\ Progress!NoCheck.says = "none"
    BY DEF Progress!NoCheck, CheckStates
  <2>3. Founded(checks')
    BY <1>0, <2>1, <2>2, ChecksCancelled DEF Founded, Progress!InjectContinuation
  <2> QED
    BY <1>5, <1>6, <2>1, <2>3, BetweenChecks DEF Progress!InjectContinuation
<1>3. CASE Progress!PromptAnswered
  <2>1. /\ tracker' = [tracker EXCEPT !.known = TRUE, !.awaiting = TRUE]
        /\ UNCHANGED <<todos, seen, flat, checks>>
    BY <1>3 DEF Progress!PromptAnswered, Progress!Entry
  <2>2. Remembers(tracker, tracker')
    BY <1>6, <2>1 DEF Remembers, TrackerStates
  <2> QED
    BY <1>0, <1>6, <2>1, <2>2, BetweenChecks
<1>4. CASE Progress!PruneEntry \/ Progress!ResetProgress
  <2>1. PICK k \in BOOLEAN : tracker' = [stagnation |-> 0, last |-> Progress!Unknown,
                                         awaiting |-> FALSE, known |-> k]
    BY <1>4, <1>6 DEF TrackerStates, Progress!PruneEntry, Progress!ResetProgress, Progress!NoEntry
  <2>2. checks' \in {checks, Progress!Forgotten} /\ UNCHANGED <<todos, seen, flat>>
    BY <1>4 DEF Progress!PruneEntry, Progress!ResetProgress
  <2>3. Progress!Unknown \in 0 .. Progress!Unknown
    BY ProgressAssumption DEF Progress!Unknown
  <2>4. Remembers(tracker, tracker')
    BY <2>1, <2>3 DEF Remembers, TrackerStates
  <2> QED
    BY <1>0, <1>6, <2>2, <2>4, ChecksCancelled, BetweenChecks
<1> QED
  BY <1>1, <1>2, <1>3, <1>4, <1>6, <1>7, <1>8, <1>9
  DEF Progress!Next, Progress!progressVars, Progress!AgentWorks, Progress!StartMissionLoop,
      Progress!CancelCountdown, Progress!DropState, Progress!PromptFails,
      Progress!HandleMissionProgress

-----------------------------------------------------------------------------
(* 5. The verdict over a mission.                                          *)
todoFile == x1
checklistFile == x2
syncFile == x3
lastIndex == x4
verdict == x5

USE DEF todoFile, checklistFile, syncFile, lastIndex, verdict

LEMMA VerdictStarts == Verdict!Init => Verdict!NothingOpenPasses
  BY DEF Verdict!Init, Verdict!NothingOpenPasses, Verdict!NoVerdict

(* Checked and sorted by its first column, a list without an open item is  *)
(* one that the other reader finds complete.                               *)
PlainList(todo) ==
  \A i \in DOMAIN todo :
    ~todo[i].star /\ ~todo[i].indented /\ todo[i].mark \in {"open", "done"}

LEMMA CompleteForBoth ==
  ASSUME NEW todo, PlainList(todo), Verdict!TodoComplete(todo)
  PROVE  Verdict!IsMissionComplete(Verdict!ParseTodoMd(todo))
<1> DEFINE parsed == Verdict!ParseTodoMd(todo)
<1>1. DOMAIN parsed = DOMAIN todo
  BY DEF Verdict!ParseTodoMd, PlainList
<1>2. \A i \in DOMAIN todo : todo[i].mark = "done"
  BY DEF Verdict!TodoComplete, Verdict!InFirstColumn, Verdict!Marked, PlainList
<1>3. \A i \in DOMAIN todo : parsed[i] = "completed"
  BY <1>2 DEF Verdict!ParseTodoMd, Verdict!Status, PlainList
<1>4. DOMAIN todo # {}
  BY DEF Verdict!TodoComplete, Verdict!InFirstColumn, Verdict!Marked
<1> HIDE DEF parsed
<1> QED
  BY <1>1, <1>3, <1>4
  DEF Verdict!IsMissionComplete, Verdict!HasRemainingWork, Verdict!Incomplete, parsed

LEMMA PassedIsDone ==
  ASSUME NEW todo, NEW checklist, NEW sync, NEW last, Verdict!Passed(todo, checklist, sync, last)
  PROVE  /\ \A i \in DOMAIN sync : ~Verdict!Plain(sync[i])
         /\ \A i \in DOMAIN checklist : checklist[i].mark # "open"
         /\ \/ Verdict!HasChecklist(checklist)
            \/ ~PlainList(todo)
            \/ Verdict!IsMissionComplete(Verdict!ParseTodoMd(todo))
<1>1. \A i \in DOMAIN sync : ~Verdict!Plain(sync[i])
  <2>1. CASE Verdict!Clean(sync)
    BY <2>1 DEF Verdict!Clean, Verdict!Plain
  <2>2. CASE ~Verdict!Clean(sync)
    BY <2>2 DEF Verdict!Passed, Verdict!HasRealSyncIssues
  <2> QED
    BY <2>1, <2>2
<1>2. \A i \in DOMAIN checklist : checklist[i].mark # "open"
  <2>1. CASE Verdict!HasChecklist(checklist)
    <3>1. \A i \in Verdict!ParseChecklist(checklist) : checklist[i].mark = "done"
      BY <2>1 DEF Verdict!Passed, Verdict!ChecklistComplete
    <3> QED
      BY <3>1 DEF Verdict!ParseChecklist, Verdict!Marked
  <2>2. CASE ~Verdict!HasChecklist(checklist)
    BY <2>2 DEF Verdict!HasChecklist, Verdict!ParseChecklist, Verdict!Marked
  <2> QED
    BY <2>1, <2>2
<1> QED
  BY <1>1, <1>2, CompleteForBoth DEF Verdict!Passed

LEMMA VerdictStep ==
  Verdict!NothingOpenPasses /\ [Verdict!Next]_(Verdict!verificationVars)
    => Verdict!NothingOpenPasses'
<1> SUFFICES ASSUME Verdict!NothingOpenPasses, [Verdict!Next]_(Verdict!verificationVars)
             PROVE  Verdict!NothingOpenPasses'
  OBVIOUS
<1>1. CASE Verdict!Verify
  <2>1. CASE Verdict!Passed(todoFile, checklistFile, syncFile, lastIndex)
    <3>1. UNCHANGED <<todoFile, checklistFile, syncFile>>
      BY <1>1 DEF Verdict!Verify, Verdict!files
    <3> QED
      BY <2>1, <3>1, PassedIsDone DEF Verdict!NothingOpenPasses, PlainList
  <2>2. CASE ~Verdict!Passed(todoFile, checklistFile, syncFile, lastIndex)
    BY <1>1, <2>2 DEF Verdict!Verify, Verdict!NothingOpenPasses
  <2> QED
    BY <2>1, <2>2
<1>2. CASE Verdict!Edit
  BY <1>2 DEF Verdict!Edit, Verdict!NoVerdict, Verdict!NothingOpenPasses
<1>3. CASE UNCHANGED Verdict!verificationVars
  BY <1>3 DEF Verdict!verificationVars, Verdict!files, Verdict!NothingOpenPasses
<1> QED
  BY <1>1, <1>2, <1>3 DEF Verdict!Next

(* A verdict that passes leaves no item of the checklist open and no line  *)
(* of the sync issues file that is not a heading; without a checklist, a   *)
(* plain todo.md is complete for its other reader too                      *)
(* (verification.ts 370-469).                                              *)
THEOREM VerdictCorrect == Verdict!Spec => []Verdict!NothingOpenPasses
  BY VerdictStarts, VerdictStep, PTL DEF Verdict!Spec

-----------------------------------------------------------------------------
(* 6. Whatever service a behaviour is one of.                              *)

TodoSound == part = "todo" => TodoInv

LEMMA TodoSoundStep == TodoSound /\ [ServicesNext]_vars => TodoSound'
<1> SUFFICES ASSUME TodoSound, [ServicesNext]_vars, part' = "todo"
             PROVE  TodoInv'
  BY DEF TodoSound
<1>1. part = "todo" /\ [Todo!Next]_(Todo!continuationVars)
  BY DEF ServicesNext, vars, Todo!continuationVars
<1> QED
  BY <1>1, TodoStep DEF TodoSound

(* However idle handlers, errors, messages and a deletion interleave: the  *)
(* handle is of a countdown that runs, isRecovering is set only while a    *)
(* handler that holds this state is going to reset it, and an assistant    *)
(* that never answers gets at most MaxAttempts recovery prompts            *)
(* (todo-continuation.ts, session-recovery.ts).                            *)
THEOREM StatesStayTruthful == ServicesSpec => []StatesAreTruthful
<1>1. ServicesInit => TodoSound
  BY TodoInitOK DEF ServicesInit, TodoSound
<1>2. TodoSound => StatesAreTruthful
  BY TodoTells DEF TodoSound, StatesAreTruthful
<1> QED
  BY <1>1, <1>2, TodoSoundStep, PTL DEF ServicesSpec

DelegateSound == part = "delegate" => DelegateInv

LEMMA DelegateSoundStep == DelegateSound /\ [ServicesNext]_vars => DelegateSound'
<1> SUFFICES ASSUME DelegateSound, [ServicesNext]_vars, part' = "delegate"
             PROVE  DelegateInv'
  BY DEF DelegateSound
<1>1. part = "delegate" /\ [Delegate!Next]_(Delegate!delegateVars)
  BY DEF ServicesNext, vars, Delegate!delegateVars
<1> QED
  BY <1>1, DelegateStep DEF DelegateSound

(* A blocking call says "done" after polls in a row, one more than         *)
(* required, that saw the same messages (delegate-task.ts 97-191).         *)
THEOREM DoneStaysStable == ServicesSpec => []DoneMeansStable
<1>1. ServicesInit => DelegateSound
  BY DelegateInitOK DEF ServicesInit, DelegateSound
<1>2. DelegateSound => DoneMeansStable
  BY DoneIsStable DEF DelegateSound, DoneMeansStable
<1> QED
  BY <1>1, <1>2, DelegateSoundStep, PTL DEF ServicesSpec

LoopSound ==
  /\ part = "manager" => MissionsInv
  /\ part = "progress" => TrackerInv

LEMMA LoopSoundStep == LoopSound /\ [ServicesNext]_vars => LoopSound'
<1> SUFFICES ASSUME LoopSound, [ServicesNext]_vars
             PROVE  /\ part' = "manager" => MissionsInv'
                    /\ part' = "progress" => TrackerInv'
  BY DEF LoopSound
<1>1. ASSUME part' = "manager" PROVE MissionsInv'
  <2>1. part = "manager" /\ [Manager!Next]_(Manager!sessionVars)
    BY <1>1 DEF ServicesNext, vars, Manager!sessionVars
  <2> QED
    BY <2>1, MissionsStep DEF LoopSound
<1>2. ASSUME part' = "progress" PROVE TrackerInv'
  <2>1. part = "progress" /\ [Progress!Next]_(Progress!progressVars)
    BY <1>2 DEF ServicesNext, vars, Progress!progressVars
  <2> QED
    BY <2>1, TrackerStep DEF LoopSound
<1> QED
  BY <1>1, <1>2

(* However checks, their toasts, stray countdowns, late answers and a      *)
(* pruned entry interleave, the idle handler blames the agent only if      *)
(* Threshold checks in a row, the one that decided it included, had seen   *)
(* no item completed (mission-loop-handler.ts 225-248); and whatever flags *)
(* are left behind, the done hook makes no session go on that never began  *)
(* a mission (hooks/features/mission-loop.ts 109).                         *)
THEOREM LoopNeedsAReason == ServicesSpec => []LoopActsForAReason
<1>1. ServicesInit => LoopSound
  BY MissionsStart, TrackerStarts DEF ServicesInit, LoopSound
<1>2. LoopSound => LoopActsForAReason
  BY MissionsOnly DEF LoopSound, LoopActsForAReason, TrackerInv
<1> QED
  BY <1>1, <1>2, LoopSoundStep, PTL DEF ServicesSpec

VerdictSound == part = "verdict" => Verdict!NothingOpenPasses

LEMMA VerdictSoundStep == VerdictSound /\ [ServicesNext]_vars => VerdictSound'
<1> SUFFICES ASSUME VerdictSound, [ServicesNext]_vars, part' = "verdict"
             PROVE  Verdict!NothingOpenPasses'
  BY DEF VerdictSound
<1>1. part = "verdict" /\ [Verdict!Next]_(Verdict!verificationVars)
  BY DEF ServicesNext, vars, Verdict!verificationVars, Verdict!files
<1> QED
  BY <1>1, VerdictStep DEF VerdictSound

(* Whatever the files hold and whatever the global patterns remember of    *)
(* earlier calls, nothing open passes (verification.ts 334-469).           *)
THEOREM NothingOpenEverPasses == ServicesSpec => []NothingOpenPasses
<1>1. ServicesInit => VerdictSound
  BY VerdictStarts DEF ServicesInit, VerdictSound
<1>2. VerdictSound => NothingOpenPasses
  BY DEF VerdictSound, NothingOpenPasses
<1> QED
  BY <1>1, <1>2, VerdictSoundStep, PTL DEF ServicesSpec
=============================================================================
