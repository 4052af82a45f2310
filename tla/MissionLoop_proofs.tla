------------------------- MODULE MissionLoop_proofs -------------------------
(***************************************************************************)
(* Proofs about the mission loop, for any number of missions, iterations,  *)
(* prompts and handlers, and for every set of disruptions.                 *)
(***************************************************************************)
EXTENDS MissionLoop, TLAPS

-----------------------------------------------------------------------------
(* Type correctness, one part of TypeOK at a time.                         *)

(* What is a flag stays one.                                               *)
LEMMA FlagsStayFlags ==
  ASSUME FlagsOK, [Next]_vars
  PROVE  FlagsOK'
<1> USE DEF FlagsOK, loop, state, guards, server, work, history
<1>1. CASE StartMission
  BY <1>1 DEF StartMission
<1>2. CASE MessageArrives
  BY <1>2 DEF MessageArrives, CancelCountdown
<1>3. CASE PromptLost
  BY <1>3 DEF PromptLost
<1>4. CASE UserChats
  BY <1>4 DEF UserChats
<1>5. CASE TurnBegins
  BY <1>5 DEF TurnBegins
<1>6. CASE Progress
  BY <1>6 DEF Progress
<1>7. CASE ToolCall
  BY <1>7 DEF ToolCall
<1>8. CASE TurnEnds
  BY <1>8 DEF TurnEnds, DoneIgnored, DoneStops, DoneCompletes, DoneContinues, IdleEvent
<1>9. CASE Idle
  BY <1>9
  DEF Idle, IdleIgnored, IdleWaits, IdleCompletes, IdleTrips, IdleCounts,
      MissionIdle, CancelCountdown
<1>10. CASE ToastShown
  BY <1>10 DEF ToastShown
<1>11. CASE RecentOver
  BY <1>11 DEF RecentOver
<1>12. CASE CountdownFires
  BY <1>12 DEF CountdownFires, CancelCountdown, Inject
<1>13. CASE StrayFires
  BY <1>13 DEF StrayFires, CancelCountdown, Inject
<1>14. CASE CompletionEnds
  BY <1>14 DEF CompletionEnds, DropState
<1>15. CASE SessionError
  BY <1>15 DEF SessionError, CancelCountdown, IdleEvent
<1>16. CASE RecoveryEnds
  BY <1>16 DEF RecoveryEnds
<1>17. CASE Compacting
  BY <1>17 DEF Compacting, CancelCountdown
<1>18. CASE Delegate
  BY <1>18 DEF Delegate
<1>19. CASE TasksEnd
  BY <1>19 DEF TasksEnd
<1>20. CASE SessionDeleted
  BY <1>20 DEF SessionDeleted, DropState
<1>21. CASE Reload
  BY <1>21 DEF Reload
<1>22. CASE WindowEnds
  BY <1>22 DEF WindowEnds
<1>23. CASE Expires
  BY <1>23 DEF Expires, DropState
<1>24. CASE UNCHANGED vars
  BY <1>24 DEF vars
<1> QED
  BY <1>1, <1>2, <1>3, <1>4, <1>5, <1>6, <1>7, <1>8, <1>9, <1>10, <1>11, <1>12,
     <1>13, <1>14, <1>15, <1>16, <1>17, <1>18, <1>19, <1>20, <1>21, <1>22, <1>23, <1>24
  DEF Next, ServerStep, LoopStep, Disruption

(* The iteration stops counting one past its maximum, prompts and idle     *)
(* events stay within their bound, and a counter of handlers is lowered    *)
(* only by one of the handlers it counts.                                  *)
LEMMA CountersStayInRange ==
  ASSUME CountersOK, [Next]_vars
  PROVE  CountersOK'
<1> USE MissionAssumption
    DEF CountersOK, loop, state, guards, server, work, history
<1>1. CASE StartMission
  BY <1>1 DEF StartMission, SendPrompt
<1>2. CASE MessageArrives
  BY <1>2 DEF MessageArrives, CancelCountdown
<1>3. CASE PromptLost
  BY <1>3 DEF PromptLost
<1>4. CASE UserChats
  BY <1>4 DEF UserChats, SendPrompt
<1>5. CASE TurnBegins
  BY <1>5 DEF TurnBegins
<1>6. CASE Progress
  BY <1>6 DEF Progress
<1>7. CASE ToolCall
  BY <1>7 DEF ToolCall
<1>8. CASE TurnEnds
  BY <1>8
  DEF TurnEnds, DoneIgnored, DoneStops, DoneCompletes, DoneContinues, IdleEvent,
      MissionComplete, SendPrompt
<1>9. CASE Idle
  BY <1>9
  DEF Idle, IdleIgnored, IdleWaits, IdleCompletes, IdleTrips, IdleCounts,
      MissionIdle, CancelCountdown, MissionComplete, NextIteration
<1>10. CASE ToastShown
  BY <1>10 DEF ToastShown
<1>11. CASE RecentOver
  BY <1>11 DEF RecentOver
<1>12. CASE CountdownFires
  BY <1>12
  DEF CountdownFires, CancelCountdown, Inject, InjectSkips, InjectUnsafe,
      InjectCompletes, InjectPrompts, PassCircuit, MissionComplete, SendPrompt
<1>13. CASE StrayFires
  BY <1>13
  DEF StrayFires, CancelCountdown, Inject, InjectSkips, InjectUnsafe,
      InjectCompletes, InjectPrompts, PassCircuit, MissionComplete, SendPrompt
<1>14. CASE CompletionEnds
  BY <1>14 DEF CompletionEnds, DropState
<1>15. CASE SessionError
  BY <1>15 DEF SessionError, CancelCountdown, IdleEvent, SendPrompt
<1>16. CASE RecoveryEnds
  BY <1>16 DEF RecoveryEnds
<1>17. CASE Compacting
  BY <1>17 DEF Compacting, CancelCountdown
<1>18. CASE Delegate
  BY <1>18 DEF Delegate
<1>19. CASE TasksEnd
  BY <1>19 DEF TasksEnd, SendPrompt
<1>20. CASE SessionDeleted
  BY <1>20 DEF SessionDeleted, DropState
<1>21. CASE Reload
  BY <1>21 DEF Reload
<1>22. CASE WindowEnds
  BY <1>22 DEF WindowEnds
<1>23. CASE Expires
  BY <1>23 DEF Expires, DropState
<1>24. CASE UNCHANGED vars
  BY <1>24 DEF vars
<1> QED
  BY <1>1, <1>2, <1>3, <1>4, <1>5, <1>6, <1>7, <1>8, <1>9, <1>10, <1>11, <1>12,
     <1>13, <1>14, <1>15, <1>16, <1>17, <1>18, <1>19, <1>20, <1>21, <1>22, <1>23, <1>24
  DEF Next, ServerStep, LoopStep, Disruption

(* Every state the circuit is put into is one of its states.               *)
LEMMA BreakerUpdates ==
  ASSUME breaker \in Breakers
  PROVE  /\ ClosedBreaker \in Breakers
         /\ \A n \in 0 .. RepetitionThreshold : [breaker EXCEPT !.repeats = n] \in Breakers
         /\ [breaker EXCEPT !.window = "over"] \in Breakers
         /\ [breaker EXCEPT !.open = TRUE, !.window = "running"] \in Breakers
<1>1. ClosedBreaker \in Breakers
  BY DEF ClosedBreaker, Breakers, RepetitionThreshold
<1>2. ASSUME NEW n \in 0 .. RepetitionThreshold
      PROVE  [breaker EXCEPT !.repeats = n] \in Breakers
  BY DEF Breakers
<1>3. [breaker EXCEPT !.window = "over"] \in Breakers
  BY DEF Breakers
<1>4. [breaker EXCEPT !.open = TRUE, !.window = "running"] \in Breakers
  BY DEF Breakers
<1> QED
  BY <1>1, <1>2, <1>3, <1>4

(* A countdown closes the circuit whose window is over, or leaves it.      *)
LEMMA InjectKeepsBreaker ==
  ASSUME breaker \in Breakers, Inject
  PROVE  breaker' \in Breakers
BY BreakerUpdates
DEF Inject, InjectSkips, InjectUnsafe, InjectCompletes, InjectPrompts, PassCircuit

(* The circuit and the agent are always in one of their states.            *)
LEMMA BreakerAndAgent ==
  ASSUME breaker \in Breakers, agent \in {"idle", "working"}, [Next]_vars
  PROVE  breaker' \in Breakers /\ agent' \in {"idle", "working"}
<1> USE BreakerUpdates DEF loop, state, guards, server, work, history
<1>1. CASE StartMission
  BY <1>1 DEF StartMission
<1>2. CASE MessageArrives
  BY <1>2 DEF MessageArrives
<1>3. CASE PromptLost
  BY <1>3 DEF PromptLost
<1>4. CASE UserChats
  BY <1>4 DEF UserChats
<1>5. CASE TurnBegins
  BY <1>5 DEF TurnBegins
<1>6. CASE Progress
  BY <1>6 DEF Progress
<1>7. CASE ToolCall
  <2>1. PICK n \in {1, IF breaker.repeats < RepetitionThreshold
                      THEN breaker.repeats + 1 ELSE RepetitionThreshold} :
               breaker' = [breaker EXCEPT !.repeats = n]
    BY <1>7 DEF ToolCall
  <2>2. n \in 0 .. RepetitionThreshold
    BY DEF Breakers, RepetitionThreshold
  <2> QED
    BY <1>7, <2>1, <2>2 DEF ToolCall
<1>8. CASE TurnEnds
  BY <1>8 DEF TurnEnds, IdleEvent
<1>9. CASE Idle
  BY <1>9 DEF Idle, IdleIgnored, IdleWaits, IdleCompletes, IdleTrips, IdleCounts
<1>10. CASE ToastShown
  BY <1>10 DEF ToastShown
<1>11. CASE RecentOver
  BY <1>11 DEF RecentOver
<1>12. CASE CountdownFires
  BY <1>12, InjectKeepsBreaker DEF CountdownFires, Inject
<1>13. CASE StrayFires
  BY <1>13, InjectKeepsBreaker DEF StrayFires, Inject
<1>14. CASE CompletionEnds
  BY <1>14 DEF CompletionEnds
<1>15. CASE SessionError
  BY <1>15 DEF SessionError, IdleEvent
<1>16. CASE RecoveryEnds
  BY <1>16 DEF RecoveryEnds
<1>17. CASE Compacting
  BY <1>17 DEF Compacting
<1>18. CASE Delegate
  BY <1>18 DEF Delegate
<1>19. CASE TasksEnd
  BY <1>19 DEF TasksEnd
<1>20. CASE SessionDeleted
  BY <1>20 DEF SessionDeleted
<1>21. CASE Reload
  BY <1>21 DEF Reload
<1>22. CASE WindowEnds
  BY <1>22 DEF WindowEnds
<1>23. CASE Expires
  BY <1>23 DEF Expires
<1>24. CASE UNCHANGED vars
  BY <1>24 DEF vars
<1> QED
  BY <1>1, <1>2, <1>3, <1>4, <1>5, <1>6, <1>7, <1>8, <1>9, <1>10, <1>11, <1>12,
     <1>13, <1>14, <1>15, <1>16, <1>17, <1>18, <1>19, <1>20, <1>21, <1>22, <1>23, <1>24
  DEF Next, ServerStep, LoopStep, Disruption

(* Every variable keeps the shape the code gives it.                       *)
THEOREM TypeCorrect == Spec => []TypeOK
<1>1. Init => TypeOK
  <2> SUFFICES ASSUME Init PROVE TypeOK
    OBVIOUS
  <2>1. FlagsOK
    BY DEF Init, FlagsOK
  <2>2. CountersOK
    BY MissionAssumption DEF Init, CountersOK
  <2>3. breaker \in Breakers /\ agent \in {"idle", "working"}
    BY DEF Init, ClosedBreaker, Breakers, RepetitionThreshold
  <2> QED
    BY <2>1, <2>2, <2>3 DEF TypeOK
<1>2. TypeOK /\ [Next]_vars => TypeOK'
  BY FlagsStayFlags, CountersStayInRange, BreakerAndAgent DEF TypeOK
<1> QED
  BY <1>1, <1>2, PTL DEF Spec

-----------------------------------------------------------------------------
(* Completions.  CompletedOnce is inductive: whoever completes a mission   *)
(* removes its file in the same step, and only /task creates one.          *)

(* A step completes at most the mission whose file it finds, and begins    *)
(* one only when it counts it.                                             *)
LEMMA CompletedOnceStep ==
  ASSUME CountersOK, CompletedOnce, [Next]_vars
  PROVE  CompletedOnce'
<1> USE DEF CompletedOnce, CountersOK, loop, state, guards, server, work, history
<1>1. CASE StartMission
  BY <1>1 DEF StartMission
<1>2. CASE MessageArrives
  BY <1>2 DEF MessageArrives
<1>3. CASE PromptLost
  BY <1>3 DEF PromptLost
<1>4. CASE UserChats
  BY <1>4 DEF UserChats
<1>5. CASE TurnBegins
  BY <1>5 DEF TurnBegins
<1>6. CASE Progress
  BY <1>6 DEF Progress
<1>7. CASE ToolCall
  BY <1>7 DEF ToolCall
<1>8. CASE TurnEnds
  BY <1>8
  DEF TurnEnds, DoneIgnored, DoneStops, DoneCompletes, DoneContinues,
      MissionComplete
<1>9. CASE Idle
  BY <1>9
  DEF Idle, IdleIgnored, IdleWaits, IdleCompletes, IdleTrips, IdleCounts,
      MissionIdle, MissionComplete, NextIteration
<1>10. CASE ToastShown
  BY <1>10 DEF ToastShown
<1>11. CASE RecentOver
  BY <1>11 DEF RecentOver
<1>12. CASE CountdownFires
  BY <1>12
  DEF CountdownFires, Inject, InjectSkips, InjectUnsafe, InjectCompletes,
      InjectPrompts, PassCircuit, MissionComplete
<1>13. CASE StrayFires
  BY <1>13
  DEF StrayFires, Inject, InjectSkips, InjectUnsafe, InjectCompletes, InjectPrompts,
      PassCircuit, MissionComplete
<1>14. CASE CompletionEnds
  BY <1>14 DEF CompletionEnds
<1>15. CASE SessionError
  BY <1>15 DEF SessionError
<1>16. CASE RecoveryEnds
  BY <1>16 DEF RecoveryEnds
<1>17. CASE Compacting
  BY <1>17 DEF Compacting
<1>18. CASE Delegate
  BY <1>18 DEF Delegate
<1>19. CASE TasksEnd
  BY <1>19 DEF TasksEnd
<1>20. CASE SessionDeleted
  BY <1>20 DEF SessionDeleted
<1>21. CASE Reload
  BY <1>21 DEF Reload
<1>22. CASE WindowEnds
  BY <1>22 DEF WindowEnds
<1>23. CASE Expires
  BY <1>23 DEF Expires
<1>24. CASE UNCHANGED vars
  BY <1>24 DEF vars
<1> QED
  BY <1>1, <1>2, <1>3, <1>4, <1>5, <1>6, <1>7, <1>8, <1>9, <1>10, <1>11, <1>12,
     <1>13, <1>14, <1>15, <1>16, <1>17, <1>18, <1>19, <1>20, <1>21, <1>22, <1>23, <1>24
  DEF Next, ServerStep, LoopStep, Disruption

(* No mission is announced twice, whichever handlers and countdowns find   *)
(* the todo file complete.                                                 *)
THEOREM MissionsCompleteOnce == Spec => []CompletedOnce
<1>1. Init => CompletedOnce
  BY DEF Init, CompletedOnce
<1>2. TypeOK /\ CompletedOnce /\ [Next]_vars => CompletedOnce'
  BY CompletedOnceStep DEF TypeOK
<1> QED
  BY <1>1, <1>2, TypeCorrect, PTL DEF Spec

-----------------------------------------------------------------------------
(* Action properties.                                                      *)

(* Each write of the file either counts a new mission, removes the file,   *)
(* or moves on the iteration of the file it finds.                         *)
LEMMA NoGhostStep ==
  ASSUME CountersOK, [Next]_vars, started' = started
  PROVE  mission' = 0 \/ (mission # 0 /\ mission' >= mission)
<1> USE DEF CountersOK, loop, state, guards, server, work, history
<1>1. CASE StartMission
  BY <1>1 DEF StartMission
<1>2. CASE MessageArrives
  BY <1>2 DEF MessageArrives
<1>3. CASE PromptLost
  BY <1>3 DEF PromptLost
<1>4. CASE UserChats
  BY <1>4 DEF UserChats
<1>5. CASE TurnBegins
  BY <1>5 DEF TurnBegins
<1>6. CASE Progress
  BY <1>6 DEF Progress
<1>7. CASE ToolCall
  BY <1>7 DEF ToolCall
<1>8. CASE TurnEnds
  BY <1>8
  DEF TurnEnds, DoneIgnored, DoneStops, DoneCompletes, DoneContinues,
      MissionComplete
<1>9. CASE Idle
  BY <1>9
  DEF Idle, IdleIgnored, IdleWaits, IdleCompletes, IdleTrips, IdleCounts,
      MissionIdle, MissionComplete, NextIteration
<1>10. CASE ToastShown
  BY <1>10 DEF ToastShown
<1>11. CASE RecentOver
  BY <1>11 DEF RecentOver
<1>12. CASE CountdownFires
  BY <1>12
  DEF CountdownFires, Inject, InjectSkips, InjectUnsafe, InjectCompletes,
      InjectPrompts, PassCircuit, MissionComplete
<1>13. CASE StrayFires
  BY <1>13
  DEF StrayFires, Inject, InjectSkips, InjectUnsafe, InjectCompletes, InjectPrompts,
      PassCircuit, MissionComplete
<1>14. CASE CompletionEnds
  BY <1>14 DEF CompletionEnds
<1>15. CASE SessionError
  BY <1>15 DEF SessionError
<1>16. CASE RecoveryEnds
  BY <1>16 DEF RecoveryEnds
<1>17. CASE Compacting
  BY <1>17 DEF Compacting
<1>18. CASE Delegate
  BY <1>18 DEF Delegate
<1>19. CASE TasksEnd
  BY <1>19 DEF TasksEnd
<1>20. CASE SessionDeleted
  BY <1>20 DEF SessionDeleted
<1>21. CASE Reload
  BY <1>21 DEF Reload
<1>22. CASE WindowEnds
  BY <1>22 DEF WindowEnds
<1>23. CASE Expires
  BY <1>23 DEF Expires
<1>24. CASE UNCHANGED vars
  BY <1>24 DEF vars
<1> QED
  BY <1>1, <1>2, <1>3, <1>4, <1>5, <1>6, <1>7, <1>8, <1>9, <1>10, <1>11, <1>12,
     <1>13, <1>14, <1>15, <1>16, <1>17, <1>18, <1>19, <1>20, <1>21, <1>22, <1>23, <1>24
  DEF Next, ServerStep, LoopStep, Disruption

(* No handler that read the file before an await brings a mission back or  *)
(* sets its iteration back.                                                *)
THEOREM MissionsStayOver == Spec => NoGhostMission
<1>1. TypeOK /\ [Next]_vars =>
        [started' = started => (mission' = 0 \/ (mission # 0 /\ mission' >= mission))]_vars
  BY NoGhostStep DEF TypeOK
<1> QED
  BY <1>1, TypeCorrect, PTL DEF Spec, NoGhostMission

(* A countdown prompts only past all three guards; every other sender      *)
(* leaves the countdowns alone or begins or ends a turn.                   *)
LEMMA GuardsStep ==
  ASSUME CountersOK, [Next]_vars,
         CircuitBlocks \/ (aborting /\ aborting'), sent' > sent, agent' = agent
  PROVE  timer' = timer /\ strays' = strays
<1> USE DEF CountersOK, loop, state, guards, server, work, history
<1>1. CASE StartMission
  BY <1>1 DEF StartMission
<1>2. CASE MessageArrives
  BY <1>2 DEF MessageArrives, CancelCountdown
<1>3. CASE PromptLost
  BY <1>3 DEF PromptLost
<1>4. CASE UserChats
  BY <1>4 DEF UserChats
<1>5. CASE TurnBegins
  BY <1>5 DEF TurnBegins
<1>6. CASE Progress
  BY <1>6 DEF Progress
<1>7. CASE ToolCall
  BY <1>7 DEF ToolCall
<1>8. CASE TurnEnds
  BY <1>8 DEF TurnEnds, IdleEvent
<1>9. CASE Idle
  BY <1>9 DEF Idle, CancelCountdown
<1>10. CASE ToastShown
  BY <1>10 DEF ToastShown
<1>11. CASE RecentOver
  BY <1>11 DEF RecentOver
<1>12. CASE CountdownFires
  BY <1>12
  DEF CountdownFires, CancelCountdown, Inject, InjectSkips, InjectUnsafe,
      InjectCompletes, InjectPrompts, PassCircuit, InjectionBarred
<1>13. CASE StrayFires
  BY <1>13
  DEF StrayFires, CancelCountdown, Inject, InjectSkips, InjectUnsafe,
      InjectCompletes, InjectPrompts, PassCircuit, InjectionBarred
<1>14. CASE CompletionEnds
  BY <1>14 DEF CompletionEnds, DropState
<1>15. CASE SessionError
  BY <1>15 DEF SessionError, CancelCountdown, IdleEvent
<1>16. CASE RecoveryEnds
  BY <1>16 DEF RecoveryEnds
<1>17. CASE Compacting
  BY <1>17 DEF Compacting, CancelCountdown
<1>18. CASE Delegate
  BY <1>18 DEF Delegate
<1>19. CASE TasksEnd
  BY <1>19 DEF TasksEnd
<1>20. CASE SessionDeleted
  BY <1>20 DEF SessionDeleted, DropState
<1>21. CASE Reload
  BY <1>21 DEF Reload
<1>22. CASE WindowEnds
  BY <1>22 DEF WindowEnds
<1>23. CASE Expires
  BY <1>23 DEF Expires, DropState
<1>24. CASE UNCHANGED vars
  BY <1>24 DEF vars
<1> QED
  BY <1>1, <1>2, <1>3, <1>4, <1>5, <1>6, <1>7, <1>8, <1>9, <1>10, <1>11, <1>12,
     <1>13, <1>14, <1>15, <1>16, <1>17, <1>18, <1>19, <1>20, <1>21, <1>22, <1>23, <1>24
  DEF Next, ServerStep, LoopStep, Disruption

(* After an abort, and while a tripped circuit blocks, no countdown        *)
(* prompts: neither one whose handle is stored nor one nobody can cancel.  *)
THEOREM GuardsAreKept == Spec => GuardsHold
<1>1. TypeOK /\ [Next]_vars =>
        [(CircuitBlocks \/ (aborting /\ aborting')) /\ sent' > sent /\ agent' = agent
           => timer' = timer /\ strays' = strays]_vars
  BY GuardsStep DEF TypeOK
<1> QED
  BY <1>1, TypeCorrect, PTL DEF Spec, GuardsHold
=============================================================================
