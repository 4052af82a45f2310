---------------------------- MODULE SessionManager ----------------------------
(***************************************************************************)
(* Which sessions the orchestrator treats as a mission's: the flags in     *)
(* memory (core/orchestrator/session-manager.ts and state.ts), which a     *)
(* reload of the plugin loses, and the mission file, which one session at  *)
(* a time can have.  The handlers of plugin-handlers/ and their hooks read *)
(* and write both; each is one step.  Steps, tokens, anomalies and the     *)
(* current task of a session decide nothing and are left out.              *)
(***************************************************************************)
CONSTANTS
  SessionIds,
  NoSession

VARIABLES
  sessions,       \* the keys of the plugin's sessions map
  missionActive,  \* state.missionActive
  enabled,        \* the enabled sessions of state.sessions
  missionOf,      \* the session of the mission file, NoSession without a file
  missions,       \* the sessions that began a mission (/task)
  transformed,    \* what the last system.transform added, and to which session
  continued       \* the session the done hook prompted last

sessionVars == <<sessions, missionActive, enabled, missionOf, missions,
                 transformed, continued>>

Nothing == [session |-> NoSession, prompts |-> {}]

Init ==
  /\ sessions = {} /\ missionActive = FALSE /\ enabled = {}
  /\ missionOf = NoSession /\ missions = {}
  /\ transformed = Nothing /\ continued = NoSession

EnsureSessionInitialized(s) == sessions' = sessions \cup {s}

(* ensureGlobalState() as recordAnomaly(), resetAnomaly() and              *)
(* updateCurrentTask() call it: without a directory it enables.            *)
EnsureGlobalState(s) == enabled' = enabled \cup {s}

IsLoopActive(s) == missionOf = s

(* isMissionActive(): the flags, or else the file, which sets them right.  *)
InMemory(s) == missionActive /\ s \in enabled
IsMissionActive(s) == InMemory(s) \/ IsLoopActive(s)
SelfHeal(s) ==
  IF ~InMemory(s) /\ IsLoopActive(s)
  THEN missionActive' = TRUE /\ enabled' = enabled \cup {s}
  ELSE UNCHANGED <<missionActive, enabled>>

(* activateMissionState()                                                  *)
ActivateMissionState(s) == missionActive' = TRUE /\ EnsureGlobalState(s)

(* /task in the mission hook's chat part: it takes the file over.          *)
ChatTask(s) ==
  /\ EnsureSessionInitialized(s)
  /\ ActivateMissionState(s)
  /\ missionOf' = s
  /\ missions' = missions \cup {s}
  /\ UNCHANGED <<transformed, continued>>

(* experimental.chat.system.transform, before each request of a session.   *)
SystemTransform(s) ==
  /\ SelfHeal(s)
  /\ EnsureSessionInitialized(s)
  /\ transformed' =
       IF ~IsMissionActive(s) THEN Nothing
       ELSE [session |-> s,
             prompts |-> {"session"} \cup IF missionOf = NoSession THEN {} ELSE {"mission"}]
  /\ UNCHANGED <<missionOf, missions, continued>>

(* tool.execute.after of a call of an agent: the sanity check, or the      *)
(* agent's header, notes something in the session's state.                 *)
ToolExecuteAfter(s) ==
  /\ s \in sessions
  /\ EnsureGlobalState(s)
  /\ UNCHANGED <<sessions, missionActive, missionOf, missions, transformed, continued>>

MayContinue(s) == IsMissionActive(s) /\ IsLoopActive(s)

(* assistant.done: the sanity check comes first and touches the session's  *)
(* state, whatever it finds; what it injects itself ends the walk.         *)
DoneUnhealthy(s) ==
  /\ s \in sessions
  /\ EnsureGlobalState(s)
  /\ UNCHANGED <<sessions, missionActive, missionOf, missions, transformed, continued>>

(* ... then handleMissionProgress(): it does nothing, ends the mission     *)
(* (verified, or its agent said that it stops; the file goes but the flags *)
(* stay, deactivateMissionState() has no caller) or goes on.               *)
DoneHealthy(s) ==
  /\ s \in sessions
  /\ EnsureGlobalState(s)
  /\ IF MayContinue(s)
     THEN /\ missionActive' = TRUE
          /\ \/ missionOf' = NoSession /\ continued' = NoSession
             \/ continued' = s /\ UNCHANGED missionOf
     ELSE UNCHANGED <<missionActive, missionOf, continued>>
  /\ UNCHANGED <<sessions, missions, transformed>>

(* The idle handler verifies the mission and ends it.                      *)
IdleCompletes(s) ==
  /\ s \in sessions /\ IsLoopActive(s)
  /\ missionOf' = NoSession
  /\ UNCHANGED <<sessions, missionActive, enabled, missions, transformed, continued>>

(* session.deleted: the session's mission file stays.                      *)
SessionDeleted(s) ==
  /\ s \in sessions
  /\ sessions' = sessions \ {s}
  /\ enabled' = enabled \ {s}
  /\ UNCHANGED <<missionActive, missionOf, missions, transformed, continued>>

(* OpenCode restarts or reloads the plugin.                                *)
Reload ==
  /\ sessions' = {} /\ enabled' = {} /\ missionActive' = FALSE
  /\ UNCHANGED <<missionOf, missions, transformed, continued>>

Next ==
  \/ \E s \in SessionIds :
       \/ ChatTask(s) \/ SystemTransform(s) \/ ToolExecuteAfter(s)
       \/ DoneUnhealthy(s) \/ DoneHealthy(s) \/ IdleCompletes(s) \/ SessionDeleted(s)
  \/ Reload

Spec == Init /\ [][Next]_sessionVars

-------------------------------------------------------------------------------
SessionTypeOK ==
  /\ sessions \subseteq SessionIds /\ enabled \subseteq SessionIds
  /\ missions \subseteq SessionIds /\ missionActive \in BOOLEAN
  /\ {missionOf, continued} \subseteq SessionIds \cup {NoSession}
  /\ transformed \in [session : SessionIds \cup {NoSession},
                      prompts : SUBSET {"session", "mission"}]

(* Whatever flags other missions, other sessions' tools and reloads leave  *)
(* behind, the done hook makes no session go on that never began a mission *)
(* (hooks/features/mission-loop.ts 109; the flags alone would).            *)
OnlyMissionsContinue == continued \in missions \cup {NoSession}

(* system-transform-handler.ts 30-36 injects "only ... for orchestrated    *)
(* sessions": the commander's and the mission's prompt go to a session     *)
(* that began a mission.                                                   *)
OnlyMissionsAreTold ==
  "mission" \in transformed.prompts => transformed.session \in missions
===============================================================================
