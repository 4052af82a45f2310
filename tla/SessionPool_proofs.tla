------------------------- MODULE SessionPool_proofs -------------------------
(***************************************************************************)
(* Proofs about the session pool of one agent, for any number of callers   *)
(* and sessions, any size of the pool and any number of reuses.            *)
(***************************************************************************)
EXTENDS SessionPool, FiniteSetTheorems, FunctionTheorems, TLAPS

-----------------------------------------------------------------------------
(* Type correctness.                                                       *)

(* Every step keeps the shape of every variable.                           *)
LEMMA TypeStep ==
  ASSUME TypeOK, [Next]_vars
  PROVE  TypeOK'
<1> USE PoolAssumption DEF TypeOK, ages, open
<1>1. ASSUME NEW u \in Users, Reuse(u)
      PROVE  TypeOK'
  BY <1>1 DEF Reuse, Stand, Reusable, Available
<1>2. ASSUME NEW u \in Users, AskForSession(u)
      PROVE  TypeOK'
  BY <1>2 DEF AskForSession, Stand
<1>3. ASSUME NEW u \in Users, Created(u)
      PROVE  TypeOK'
  BY <1>3 DEF Created, Stand, Fresh
<1>4. ASSUME NEW u \in Users, CreateFails(u)
      PROVE  TypeOK'
  BY <1>4 DEF CreateFails, Stand, Fresh
<1>5. ASSUME NEW u \in Users, ReleaseUnknown(u)
      PROVE  TypeOK'
  BY <1>5 DEF ReleaseUnknown, Stand
<1>6. ASSUME NEW u \in Users, Retire(u)
      PROVE  TypeOK'
  BY <1>6 DEF Retire, Stand, Close, StartsRelease, UsedUp
<1>7. ASSUME NEW u \in Users, ReturnToFull(u)
      PROVE  TypeOK'
  BY <1>7 DEF ReturnToFull, Stand, Close, StartsRelease, UsedUp, Available
<1>8. ASSUME NEW u \in Users, Return(u)
      PROVE  TypeOK'
  BY <1>8 DEF Return, Stand, StartsRelease, UsedUp
<1>9. ASSUME NEW u \in Users, Evicted(u)
      PROVE  TypeOK'
  BY <1>9 DEF Evicted, Stand
<1>10. ASSUME NEW u \in Users, Compacted(u)
      PROVE  TypeOK'
  BY <1>10 DEF Compacted, Stand
<1>11. ASSUME NEW s \in Sessions, CleansUp(s)
      PROVE  TypeOK'
  BY <1>11 DEF CleansUp, Close, Available
<1>12. ASSUME NEW s \in Sessions, BecomesStale(s)
      PROVE  TypeOK'
  BY <1>12 DEF BecomesStale
<1>13. ASSUME NEW s \in Sessions, BecomesOld(s)
      PROVE  TypeOK'
  BY <1>13 DEF BecomesOld
<1>14. ASSUME NEW s \in Sessions, ServerDeletes(s)
      PROVE  TypeOK'
  BY <1>14 DEF ServerDeletes
<1>15. CASE Shutdown
  BY <1>15 DEF Shutdown, Close, Pooled
<1>16. CASE ShutdownEnds
  BY <1>16 DEF ShutdownEnds
<1>17. CASE UNCHANGED vars
  BY <1>17 DEF vars, ages, open
<1> QED
  BY <1>1, <1>2, <1>3, <1>4, <1>5, <1>6, <1>7, <1>8, <1>9,
     <1>10, <1>11, <1>12, <1>13, <1>14, <1>15, <1>16, <1>17 DEF Next

(* Every variable keeps the shape the code gives it; in particular no      *)
(* session is reused more often than MaxReuse.                             *)
THEOREM TypeCorrect == Spec => []TypeOK
<1>1. Init => TypeOK
  BY PoolAssumption DEF Init, TypeOK, Outside
<1>2. TypeOK /\ [Next]_vars => TypeOK'
  BY TypeStep
<1> QED
  BY <1>1, <1>2, PTL DEF Spec

-----------------------------------------------------------------------------
(* The inductive invariant.  That two callers do not share a session needs *)
(* that no available session has a caller; that a session in use is not    *)
(* deleted needs that what the maps hold is in OpenCode and not being      *)
(* deleted there, so that nothing old can catch up with it.                *)

HoldersKnown ==
  \A u \in Users : IF u \in Holding THEN user[u].session \in Sessions
                   ELSE user[u].session = NoSession

AvailableIsFree == \A s \in Available, u \in Users : user[u].session # s

PooledIsOpen ==
  /\ Pooled \subseteq server \ deleting
  /\ deleting \subseteq server

InUseUntilShutdown ==
  \A u \in Holding : shut = "no" => place[user[u].session] = "inUse"

(* What release() puts back, or is about to, may be reused at least once.  *)
RetiredInTime ==
  /\ \A s \in Available : reuse[s] < MaxReuse
  /\ \A u \in Releasing : reuse[user[u].session] < MaxReuse

PoolInv ==
  /\ HoldersKnown /\ AvailableIsFree /\ PooledIsOpen /\ RetiredInTime
  /\ NoSharedSession /\ InUseUntilShutdown /\ InUseHasUser

(* A caller has a session exactly while it uses or releases one.           *)
LEMMA HoldersKnownStep ==
  ASSUME TypeOK, HoldersKnown, [Next]_vars
  PROVE  HoldersKnown'
<1> USE DEF TypeOK, HoldersKnown, ages, open, Holding, Releasing
<1>1. ASSUME NEW u \in Users, Reuse(u)
      PROVE  HoldersKnown'
  BY <1>1 DEF Reuse, Stand, Reusable, Available
<1>2. ASSUME NEW u \in Users, AskForSession(u)
      PROVE  HoldersKnown'
  BY <1>2 DEF AskForSession, Stand
<1>3. ASSUME NEW u \in Users, Created(u)
      PROVE  HoldersKnown'
  BY <1>3 DEF Created, Stand, Fresh
<1>4. ASSUME NEW u \in Users, CreateFails(u)
      PROVE  HoldersKnown'
  BY <1>4 DEF CreateFails, Stand, Fresh
<1>5. ASSUME NEW u \in Users, ReleaseUnknown(u)
      PROVE  HoldersKnown'
  BY <1>5 DEF ReleaseUnknown, Stand
<1>6. ASSUME NEW u \in Users, Retire(u)
      PROVE  HoldersKnown'
  BY <1>6 DEF Retire, Stand, Close, StartsRelease, UsedUp
<1>7. ASSUME NEW u \in Users, ReturnToFull(u)
      PROVE  HoldersKnown'
  BY <1>7 DEF ReturnToFull, Stand, Close, StartsRelease, UsedUp, Available
<1>8. ASSUME NEW u \in Users, Return(u)
      PROVE  HoldersKnown'
  BY <1>8 DEF Return, Stand, StartsRelease, UsedUp
<1>9. ASSUME NEW u \in Users, Evicted(u)
      PROVE  HoldersKnown'
  BY <1>9 DEF Evicted, Stand
<1>10. ASSUME NEW u \in Users, Compacted(u)
      PROVE  HoldersKnown'
  BY <1>10 DEF Compacted, Stand
<1>11. ASSUME NEW s \in Sessions, CleansUp(s)
      PROVE  HoldersKnown'
  BY <1>11 DEF CleansUp, Close, Available
<1>12. ASSUME NEW s \in Sessions, BecomesStale(s)
      PROVE  HoldersKnown'
  BY <1>12 DEF BecomesStale
<1>13. ASSUME NEW s \in Sessions, BecomesOld(s)
      PROVE  HoldersKnown'
  BY <1>13 DEF BecomesOld
<1>14. ASSUME NEW s \in Sessions, ServerDeletes(s)
      PROVE  HoldersKnown'
  BY <1>14 DEF ServerDeletes
<1>15. CASE Shutdown
  BY <1>15 DEF Shutdown, Close
<1>16. CASE ShutdownEnds
  BY <1>16 DEF ShutdownEnds
<1>17. CASE UNCHANGED vars
  BY <1>17 DEF vars, ages, open
<1> QED
  BY <1>1, <1>2, <1>3, <1>4, <1>5, <1>6, <1>7, <1>8, <1>9,
     <1>10, <1>11, <1>12, <1>13, <1>14, <1>15, <1>16, <1>17 DEF Next

(* The caller that returns a session is the only one that had it, and a    *)
(* new session has no caller.                                              *)
LEMMA AvailableIsFreeStep ==
  ASSUME TypeOK, HoldersKnown, AvailableIsFree, NoSharedSession,
         [Next]_vars
  PROVE  AvailableIsFree'
<1> USE PoolAssumption
    DEF TypeOK, HoldersKnown, AvailableIsFree, NoSharedSession, ages, open, Holding,
        Releasing, Available
<1>1. ASSUME NEW u \in Users, Reuse(u)
      PROVE  AvailableIsFree'
  BY <1>1 DEF Reuse, Stand, Reusable, Available
<1>2. ASSUME NEW u \in Users, AskForSession(u)
      PROVE  AvailableIsFree'
  BY <1>2 DEF AskForSession, Stand
<1>3. ASSUME NEW u \in Users, Created(u)
      PROVE  AvailableIsFree'
  BY <1>3 DEF Created, Stand, Fresh
<1>4. ASSUME NEW u \in Users, CreateFails(u)
      PROVE  AvailableIsFree'
  BY <1>4 DEF CreateFails, Stand, Fresh
<1>5. ASSUME NEW u \in Users, ReleaseUnknown(u)
      PROVE  AvailableIsFree'
  BY <1>5 DEF ReleaseUnknown, Stand
<1>6. ASSUME NEW u \in Users, Retire(u)
      PROVE  AvailableIsFree'
  BY <1>6 DEF Retire, Stand, Close, StartsRelease, UsedUp
<1>7. ASSUME NEW u \in Users, ReturnToFull(u)
      PROVE  AvailableIsFree'
  BY <1>7 DEF ReturnToFull, Stand, Close, StartsRelease, UsedUp, Available
<1>8. ASSUME NEW u \in Users, Return(u)
      PROVE  AvailableIsFree'
  BY <1>8 DEF Return, Stand, StartsRelease, UsedUp
<1>9. ASSUME NEW u \in Users, Evicted(u)
      PROVE  AvailableIsFree'
  BY <1>9 DEF Evicted, Stand
<1>10. ASSUME NEW u \in Users, Compacted(u)
      PROVE  AvailableIsFree'
  BY <1>10 DEF Compacted, Stand
<1>11. ASSUME NEW s \in Sessions, CleansUp(s)
      PROVE  AvailableIsFree'
  BY <1>11 DEF CleansUp, Close, Available
<1>12. ASSUME NEW s \in Sessions, BecomesStale(s)
      PROVE  AvailableIsFree'
  BY <1>12 DEF BecomesStale
<1>13. ASSUME NEW s \in Sessions, BecomesOld(s)
      PROVE  AvailableIsFree'
  BY <1>13 DEF BecomesOld
<1>14. ASSUME NEW s \in Sessions, ServerDeletes(s)
      PROVE  AvailableIsFree'
  BY <1>14 DEF ServerDeletes
<1>15. CASE Shutdown
  BY <1>15 DEF Shutdown, Close
<1>16. CASE ShutdownEnds
  BY <1>16 DEF ShutdownEnds
<1>17. CASE UNCHANGED vars
  BY <1>17 DEF vars, ages, open
<1> QED
  BY <1>1, <1>2, <1>3, <1>4, <1>5, <1>6, <1>7, <1>8, <1>9,
     <1>10, <1>11, <1>12, <1>13, <1>14, <1>15, <1>16, <1>17 DEF Next

(* A caller gets an available session, which has no caller, or a new one.  *)
LEMMA NoSharedSessionStep ==
  ASSUME TypeOK, HoldersKnown, AvailableIsFree, NoSharedSession,
         [Next]_vars
  PROVE  NoSharedSession'
<1> USE PoolAssumption
    DEF TypeOK, HoldersKnown, AvailableIsFree, NoSharedSession, ages, open, Holding,
        Releasing, Available
<1>1. ASSUME NEW u \in Users, Reuse(u)
      PROVE  NoSharedSession'
  BY <1>1 DEF Reuse, Stand, Reusable, Available
<1>2. ASSUME NEW u \in Users, AskForSession(u)
      PROVE  NoSharedSession'
  BY <1>2 DEF AskForSession, Stand
<1>3. ASSUME NEW u \in Users, Created(u)
      PROVE  NoSharedSession'
  BY <1>3 DEF Created, Stand, Fresh
<1>4. ASSUME NEW u \in Users, CreateFails(u)
      PROVE  NoSharedSession'
  BY <1>4 DEF CreateFails, Stand, Fresh
<1>5. ASSUME NEW u \in Users, ReleaseUnknown(u)
      PROVE  NoSharedSession'
  BY <1>5 DEF ReleaseUnknown, Stand
<1>6. ASSUME NEW u \in Users, Retire(u)
      PROVE  NoSharedSession'
  BY <1>6 DEF Retire, Stand, Close, StartsRelease, UsedUp
<1>7. ASSUME NEW u \in Users, ReturnToFull(u)
      PROVE  NoSharedSession'
  BY <1>7 DEF ReturnToFull, Stand, Close, StartsRelease, UsedUp, Available
<1>8. ASSUME NEW u \in Users, Return(u)
      PROVE  NoSharedSession'
  BY <1>8 DEF Return, Stand, StartsRelease, UsedUp
<1>9. ASSUME NEW u \in Users, Evicted(u)
      PROVE  NoSharedSession'
  BY <1>9 DEF Evicted, Stand
<1>10. ASSUME NEW u \in Users, Compacted(u)
      PROVE  NoSharedSession'
  BY <1>10 DEF Compacted, Stand
<1>11. ASSUME NEW s \in Sessions, CleansUp(s)
      PROVE  NoSharedSession'
  BY <1>11 DEF CleansUp, Close, Available
<1>12. ASSUME NEW s \in Sessions, BecomesStale(s)
      PROVE  NoSharedSession'
  BY <1>12 DEF BecomesStale
<1>13. ASSUME NEW s \in Sessions, BecomesOld(s)
      PROVE  NoSharedSession'
  BY <1>13 DEF BecomesOld
<1>14. ASSUME NEW s \in Sessions, ServerDeletes(s)
      PROVE  NoSharedSession'
  BY <1>14 DEF ServerDeletes
<1>15. CASE Shutdown
  BY <1>15 DEF Shutdown, Close
<1>16. CASE ShutdownEnds
  BY <1>16 DEF ShutdownEnds
<1>17. CASE UNCHANGED vars
  BY <1>17 DEF vars, ages, open
<1> QED
  BY <1>1, <1>2, <1>3, <1>4, <1>5, <1>6, <1>7, <1>8, <1>9,
     <1>10, <1>11, <1>12, <1>13, <1>14, <1>15, <1>16, <1>17 DEF Next

(* A session leaves the maps when its deletion is asked for, and none with *)
(* a pending deletion comes back.                                          *)
LEMMA PooledIsOpenStep ==
  ASSUME TypeOK, PooledIsOpen, [Next]_vars
  PROVE  PooledIsOpen'
<1> USE DEF TypeOK, PooledIsOpen, Pooled, ages, open, Available
<1>1. ASSUME NEW u \in Users, Reuse(u)
      PROVE  PooledIsOpen'
  BY <1>1 DEF Reuse, Stand, Reusable, Available
<1>2. ASSUME NEW u \in Users, AskForSession(u)
      PROVE  PooledIsOpen'
  BY <1>2 DEF AskForSession, Stand
<1>3. ASSUME NEW u \in Users, Created(u)
      PROVE  PooledIsOpen'
  BY <1>3 DEF Created, Stand, Fresh
<1>4. ASSUME NEW u \in Users, CreateFails(u)
      PROVE  PooledIsOpen'
  BY <1>4 DEF CreateFails, Stand, Fresh
<1>5. ASSUME NEW u \in Users, ReleaseUnknown(u)
      PROVE  PooledIsOpen'
  BY <1>5 DEF ReleaseUnknown, Stand
<1>6. ASSUME NEW u \in Users, Retire(u)
      PROVE  PooledIsOpen'
  BY <1>6 DEF Retire, Stand, Close, StartsRelease, UsedUp
<1>7. ASSUME NEW u \in Users, ReturnToFull(u)
      PROVE  PooledIsOpen'
  BY <1>7 DEF ReturnToFull, Stand, Close, StartsRelease, UsedUp, Available
<1>8. ASSUME NEW u \in Users, Return(u)
      PROVE  PooledIsOpen'
  BY <1>8 DEF Return, Stand, StartsRelease, UsedUp
<1>9. ASSUME NEW u \in Users, Evicted(u)
      PROVE  PooledIsOpen'
  BY <1>9 DEF Evicted, Stand
<1>10. ASSUME NEW u \in Users, Compacted(u)
      PROVE  PooledIsOpen'
  BY <1>10 DEF Compacted, Stand
<1>11. ASSUME NEW s \in Sessions, CleansUp(s)
      PROVE  PooledIsOpen'
  BY <1>11 DEF CleansUp, Close, Available
<1>12. ASSUME NEW s \in Sessions, BecomesStale(s)
      PROVE  PooledIsOpen'
  BY <1>12 DEF BecomesStale
<1>13. ASSUME NEW s \in Sessions, BecomesOld(s)
      PROVE  PooledIsOpen'
  BY <1>13 DEF BecomesOld
<1>14. ASSUME NEW s \in Sessions, ServerDeletes(s)
      PROVE  PooledIsOpen'
  BY <1>14 DEF ServerDeletes
<1>15. CASE Shutdown
  BY <1>15 DEF Shutdown, Close
<1>16. CASE ShutdownEnds
  BY <1>16 DEF ShutdownEnds
<1>17. CASE UNCHANGED vars
  BY <1>17 DEF vars, ages, open
<1> QED
  BY <1>1, <1>2, <1>3, <1>4, <1>5, <1>6, <1>7, <1>8, <1>9,
     <1>10, <1>11, <1>12, <1>13, <1>14, <1>15, <1>16, <1>17 DEF Next

(* Retirement takes the caller's own session, evictions and cleanups take  *)
(* available ones: only a shutdown takes what another caller works in.     *)
LEMMA InUseUntilShutdownStep ==
  ASSUME TypeOK, HoldersKnown, AvailableIsFree, NoSharedSession,
         InUseUntilShutdown, [Next]_vars
  PROVE  InUseUntilShutdown'
<1> USE PoolAssumption
    DEF TypeOK, HoldersKnown, AvailableIsFree, NoSharedSession, InUseUntilShutdown,
        ages, open, Holding, Releasing, Available, Pooled
<1>1. ASSUME NEW u \in Users, Reuse(u)
      PROVE  InUseUntilShutdown'
  BY <1>1 DEF Reuse, Stand, Reusable, Available
<1>2. ASSUME NEW u \in Users, AskForSession(u)
      PROVE  InUseUntilShutdown'
  BY <1>2 DEF AskForSession, Stand
<1>3. ASSUME NEW u \in Users, Created(u)
      PROVE  InUseUntilShutdown'
  BY <1>3 DEF Created, Stand, Fresh
<1>4. ASSUME NEW u \in Users, CreateFails(u)
      PROVE  InUseUntilShutdown'
  BY <1>4 DEF CreateFails, Stand, Fresh
<1>5. ASSUME NEW u \in Users, ReleaseUnknown(u)
      PROVE  InUseUntilShutdown'
  BY <1>5 DEF ReleaseUnknown, Stand
<1>6. ASSUME NEW u \in Users, Retire(u)
      PROVE  InUseUntilShutdown'
  BY <1>6 DEF Retire, Stand, Close, StartsRelease, UsedUp
<1>7. ASSUME NEW u \in Users, ReturnToFull(u)
      PROVE  InUseUntilShutdown'
  BY <1>7 DEF ReturnToFull, Stand, Close, StartsRelease, UsedUp, Available
<1>8. ASSUME NEW u \in Users, Return(u)
      PROVE  InUseUntilShutdown'
  BY <1>8 DEF Return, Stand, StartsRelease, UsedUp
<1>9. ASSUME NEW u \in Users, Evicted(u)
      PROVE  InUseUntilShutdown'
  BY <1>9 DEF Evicted, Stand
<1>10. ASSUME NEW u \in Users, Compacted(u)
      PROVE  InUseUntilShutdown'
  BY <1>10 DEF Compacted, Stand
<1>11. ASSUME NEW s \in Sessions, CleansUp(s)
      PROVE  InUseUntilShutdown'
  BY <1>11 DEF CleansUp, Close, Available
<1>12. ASSUME NEW s \in Sessions, BecomesStale(s)
      PROVE  InUseUntilShutdown'
  BY <1>12 DEF BecomesStale
<1>13. ASSUME NEW s \in Sessions, BecomesOld(s)
      PROVE  InUseUntilShutdown'
  BY <1>13 DEF BecomesOld
<1>14. ASSUME NEW s \in Sessions, ServerDeletes(s)
      PROVE  InUseUntilShutdown'
  BY <1>14 DEF ServerDeletes
<1>15. CASE Shutdown
  BY <1>15 DEF Shutdown, Close
<1>16. CASE ShutdownEnds
  BY <1>16 DEF ShutdownEnds
<1>17. CASE UNCHANGED vars
  BY <1>17 DEF vars, ages, open
<1> QED
  BY <1>1, <1>2, <1>3, <1>4, <1>5, <1>6, <1>7, <1>8, <1>9,
     <1>10, <1>11, <1>12, <1>13, <1>14, <1>15, <1>16, <1>17 DEF Next

(* A session loses its caller when it leaves the maps or is available.     *)
LEMMA InUseHasUserStep ==
  ASSUME TypeOK, HoldersKnown, AvailableIsFree, NoSharedSession,
         InUseHasUser, [Next]_vars
  PROVE  InUseHasUser'
<1> USE PoolAssumption
    DEF TypeOK, HoldersKnown, AvailableIsFree, NoSharedSession, InUseHasUser,
        ages, open, Holding, Releasing, Available, Pooled
<1>1. ASSUME NEW u \in Users, Reuse(u)
      PROVE  InUseHasUser'
  BY <1>1 DEF Reuse, Stand, Reusable, Available
<1>2. ASSUME NEW u \in Users, AskForSession(u)
      PROVE  InUseHasUser'
  BY <1>2 DEF AskForSession, Stand
<1>3. ASSUME NEW u \in Users, Created(u)
      PROVE  InUseHasUser'
  BY <1>3 DEF Created, Stand, Fresh
<1>4. ASSUME NEW u \in Users, CreateFails(u)
      PROVE  InUseHasUser'
  BY <1>4 DEF CreateFails, Stand, Fresh
<1>5. ASSUME NEW u \in Users, ReleaseUnknown(u)
      PROVE  InUseHasUser'
  BY <1>5 DEF ReleaseUnknown, Stand
<1>6. ASSUME NEW u \in Users, Retire(u)
      PROVE  InUseHasUser'
  BY <1>6 DEF Retire, Stand, Close, StartsRelease, UsedUp
<1>7. ASSUME NEW u \in Users, ReturnToFull(u)
      PROVE  InUseHasUser'
  BY <1>7 DEF ReturnToFull, Stand, Close, StartsRelease, UsedUp, Available
<1>8. ASSUME NEW u \in Users, Return(u)
      PROVE  InUseHasUser'
  BY <1>8 DEF Return, Stand, StartsRelease, UsedUp
<1>9. ASSUME NEW u \in Users, Evicted(u)
      PROVE  InUseHasUser'
  BY <1>9 DEF Evicted, Stand
<1>10. ASSUME NEW u \in Users, Compacted(u)
      PROVE  InUseHasUser'
  BY <1>10 DEF Compacted, Stand
<1>11. ASSUME NEW s \in Sessions, CleansUp(s)
      PROVE  InUseHasUser'
  BY <1>11 DEF CleansUp, Close, Available
<1>12. ASSUME NEW s \in Sessions, BecomesStale(s)
      PROVE  InUseHasUser'
  BY <1>12 DEF BecomesStale
<1>13. ASSUME NEW s \in Sessions, BecomesOld(s)
      PROVE  InUseHasUser'
  BY <1>13 DEF BecomesOld
<1>14. ASSUME NEW s \in Sessions, ServerDeletes(s)
      PROVE  InUseHasUser'
  BY <1>14 DEF ServerDeletes
<1>15. CASE Shutdown
  BY <1>15 DEF Shutdown, Close
<1>16. CASE ShutdownEnds
  BY <1>16 DEF ShutdownEnds
<1>17. CASE UNCHANGED vars
  BY <1>17 DEF vars, ages, open
<1> QED
  BY <1>1, <1>2, <1>3, <1>4, <1>5, <1>6, <1>7, <1>8, <1>9,
     <1>10, <1>11, <1>12, <1>13, <1>14, <1>15, <1>16, <1>17 DEF Next

(* reuseCount is only raised when a session is taken, and reset for a new  *)
(* one; a release that finds it at MaxReuse retires the session.           *)
LEMMA RetiredInTimeStep ==
  ASSUME TypeOK, HoldersKnown, AvailableIsFree, NoSharedSession,
         RetiredInTime, [Next]_vars
  PROVE  RetiredInTime'
<1> USE PoolAssumption
    DEF TypeOK, HoldersKnown, AvailableIsFree, NoSharedSession, RetiredInTime,
        ages, open, Holding, Releasing, Available, Pooled
<1>1. ASSUME NEW u \in Users, Reuse(u)
      PROVE  RetiredInTime'
  BY <1>1 DEF Reuse, Stand, Reusable, Available
<1>2. ASSUME NEW u \in Users, AskForSession(u)
      PROVE  RetiredInTime'
  BY <1>2 DEF AskForSession, Stand
<1>3. ASSUME NEW u \in Users, Created(u)
      PROVE  RetiredInTime'
  BY <1>3 DEF Created, Stand, Fresh
<1>4. ASSUME NEW u \in Users, CreateFails(u)
      PROVE  RetiredInTime'
  BY <1>4 DEF CreateFails, Stand, Fresh
<1>5. ASSUME NEW u \in Users, ReleaseUnknown(u)
      PROVE  RetiredInTime'
  BY <1>5 DEF ReleaseUnknown, Stand
<1>6. ASSUME NEW u \in Users, Retire(u)
      PROVE  RetiredInTime'
  BY <1>6 DEF Retire, Stand, Close, StartsRelease, UsedUp
<1>7. ASSUME NEW u \in Users, ReturnToFull(u)
      PROVE  RetiredInTime'
  BY <1>7 DEF ReturnToFull, Stand, Close, StartsRelease, UsedUp, Available
<1>8. ASSUME NEW u \in Users, Return(u)
      PROVE  RetiredInTime'
  BY <1>8 DEF Return, Stand, StartsRelease, UsedUp
<1>9. ASSUME NEW u \in Users, Evicted(u)
      PROVE  RetiredInTime'
  BY <1>9 DEF Evicted, Stand
<1>10. ASSUME NEW u \in Users, Compacted(u)
      PROVE  RetiredInTime'
  BY <1>10 DEF Compacted, Stand
<1>11. ASSUME NEW s \in Sessions, CleansUp(s)
      PROVE  RetiredInTime'
  BY <1>11 DEF CleansUp, Close, Available
<1>12. ASSUME NEW s \in Sessions, BecomesStale(s)
      PROVE  RetiredInTime'
  BY <1>12 DEF BecomesStale
<1>13. ASSUME NEW s \in Sessions, BecomesOld(s)
      PROVE  RetiredInTime'
  BY <1>13 DEF BecomesOld
<1>14. ASSUME NEW s \in Sessions, ServerDeletes(s)
      PROVE  RetiredInTime'
  BY <1>14 DEF ServerDeletes
<1>15. CASE Shutdown
  BY <1>15 DEF Shutdown, Close
<1>16. CASE ShutdownEnds
  BY <1>16 DEF ShutdownEnds
<1>17. CASE UNCHANGED vars
  BY <1>17 DEF vars, ages, open
<1> QED
  BY <1>1, <1>2, <1>3, <1>4, <1>5, <1>6, <1>7, <1>8, <1>9,
     <1>10, <1>11, <1>12, <1>13, <1>14, <1>15, <1>16, <1>17 DEF Next

(* The invariant holds of every state.                                     *)
THEOREM PoolCorrect == Spec => []PoolInv
<1>1. Init => PoolInv
  BY PoolAssumption
  DEF Init, PoolInv, HoldersKnown, AvailableIsFree, PooledIsOpen, RetiredInTime,
      NoSharedSession, InUseUntilShutdown, InUseHasUser, Outside, Holding, Releasing,
      Available, Pooled
<1>2. TypeOK /\ PoolInv /\ [Next]_vars => PoolInv'
  BY HoldersKnownStep, AvailableIsFreeStep, NoSharedSessionStep, PooledIsOpenStep,
     InUseUntilShutdownStep, InUseHasUserStep, RetiredInTimeStep
  DEF PoolInv
<1> QED
  BY <1>1, <1>2, TypeCorrect, PTL DEF Spec

(* Two callers never share a session; before a shutdown what a caller      *)
(* works in is in use and not deleted under it; what is in use has a       *)
(* caller.                                                                 *)
THEOREM SessionsHaveOneCaller == Spec => []OneCallerPerSession
<1>1. TypeOK /\ PoolInv => OneCallerPerSession
  BY DEF TypeOK, PoolInv, OneCallerPerSession, InUseStaysOpen, InUseUntilShutdown,
         PooledIsOpen, HoldersKnown, Holding, Releasing, Pooled
<1> QED
  BY <1>1, PoolCorrect, TypeCorrect, PTL

-----------------------------------------------------------------------------
(* What leaves the maps is being deleted, and then gone or lost; what      *)
(* OpenCode creates is in the maps, or lost.                               *)
LEMMA AccountedStep ==
  ASSUME TypeOK, SessionsAccounted, [Next]_vars
  PROVE  SessionsAccounted'
<1> USE DEF TypeOK, SessionsAccounted, ages, open, Available, Pooled
<1>1. ASSUME NEW u \in Users, Reuse(u)
      PROVE  SessionsAccounted'
  BY <1>1 DEF Reuse, Stand, Reusable, Available
<1>2. ASSUME NEW u \in Users, AskForSession(u)
      PROVE  SessionsAccounted'
  BY <1>2 DEF AskForSession, Stand
<1>3. ASSUME NEW u \in Users, Created(u)
      PROVE  SessionsAccounted'
  BY <1>3 DEF Created, Stand, Fresh
<1>4. ASSUME NEW u \in Users, CreateFails(u)
      PROVE  SessionsAccounted'
  BY <1>4 DEF CreateFails, Stand, Fresh
<1>5. ASSUME NEW u \in Users, ReleaseUnknown(u)
      PROVE  SessionsAccounted'
  BY <1>5 DEF ReleaseUnknown, Stand
<1>6. ASSUME NEW u \in Users, Retire(u)
      PROVE  SessionsAccounted'
  BY <1>6 DEF Retire, Stand, Close, StartsRelease, UsedUp
<1>7. ASSUME NEW u \in Users, ReturnToFull(u)
      PROVE  SessionsAccounted'
  BY <1>7 DEF ReturnToFull, Stand, Close, StartsRelease, UsedUp, Available
<1>8. ASSUME NEW u \in Users, Return(u)
      PROVE  SessionsAccounted'
  BY <1>8 DEF Return, Stand, StartsRelease, UsedUp
<1>9. ASSUME NEW u \in Users, Evicted(u)
      PROVE  SessionsAccounted'
  BY <1>9 DEF Evicted, Stand
<1>10. ASSUME NEW u \in Users, Compacted(u)
      PROVE  SessionsAccounted'
  BY <1>10 DEF Compacted, Stand
<1>11. ASSUME NEW s \in Sessions, CleansUp(s)
      PROVE  SessionsAccounted'
  BY <1>11 DEF CleansUp, Close, Available
<1>12. ASSUME NEW s \in Sessions, BecomesStale(s)
      PROVE  SessionsAccounted'
  BY <1>12 DEF BecomesStale
<1>13. ASSUME NEW s \in Sessions, BecomesOld(s)
      PROVE  SessionsAccounted'
  BY <1>13 DEF BecomesOld
<1>14. ASSUME NEW s \in Sessions, ServerDeletes(s)
      PROVE  SessionsAccounted'
  BY <1>14 DEF ServerDeletes
<1>15. CASE Shutdown
  BY <1>15 DEF Shutdown, Close
<1>16. CASE ShutdownEnds
  BY <1>16 DEF ShutdownEnds
<1>17. CASE UNCHANGED vars
  BY <1>17 DEF vars, ages, open
<1> QED
  BY <1>1, <1>2, <1>3, <1>4, <1>5, <1>6, <1>7, <1>8, <1>9,
     <1>10, <1>11, <1>12, <1>13, <1>14, <1>15, <1>16, <1>17 DEF Next

(* Before a shutdown ends, no session is forgotten that nobody asked       *)
(* OpenCode to delete, but those that came late and those whose deletion   *)
(* OpenCode refused.                                                       *)
THEOREM SessionsStayAccounted == Spec => []SessionsAccounted
<1>1. Init => SessionsAccounted
  BY DEF Init, SessionsAccounted
<1>2. TypeOK /\ SessionsAccounted /\ [Next]_vars => SessionsAccounted'
  BY AccountedStep
<1> QED
  BY <1>1, <1>2, TypeCorrect, PTL DEF Spec

-----------------------------------------------------------------------------
(* The size of the pool.                                                   *)

InUse == { s \in Sessions : place[s] = "inUse" }

(* Callers and sessions are finitely many.                                 *)
LEMMA Finite ==
  ASSUME TypeOK
  PROVE  /\ \A T \in SUBSET Users : IsFiniteSet(T) /\ Cardinality(T) \in Nat
         /\ \A T \in SUBSET Sessions : IsFiniteSet(T) /\ Cardinality(T) \in Nat
BY PoolAssumption, FS_Subset, FS_CardinalityType

(* Sessions in use have callers, and different ones.                       *)
LEMMA InUseAtMostHolding ==
  ASSUME TypeOK, PoolInv
  PROVE  Cardinality(InUse) <= Cardinality(Holding)
<1> DEFINE holder == [s \in InUse |-> CHOOSE u \in Holding : user[u].session = s]
<1>1. \A s \in InUse : holder[s] \in Holding /\ user[holder[s]].session = s
  BY DEF PoolInv, InUseHasUser, InUse
<1>2. holder \in [InUse -> Holding]
  BY <1>1
<1>3. \A s, t \in InUse : holder[s] = holder[t] => s = t
  BY <1>1
<1> HIDE DEF holder
<1>4. holder \in Injection(InUse, Holding)
  BY <1>2, <1>3 DEF Injection, IsInjective
<1>5. IsFiniteSet(Holding)
  BY Finite DEF Holding, Releasing
<1> QED
  BY <1>4, <1>5, FS_Injection

(* A call asks for a new session when none can be reused, hence when all   *)
(* that are pooled are in use.                                             *)
LEMMA AskingFindsRoom ==
  ASSUME TypeOK, PoolInv, NEW u \in Users, AskForSession(u)
  PROVE  Cardinality(Pooled) + Cardinality(Creating \cup {u}) <= Cardinality(Users)
<1>1. Pooled = InUse
  BY DEF AskForSession, Reusable, Available, Pooled, InUse, PoolInv, RetiredInTime,
         TypeOK
<1>2. Cardinality(Pooled) <= Cardinality(Holding)
  BY <1>1, InUseAtMostHolding
<1> DEFINE asking == Creating \cup {u}
<1>3. /\ Holding \in SUBSET Users /\ asking \in SUBSET Users
      /\ Holding \cap asking = {}
  BY DEF Holding, Releasing, Creating, AskForSession
<1>4. Cardinality(Holding \cup asking) = Cardinality(Holding) + Cardinality(asking)
  <2>1. Cardinality(Holding \cap asking) = 0
    BY <1>3, FS_EmptySet
  <2>2. /\ IsFiniteSet(Holding) /\ IsFiniteSet(asking)
        /\ Cardinality(Holding) \in Nat /\ Cardinality(asking) \in Nat
    BY <1>3, Finite
  <2> HIDE DEF asking
  <2>3. Cardinality(Holding \cup asking) = Cardinality(Holding)
          + Cardinality(asking) - Cardinality(Holding \cap asking)
    BY <2>2, FS_Union
  <2> QED
    BY <2>1, <2>2, <2>3
<1>5. Cardinality(Holding \cup asking) <= Cardinality(Users)
  BY <1>3, PoolAssumption, FS_Subset
<1>6. /\ Cardinality(Pooled) \in Nat /\ Cardinality(Holding) \in Nat
      /\ Cardinality(asking) \in Nat /\ Cardinality(Users) \in Nat
  BY <1>3, Finite DEF Pooled
<1> QED
  BY <1>2, <1>4, <1>5, <1>6

(* A smaller pool with no more calls under way is within the bound.        *)
LEMMA FewerAreBounded ==
  ASSUME TypeOK, PoolBoundedByCallers,
         Pooled' \subseteq Pooled, Creating' \subseteq Creating
  PROVE  PoolBoundedByCallers'
<1>1. /\ Cardinality(Pooled') <= Cardinality(Pooled)
      /\ Cardinality(Creating') <= Cardinality(Creating)
  BY Finite, FS_Subset DEF Pooled, Creating
<1>2. /\ Cardinality(Pooled) \in Nat /\ Cardinality(Creating) \in Nat
      /\ Cardinality(Pooled') \in Nat /\ Cardinality(Creating') \in Nat
      /\ Cardinality(Users) \in Nat
  BY Finite DEF Pooled, Creating
<1> QED
  BY <1>1, <1>2 DEF PoolBoundedByCallers

(* A session that comes replaces a call that asked for it; a call that     *)
(* asks finds all pooled sessions with other callers.                      *)
LEMMA BoundStep ==
  ASSUME TypeOK, PoolInv, PoolBoundedByCallers, [Next]_vars
  PROVE  PoolBoundedByCallers'
<1>1. ASSUME NEW u \in Users, Reuse(u)
      PROVE  PoolBoundedByCallers'
  <2>1. Pooled' \subseteq Pooled /\ Creating' \subseteq Creating
    BY <1>1
    DEF Reuse, Stand, Reusable, Available, Pooled, Creating, ages, open, TypeOK
  <2> QED
    BY <2>1, FewerAreBounded
<1>2. ASSUME NEW u \in Users, AskForSession(u)
      PROVE  PoolBoundedByCallers'
  <2>1. Pooled' = Pooled /\ Creating' = Creating \cup {u}
    BY <1>2 DEF AskForSession, Stand, Pooled, Creating, TypeOK, ages, open
  <2> QED
    BY <1>2, <2>1, AskingFindsRoom DEF PoolBoundedByCallers
<1>3. ASSUME NEW u \in Users, Created(u)
      PROVE  PoolBoundedByCallers'
  <2>1. PICK s \in Sessions : Pooled' = Pooled \cup {s} /\ s \notin Pooled
    BY <1>3 DEF Created, Fresh, Pooled, TypeOK
  <2>2. Creating' = Creating \ {u} /\ u \in Creating
    BY <1>3 DEF Created, Stand, Creating, TypeOK
  <2>3. /\ IsFiniteSet(Pooled) /\ Cardinality(Pooled) \in Nat
        /\ IsFiniteSet(Creating) /\ Cardinality(Creating) \in Nat
    BY Finite DEF Pooled, Creating
  <2>4. Cardinality(Pooled') = Cardinality(Pooled) + 1
    BY <2>1, <2>3, FS_AddElement
  <2>5. Cardinality(Creating') = Cardinality(Creating) - 1
    BY <2>2, <2>3, FS_RemoveElement
  <2> QED
    BY <2>3, <2>4, <2>5 DEF PoolBoundedByCallers
<1>4. ASSUME NEW u \in Users, CreateFails(u)
      PROVE  PoolBoundedByCallers'
  <2>1. Pooled' \subseteq Pooled /\ Creating' \subseteq Creating
    BY <1>4 DEF CreateFails, Stand, Fresh, Pooled, Creating, ages, open, TypeOK
  <2> QED
    BY <2>1, FewerAreBounded
<1>5. ASSUME NEW u \in Users, ReleaseUnknown(u)
      PROVE  PoolBoundedByCallers'
  <2>1. Pooled' \subseteq Pooled /\ Creating' \subseteq Creating
    BY <1>5 DEF ReleaseUnknown, Stand, Pooled, Creating, ages, open, TypeOK
  <2> QED
    BY <2>1, FewerAreBounded
<1>6. ASSUME NEW u \in Users, Retire(u)
      PROVE  PoolBoundedByCallers'
  <2>1. Pooled' \subseteq Pooled /\ Creating' \subseteq Creating
    BY <1>6
    DEF Retire, Stand, Close, StartsRelease, UsedUp, Pooled, Creating, ages, open,
        TypeOK
  <2> QED
    BY <2>1, FewerAreBounded
<1>7. ASSUME NEW u \in Users, ReturnToFull(u)
      PROVE  PoolBoundedByCallers'
  <2>1. Pooled' \subseteq Pooled /\ Creating' \subseteq Creating
    BY <1>7
    DEF ReturnToFull, Stand, Close, StartsRelease, UsedUp, Available, Pooled,
        Creating, ages, open, TypeOK
  <2> QED
    BY <2>1, FewerAreBounded
<1>8. ASSUME NEW u \in Users, Return(u)
      PROVE  PoolBoundedByCallers'
  <2>1. Pooled' \subseteq Pooled /\ Creating' \subseteq Creating
    BY <1>8
    DEF Return, Stand, StartsRelease, UsedUp, Pooled, Creating, ages, open, TypeOK
  <2> QED
    BY <2>1, FewerAreBounded
<1>9. ASSUME NEW u \in Users, Evicted(u)
      PROVE  PoolBoundedByCallers'
  <2>1. Pooled' \subseteq Pooled /\ Creating' \subseteq Creating
    BY <1>9 DEF Evicted, Stand, Pooled, Creating, ages, open, TypeOK
  <2> QED
    BY <2>1, FewerAreBounded
<1>10. ASSUME NEW u \in Users, Compacted(u)
      PROVE  PoolBoundedByCallers'
  <2>1. Pooled' \subseteq Pooled /\ Creating' \subseteq Creating
    BY <1>10 DEF Compacted, Stand, Pooled, Creating, ages, open, TypeOK
  <2> QED
    BY <2>1, FewerAreBounded
<1>11. ASSUME NEW s \in Sessions, CleansUp(s)
      PROVE  PoolBoundedByCallers'
  <2>1. Pooled' \subseteq Pooled /\ Creating' \subseteq Creating
    BY <1>11 DEF CleansUp, Close, Available, Pooled, Creating, ages, open, TypeOK
  <2> QED
    BY <2>1, FewerAreBounded
<1>12. ASSUME NEW s \in Sessions, BecomesStale(s)
      PROVE  PoolBoundedByCallers'
  <2>1. Pooled' \subseteq Pooled /\ Creating' \subseteq Creating
    BY <1>12 DEF BecomesStale, Pooled, Creating, ages, open, TypeOK
  <2> QED
    BY <2>1, FewerAreBounded
<1>13. ASSUME NEW s \in Sessions, BecomesOld(s)
      PROVE  PoolBoundedByCallers'
  <2>1. Pooled' \subseteq Pooled /\ Creating' \subseteq Creating
    BY <1>13 DEF BecomesOld, Pooled, Creating, ages, open, TypeOK
  <2> QED
    BY <2>1, FewerAreBounded
<1>14. ASSUME NEW s \in Sessions, ServerDeletes(s)
      PROVE  PoolBoundedByCallers'
  <2>1. Pooled' \subseteq Pooled /\ Creating' \subseteq Creating
    BY <1>14 DEF ServerDeletes, Pooled, Creating, ages, open, TypeOK
  <2> QED
    BY <2>1, FewerAreBounded
<1>15. CASE Shutdown
  <2>1. Pooled' \subseteq Pooled /\ Creating' \subseteq Creating
    BY <1>15 DEF Shutdown, Close, Pooled, Creating, ages, open, TypeOK
  <2> QED
    BY <2>1, FewerAreBounded
<1>16. CASE ShutdownEnds
  <2>1. Pooled' \subseteq Pooled /\ Creating' \subseteq Creating
    BY <1>16 DEF ShutdownEnds, Pooled, Creating, ages, open, TypeOK
  <2> QED
    BY <2>1, FewerAreBounded
<1>17. CASE UNCHANGED vars
  BY <1>17 DEF vars, PoolBoundedByCallers, Pooled, Creating
<1> QED
  BY <1>1, <1>2, <1>3, <1>4, <1>5, <1>6, <1>7, <1>8, <1>9,
     <1>10, <1>11, <1>12, <1>13, <1>14, <1>15, <1>16, <1>17 DEF Next

(* The pool never holds or awaits more sessions than it has callers.       *)
THEOREM PoolStaysBounded == Spec => []PoolBoundedByCallers
<1>1. Init => PoolBoundedByCallers
  <2> SUFFICES ASSUME Init PROVE PoolBoundedByCallers
    OBVIOUS
  <2>1. Pooled = {} /\ Creating = {}
    BY DEF Init, Pooled, Creating, Outside
  <2>2. Cardinality(Users) \in Nat
    BY PoolAssumption, FS_CardinalityType
  <2> QED
    BY <2>1, <2>2, FS_EmptySet DEF PoolBoundedByCallers
<1>2. TypeOK /\ PoolInv /\ PoolBoundedByCallers /\ [Next]_vars => PoolBoundedByCallers'
  BY BoundStep
<1> QED
  BY <1>1, <1>2, TypeCorrect, PoolCorrect, PTL DEF Spec
=============================================================================
