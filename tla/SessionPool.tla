---------------------------- MODULE SessionPool ----------------------------
(***************************************************************************)
(* The sessions SessionPool (core/agents/session-pool.ts) keeps for one    *)
(* agent.  The pool keys its sessions by agent and no operation touches    *)
(* two agents, save cleanup() and shutdown(), which treat each session     *)
(* alone.  A method runs without interruption between its awaits, for      *)
(* OpenCode to create, compact or delete a session.                        *)
(***************************************************************************)
EXTENDS Integers, FiniteSets

CONSTANTS
  Users,           \* callers of acquire(), each of which releases once per use
  Sessions,        \* session ids; OpenCode gives one that is not in use
  NoSession,
  MaxPool,         \* maxPoolSizePerAgent
  MaxReuse,        \* maxReuseCount
  ReleasesLate     \* does a user always release after 2 * idleTimeoutMs?

ASSUME PoolAssumption ==
  /\ IsFiniteSet(Users) /\ IsFiniteSet(Sessions) /\ NoSession \notin Sessions
  /\ MaxPool \in Nat \ {0} /\ MaxReuse \in Nat
  /\ ReleasesLate \in BOOLEAN

VARIABLES
  place,     \* a session's place in the pool's maps
  reuse,     \* reuseCount
  stale,     \* sessions whose lastUsedAt is idleTimeoutMs ago
  old,       \* sessions whose createdAt is 2 * idleTimeoutMs ago
  server,    \* the sessions that exist in OpenCode
  lost,      \* those it has, and nobody knows of: created after the 60s
             \* timeout of their call, or their deletion failed
  deleting,  \* those whose deletion OpenCode has been asked for
  user,      \* where each caller stands
  shut       \* shutdown(): not called, awaiting deletions, or over

ages == <<stale, old>>
open == <<server, lost>>
vars == <<place, reuse, ages, open, deleting, user, shut>>

Outside == [at |-> "outside", session |-> NoSession]
Stand(u, where, s) == user' = [user EXCEPT ![u] = [at |-> where, session |-> s]]

Available == { s \in Sessions : place[s] = "available" }
Pooled    == { s \in Sessions : place[s] # "absent" }
Releasing == { u \in Users : user[u].at \in {"evicting", "compacting"} }
Creating  == { u \in Users : user[u].at = "creating" }
Holding   == { u \in Users : user[u].at = "using" } \cup Releasing

Init ==
  /\ place = [s \in Sessions |-> "absent"]
  /\ reuse = [s \in Sessions |-> 0]
  /\ stale = {} /\ old = {} /\ server = {} /\ lost = {}
  /\ deleting = {}
  /\ user = [u \in Users |-> Outside]
  /\ shut = "no"

-----------------------------------------------------------------------------
(* acquire(): an available session at once, else a new one.                *)

(* Mutant of Reusable: inUse is not looked at.                             *)
ReusableInUse == { s \in Pooled : reuse[s] < MaxReuse }

Reusable == { s \in Available : reuse[s] < MaxReuse }

Reuse(u) ==
  /\ user[u].at = "outside"
  /\ \E s \in Reusable :
       /\ place' = [place EXCEPT ![s] = "inUse"]
       /\ reuse' = [reuse EXCEPT ![s] = @ + 1]
       /\ stale' = stale \ {s}
       /\ Stand(u, "using", s)
  /\ UNCHANGED <<old, open, deleting, shut>>

AskForSession(u) ==
  /\ user[u].at = "outside" /\ Reusable = {}
  /\ Stand(u, "creating", NoSession)
  /\ UNCHANGED <<place, reuse, ages, open, deleting, shut>>

Fresh(s) ==
  place[s] = "absent" /\ s \notin server /\ \A u \in Users : user[u].session # s

Created(u) ==
  /\ user[u].at = "creating"
  /\ \E s \in Sessions :
       /\ Fresh(s)
       /\ server' = server \cup {s}
       /\ place' = [place EXCEPT ![s] = "inUse"]
       /\ reuse' = [reuse EXCEPT ![s] = 0]
       /\ stale' = stale \ {s} /\ old' = old \ {s}
       /\ Stand(u, "using", s)
  /\ UNCHANGED <<lost, deleting, shut>>

(* The caller gets an error; a late answer leaves a session nobody knows.  *)
CreateFails(u) ==
  /\ user[u].at = "creating"
  /\ Stand(u, "outside", NoSession)
  /\ \/ UNCHANGED open
     \/ \E s \in Sessions :
          /\ Fresh(s)
          /\ server' = server \cup {s}
          /\ lost' = lost \cup {s}
  /\ UNCHANGED <<place, reuse, ages, deleting, shut>>

-----------------------------------------------------------------------------
(* deleteSession(): out of the maps at once, then out of OpenCode.         *)

(* Mutant of Close: the maps forget a session OpenCode keeps.              *)
CloseInMapsOnly(S) ==
  /\ place' = [s \in Sessions |-> IF s \in S THEN "absent" ELSE place[s]]
  /\ UNCHANGED deleting

Close(S) ==
  /\ place' = [s \in Sessions |-> IF s \in S THEN "absent" ELSE place[s]]
  /\ deleting' = deleting \cup S

(* The answer is awaited, but whether the deletion failed is not looked at. *)
ServerDeletes(s) ==
  /\ s \in deleting
  /\ deleting' = deleting \ {s}
  /\ \/ server' = server \ {s} /\ UNCHANGED lost
     \/ lost' = lost \cup {s} /\ UNCHANGED server
  /\ UNCHANGED <<place, reuse, ages, user, shut>>

(* release()                                                               *)

(* Mutant of UsedUp: a session that cannot be reused goes back to the pool. *)
UsedUpTooLate(s) == reuse[s] > MaxReuse \/ s \in old

UsedUp(s) == reuse[s] >= MaxReuse \/ s \in old

ReleaseUnknown(u) ==
  /\ user[u].at = "using" /\ user[u].session \notin Pooled
  /\ Stand(u, "outside", NoSession)
  /\ UNCHANGED <<place, reuse, ages, open, deleting, shut>>

StartsRelease(u, s) ==
  /\ user[u] = [at |-> "using", session |-> s]
  /\ s \in Pooled
  /\ ReleasesLate => s \in old

Retire(u) ==
  /\ \E s \in Sessions : StartsRelease(u, s) /\ UsedUp(s) /\ Close({s})
  /\ Stand(u, "outside", NoSession)
  /\ UNCHANGED <<reuse, ages, open, shut>>

ReturnToFull(u) ==
  /\ Cardinality(Available) >= MaxPool
  /\ \E s \in Sessions :
       /\ StartsRelease(u, s) /\ ~UsedUp(s)
       /\ Stand(u, "evicting", s)
  /\ \E oldest \in Available : Close({oldest})
  /\ UNCHANGED <<reuse, ages, open, shut>>

Return(u) ==
  /\ Cardinality(Available) < MaxPool
  /\ \E s \in Sessions :
       /\ StartsRelease(u, s) /\ ~UsedUp(s)
       /\ Stand(u, "compacting", s)
  /\ UNCHANGED <<place, reuse, ages, open, deleting, shut>>

Evicted(u) ==
  /\ user[u].at = "evicting"
  /\ Stand(u, "compacting", user[u].session)
  /\ UNCHANGED <<place, reuse, ages, open, deleting, shut>>

(* Whether or not the compaction succeeds the session is available; one    *)
(* that left the maps meanwhile stays out.                                 *)
Compacted(u) ==
  LET s == user[u].session
  IN  /\ user[u].at = "compacting"
      /\ place' = [place EXCEPT ![s] = IF @ = "absent" THEN @ ELSE "available"]
      /\ Stand(u, "outside", NoSession)
  /\ UNCHANGED <<reuse, ages, open, deleting, shut>>

-----------------------------------------------------------------------------
(* cleanup(), every minute; it awaits each deletion before it looks at the *)
(* next session.                                                           *)
CleansUp(s) ==
  /\ s \in Available /\ s \in stale
  /\ Close({s})
  /\ UNCHANGED <<reuse, ages, open, user, shut>>

BecomesStale(s) ==
  /\ s \in Pooled \ stale
  /\ stale' = stale \cup {s}
  /\ UNCHANGED <<place, reuse, old, open, deleting, user, shut>>

BecomesOld(s) ==
  /\ s \in Pooled \ old
  /\ old' = old \cup {s}
  /\ UNCHANGED <<place, reuse, stale, open, deleting, user, shut>>

(* shutdown(): every deletion is asked for, and when they have come back   *)
(* the maps are emptied, whatever was added to them meanwhile.             *)
Shutdown ==
  /\ shut = "no"
  /\ shut' = "closing"
  /\ Close(Pooled)
  /\ UNCHANGED <<reuse, ages, open, user>>

ShutdownEnds ==
  /\ shut = "closing"
  /\ shut' = "over"
  /\ place' = [s \in Sessions |-> "absent"]
  /\ UNCHANGED <<reuse, ages, open, deleting, user>>

Next ==
  \/ \E u \in Users : Reuse(u) \/ AskForSession(u) \/ Created(u) \/ CreateFails(u)
  \/ \E u \in Users : ReleaseUnknown(u) \/ Retire(u) \/ ReturnToFull(u) \/ Return(u)
  \/ \E u \in Users : Evicted(u) \/ Compacted(u)
  \/ \E s \in Sessions : CleansUp(s) \/ BecomesStale(s) \/ BecomesOld(s) \/ ServerDeletes(s)
  \/ Shutdown \/ ShutdownEnds

Spec == Init /\ [][Next]_vars

-----------------------------------------------------------------------------
TypeOK ==
  /\ place \in [Sessions -> {"absent", "inUse", "available"}]
  /\ reuse \in [Sessions -> 0 .. MaxReuse]
  /\ stale \in SUBSET Sessions /\ old \in SUBSET Sessions
  /\ server \in SUBSET Sessions /\ lost \in SUBSET Sessions
  /\ deleting \in SUBSET Sessions
  /\ user \in [Users -> [at : {"outside", "creating", "using", "evicting", "compacting"},
                         session : Sessions \cup {NoSession}]]
  /\ shut \in {"no", "closing", "over"}

NoSharedSession ==
  \A u, v \in Holding : user[u].session = user[v].session => u = v

InUseStaysOpen ==
  \A u \in Holding : shut = "no" =>
    /\ place[user[u].session] = "inUse"
    /\ user[u].session \in server \ deleting

InUseHasUser ==
  \A s \in Sessions : place[s] = "inUse" => \E u \in Holding : user[u].session = s

(* Though releases, evictions and cleanups of other callers overlap with   *)
(* every release that awaits, two callers never work in one session;       *)
(* before a shutdown, what a caller works in is marked in use and not      *)
(* deleted under it; and every session marked in use has a caller that     *)
(* will release it.                                                        *)
OneCallerPerSession == NoSharedSession /\ InUseStaysOpen /\ InUseHasUser

(* Until a shutdown is over, what OpenCode keeps is in the pool or its     *)
(* deletion has been asked for: forgotten are only the sessions that came  *)
(* after their caller was told it failed and those whose deletion failed,  *)
(* which deleteSession() ignores and never asks for again.                 *)
SessionsAccounted ==
  shut # "over" => server \subseteq Pooled \cup deleting \cup lost

(* Releases that overlap overshoot maxPoolSizePerAgent, and calls that ask *)
(* at once create more sessions than they need; what bounds the pool all   *)
(* the same is that a session is only created when none can be reused, and *)
(* that release() retires all that could not be: it never holds or awaits  *)
(* more sessions than it has callers.                                      *)
PoolBoundedByCallers ==
  Cardinality(Pooled) + Cardinality(Creating) <= Cardinality(Users)

(* "Release a session back to the pool for reuse": a release keeps it      *)
(* unless it was reused often enough.                                      *)
ReleaseKeepsSession ==
  [][\A u \in Users, s \in Sessions :
       user[u] = [at |-> "using", session |-> s] /\ user'[u] # user[u]
         => place'[s] # "absent" \/ reuse[s] >= MaxReuse]_vars
=============================================================================
