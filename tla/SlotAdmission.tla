--------------------------- MODULE SlotAdmission ---------------------------
(***************************************************************************)
(* What the concurrency controller promises of one key to callers that     *)
(* give every slot back exactly once: a call enters while a slot is free   *)
(* and waits otherwise; a slot given back while calls wait passes to one   *)
(* of them in the same step; the capacity may change at any time, and a    *)
(* lowered one takes effect on the calls that come after it.               *)
(***************************************************************************)
EXTENDS Naturals, FiniteSets

CONSTANT Callers

VARIABLES
  holders,   \* the calls that have a slot
  waiting,   \* the calls that wait for one
  capacity

vars == <<holders, waiting, capacity>>

Init ==
  /\ holders = {}
  /\ waiting = {}
  /\ capacity \in Nat \ {0}

Outside(c) == c \notin holders \cup waiting

Enter(c) ==
  /\ Outside(c)
  /\ Cardinality(holders) < capacity
  /\ holders' = holders \cup {c}
  /\ UNCHANGED <<waiting, capacity>>

Wait(c) ==
  /\ Outside(c)
  /\ Cardinality(holders) >= capacity
  /\ waiting' = waiting \cup {c}
  /\ UNCHANGED <<holders, capacity>>

GiveUp(c) ==
  /\ c \in waiting
  /\ waiting' = waiting \ {c}
  /\ UNCHANGED <<holders, capacity>>

Leave(c) ==
  /\ c \in holders
  /\ waiting = {}
  /\ holders' = holders \ {c}
  /\ UNCHANGED <<waiting, capacity>>

HandOver(c, w) ==
  /\ c \in holders
  /\ w \in waiting
  /\ holders' = (holders \ {c}) \cup {w}
  /\ waiting' = waiting \ {w}
  /\ UNCHANGED capacity

Resize ==
  /\ capacity' \in Nat \ {0}
  /\ UNCHANGED <<holders, waiting>>

Next ==
  \/ \E c \in Callers : Enter(c) \/ Wait(c) \/ GiveUp(c) \/ Leave(c)
  \/ \E c, w \in Callers : HandOver(c, w)
  \/ Resize

Spec == Init /\ [][Next]_vars
=============================================================================
