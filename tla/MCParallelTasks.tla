-------------------------- MODULE MCParallelTasks --------------------------
(* Instances of ParallelTasks for TLC.                                     *)
EXTENDS ParallelTasks, TLC

CONSTANTS t1, t2, t3

(* The second task comes to wait for the only slot while the first one is  *)
(* prompted for the first time, and is followed until it has the slot or   *)
(* gives up.                                                               *)
SecondWaits ==
  t2 \in Tasks /\ status[t2] # "none" =>
    /\ exec[t1] = "prompting" /\ attempt[t1] = 1 /\ limit = 1
    /\ t2 \notin holders /\ exec[t2] \in {"prepared", "acquiring", "failing"}
    /\ idleChecks[t2] = 0 /\ cancelling[t2] = 0 /\ status[t2] = "PENDING"

TaskSymmetry == Permutations(Tasks)
=============================================================================
