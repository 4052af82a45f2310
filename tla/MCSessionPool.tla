--------------------------- MODULE MCSessionPool ---------------------------
(* Instances of SessionPool for TLC.                                       *)
EXTENDS SessionPool, TLC

CONSTANTS u1, u2, u3, s1, s2, s3, s4

PoolSymmetry == Permutations(Users) \cup Permutations(Sessions)
=============================================================================
