---------------------- MODULE MCConcurrencyController ----------------------
(* Instances of ConcurrencyController for TLC.                             *)
EXTENDS ConcurrencyController

CONSTANTS c1, c2, c3, c4

CallerSymmetry == Permutations(Callers)
=============================================================================
