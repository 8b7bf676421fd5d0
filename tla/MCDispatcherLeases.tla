------------------------- MODULE MCDispatcherLeases -------------------------
(* Instances of DispatcherLeases for TLC. *)
EXTENDS DispatcherLeases, TLC

CONSTANTS a1, a2, t1

Symmetry == Permutations(Agent)
=============================================================================
