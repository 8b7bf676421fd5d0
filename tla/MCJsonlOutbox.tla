---------------------------- MODULE MCJsonlOutbox ----------------------------
(* Instances of JsonlOutbox for TLC. *)
EXTENDS JsonlOutbox, TLC

CONSTANTS w1, w2

WriterSymmetry == Permutations({w1, w2})
=============================================================================
