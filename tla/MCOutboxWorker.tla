--------------------------- MODULE MCOutboxWorker ---------------------------
(* Instances of OutboxWorker for TLC. *)
EXTENDS OutboxWorker, TLC

CONSTANTS m1, m2, e1, daemon, drain

\* Two rows of one event: a logical replay.
MCEventOf == m1 :> e1 @@ m2 :> e1

\* Equal stamps leave the order of the poll to the database.
MCOneStamp == {1}
MCTwoStamps == 1 .. 2

\* The two rows of one event are interchangeable.
TwinSymmetry == Permutations({m1, m2})
=============================================================================
