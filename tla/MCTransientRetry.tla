-------------------------- MODULE MCTransientRetry --------------------------
(* Instances of TransientRetry for TLC. *)
EXTENDS TransientRetry, TLC

CONSTANTS e1, e2, note, daemon, drain

\* Two observations of one note: the keys they can collide on.
MCNoteOf == e1 :> note @@ e2 :> note
=============================================================================
