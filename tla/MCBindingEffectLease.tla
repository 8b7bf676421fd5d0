------------------------ MODULE MCBindingEffectLease ------------------------
(* Instances of BindingEffectLease for TLC. *)
EXTENDS BindingEffectLease
=============================================================================
