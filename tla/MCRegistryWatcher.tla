-------------------------- MODULE MCRegistryWatcher --------------------------
(* Instances of RegistryWatcher for TLC. *)
EXTENDS RegistryWatcher
=============================================================================
