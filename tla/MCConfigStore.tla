---------------------------- MODULE MCConfigStore ----------------------------
(* Model-checking instance of ConfigStore. *)
EXTENDS ConfigStore

=============================================================================
