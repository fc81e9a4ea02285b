---------------------------- MODULE MCSpotCheck ----------------------------
(* Instance of SpotCheck for TLC. *)
EXTENDS SpotCheck
=============================================================================
