----------------------------- MODULE MCIoBoard -----------------------------
(* A board that starts late and restarts once. *)
EXTENDS IoBoard
=============================================================================
