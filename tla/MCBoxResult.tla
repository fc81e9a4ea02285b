----------------------------- MODULE MCBoxResult -----------------------------
(* Model-checking instance of BoxResult. *)
EXTENDS BoxResult

=============================================================================
