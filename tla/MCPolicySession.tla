-------------------------- MODULE MCPolicySession --------------------------
(* Two threads that report images, one media server, a queue for two. *)
EXTENDS PolicySession
=============================================================================
