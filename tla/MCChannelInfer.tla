--------------------------- MODULE MCChannelInfer ---------------------------
(* A default locator and another one, two detectors, a pool of one thread. *)
EXTENDS ChannelInfer
=============================================================================
