--------------------------- MODULE MCPacketResult ---------------------------
(* Model-checking instance of PacketResult: two cameras, of which the second
   is compensated by one millisecond into the past. *)
EXTENDS PacketResult

MCCompensation == [c \in Cameras |-> IF c = 1 THEN 0 ELSE -1]

=============================================================================
