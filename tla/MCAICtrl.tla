------------------------------ MODULE MCAICtrl ------------------------------
(* Model-checking instance of AICtrl: cameras 1 and 3 belong to the channel;
   camera 2 does not, but its id lies between theirs, so that it counts as one of
   the channel's cameras when it is on line. *)
EXTENDS AIChannel

MCCameraIdList == <<1, 3>>

=============================================================================
