----------------------------- MODULE AIConstants -----------------------------
(* The constants of an AI channel, for AICtrl and its instances. *)
EXTENDS Integers, FiniteSets, Sequences

CONSTANTS
  Cameras,       \* ids of all the real cameras
  CameraIdList,  \* m_cameraIdList: the cameras of this channel, in order
  Batch,         \* m_Batch: does the model inspect several images at once?
  MaxInterval,   \* imageMaxInterval(): age at which a group is given up
  Objects,       \* names of packets
  MaxImages,     \* bound: images taken
  MaxFlaps,      \* bound: cameras connecting or disconnecting
  MaxSwitches,   \* bound: changes of the run type
  MaxOperations  \* bound: operations of the policy store

ASSUME AIConstantsOK ==
  /\ Cameras \subseteq Nat /\ IsFiniteSet(Cameras)
  /\ CameraIdList \in Seq(Cameras) \ {<< >>}
  /\ Batch \in BOOLEAN /\ MaxInterval \in Nat
  /\ MaxImages \in Nat /\ MaxFlaps \in Nat /\ MaxSwitches \in Nat
  /\ MaxOperations \in Nat
=============================================================================
