-------------------------- MODULE ParameterRegister --------------------------
(***************************************************************************)
(* What storing the parameters promises: a register of one version.        *)
(* Versions are handed in one after the other; one is stored in one step,  *)
(* or never; what is stored is made durable later.  A power loss takes     *)
(* back what is not durable, and nothing else changes what is stored.      *)
(***************************************************************************)
EXTENDS Integers

VARIABLES
  saved,   \* the last version handed in
  stored,  \* the version that the register holds
  kept     \* the last version made durable

vars == <<saved, stored, kept>>

Init == saved = 0 /\ stored = 0 /\ kept = 0

Save == saved' = saved + 1 /\ UNCHANGED <<stored, kept>>

Store == stored' \in stored + 1 .. saved /\ UNCHANGED <<saved, kept>>

Keep == kept' = stored /\ UNCHANGED <<saved, stored>>

TakeBack == stored' \in kept .. stored /\ UNCHANGED <<saved, kept>>

Next == Save \/ Store \/ Keep \/ TakeBack

Spec == Init /\ [][Next]_vars
=============================================================================
