------------------------------ MODULE Answering ------------------------------
(***************************************************************************)
(* What a part of the program that inspects images promises to the part    *)
(* that handed them over: it answers nothing but what it was asked, and    *)
(* nothing twice.  Several images may be answered together.                *)
(***************************************************************************)
EXTENDS Integers, Sequences

VARIABLES
  asked,    \* the images handed over
  answered  \* the images answered, oldest first

vars == <<asked, answered>>

Init == asked = {} /\ answered = << >>

Ask == asked \subseteq asked' /\ UNCHANGED answered

(* Is entry k an image that was asked for, and no other entry's? *)
IsOwn(k, entries) ==
  /\ entries[k] \in asked
  /\ \A j \in DOMAIN entries : entries[j] = entries[k] => j = k

Answer ==
  /\ DOMAIN answered \subseteq DOMAIN answered'
  /\ \A k \in DOMAIN answered : answered'[k] = answered[k]
  /\ \A k \in DOMAIN answered' \ DOMAIN answered : IsOwn(k, answered')
  /\ UNCHANGED asked

Next == Ask \/ Answer

Spec == Init /\ [][Next]_vars
=============================================================================
