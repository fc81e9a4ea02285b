------------------------------ MODULE Rejection ------------------------------
(***************************************************************************)
(* What grouping images into packets and kicking promise to the line: an   *)
(* image is in one packet; a packet ends once; it is rejected only for a   *)
(* defect, and with a defect it ends otherwise only if it lacks images of  *)
(* cameras that are on line.  Images and packets are known by their names: *)
(* the promise does not hold of an image whose name was given twice, and a *)
(* packet is lost to one that begins in the same millisecond.              *)
(***************************************************************************)
EXTENDS Integers, FiniteSets, Sequences

VARIABLES
  open,      \* packets that have not ended: their images, and the defective ones
  rejected,  \* the same of the packets rejected, oldest first
  cameras,   \* input: how many images a packet should have
  clock,     \* input: the time
  reused     \* input: images whose name was given to another image before

vars == <<open, rejected>>

Init == open = << >> /\ rejected = << >>

InUse == UNION ({open[o].images : o \in DOMAIN open}
                  \cup {rejected[k].images : k \in DOMAIN rejected})

(* An image arrives: it joins a packet, or a new packet begins with it, under
   the name of no other open packet unless that began in this millisecond. *)
Join(o, i) ==
  /\ o \in DOMAIN open
  /\ open' = [open EXCEPT ![o].images = @ \cup {i}]

Begin(o, i) ==
  /\ o \notin DOMAIN open \/ o = clock
  /\ open' = [p \in DOMAIN open \cup {o} |->
                IF p = o THEN [images |-> {i}, defects |-> {}] ELSE open[p]]

Arrive ==
  /\ \E o \in DOMAIN open' : \E i \in open'[o].images \ (InUse \ reused) :
       Join(o, i) \/ Begin(o, i)
  /\ UNCHANGED rejected

(* A defect is found; only a second image of the same name takes it back. *)
FindDefect ==
  /\ \E o \in DOMAIN open : \E i \in open[o].images :
       \/ open' = [open EXCEPT ![o].defects = @ \cup {i}]
       \/ i \in reused /\ open' = [open EXCEPT ![o].defects = @ \ {i}]
  /\ UNCHANGED rejected

End(o) == open' = [p \in DOMAIN open \ {o} |-> open[p]]

(* A packet ends with the defects it has, or with one more result. *)
AtTheEnd(o) ==
  LET D == open[o].defects IN
  {D} \cup {D \cup {i} : i \in open[o].images}
      \cup {D \ {i} : i \in open[o].images \cap reused}

Reject(o) ==
  /\ End(o)
  /\ \E D \in AtTheEnd(o) \ {{}} :
       rejected' = Append(rejected, [images |-> open[o].images, defects |-> D])

Pass(o) ==
  /\ End(o)
  /\ {} \notin AtTheEnd(o) => Cardinality(open[o].images) < cameras
  /\ UNCHANGED rejected

Next == Arrive \/ FindDefect \/ \E o \in DOMAIN open : Reject(o) \/ Pass(o)

Spec == Init /\ [][Next]_vars
=============================================================================
