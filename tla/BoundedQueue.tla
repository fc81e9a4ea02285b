---------------------------- MODULE BoundedQueue ----------------------------
(***************************************************************************)
(* What a queue between threads promises: items leave in the order in      *)
(* which they came, each once, and no more than Capacity wait.             *)
(***************************************************************************)
EXTENDS Integers, Sequences

CONSTANTS
  Items,     \* what may be queued
  Capacity   \* how many may wait

VARIABLE items  \* the items that wait, oldest first

Init == items = << >>

Put(x) == Len(items) < Capacity /\ items' = Append(items, x)

Take == items # << >> /\ items' = Tail(items)

Next == Take \/ \E x \in Items : Put(x)

Spec == Init /\ [][Next]_items
=============================================================================
