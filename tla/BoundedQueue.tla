---------------------------- MODULE BoundedQueue -----------------------------
(***************************************************************************)
(* What RingQueue promises: a first-in-first-out queue of at most N items. *)
(***************************************************************************)
EXTENDS Naturals, Sequences

CONSTANTS N, Values
VARIABLE items

Init == items = <<>>

Put(v) == Len(items) < N /\ items' = Append(items, v)
Take   == items # <<>> /\ items' = Tail(items)
Drop   == items' = <<>>

Next == Take \/ Drop \/ \E v \in Values : Put(v)

Spec == Init /\ [][Next]_items
=============================================================================
