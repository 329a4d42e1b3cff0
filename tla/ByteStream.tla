----------------------------- MODULE ByteStream -----------------------------
(***************************************************************************)
(* What a RingBuf promises: a bounded first-in-first-out stream of bytes   *)
(* on which a write of k bytes and a read of k bytes each happen at once   *)
(* or not at all, and that can be emptied. The bytes are numbered in the   *)
(* order they are written, modulo Tags.                                    *)
(***************************************************************************)
EXTENDS Integers, Sequences

CONSTANTS Capacity, Tags

VARIABLES stream, next

Numbered(k) == [i \in 1 .. k |-> (next + i - 1) % Tags]

Init == stream = <<>> /\ next = 0

Write(k) ==
    /\ Len(stream) + k <= Capacity
    /\ stream' = stream \o Numbered(k)
    /\ next' = (next + k) % Tags

Read(k) ==
    /\ k <= Len(stream)
    /\ stream' = SubSeq(stream, k + 1, Len(stream))
    /\ UNCHANGED next

Clear == stream' = <<>> /\ UNCHANGED next

Next == (\E k \in 1 .. Capacity : Write(k) \/ Read(k)) \/ Clear

Spec == Init /\ [][Next]_<<stream, next>>
=============================================================================
