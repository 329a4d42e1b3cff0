------------------------------ MODULE MCRingBuf ------------------------------
(***************************************************************************)
(* RingBuf implements ByteStream. read() and write() move their bytes in   *)
(* two parts when these wrap around, but under one lock of the mutex: the  *)
(* whole call happens, for ByteStream, with its first part, and until it   *)
(* ends the mapping counts the rest as moved already.                      *)
(***************************************************************************)
EXTENDS RingBuf

\* What the call that holds the mutex still owes the stream.
Owes(call) ==
    IF /\ mutex # Nobody
       /\ op[mutex] = call
       /\ pc[mutex] \in {"setEmpty", "setOp", "rest"}
    THEN need[mutex] ELSE 0

stream ==
    [i \in 1 .. dataSize + Owes("write") - Owes("read") |->
        LET j == i - 1 + Owes("read")
        IN  IF j < dataSize THEN mem[(rd + j) % N] ELSE (nextTag + j - dataSize) % Tags]

Stream == INSTANCE ByteStream
            WITH Capacity <- N, next <- (nextTag + Owes("write")) % Tags

\* Every step of the ring buffer is a whole write, a whole read, a clear, or
\* invisible: no byte is lost, doubled or reordered by wrapping around, by the
\* in-place calls, or by tasks that come in between two of the steps.
ImplementsByteStream == Stream!Spec

=============================================================================
