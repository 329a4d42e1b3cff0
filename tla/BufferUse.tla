------------------------------ MODULE BufferUse ------------------------------
(***************************************************************************)
(* A DynBuffer and a SparseBuf in use: their callers call any operation in *)
(* any order, as often as they like. `text`, `ended` and `put` are what    *)
(* the callers know: the text they put in, whether the last of them asked  *)
(* for an end, and the bytes they put into the chunks. Neither class has a *)
(* lock: a step is a whole call.                                           *)
(***************************************************************************)
EXTENDS Buffers

CONSTANTS Bytes,        \* the bytes of a text
          MaxPiece,     \* how many of them one call adds at most
          MaxText,      \* bound on the text
          Reserves,     \* the sizes that are reserved
          MaxAlloc      \* bound on the size that is allocated in chunks

BufferAssumption == kChunkSize \in Nat \ {0} /\ Bytes \subseteq 1 .. 255 /\ Reserves \subseteq Nat

VARIABLES buf,          \* a DynBuffer
          text, ended,  \* what was put into it, and whether it has an end
          sparse,       \* a SparseBuf
          put           \* what was put into that

bufVars == <<buf, text, ended>>
sparseVars == <<sparse, put>>

Init ==
    /\ buf = Empty /\ text = <<>> /\ ended = FALSE
    /\ sparse = NoChunks /\ put = <<>>

Pieces == SeqOf(Bytes, MaxPiece)
Grows(t) == Len(text) + Len(t) <= MaxText /\ text' = text \o t

\* An end alone is asked for only where there is none: a second one would follow.
AppendStr(t, terminate) ==
    /\ t = <<>> /\ terminate => ~ended
    /\ Grows(t)
    /\ buf' = appendStr(buf, t, terminate)
    /\ ended' = IF t = <<>> /\ ~terminate THEN ended ELSE terminate

\* append, appendChar, appendVal: what has an end goes on behind it, so that texts
\* are not put together this way.
AppendBytes(t) == ~ended /\ Grows(t) /\ buf' = append(buf, t) /\ UNCHANGED ended

Printf(t) == Grows(t) /\ buf' = vprintf(buf, t) /\ ended' = TRUE

NullTerminate == buf' = nullTerminate(buf) /\ ended' = TRUE /\ UNCHANGED text

Reserve == \E size \in Reserves : buf' = reserve(buf, size) /\ UNCHANGED <<text, ended>>

\* The end is one of the characters that are cut off.
TruncateChar(num) ==
    LET left == Max({0, Len(text) + (IF ended THEN 1 ELSE 0) - num})
    IN  /\ buf' = truncateChar(buf, num)
        /\ text' = IF left > Len(text) THEN text ELSE SubSeq(text, 1, left)
        /\ ended' = (left > Len(text))

Clear == buf' = clear(buf) /\ text' = <<>> /\ ended' = FALSE

\* freeBuf; and release, after which the caller owns the memory.
FreeBuf == buf' = Empty /\ text' = <<>> /\ ended' = FALSE

TextStep ==
    /\ \/ \E t \in Pieces, terminate \in BOOLEAN : AppendStr(t, terminate)
       \/ \E t \in Pieces : AppendBytes(t)
       \/ \E t \in Pieces : Printf(t)
       \/ NullTerminate
       \/ Reserve
       \/ \E num \in 1 .. 2 : TruncateChar(num)
       \/ Clear
       \/ FreeBuf
    /\ UNCHANGED sparseVars
-----------------------------------------------------------------------------
AllocAndClear == \E size \in 0 .. MaxAlloc, enoughMemory \in BOOLEAN :
    sparse' = allocAndClear(sparse, size, enoughMemory) /\ put' = <<>>

\* The caller of appendPtr has put what no longer is to be put.
WritePiece(bytes) ==
    LET done == FillPiece([buf |-> sparse, bytes |-> bytes])
    IN  /\ sparse' = done.buf
        /\ put' = put \o SubSeq(bytes, 1, Len(bytes) - Len(done.bytes))

\* append is called at the start of a chunk only, with what fits into two.
AppendAtStart(bytes) ==
    LET fits == Len(put) + Len(bytes) <= sparse.bufSize
    IN  /\ sparse.dataSize % kChunkSize = 0
        /\ fits => AppendIsInside(sparse, bytes)
        /\ sparse' = AppendToChunks(sparse, bytes)
        /\ put' = IF fits THEN put \o bytes ELSE put

ClearChunks == sparse' = [sparse EXCEPT !.dataSize = 0] /\ put' = <<>>
FreeChunks == sparse' = NoChunks /\ put' = <<>>

ChunkStep ==
    /\ \/ AllocAndClear
       \/ \E bytes \in SeqOf(Bytes \cup {0}, MaxPiece) : WritePiece(bytes)
       \/ \E bytes \in SeqOf(Bytes \cup {0}, MaxPiece) : AppendAtStart(bytes)
       \/ ClearChunks
       \/ FreeChunks
    /\ UNCHANGED bufVars
-----------------------------------------------------------------------------
Printable == 32 .. 126 \ {92}

\* The text that was put together, once and in order, with one end if one was
\* asked for, in the memory that there is; and printed as it is.
TextHeld ==
    /\ buf.data = IF ended THEN text \o <<0>> ELSE text
    /\ Len(buf.data) <= buf.bufSize
    /\ text # <<>> /\ ~ended /\ (\A i \in DOMAIN text : text[i] \in Printable) => toString(buf) = text \o <<0>>

\* What is hashed of the chunks is what was put into them.
ChunksHeld ==
    /\ calculateHash(sparse) = put
    /\ Len(put) = sparse.dataSize /\ sparse.dataSize <= sparse.bufSize

Held == TextHeld /\ ChunksHeld
=============================================================================
