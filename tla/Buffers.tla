------------------------------- MODULE Buffers -------------------------------
(***************************************************************************)
(* The growing buffer DynBuffer (mySystem/buffer.hpp), used to put a text  *)
(* together, and the buffer in chunks SparseBuf (mySystem/sparseBuf.hpp).  *)
(* A DynBuffer is mBufSize and the mDataSize bytes that are in use; the    *)
(* memory for it never fails (the code aborts). A byte is a number, and 0  *)
(* ends a text.                                                            *)
(***************************************************************************)
EXTENDS Integers, Sequences, SequencesExt, FiniteSetsExt

CONSTANT kChunkSize

Empty == [bufSize |-> 0, data |-> <<>>]

reserve(buf, newSize) == [buf EXCEPT !.bufSize = Max({@, newSize})]
ensureFreeSpace(buf, amount) == reserve(buf, Len(buf.data) + amount)
\* resize: what was not in use before is unspecified, and 0 here.
resize(buf, size) ==
    [reserve(buf, size) EXCEPT !.data = [i \in 1 .. size |-> IF i \in DOMAIN @ THEN @[i] ELSE 0]]
append(buf, bytes) ==
    [ensureFreeSpace(buf, Len(bytes)) EXCEPT !.data = @ \o bytes]

clear(buf) == [buf EXCEPT !.data = <<>>]
truncateChar(buf, num) == [buf EXCEPT !.data = SubSeq(@, 1, Max({0, Len(@) - num}))]

Ended(buf) == buf.data # <<>> /\ Last(buf.data) = 0
Reopen(buf) == IF Ended(buf) THEN [buf EXCEPT !.data = Front(@)] ELSE buf
KeepEnd(buf) == buf
Open(buf) == Reopen(buf)

nullTerminate(buf) == IF Ended(buf) THEN buf ELSE append(buf, <<0>>)

\* An empty text is not appended, but ends what is there, even if it has an end.
appendStr(buf, text, terminate) ==
    IF text = <<>> THEN IF terminate THEN append(buf, <<0>>) ELSE buf
    ELSE append(Open(buf), IF terminate THEN text \o <<0>> ELSE text)

\* vprintf: what fits is written first, and if that was not all, all of it once
\* more with as much room as it needs.
vprintf(buf, text) ==
    LET open == Open(buf)
        writeSize == open.bufSize - Len(open.data)
    IN  append(IF Len(text) < writeSize THEN open ELSE ensureFreeSpace(open, Len(text) + 1), text \o <<0>>)

\* toString: printable characters, and all others as a backslash, 92, and their
\* number, which stands for its hexadecimal digits here; and the end.
toString(buf) ==
    LET Shown(byte) == IF byte \in 32 .. 126 \ {92} THEN <<byte>> ELSE <<92, byte>>
    IN  IF buf.data = <<>> THEN <<>> ELSE FlattenSeq([i \in DOMAIN buf.data |-> Shown(buf.data[i])]) \o <<0>>
-----------------------------------------------------------------------------
\* SparseBuf: the chunks, each of kChunkSize cells, and dataSize. Memory that was
\* not written since it was allocated is 0.

NoChunks == [chunks |-> <<>>, bufSize |-> 0, dataSize |-> 0]
Chunk == [i \in 0 .. kChunkSize - 1 |-> 0]

\* Existing chunks are kept, also more than are needed now.
allocAndClear(buf, size, enoughMemory) ==
    LET nChunks == (size + kChunkSize - 1) \div kChunkSize
        diff == nChunks - Len(buf.chunks)
    IN  IF diff <= 0 THEN [buf EXCEPT !.dataSize = 0]
        ELSE IF ~enoughMemory THEN NoChunks
        ELSE [chunks |-> buf.chunks \o [i \in 1 .. diff |-> Chunk],
              bufSize |-> nChunks * kChunkSize, dataSize |-> 0]

\* appendPtr returns where to write and how much of it there is room for up to the
\* end of the chunk: the caller writes there, adds to dataSize and asks again.
appendPtr(size, ofs) == Min({size, kChunkSize - ofs})

\* Writing from here on, byte after byte, up to the end of the chunk's memory.
WriteTo(buf, chunk, ofs, bytes) ==
    [buf EXCEPT !.chunks[chunk] =
        [i \in DOMAIN @ |-> IF i - ofs + 1 \in DOMAIN bytes THEN bytes[i - ofs + 1] ELSE @[i]]]

FillPiece(todo) ==
    LET lastChunk == todo.buf.dataSize \div kChunkSize
        ofs == todo.buf.dataSize % kChunkSize
        size == appendPtr(Len(todo.bytes), ofs)
        written == WriteTo(todo.buf, lastChunk + 1, ofs, SubSeq(todo.bytes, 1, size))
    IN  IF todo.bytes = <<>> \/ lastChunk >= Len(todo.buf.chunks) THEN todo
        ELSE [buf |-> [written EXCEPT !.dataSize = @ + size],
              bytes |-> SubSeq(todo.bytes, size + 1, Len(todo.bytes))]

\* append, where it stays inside the chunks: the chunk is found by rounding up, so
\* that what is appended inside a chunk goes to the next one.
AppendIsInside(buf, bytes) ==
    LET lastChunk == (buf.dataSize + kChunkSize - 1) \div kChunkSize
        rest == Len(bytes) - (kChunkSize - (buf.dataSize % kChunkSize))
    IN  lastChunk < Len(buf.chunks) /\ (rest > 0 => lastChunk + 1 < Len(buf.chunks) /\ rest <= kChunkSize)

AppendToChunks(buf, bytes) ==
    LET lastChunk == (buf.dataSize + kChunkSize - 1) \div kChunkSize + 1
        ofs == buf.dataSize % kChunkSize
        writeSize == appendPtr(Len(bytes), ofs)
        first == WriteTo(buf, lastChunk, ofs, SubSeq(bytes, 1, writeSize))
        both == IF writeSize < Len(bytes)
                THEN WriteTo(first, lastChunk + 1, 0, SubSeq(bytes, writeSize + 1, Len(bytes))) ELSE first
    IN  IF buf.dataSize + Len(bytes) > buf.bufSize THEN buf
        ELSE [both EXCEPT !.dataSize = @ + Len(bytes)]

\* The bytes that calculateHash takes, chunk after chunk.
Hashed(buf, chunk) ==
    LET remain == Max({0, buf.dataSize - (chunk - 1) * kChunkSize})
    IN  [i \in 1 .. Min({remain, kChunkSize}) |-> buf.chunks[chunk][i - 1]]
calculateHash(buf) == FlattenSeq([chunk \in DOMAIN buf.chunks |-> Hashed(buf, chunk)])
=============================================================================
