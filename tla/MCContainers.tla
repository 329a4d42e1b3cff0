---------------------------- MODULE MCContainers ----------------------------
(***************************************************************************)
(* The sequential containers, RingQueue, LogBuffer, DynBuffer and          *)
(* SparseBuf, and the conversion of numbers to text, in one model. They    *)
(* have nothing to do with each other: each behaviour is about one of      *)
(* them, its subject, and the others stay as they were. "log" and          *)
(* "logClear" are the log without and with calls of clear().               *)
(***************************************************************************)
EXTENDS RingQueue, NumberText

CONSTANTS MaxDataSize, MaxLineCount, Sizes, Ids, Calls,
          kChunkSize, Bytes, MaxPiece, MaxText, Reserves, MaxAlloc

VARIABLES lines, logStart, logEnd, dataSize, adding, nextId, subject,
          buf, text, ended, sparse, put

logVars == <<lines, logStart, logEnd, dataSize, adding, nextId>>

Log == INSTANCE LogBuffer WITH start <- logStart, end <- logEnd

Buf == INSTANCE BufferUse
useVars == <<buf, text, ended, sparse, put>>
mcVars == <<vars, logVars, useVars, written, subject>>

Formats == {{}, {"DontNullTerminate"}}
MCConversions ==
    [int |-> [size : 1 .. 12, val : {-12, -1, 0, 1, 9, 10, 171}, base : {2, 8, 10, 16}, flags : Flags,
              minDigits : {0, 3}, minLen : {0, 6}],
     float |-> [size : 0 .. 10, num : -21 .. 21 \cup 185 .. 201, prec : {1, 2}, flags : Formats,
                minDigits : {0, 2}, minLen : {0, 6}],
     inf |-> [size : 0 .. 6, negative : BOOLEAN, flags : Formats],
     text |-> [size : 0 .. 4, val : UNION {[1 .. n -> {97, 98}] : n \in 0 .. 3}, flags : Formats]]

ASSUME LogAssumption == Log!LogBufferAssumption
ASSUME UseAssumption == Buf!BufferAssumption

MCInit ==
    /\ Init
    /\ Log!Init
    /\ Buf!Init
    /\ NumberInit
    /\ subject \in {"queue", "log", "logClear", "text", "chunks", "number"}

IsLog == subject \in {"log", "logClear"}

QueueStep == subject = "queue" /\ Next /\ UNCHANGED <<logVars, useVars, written, subject>>
AddLine == IsLog /\ Log!AddLine /\ UNCHANGED <<vars, useVars, written, subject>>
BeginAddLine == IsLog /\ Log!Begin /\ UNCHANGED <<vars, useVars, written, subject>>
ClearLog == subject = "logClear" /\ Log!Clear /\ UNCHANGED <<vars, useVars, written, subject>>
TextStep == subject = "text" /\ Buf!TextStep /\ UNCHANGED <<vars, logVars, written, subject>>
ChunkStep == subject = "chunks" /\ Buf!ChunkStep /\ UNCHANGED <<vars, logVars, written, subject>>
NumberStep == subject = "number" /\ NumberNext /\ UNCHANGED <<vars, logVars, useVars, subject>>

MCNext == QueueStep \/ AddLine \/ BeginAddLine \/ ClearLog \/ TextStep \/ ChunkStep \/ NumberStep

\* A call of addLine() that has begun goes on: the caller holds the mutex.
MCSpec ==
    /\ MCInit /\ [][MCNext]_mcVars
    /\ WF_mcVars(AddLine)
-----------------------------------------------------------------------------
\* iterate() never meets a line that was freed, and no cell outside its range
\* still owns memory (logBuf.hpp:70). For lines of at most half the limit and
\* without clear(): otherwise the list may be emptied to make room, and then
\* LogBuffer!FullIsFull and this do not hold.
LogNoHoles == subject = "log" => Log!NoHoles

\* mDataSize is the size of the lines that are there (logBuf.cpp:4-69), as
\* long as clear(), which forgets to reset it, is not called.
LogSizeIsSum == subject = "log" => Log!SizeIsSum

\* With and without clear(), the lines never take more than the limit.
LogLimitKept == Log!LimitKept

\* With and without clear(), the lines that are there are the newest ones, in
\* order and without a gap.
LogNewestKept == Log!NewestKept

\* What a reader of the log finds: the newest lines, without holes, of the counted
\* size and within the limit.
LogKept == LogNoHoles /\ LogSizeIsSum /\ LogLimitKept /\ LogNewestKept

\* addLine() returns when no clear() has left mDataSize too large.
LogAddReturns == subject = "log" => Log!AddReturns
\* What was put into a buffer piece by piece is in it, whole, in order and with at
\* most one end, however often the buffer grew or was cut, and however the pieces
\* crossed the chunks, were written over older ones or found no memory
\* (buffer.hpp, sparseBuf.hpp).
BuffersHold == Buf!Held
=============================================================================
