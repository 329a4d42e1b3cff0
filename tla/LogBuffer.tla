------------------------------ MODULE LogBuffer ------------------------------
(***************************************************************************)
(* logbuf/logBuf.hpp, logbuf/logBuf.cpp: the last lines of a log, within   *)
(* a limit on their total size and one on their number. The lines are kept *)
(* in a vector that grows while it can and is used as a ring after that.   *)
(* Indexes are the code's: cell i is lines[i + 1]. The caller holds        *)
(* LogBuffer::mutex, so a step is a part of one call and no other call     *)
(* comes between.                                                          *)
(***************************************************************************)
EXTENDS Integers, Sequences

CONSTANTS MaxDataSize,      \* mMaxDataSize
          MaxLineCount,     \* mMaxLineCount
          Sizes,            \* sizes of lines
          Ids,              \* lines are numbered modulo Ids
          Calls,            \* {"clear"} if clear() is used, or {}
          Nothing           \* a cell without a line, and no call in progress

LogBufferAssumption ==
    /\ MaxDataSize \in Nat /\ MaxLineCount \in Nat \ {0}
    /\ Sizes \subseteq Nat \ {0}
    /\ Ids \in Nat \ {0}
    /\ Nothing \notin [id : 0 .. Ids - 1, size : Sizes]

VARIABLES lines,            \* mLines
          start, end,       \* mStart, mEnd
          dataSize,         \* mDataSize
          adding,           \* the line of the addLine() in progress, or Nothing
          nextId            \* the number of the next line

vars == <<lines, start, end, dataSize, adding, nextId>>

Line == [id : 0 .. Ids - 1, size : Sizes]
Count == Len(lines)
Cell(i) == lines[i + 1]
Past(i) == IF i + 1 >= Count THEN 0 ELSE i + 1

Init ==
    /\ lines = <<>>
    /\ start = -1 /\ end = 0
    /\ dataSize = 0
    /\ adding = Nothing
    /\ nextId = 0

-----------------------------------------------------------------------------
\* addLine

Begin ==
    /\ adding = Nothing
    /\ \E s \in Sizes : adding' = [id |-> nextId, size |-> s]
    /\ UNCHANGED <<lines, start, end, dataSize, nextId>>

SizeOf(line) == IF line = Nothing THEN 0 ELSE line.size
FreedLate(line) == 0
Freed(line) == SizeOf(line)
Fits == dataSize + adding.size <= MaxDataSize

\* deleteFirstLine, which also makes an empty log of one that it emptied
AfterFirst ==
    IF Past(start) = end THEN start' = -1 /\ end' = 0
                         ELSE start' = Past(start) /\ UNCHANGED end

\* One turn of the loop that makes room.
MakeRoom ==
    /\ adding # Nothing /\ ~Fits
    /\ start >= 0
    /\ dataSize' = dataSize - Freed(Cell(start))
    /\ lines' = [lines EXCEPT ![start + 1] = Nothing]
    /\ AfterFirst
    /\ UNCHANGED <<adding, nextId>>

\* On an empty log deleteFirstLine frees nothing, and the loop goes on for ever.
Spin ==
    /\ adding # Nothing /\ ~Fits
    /\ start < 0
    /\ UNCHANGED vars

Ready == adding # Nothing /\ Fits

Added ==
    /\ adding' = Nothing
    /\ nextId' = (nextId + 1) % Ids

\* The ring is full and begins at cell 0: the vector may grow at its end.
CanGrowAnywhere == start = end /\ Count < MaxLineCount
CanGrow == start = 0 /\ end = 0 /\ Count < MaxLineCount

Grow ==
    /\ Ready
    /\ CanGrow
    /\ lines' = Append(lines, adding)
    /\ dataSize' = dataSize + adding.size
    /\ Added
    /\ UNCHANGED <<start, end>>

\* The log is empty: cell 0 gets the line, and mEnd stays where it is.
Bootstrap ==
    /\ Ready
    /\ start < 0
    /\ start' = 0
    /\ lines' = IF lines = <<>> THEN <<adding>> ELSE [lines EXCEPT ![1] = adding]
    /\ dataSize' = dataSize + adding.size
    /\ Added
    /\ UNCHANGED end

\* Full and not growing: the oldest line makes place for the new one. When it
\* was the only one, deleteFirstLine has set mStart to -1, where it remains.
Replace ==
    /\ Ready
    /\ ~CanGrow
    /\ start >= 0 /\ start = end
    /\ lines' = [lines EXCEPT ![start + 1] = adding]
    /\ dataSize' = dataSize - Freed(Cell(start)) + adding.size
    /\ start' = IF Past(start) = end THEN -1 ELSE Past(start)
    /\ end' = Past(end)
    /\ Added

\* There is a free cell after the last line.
Use ==
    /\ Ready
    /\ start >= 0 /\ start # end
    /\ lines' = [lines EXCEPT ![end + 1] = adding]
    /\ dataSize' = dataSize + adding.size
    /\ end' = Past(end)
    /\ Added
    /\ UNCHANGED start

\* clear() does not touch mDataSize.
Clear ==
    /\ "clear" \in Calls
    /\ adding = Nothing
    /\ lines' = <<>>
    /\ start' = -1 /\ end' = 0
    /\ UNCHANGED <<dataSize, adding, nextId>>

AddLine == MakeRoom \/ Spin \/ Grow \/ Bootstrap \/ Replace \/ Use
Next == Begin \/ AddLine \/ Clear

Spec == Init /\ [][Next]_vars
FairSpec == Spec /\ WF_vars(AddLine)
-----------------------------------------------------------------------------
\* The cells that iterate() visits, and what it finds there, in its order.
Visited ==
    IF start < 0 THEN {}
    ELSE IF start < end THEN start .. end - 1
    ELSE (start .. Count - 1) \cup (0 .. end - 1)

Contents ==
    IF start < 0 THEN <<>>
    ELSE IF start < end THEN SubSeq(lines, start + 1, end)
    ELSE SubSeq(lines, start + 1, Count) \o SubSeq(lines, 1, end)

\* Every variable has its type.
TypeOK ==
    /\ lines \in Seq(Line \cup {Nothing})
    /\ Count <= MaxLineCount
    /\ start \in -1 .. Count - 1 \/ (start = -1 /\ Count = 0)
    /\ end \in 0 .. MaxLineCount
    /\ dataSize \in 0 .. MaxDataSize
    /\ adding \in Line \cup {Nothing}
    /\ nextId \in 0 .. Ids - 1

\* iterate() never meets a cell that was freed, and no cell outside its range
\* still owns memory.
NoHoles == \A i \in 0 .. Count - 1 : Cell(i) # Nothing <=> i \in Visited

\* mDataSize, which is kept up to date line by line, is the size of the lines
\* that are there.
Total[k \in 0 .. Count] == IF k = 0 THEN 0 ELSE Total[k - 1] + SizeOf(lines[k])
SizeIsSum == dataSize = Total[Count]

\* After a clear() mDataSize may be too large but is never too small, so the
\* lines never take more than the limit.
LimitKept == Total[Count] <= dataSize /\ dataSize <= MaxDataSize

\* What is there are the newest lines, without a gap, in order, across growth,
\* wrapping, the removal of old lines for either limit, and clear(): each line is
\* followed by the one that was added next, and the last one is the newest.
NewestKept ==
    \A i \in 1 .. Len(Contents) :
        LET later == {j \in i + 1 .. Len(Contents) : Contents[j] # Nothing}
            next == (Contents[i].id + 1) % Ids
        IN  Contents[i] # Nothing =>
                \/ later = {} /\ nextId = next
                \/ \E j \in later : (\A k \in later : j <= k) /\ Contents[j].id = next

\* addLine() returns.
AddReturns == adding # Nothing ~> adding = Nothing

\* logBuf.hpp:57, "mStart == mEnd -> wrapped, list is full".
FullIsFull == start = end => \A i \in 1 .. Count : lines[i] # Nothing

\* logBuf.hpp:53, mStart is "-1 if empty" (and only then).
EmptyIsEmpty == start = -1 => \A i \in 1 .. Count : lines[i] = Nothing
=============================================================================
