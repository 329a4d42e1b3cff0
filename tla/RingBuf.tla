------------------------------- MODULE RingBuf -------------------------------
(***************************************************************************)
(* mySystem/ringbuf.hpp: a ring of N bytes between a producer and a        *)
(* consumer task, guarded by a mutex, with an event group on which the two *)
(* sides wait for each other, in-place access to either end, and a clear() *)
(* and a stop signal that other tasks may use at any time.                 *)
(*                                                                         *)
(* One step is one critical section that touches no event, or one call of  *)
(* the event group together with the assignments just before it. Between   *)
(* two steps every other task may run; only the mutex keeps it out.        *)
(***************************************************************************)
EXTENDS Integers, Sequences

CONSTANTS N,                \* the size of the buffer
          Readers, Writers, Controllers,   \* the tasks, by what they call
          Nobody,           \* the value of mutex when it is free
          Calls,            \* which member functions the tasks use
          ReadSizes,        \* sizes that readers ask for
          WriteSizes,       \* sizes that writers ask for
          LeastCommit,      \* the least size a caller commits: 1, or 0
          Timeouts,         \* subset of {"forever", "poll", "timed"}
          Tags              \* bytes are numbered modulo Tags

Tasks == Readers \cup Writers \cup Controllers

Level == {"HasItems", "IsEmpty", "HasSpace"}   \* flags that describe the state
Pulse == {"WriteOp", "ReadOp"}                 \* flags that report an event
Flags == Level \cup Pulse \cup {"Stop"}

AllCalls == {"read", "contigRead", "peek", "write", "getWriteBuf", "abortWrite",
             "clear", "setStop", "clearStop"}

ASSUME RingBufAssumption ==
    /\ N \in Nat \ {0}
    /\ Nobody \notin Tasks
    /\ Calls \subseteq AllCalls
    /\ ReadSizes \subseteq Nat
    /\ WriteSizes \subseteq Nat
    /\ LeastCommit \in {0, 1}
    /\ Timeouts \subseteq {"forever", "poll", "timed"}
    /\ Tags \in Nat \ {0}

VARIABLES wr, rd,           \* mWritePtr and mReadPtr, as offsets from mBuf
          dataSize,         \* mDataSize
          inProgress,       \* mOpInProgress
          mutex,            \* the holder of mMutex, or Nobody
          bits, blocked, ret,      \* mEvents, see EventGroup
          pc, op, need, tmo,       \* per task: where it is, in which call, the
                                   \* size it still has to move, its timeout
          got,              \* per task: the bytes a call has handed to it so far
          mem,              \* the number of the byte in each cell, or Dead
          nextTag,          \* the number of the next byte to be committed
          signalled         \* setStopSignal was called last, not clearStopSignal

INSTANCE EventGroup WITH NeverReset <- {"Stop"}

egVars    == <<bits, blocked, ret>>
ringVars  == <<wr, rd, dataSize, mem, nextTag>>
localVars == <<pc, op, need, tmo, got>>
vars == <<ringVars, inProgress, mutex, egVars, localVars, signalled>>

Dead == Tags          \* a cell whose byte belongs to nobody

PCs == {"idle", "enter", "try", "wait", "woken", "part", "rest", "setEmpty", "setOp",
        "hold", "filled", "peekLock", "peeked", "clearSet", "clearCheck"}

Least(a, b) == IF a <= b THEN a ELSE b
Wrap(p) == IF p = N THEN 0 ELSE p
Slice(p, k) == p .. (p + k - 1)
Bytes(p, k) == [i \in 1 .. k |-> mem[p + i - 1]]
Free == mutex = Nobody

AvailRead ==
    IF wr > rd THEN wr - rd
    ELSE IF rd > wr THEN N - rd
    ELSE IF "HasSpace" \in bits THEN 0
    ELSE N - rd

AvailWrite ==
    IF wr > rd THEN N - wr
    ELSE IF wr < rd THEN rd - wr
    ELSE IF dataSize = 0 THEN N - wr ELSE 0

SpaceOffByOne == N - dataSize + 1
Space == N - dataSize

\* The guard of clear().
BusyNever == FALSE
Busy == inProgress # {}

\* What the commits and doClear() set and clear.
ReadDoneQuiet == {"HasSpace"}
ReadDone == {"ReadOp", "HasSpace"}
WriteDone == {"WriteOp", "HasItems"}
ClearedQuiet == {"HasSpace", "IsEmpty"}
Cleared == {"HasSpace", "IsEmpty", "ReadOp"}
NotEmptyAnyMore(p) == {"IsEmpty"}
WriteClears(p) == {"IsEmpty"} \cup (IF p = rd THEN {"HasSpace"} ELSE {})

DoClear ==
    /\ wr' = 0 /\ rd' = 0 /\ dataSize' = 0
    /\ mem' = [i \in 0 .. N - 1 |-> Dead]
    /\ UNCHANGED nextTag

Init ==
    /\ wr = 0 /\ rd = 0 /\ dataSize = 0
    /\ inProgress = {}
    /\ mutex = Nobody
    /\ EventInit(Cleared)
    /\ pc = [t \in Tasks |-> "idle"]
    /\ op = [t \in Tasks |-> "none"]
    /\ need = [t \in Tasks |-> 0]
    /\ tmo = [t \in Tasks |-> "forever"]
    /\ got = [t \in Tasks |-> <<>>]
    /\ mem = [i \in 0 .. N - 1 |-> Dead]
    /\ nextTag = 0
    /\ signalled = FALSE

-----------------------------------------------------------------------------
\* Moving a task along.

Go(t, where) == /\ pc' = [pc EXCEPT ![t] = where]
                /\ UNCHANGED <<op, need, tmo, got>>

GoNeed(t, where, n) == /\ pc' = [pc EXCEPT ![t] = where]
                       /\ need' = [need EXCEPT ![t] = n]
                       /\ UNCHANGED <<op, tmo, got>>

GoGot(t, where, n, bytes) == /\ pc' = [pc EXCEPT ![t] = where]
                             /\ need' = [need EXCEPT ![t] = n]
                             /\ got' = [got EXCEPT ![t] = bytes]
                             /\ UNCHANGED <<op, tmo>>

Return(t) == /\ pc' = [pc EXCEPT ![t] = "idle"]
             /\ op' = [op EXCEPT ![t] = "none"]
             /\ need' = [need EXCEPT ![t] = 0]
             /\ tmo' = [tmo EXCEPT ![t] = "forever"]
             /\ got' = [got EXCEPT ![t] = <<>>]

Begin(t, call, where, n, w) ==
    /\ call \in Calls
    /\ pc[t] = "idle"
    /\ pc' = [pc EXCEPT ![t] = where]
    /\ op' = [op EXCEPT ![t] = call]
    /\ need' = [need EXCEPT ![t] = n]
    /\ tmo' = [tmo EXCEPT ![t] = w]
    /\ UNCHANGED <<got, ringVars, inProgress, mutex, egVars, signalled>>

At(t, where, call) == pc[t] = where /\ op[t] = call

\* The first statements of a call, up to its first look at the buffer.
CallRead(t)  == \E n \in ReadSizes, w \in Timeouts : Begin(t, "read", "try", n, w)
CallContigRead(t) ==
    \E n \in ReadSizes \ {0}, w \in Timeouts : Begin(t, "contigRead", "try", n, w)
CallPeek(t)  == \E n \in ReadSizes, w \in Timeouts : Begin(t, "peek", "try", n, w)
CallWrite(t) == \E n \in WriteSizes : Begin(t, "write", "try", n, "forever")
CallGetWriteBuf(t) ==
    \E n \in WriteSizes \ {0}, w \in Timeouts : Begin(t, "getWriteBuf", "enter", n, w)
CallClear(t) == Begin(t, "clear", "try", 0, "forever")

-----------------------------------------------------------------------------
\* Waiting: waitAndReset for readers and writers, waitFor for clear().

WaitFlags(t) == IF op[t] = "clear" THEN Pulse
                ELSE IF t \in Readers THEN {"WriteOp"} ELSE {"ReadOp"}
Resets(t) == op[t] # "clear"

Wait(t) ==
    /\ pc[t] = "wait"
    /\ WaitBits(t, Request(WaitFlags(t) \cup {"Stop"}, FALSE, Resets(t)), tmo[t] # "poll")
    /\ Go(t, "woken")
    /\ UNCHANGED <<ringVars, inProgress, mutex, signalled>>

TimeOut(t) ==
    /\ pc[t] = "woken"
    /\ tmo[t] = "timed"
    /\ Expire(t)
    /\ UNCHANGED <<ringVars, inProgress, mutex, localVars, signalled>>

\* What may be left of msTimeout after a wait. read() and contigRead() subtract
\* the whole milliseconds that passed, which may be none. "poll" is less than a
\* tick, for which the kernel does not block; "over" is less than nothing.
TimeLeft(t) ==
    IF op[t] \notin {"read", "contigRead"} \/ tmo[t] = "forever" THEN {tmo[t]}
    ELSE IF tmo[t] = "timed" THEN {"timed", "poll", "over"}
    ELSE {"poll", "over"}

GoOn(t) ==
    \E w \in TimeLeft(t) :
        \/ w = "over" /\ Return(t)
        \/ /\ w # "over"
           /\ pc' = [pc EXCEPT ![t] = "try"]
           /\ tmo' = [tmo EXCEPT ![t] = w]
           /\ UNCHANGED <<op, need, got>>

Woken(t, answer) ==
    /\ pc[t] = "woken"
    /\ ~IsBlocked(t)
    /\ Answer(t, WaitFlags(t)) = answer
    /\ UNCHANGED <<ringVars, inProgress, mutex, signalled>>

\* The kernel cleared Stop for this task; wait() sets it again, and the call
\* returns -1. clear() resets nothing and does not look at the answer.
WokenByStop(t) ==
    /\ Woken(t, "stopped")
    /\ IF Resets(t) THEN Restore(t) /\ Return(t)
                    ELSE Forget(t) /\ Go(t, "try")

WokenByEvent(t) == Woken(t, "event") /\ Forget(t) /\ GoOn(t)

\* contigRead() looks only at what is left of the time, the others give up.
WokenByTimeout(t) ==
    /\ Woken(t, "timeout")
    /\ Forget(t)
    /\ IF op[t] = "contigRead" THEN GoOn(t) ELSE Return(t)

-----------------------------------------------------------------------------
\* Reading.

\* doCommitContigRead up to the first event call
Consume(t, k, bytes) ==
    /\ rd' = Wrap(rd + k)
    /\ dataSize' = dataSize - k
    /\ mem' = [i \in 0 .. N - 1 |-> IF i \in Slice(rd, k) THEN Dead ELSE mem[i]]
    /\ IF wr = rd'
       THEN ClearBits({"HasItems"}) /\ GoGot(t, "setEmpty", need[t] - k, bytes)
       ELSE UNCHANGED egVars /\ GoGot(t, "setOp", need[t] - k, bytes)
    /\ mutex' = t
    /\ UNCHANGED <<wr, nextTag, inProgress, signalled>>

SetIsEmpty(t) ==
    /\ pc[t] = "setEmpty"
    /\ SetBits({"IsEmpty"})
    /\ Go(t, "setOp")
    /\ UNCHANGED <<ringVars, inProgress, mutex, signalled>>

\* The rest of doCommitContigRead, and what its caller does next.
SetReadOp(t) ==
    /\ t \in Readers
    /\ pc[t] = "setOp"
    /\ SetBits(ReadDone)
    /\ \/ /\ op[t] = "read" /\ need[t] > 0
          /\ Go(t, "rest")
          /\ UNCHANGED <<mutex, inProgress>>
       \/ /\ op[t] = "read" /\ need[t] = 0
          /\ Return(t)
          /\ mutex' = Nobody
          /\ UNCHANGED inProgress
       \/ /\ op[t] = "contigRead"
          /\ Return(t)
          /\ mutex' = Nobody
          /\ inProgress' = inProgress \ {"read"}
    /\ UNCHANGED <<ringVars, signalled>>

ReadTry(t) ==
    /\ At(t, "try", "read")
    /\ Free
    /\ IF dataSize >= need[t] THEN Go(t, "part") /\ mutex' = t
                              ELSE Go(t, "wait") /\ UNCHANGED mutex
    /\ UNCHANGED <<ringVars, inProgress, egVars, signalled>>

ReadPart(t) ==
    /\ At(t, "part", "read")
    /\ LET k == Least(need[t], AvailRead) IN Consume(t, k, Bytes(rd, k))

ReadRest(t) ==
    /\ At(t, "rest", "read")
    /\ Consume(t, need[t], got[t] \o Bytes(rd, need[t]))

ContigReadTry(t) ==
    /\ At(t, "try", "contigRead")
    /\ Free
    /\ IF AvailRead < 1
       THEN Go(t, "wait") /\ UNCHANGED inProgress
       ELSE /\ LET k == Least(need[t], AvailRead) IN GoGot(t, "hold", k, Bytes(rd, k))
            /\ inProgress' = inProgress \cup {"read"}
    /\ UNCHANGED <<ringVars, mutex, egVars, signalled>>

CommitContigRead(t) ==
    /\ At(t, "hold", "contigRead")
    /\ Free
    /\ \E k \in LeastCommit .. need[t] : Consume(t, k, <<>>)

\* peek() reads mDataSize without the mutex.
PeekSome(t) == dataSize > 0
PeekEnough(t) == dataSize >= need[t]

PeekTry(t) ==
    /\ At(t, "try", "peek")
    /\ \/ PeekEnough(t) /\ Go(t, "peekLock")
       \/ ~PeekEnough(t) /\ tmo[t] = "poll" /\ Return(t)
       \/ ~PeekEnough(t) /\ Go(t, "wait")
    /\ UNCHANGED <<ringVars, inProgress, mutex, egVars, signalled>>

PeekLock(t) ==
    /\ pc[t] = "peekLock"
    /\ Free
    /\ LET k == Least(need[t], AvailRead)
       IN  GoGot(t, "peeked", need[t], Bytes(rd, k) \o Bytes(0, need[t] - k))
    /\ UNCHANGED <<ringVars, inProgress, mutex, egVars, signalled>>

PeekReturn(t) ==
    /\ pc[t] = "peeked"
    /\ Return(t)
    /\ UNCHANGED <<ringVars, inProgress, mutex, egVars, signalled>>

-----------------------------------------------------------------------------
\* Writing.

Filled(p, k) ==
    [i \in 0 .. N - 1 |-> IF i \in Slice(p, k) THEN (nextTag + i - p) % Tags ELSE mem[i]]

\* commitContigWrite up to its first event call
Produce(t, k) ==
    /\ wr' = Wrap(wr + k)
    /\ dataSize' = dataSize + k
    /\ nextTag' = (nextTag + k) % Tags
    /\ ClearBits(WriteClears(wr'))
    /\ GoNeed(t, "setOp", need[t] - k)
    /\ mutex' = t
    /\ UNCHANGED <<rd, inProgress, signalled>>

SetWriteOp(t) ==
    /\ t \in Writers
    /\ pc[t] = "setOp"
    /\ SetBits(WriteDone)
    /\ \/ /\ op[t] = "write" /\ need[t] > 0
          /\ Go(t, "rest")
          /\ UNCHANGED <<mutex, inProgress>>
       \/ /\ op[t] = "write" /\ need[t] = 0
          /\ Return(t)
          /\ mutex' = Nobody
          /\ UNCHANGED inProgress
       \/ /\ op[t] = "getWriteBuf"
          /\ Return(t)
          /\ mutex' = Nobody
          /\ inProgress' = inProgress \ {"write"}
    /\ UNCHANGED <<ringVars, signalled>>

WriteTry(t) ==
    /\ At(t, "try", "write")
    /\ Free
    /\ IF Space >= need[t] THEN Go(t, "part") /\ mutex' = t
                           ELSE Go(t, "wait") /\ UNCHANGED mutex
    /\ UNCHANGED <<ringVars, inProgress, egVars, signalled>>

\* contigWrite, for the first part and for the one after the wrap
WritePart(t) ==
    /\ pc[t] \in {"part", "rest"}
    /\ op[t] = "write"
    /\ LET k == Least(need[t], AvailWrite)
       IN  mem' = Filled(wr, k) /\ Produce(t, k)

\* The size asked for is clipped to the end of the buffer once, on entry.
GetWriteBufTry(t) ==
    /\ op[t] = "getWriteBuf"
    /\ pc[t] \in {"enter", "try"}
    /\ Free
    /\ LET n == IF pc[t] = "enter" THEN Least(need[t], N - wr) ELSE need[t]
       IN  IF AvailWrite >= n
           THEN /\ GoNeed(t, "hold", AvailWrite)
                /\ inProgress' = inProgress \cup {"write"}
           ELSE GoNeed(t, "wait", n) /\ UNCHANGED inProgress
    /\ UNCHANGED <<ringVars, mutex, egVars, signalled>>

\* The caller fills some of the buffer it was given, without the mutex.
FillWriteBuf(t) ==
    /\ At(t, "hold", "getWriteBuf")
    /\ \E k \in LeastCommit .. need[t] : mem' = Filled(wr, k) /\ GoNeed(t, "filled", k)
    /\ UNCHANGED <<wr, rd, dataSize, nextTag, inProgress, mutex, egVars, signalled>>

CommitWrite(t) ==
    /\ At(t, "filled", "getWriteBuf")
    /\ Free
    /\ Produce(t, need[t])
    /\ UNCHANGED mem

AbortWrite(t) ==
    /\ "abortWrite" \in Calls
    /\ op[t] = "getWriteBuf"
    /\ pc[t] \in {"hold", "filled"}
    /\ Free
    /\ inProgress' = inProgress \ {"write"}
    /\ mem' = [i \in 0 .. N - 1 |-> IF pc[t] = "filled" /\ i \in Slice(wr, need[t])
                                    THEN Dead ELSE mem[i]]
    /\ Return(t)
    /\ UNCHANGED <<wr, rd, dataSize, nextTag, mutex, egVars, signalled>>

-----------------------------------------------------------------------------
\* clear() and the stop signal, from any other task.

ClearTry(t) ==
    /\ At(t, "try", "clear")
    /\ Free
    /\ \/ /\ Busy
          /\ Go(t, "wait")
          /\ UNCHANGED <<ringVars, mutex, egVars>>
       \/ /\ ~Busy
          /\ DoClear
          /\ ClearBits(Flags)
          /\ Go(t, "clearSet")
          /\ mutex' = t
    /\ UNCHANGED <<inProgress, signalled>>

ClearSet(t) ==
    /\ pc[t] = "clearSet"
    /\ SetBits(Cleared)
    /\ Go(t, "clearCheck")
    /\ UNCHANGED <<ringVars, inProgress, mutex, signalled>>

\* The assertion after it is a property, ClearAssertion.
ClearReturn(t) ==
    /\ pc[t] = "clearCheck"
    /\ Return(t)
    /\ mutex' = Nobody
    /\ UNCHANGED <<ringVars, inProgress, egVars, signalled>>

SetStopSignal(t) ==
    /\ "setStop" \in Calls
    /\ pc[t] = "idle"
    /\ SetBits({"Stop"})
    /\ signalled' = TRUE
    /\ UNCHANGED <<ringVars, inProgress, mutex, localVars>>

ClearStopSignal(t) ==
    /\ "clearStop" \in Calls
    /\ pc[t] = "idle"
    /\ ClearBits({"Stop"})
    /\ signalled' = FALSE
    /\ UNCHANGED <<ringVars, inProgress, mutex, localVars>>

-----------------------------------------------------------------------------
Waiting(t) == Wait(t) \/ TimeOut(t) \/ WokenByStop(t) \/ WokenByEvent(t) \/ WokenByTimeout(t)

ReaderStep(t) ==
    \/ Waiting(t)
    \/ ReadTry(t) \/ ReadPart(t) \/ ReadRest(t)
    \/ ContigReadTry(t) \/ CommitContigRead(t)
    \/ SetIsEmpty(t) \/ SetReadOp(t)
    \/ PeekTry(t) \/ PeekLock(t) \/ PeekReturn(t)

WriterStep(t) ==
    \/ Waiting(t)
    \/ WriteTry(t) \/ WritePart(t)
    \/ GetWriteBufTry(t) \/ FillWriteBuf(t) \/ CommitWrite(t)
    \/ SetWriteOp(t)

ControllerStep(t) == Waiting(t) \/ ClearTry(t) \/ ClearSet(t) \/ ClearReturn(t)

ReaderCall(t) == CallRead(t) \/ CallContigRead(t) \/ CallPeek(t)
WriterCall(t) == CallWrite(t) \/ CallGetWriteBuf(t)
ControllerCall(t) == CallClear(t) \/ SetStopSignal(t) \/ ClearStopSignal(t)

Next ==
    \/ \E t \in Readers : ReaderCall(t) \/ ReaderStep(t)
    \/ \E t \in Writers : WriterCall(t) \/ WriterStep(t) \/ AbortWrite(t)
    \/ \E t \in Controllers : ControllerCall(t) \/ ControllerStep(t)

Spec == Init /\ [][Next]_vars

\* The scheduler runs every task that is inside a call. A caller that holds a
\* buffer hands it back. Nobody is obliged to begin a call.
Fairness ==
    /\ \A t \in Readers : WF_vars(ReaderStep(t))
    /\ \A t \in Writers : WF_vars(WriterStep(t) \/ AbortWrite(t))
    /\ \A t \in Controllers : WF_vars(ControllerStep(t))

\* Producer and consumer that never stop calling: the reader, though it may look
\* at the data in between, takes some again and again.
Traffic == /\ \A t \in Readers : SF_vars(CallRead(t) \/ CallContigRead(t))
           /\ \A t \in Writers : WF_vars(WriterCall(t))

FairSpec == Spec /\ Fairness
-----------------------------------------------------------------------------
\* Properties. The runs and the theorems that check them are in the README.

\* Every variable has its type.
TypeOK ==
    /\ wr \in 0 .. N - 1 /\ rd \in 0 .. N - 1
    /\ dataSize \in 0 .. N
    /\ inProgress \subseteq {"read", "write"}
    /\ mutex \in Tasks \cup {Nobody}
    /\ EventTypeOK(Flags)
    /\ pc \in [Tasks -> PCs]
    /\ op \in [Tasks -> AllCalls \cup {"none"}]
    /\ need \in [Tasks -> Nat]
    /\ tmo \in [Tasks -> {"forever", "poll", "timed"}]
    /\ got \in [Tasks -> Seq(0 .. Tags)]
    /\ mem \in [0 .. N - 1 -> 0 .. Tags]
    /\ nextTag \in 0 .. Tags - 1
    /\ signalled \in BOOLEAN

\* The two offsets and the byte count, three variables that commitContigWrite,
\* doCommitContigRead and doClear update separately, always describe one ring.
RingShape ==
    /\ wr = rd => dataSize \in {0, N}
    /\ wr > rd => dataSize = wr - rd
    /\ wr < rd => dataSize = N - rd + wr

\* Whenever the mutex is free the three level flags say what the byte count
\* says. availableForContigRead() tells full from empty by such a flag, and
\* waitForItems(), waitForEmpty() and hasData() look at nothing else.
FlagsTellTheTruth ==
    Free => /\ "HasSpace" \in bits <=> dataSize < N
            /\ "HasItems" \in bits <=> dataSize > 0
            /\ "IsEmpty" \in bits <=> dataSize = 0

\* The assertions of doCommitContigRead, commitContigWrite and write(): what a
\* task is about to commit, which it measured at an earlier step, still fits,
\* whatever the other side and clear() did since.
CommitsFit ==
    \A t \in Tasks :
        /\ At(t, "rest", "read") \/ At(t, "hold", "contigRead") => need[t] <= AvailRead
        /\ At(t, "rest", "write") => need[t] <= AvailWrite
        /\ At(t, "hold", "getWriteBuf") \/ At(t, "filled", "getWriteBuf")
               => need[t] <= AvailWrite

\* First in, first out: the cells that hold data hold the last dataSize bytes
\* that were committed, in the order they were committed.
InOrder ==
    \A i \in 0 .. dataSize - 1 :
        mem[(rd + i) % N] = (nextTag - dataSize + i) % Tags

\* What would let task t go on, in the terms of the call it is in.
CanGoOn(t) ==
    CASE op[t] \in {"read", "peek"} -> dataSize >= need[t]
      [] op[t] = "contigRead"       -> dataSize > 0
      [] op[t] = "write"            -> Space >= need[t]
      [] op[t] = "getWriteBuf"      -> AvailWrite >= need[t]
      [] OTHER                      -> inProgress = {}

\* No lost wake-up: a reader or writer looks at the buffer under the mutex but
\* goes to sleep after releasing it, on a flag that clear() wipes and that each
\* wait resets. Still, with one reader and one writer, neither is ever asleep,
\* mutex free, while what it waits for is there.
NoLostWakeup ==
    Free => \A t \in Readers \cup Writers : IsBlocked(t) => ~CanGoOn(t)

\* A buffer handed out by contigRead or getWriteBuf stays where it is and, for
\* a reader, keeps its bytes, until its holder gives it back: the other side
\* and clear() leave it alone.
HeldBufferStable ==
    [][\A t \in Tasks :
         pc[t] \in {"hold", "filled"} /\ pc'[t] \in {"hold", "filled"} =>
            /\ t \in Readers => /\ rd' = rd
                                /\ \A i \in Slice(rd, need[t]) : mem'[i] = mem[i]
            /\ t \in Writers => wr' = wr]_vars

\* As long as the stop signal is on, nobody is asleep: a wait that takes the
\* flag away from the others puts it back, and those that fell asleep in
\* between are woken by that.
RestorePending == \E t \in Tasks : "Stop" \in ret[t]
StopReachesAll ==
    signalled /\ ~RestorePending => "Stop" \in bits /\ \A t \in Tasks : ~IsBlocked(t)

\* What read() copies in one or two parts, what contigRead() gives access to
\* and what peek() copies after a look at the byte count without the mutex, is
\* the oldest data there is, without a gap, for as long as the caller has it.
GotInOrder ==
    \A t \in Readers :
        LET taken == IF op[t] = "read" THEN Len(got[t]) ELSE 0
        IN  \A i \in 1 .. Len(got[t]) :
                got[t][i] = (nextTag - dataSize - taken + i - 1) % Tags

\* If consumer and producer keep calling, each call ends, unless a caller asks
\* for more than can ever be there.
CallsReturn ==
    Traffic => \A t \in Readers \cup Writers : pc[t] # "idle" ~> pc[t] = "idle"

\* A stop signal that stays on reaches every reader and writer that waits, also
\* when several wait and each of them clears the flag, and ends the call, though
\* nobody else calls anything any more (eventGroup.hpp:15-26, waitable.hpp).
StopEndsWaits ==
    \A t \in Readers \cup Writers :
        (pc[t] \in {"wait", "woken"} /\ signalled) ~> (pc[t] = "idle" \/ ~signalled)

\* ringbuf.hpp:160, a wait answers "-1 if stop was signalled": once the signal
\* was taken back, and no wait that saw it is still to put it back, it is off.
StopStaysCleared == ~signalled /\ ~RestorePending => "Stop" \notin bits

\* ringbuf.hpp:112, the assertion that ends doClear().
ClearAssertion ==
    \A t \in Controllers :
        pc[t] = "clearCheck" => bits = {"HasSpace", "IsEmpty", "ReadOp"}

\* ringbuf.hpp:144, clear() "wait[s] for its completion": once no operation is
\* in progress any more, a clear() that was waiting for that ends.
ClearEnds ==
    \A t \in Controllers : (op[t] = "clear" /\ [](inProgress = {})) ~> pc[t] = "idle"

\* ringbuf.hpp:198, contigRead "blocks until data becomes available": what it
\* hands out is data.
ContigReadGivesData ==
    \A t \in Readers : At(t, "hold", "contigRead") => need[t] <= dataSize

\* ringbuf.hpp:201, contigRead with a timeout returns.
TimedCallsReturn ==
    \A t \in Readers :
        (op[t] = "contigRead" /\ tmo[t] # "forever") ~> pc[t] \in {"idle", "hold"}
=============================================================================
