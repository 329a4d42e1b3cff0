---------------------------- MODULE RingBufProofs ----------------------------
(***************************************************************************)
(* What holds of RingBuf for every size of the buffer, every set of        *)
(* requests and any number of controllers, given one reader and one        *)
(* writer: the type invariant, the shape of the ring, the truth of the     *)
(* level flags, the assertions of the commits, buffers that are out, and   *)
(* that nobody sleeps through what it waits for.                           *)
(***************************************************************************)
EXTENDS RingBuf, TLAPS

\* How the code uses the class: a consumer task, a producer task and others;
\* nobody asks for, or commits, nothing.
Usage ==
    /\ \A a, b \in Readers : a = b
    /\ \A a, b \in Writers : a = b
    /\ Readers \cap Writers = {}
    /\ Readers \cap Controllers = {}
    /\ Writers \cap Controllers = {}
    /\ 0 \notin ReadSizes
    /\ 0 \notin WriteSizes
    /\ LeastCommit = 1

-----------------------------------------------------------------------------
\* The inductive invariant.

\* Only pulses and the stop flag are waited for.
BlockedOK == \A t \in Tasks : blocked[t].for \subseteq Pulse \cup {"Stop"}

\* A task is where the member function it is in can be.
Roles ==
    /\ \A t \in Tasks :
         /\ pc[t] \in {"hold", "part", "rest", "setEmpty", "setOp", "filled", "peekLock",
                       "peeked"} => t \in Readers \cup Writers
         /\ pc[t] \in {"clearSet", "clearCheck"} => t \in Controllers
    /\ \A t \in Readers :
         /\ op[t] \in {"read", "contigRead", "peek", "none"}
         /\ pc[t] \in {"part", "rest"} => op[t] = "read"
         /\ pc[t] = "hold" => op[t] = "contigRead"
         /\ pc[t] \in {"setEmpty", "setOp"} => op[t] \in {"read", "contigRead"}
         /\ pc[t] \in {"peekLock", "peeked"} => op[t] = "peek"
         /\ pc[t] # "filled"
    /\ \A t \in Writers :
         /\ op[t] \in {"write", "getWriteBuf", "none"}
         /\ pc[t] \in {"part", "rest"} => op[t] = "write"
         /\ pc[t] \in {"hold", "filled"} => op[t] = "getWriteBuf"
         /\ pc[t] = "setOp" => op[t] \in {"write", "getWriteBuf"}
         /\ pc[t] \notin {"setEmpty", "peekLock", "peeked"}
    /\ \A t \in Controllers : op[t] \in {"clear", "none"}

\* The mutex is held exactly in the critical sections that take several steps.
Critical == {"part", "rest", "setEmpty", "setOp", "clearSet", "clearCheck"}
Owner == \A t \in Tasks : pc[t] \in Critical <=> mutex = t

\* A buffer that is handed out is on record in mOpInProgress.
Recorded ==
    \A t \in Tasks : pc[t] \in {"hold", "filled"} =>
        /\ t \in Readers => "read" \in inProgress
        /\ t \in Writers => "write" \in inProgress

\* The level flags, between critical sections and at each point inside them.
Truth ==
    /\ "HasSpace" \in bits <=> dataSize < N
    /\ "HasItems" \in bits <=> dataSize > 0
    /\ "IsEmpty" \in bits <=> dataSize = 0

Levels ==
    /\ Free => Truth
    /\ \A t \in Tasks : pc[t] \in {"part", "rest", "clearCheck"} => Truth
    /\ \A t \in Readers :
         /\ pc[t] = "setEmpty" => dataSize = 0 /\ "HasItems" \notin bits
         /\ pc[t] = "setOp" => /\ dataSize < N
                               /\ "HasItems" \in bits <=> dataSize > 0
                               /\ "IsEmpty" \in bits <=> dataSize = 0
    /\ \A t \in Writers :
         pc[t] = "setOp" => /\ dataSize > 0
                            /\ "IsEmpty" \notin bits
                            /\ "HasSpace" \in bits <=> dataSize < N
    /\ \A t \in Controllers :
         pc[t] = "clearSet" => wr = 0 /\ rd = 0 /\ dataSize = 0 /\ bits \cap Level = {}

\* What a task still has to move, or may commit, is there.
Sizes ==
    /\ \A t \in Readers :
         /\ op[t] # "none" /\ pc[t] \in {"try", "wait", "woken", "part"} => need[t] > 0
         /\ pc[t] = "part" => need[t] <= dataSize
         /\ op[t] = "read" /\ pc[t] \in {"setEmpty", "setOp", "rest"}
              => need[t] <= dataSize /\ dataSize < N /\ (need[t] > 0 => rd = 0)
         /\ pc[t] = "rest" => need[t] > 0
         /\ pc[t] = "peekLock" => need[t] <= N
         /\ pc[t] = "hold" => need[t] > 0 /\ need[t] <= dataSize /\ rd + need[t] <= N
    /\ \A t \in Writers :
         /\ op[t] # "none" /\ pc[t] \in {"try", "enter", "wait", "woken", "part"} => need[t] > 0
         /\ pc[t] = "part" => need[t] <= Space
         /\ op[t] = "write" /\ pc[t] \in {"setOp", "rest"}
              => need[t] <= Space /\ (need[t] > 0 => wr = 0)
         /\ pc[t] = "rest" => need[t] > 0
         /\ pc[t] \in {"hold", "filled"}
              => need[t] > 0 /\ need[t] <= Space /\ wr + need[t] <= N

IInv == TypeOK /\ BlockedOK /\ Roles /\ Owner /\ Recorded /\ RingShape /\ Levels /\ Sizes
-----------------------------------------------------------------------------
\* Lemmas about the operators of the model.

\* A remainder is in range.
LEMMA Modulo == ASSUME NEW x \in Int, NEW m \in Nat \ {0} PROVE x % m \in 0 .. m - 1
  OBVIOUS

\* setBits keeps the types, and sets level flags without clearing any.
LEMMA SetBitsEffect ==
  ASSUME EventTypeOK(Flags), BlockedOK, NEW f \in SUBSET Flags, NEW base,
         base \in [Tasks -> SUBSET Flags], SetBitsOver(f, base)
  PROVE  /\ EventTypeOK(Flags)'
         /\ BlockedOK'
         /\ \A x \in Level : x \in bits' <=> x \in bits \cup f
<1> DEFINE now == bits \cup f
           woken == {t \in Tasks : IsBlocked(t) /\ Met(now, blocked[t])}
           spent == UNION {blocked[t].for : t \in {u \in woken : blocked[u].reset}}
<1>1. bits' = now \ spent
  BY DEF SetBitsOver
<1>2. ret' = [t \in Tasks |-> IF t \in woken THEN now ELSE base[t]]
  BY DEF SetBitsOver
<1>3. blocked' = [t \in Tasks |-> IF t \in woken THEN NoWait ELSE blocked[t]]
  BY DEF SetBitsOver
<1>4. spent \subseteq Pulse \cup {"Stop"}
  BY DEF BlockedOK
<1>. QED
  BY <1>1, <1>2, <1>3, <1>4
     DEF EventTypeOK, BlockedOK, Level, Pulse, Flags, NoWait, Request

\* A wait keeps the types and, resetting pulses and the stop flag only, leaves
\* the level flags alone.
LEMMA WaitBitsEffect ==
  ASSUME EventTypeOK(Flags), BlockedOK, NEW t \in Tasks, NEW b \in BOOLEAN, NEW r \in BOOLEAN,
         NEW f \in SUBSET (Pulse \cup {"Stop"}), WaitBits(t, Request(f, FALSE, r), b)
  PROVE  /\ EventTypeOK(Flags)'
         /\ BlockedOK'
         /\ \A x \in Level : x \in bits' <=> x \in bits
<1> DEFINE q == Request(f, FALSE, r)
<1>1. /\ q.for = f /\ q.reset = r
      /\ q \in [for : SUBSET Flags, all : BOOLEAN, reset : BOOLEAN]
  BY DEF Request, Flags
<1>2. WaitBits(t, q, b)
  OBVIOUS
<1>. HIDE DEF q
<1>3. CASE Met(bits, q)
  <2>1. /\ ret' = [ret EXCEPT ![t] = bits]
        /\ bits' = IF r THEN bits \ f ELSE bits
        /\ blocked' = blocked
    BY <1>1, <1>2, <1>3 DEF WaitBits
  <2>. QED BY <2>1 DEF EventTypeOK, BlockedOK, Level, Pulse
<1>4. CASE ~Met(bits, q)
  <2>1. /\ bits' = bits
        /\ \/ blocked' = [blocked EXCEPT ![t] = q] /\ ret' = ret
           \/ ret' = [ret EXCEPT ![t] = bits] /\ blocked' = blocked
    BY <1>2, <1>4 DEF WaitBits
  <2>2. CASE blocked' = [blocked EXCEPT ![t] = q] /\ ret' = ret
    BY <1>1, <2>1, <2>2 DEF EventTypeOK, BlockedOK
  <2>3. CASE ret' = [ret EXCEPT ![t] = bits] /\ blocked' = blocked
    BY <2>1, <2>3 DEF EventTypeOK, BlockedOK
  <2>. QED BY <2>1, <2>2, <2>3
<1>. QED BY <1>3, <1>4

\* The bytes from one end of the ring to the other are bytes.
LEMMA BytesType ==
  ASSUME RingBufAssumption, mem \in [0 .. N - 1 -> 0 .. Tags],
         NEW p \in Nat, NEW k \in Nat, p + k <= N
  PROVE  Bytes(p, k) \in Seq(0 .. Tags)
<1>1. \A i \in 1 .. k : mem[p + i - 1] \in 0 .. Tags
  BY DEF RingBufAssumption
<1>. QED BY <1>1 DEF Bytes

\* In a ring in shape whose flag is right, what can be read in one piece is all
\* there is, or what there is up to the end of the buffer.
LEMMA AvailReadIs ==
  ASSUME TypeOK, RingShape, RingBufAssumption,
         wr = rd => ("HasSpace" \in bits <=> dataSize < N)
  PROVE  AvailRead = Least(dataSize, N - rd)
  BY DEF TypeOK, RingShape, AvailRead, Least, RingBufAssumption

\* The same for what can be written in one piece.
LEMMA AvailWriteIs ==
  ASSUME TypeOK, RingShape, RingBufAssumption
  PROVE  AvailWrite = Least(Space, N - wr)
  BY DEF TypeOK, RingShape, AvailWrite, Least, Space, RingBufAssumption

-----------------------------------------------------------------------------
\* Steps that only move one task, outside the critical sections.

\* A task goes from one point of a call to another that needs nothing.
LEMMA QuietMove ==
  ASSUME Usage, IInv, NEW t \in Tasks,
         pc[t] \in {"try", "wait", "woken"},
         NEW p \in {"try", "wait", "woken"}, NEW w \in {"forever", "poll", "timed"},
         pc' = [pc EXCEPT ![t] = p],
         tmo' = [tmo EXCEPT ![t] = w],
         UNCHANGED <<op, need, got, ringVars, inProgress, mutex, signalled>>,
         EventTypeOK(Flags)', BlockedOK', \A x \in Level : x \in bits' <=> x \in bits
  PROVE  IInv'
<1>. USE DEF IInv, ringVars, Free, Tasks
<1>1. TypeOK'
  BY DEF TypeOK, PCs
<1>2. Roles' /\ Recorded'
  BY DEF Roles, Recorded, TypeOK
<1>3. Owner'
  BY DEF Owner, Critical, TypeOK
<1>4. RingShape'
  BY DEF RingShape
<1>5. Levels'
  BY DEF Levels, Truth, Level, TypeOK
<1>6. Sizes'
  BY DEF Sizes, Space, TypeOK
<1>. QED BY <1>1, <1>2, <1>3, <1>4, <1>5, <1>6

\* A call ends outside its critical section, with no buffer in its hands.
LEMMA QuietReturn ==
  ASSUME Usage, IInv, NEW t \in Tasks,
         pc[t] \in {"try", "wait", "woken", "peeked"},
         Return(t),
         UNCHANGED <<ringVars, inProgress, mutex, signalled>>,
         EventTypeOK(Flags)', BlockedOK', \A x \in Level : x \in bits' <=> x \in bits
  PROVE  IInv'
<1>. USE DEF IInv, ringVars, Free, Tasks, Return
<1>1. TypeOK'
  BY DEF TypeOK, PCs
<1>2. Roles' /\ Recorded'
  BY DEF Roles, Recorded, TypeOK
<1>3. Owner'
  BY DEF Owner, Critical, TypeOK
<1>4. RingShape'
  BY DEF RingShape
<1>5. Levels'
  BY DEF Levels, Truth, Level, TypeOK
<1>6. Sizes'
  BY DEF Sizes, Space, TypeOK
<1>. QED BY <1>1, <1>2, <1>3, <1>4, <1>5, <1>6

\* A call begins.
LEMMA BeginStep ==
  ASSUME Usage, IInv, NEW t \in Tasks, NEW n \in Nat, NEW w \in Timeouts \cup {"forever"},
         NEW call, NEW where, Begin(t, call, where, n, w),
         \/ t \in Readers /\ call \in {"read", "contigRead", "peek"} /\ where = "try" /\ n > 0
         \/ t \in Writers /\ call \in {"write", "getWriteBuf"} /\ where \in {"try", "enter"} /\ n > 0
         \/ t \in Controllers /\ call = "clear" /\ where = "try"
  PROVE  IInv'
<1>. USE RingBufAssumption DEF IInv, Begin, ringVars, egVars, Free, Tasks, RingBufAssumption
<1>1. TypeOK'
  BY DEF TypeOK, EventTypeOK, PCs, AllCalls
<1>2. BlockedOK' /\ RingShape'
  BY DEF BlockedOK, RingShape
<1>3. Roles'
  BY DEF Roles, TypeOK, Usage
<1>4. Owner' /\ Recorded'
  BY DEF Owner, Recorded, Critical, TypeOK
<1>5. Levels'
  BY DEF Levels, Truth, TypeOK
<1>6. Sizes'
  BY DEF Sizes, Space, TypeOK, Usage
<1>. QED BY <1>1, <1>2, <1>3, <1>4, <1>5, <1>6

\* The five steps of a wait.
LEMMA WaitingStep ==
  ASSUME Usage, IInv, NEW t \in Tasks, Waiting(t)
  PROVE  IInv'
<1>. USE DEF IInv, TypeOK
<1>1. CASE Wait(t)
  <2>1. WaitFlags(t) \cup {"Stop"} \in SUBSET (Pulse \cup {"Stop"})
    BY DEF WaitFlags, Pulse
  <2>2. /\ EventTypeOK(Flags)'
        /\ BlockedOK'
        /\ \A x \in Level : x \in bits' <=> x \in bits
    BY <1>1, <2>1, WaitBitsEffect DEF Wait, Resets
  <2>3. pc' = [pc EXCEPT ![t] = "woken"] /\ tmo' = [tmo EXCEPT ![t] = tmo[t]]
    BY <1>1 DEF Wait, Go
  <2>. QED BY <1>1, <2>2, <2>3, QuietMove DEF Wait, Go
<1>2. CASE TimeOut(t)
  <2>1. /\ EventTypeOK(Flags)'
        /\ BlockedOK'
        /\ \A x \in Level : x \in bits' <=> x \in bits
    BY <1>2 DEF TimeOut, Expire, EventTypeOK, BlockedOK, NoWait, Request
  <2>2. pc' = [pc EXCEPT ![t] = "woken"] /\ tmo' = [tmo EXCEPT ![t] = tmo[t]]
    BY <1>2 DEF TimeOut, localVars
  <2>. QED BY <1>2, <2>1, <2>2, QuietMove DEF TimeOut, localVars
<1>3. ASSUME Forget(t)
      PROVE  /\ EventTypeOK(Flags)'
             /\ BlockedOK'
             /\ \A x \in Level : x \in bits' <=> x \in bits
  BY <1>3 DEF Forget, EventTypeOK, BlockedOK
<1>4. ASSUME pc[t] = "woken", Forget(t), GoOn(t),
             UNCHANGED <<ringVars, inProgress, mutex, signalled>>
      PROVE  IInv'
  <2>1. PICK w \in TimeLeft(t) :
            \/ w = "over" /\ Return(t)
            \/ /\ w # "over"
               /\ pc' = [pc EXCEPT ![t] = "try"]
               /\ tmo' = [tmo EXCEPT ![t] = w]
               /\ UNCHANGED <<op, need, got>>
    BY <1>4 DEF GoOn
  <2>2. w # "over" => w \in {"forever", "poll", "timed"}
    BY DEF TimeLeft
  <2>3. CASE Return(t)
    BY <1>3, <1>4, <2>3, QuietReturn
  <2>4. CASE /\ w # "over"
             /\ pc' = [pc EXCEPT ![t] = "try"]
             /\ tmo' = [tmo EXCEPT ![t] = w]
             /\ UNCHANGED <<op, need, got>>
    BY <1>3, <1>4, <2>2, <2>4, QuietMove
  <2>. QED BY <2>1, <2>3, <2>4
<1>5. CASE WokenByStop(t)
  <2>1. CASE Resets(t)
    <3>1. Restore(t) /\ Return(t)
      BY <1>5, <2>1 DEF WokenByStop
    <3>2. \A x \in Level : x \in bits' <=> x \in bits \cup (ret[t] \cap {"Stop"})
      BY <3>1, SetBitsEffect DEF Restore, EventTypeOK, Flags
    <3>3. EventTypeOK(Flags)' /\ BlockedOK'
      BY <3>1, SetBitsEffect DEF Restore, EventTypeOK, Flags
    <3>. QED BY <1>5, <3>1, <3>2, <3>3, QuietReturn DEF WokenByStop, Woken, Level
  <2>2. CASE ~Resets(t)
    <3>1. Forget(t) /\ Go(t, "try")
      BY <1>5, <2>2 DEF WokenByStop
    <3>2. pc' = [pc EXCEPT ![t] = "try"] /\ tmo' = [tmo EXCEPT ![t] = tmo[t]]
      BY <3>1 DEF Go
    <3>. QED BY <1>3, <1>5, <3>1, <3>2, QuietMove DEF WokenByStop, Woken, Go
  <2>. QED BY <2>1, <2>2
<1>6. CASE WokenByEvent(t)
  BY <1>4, <1>6 DEF WokenByEvent, Woken
<1>7. CASE WokenByTimeout(t)
  <2>1. CASE GoOn(t)
    BY <1>4, <1>7, <2>1 DEF WokenByTimeout, Woken
  <2>2. CASE Return(t)
    BY <1>3, <1>7, <2>2, QuietReturn DEF WokenByTimeout, Woken
  <2>. QED BY <1>7, <2>1, <2>2 DEF WokenByTimeout
<1>. QED BY <1>1, <1>2, <1>5, <1>6, <1>7 DEF Waiting
-----------------------------------------------------------------------------
\* Reading.

\* doCommitContigRead, up to its first event call, when the bytes are there.
LEMMA ConsumeStep ==
  ASSUME Usage, IInv, NEW t \in Readers, NEW k \in Nat, NEW bytes \in Seq(0 .. Tags),
         Consume(t, k, bytes),
         0 < k, k <= dataSize, k <= need[t], rd + k <= N,
         \/ op[t] = "read" /\ pc[t] \in {"part", "rest"}
                           /\ need[t] <= dataSize /\ (need[t] > k => rd + k = N)
         \/ At(t, "hold", "contigRead") /\ Free
  PROVE  IInv'
<1>. USE RingBufAssumption DEF IInv, Consume, Tasks, Free, At
<1>1. rd' = Wrap(rd + k) /\ dataSize' = dataSize - k /\ wr' = wr
  OBVIOUS
<1>2. RingShape' /\ rd' \in 0 .. N - 1 /\ (wr = rd' <=> dataSize - k = 0)
  BY <1>1 DEF RingShape, TypeOK, Wrap, RingBufAssumption
<1>3. GoGot(t, IF wr = rd' THEN "setEmpty" ELSE "setOp", need[t] - k, bytes)
  OBVIOUS
<1>4. bits' = IF wr = rd' THEN bits \ {"HasItems"} ELSE bits
  BY DEF ClearBits, egVars
<1>5. blocked' = blocked /\ ret' = ret
  BY DEF ClearBits, egVars
<1>6. mem' \in [0 .. N - 1 -> 0 .. Tags]
  BY DEF TypeOK, Dead, RingBufAssumption
<1>0. need[t] - k \in Nat /\ t \in Tasks /\ mutex' = t
      /\ UNCHANGED <<nextTag, inProgress, signalled>>
  BY DEF TypeOK
<1>. HIDE DEF Consume
<1>7. TypeOK'
  <2>1. dataSize' \in 0 .. N /\ EventTypeOK(Flags)'
    BY <1>1, <1>4, <1>5 DEF TypeOK, EventTypeOK, RingBufAssumption
  <2>. QED BY <1>0, <1>1, <1>2, <1>3, <1>6, <2>1 DEF TypeOK, GoGot, PCs
<1>8. BlockedOK'
  BY <1>5 DEF BlockedOK
<1>9. Roles'
  BY <1>3 DEF Roles, TypeOK, Usage, GoGot
<1>10. Owner' /\ Recorded'
  BY <1>0, <1>3 DEF Owner, Recorded, Critical, TypeOK, GoGot, RingBufAssumption, Roles
<1>11. Truth
  BY DEF Levels
<1>12. Levels'
  <2>1. /\ pc'[t] = IF wr = rd' THEN "setEmpty" ELSE "setOp"
        /\ \A u \in Tasks \ {t} : pc'[u] = pc[u] /\ pc[u] \notin Critical
    BY <1>3 DEF GoGot, TypeOK, Owner, Critical, RingBufAssumption
  <2>2. dataSize \in 0 .. N /\ dataSize > 0 /\ "HasItems" \in bits /\ "IsEmpty" \notin bits
    BY <1>11 DEF Truth, TypeOK
  <2>. HIDE DEF IInv, At
  <2>3. ~Free' /\ t \notin Writers /\ t \notin Controllers /\ \A r \in Readers : r = t
    BY <1>0 DEF Usage, RingBufAssumption
  <2>4. \A u \in Tasks \ {t} : pc'[u] \notin Critical
    BY <2>1
  <2>. HIDE DEF Free
  <2>5. dataSize' \in Nat /\ dataSize' < N /\ (wr = rd' <=> dataSize' = 0)
    BY <1>1, <1>2, <2>2
  <2>6. "IsEmpty" \notin bits' /\ ("HasItems" \in bits' <=> wr # rd')
    BY <1>4, <2>2, Zenon
  <2>. QED BY <2>1, <2>3, <2>4, <2>5, <2>6 DEF Levels, Critical
<1>13. Sizes'
  <2>1. \A r \in Readers : r = t
    BY DEF Usage
  <2>2. \A w \in Writers : /\ pc'[w] = pc[w] /\ op'[w] = op[w] /\ need'[w] = need[w]
                           /\ pc[w] \notin Critical
    BY <1>3 DEF GoGot, TypeOK, Usage, Owner, Critical, RingBufAssumption
  <2>3. Space' >= Space /\ Space' \in Int
    BY <1>1 DEF Space, TypeOK
  <2>4. /\ pc'[t] \in {"setEmpty", "setOp"} /\ need'[t] = need[t] - k /\ op'[t] = op[t]
    BY <1>3 DEF GoGot, TypeOK
  <2>5. op[t] = "read" => /\ need'[t] <= dataSize' /\ dataSize' < N
                          /\ need'[t] > 0 => rd' = 0
    BY <1>1, <2>4 DEF TypeOK, Wrap, RingBufAssumption
  <2>6. \A w \in Writers : need[w] \in Nat
    BY DEF TypeOK
  <2>7. \A w \in Writers : pc[w] \in {"hold", "filled"} => wr' + need'[w] <= N /\ need'[w] <= Space'
    <3>. TAKE w \in Writers
    <3>1. pc[w] \in {"hold", "filled"} => need[w] <= Space /\ wr + need[w] <= N
      BY DEF Sizes
    <3>2. Space \in Int /\ wr' = wr /\ need'[w] = need[w]
      BY <1>1, <2>2 DEF TypeOK, Space
    <3>. HIDE DEF IInv
    <3>. QED BY <2>3, <2>6, <3>1, <3>2
  <2>. HIDE DEF IInv
  <2>. QED BY <2>1, <2>2, <2>4, <2>5, <2>7, IInv DEF Sizes, Critical, IInv
<1>. QED BY <1>2, <1>7, <1>8, <1>9, <1>10, <1>12, <1>13

\* A step of read() before its commit takes the mutex for as long as it needs it, and
\* never counts on bytes that are not there.
LEMMA ReadStep ==
  ASSUME Usage, IInv, NEW t \in Readers, ReadTry(t) \/ ReadPart(t) \/ ReadRest(t)
  PROVE  IInv'
<1>. USE RingBufAssumption DEF IInv, At, Free
<1>0. t \in Tasks
  BY DEF Tasks
<1>1. CASE ReadTry(t)
  <2>. USE <1>0, <1>1 DEF ReadTry, Go, ringVars, egVars, RingBufAssumption
  <2>1. TypeOK' /\ BlockedOK' /\ RingShape'
    BY DEF TypeOK, EventTypeOK, PCs, BlockedOK, RingShape
  <2>2. Roles'
    BY DEF Roles, TypeOK, Usage, Tasks
  <2>3. Owner' /\ Recorded'
    BY DEF Owner, Recorded, TypeOK, Critical
  <2>4. Levels'
    BY DEF Levels, TypeOK, Usage, Truth, Tasks
  <2>5. Sizes'
    BY DEF Sizes, TypeOK, Usage, Space, Tasks, Roles
  <2>. QED BY <2>1, <2>2, <2>3, <2>4, <2>5
<1>2. CASE ReadPart(t)
  <2> DEFINE k == Least(need[t], AvailRead)
  <2>1. AvailRead = Least(dataSize, N - rd)
    BY <1>0, <1>2, AvailReadIs DEF ReadPart, Levels, Truth
  <2>2. /\ k \in Nat /\ 0 < k /\ k <= dataSize /\ k <= need[t] /\ rd + k <= N
        /\ need[t] <= dataSize /\ (need[t] > k => rd + k = N)
    BY <1>0, <1>2, <2>1 DEF ReadPart, Sizes, TypeOK, Least
  <2>3. Bytes(rd, k) \in Seq(0 .. Tags)
    BY <2>2, BytesType DEF TypeOK
  <2>4. Consume(t, k, Bytes(rd, k))
    BY <1>2 DEF ReadPart
  <2>. HIDE DEF k
  <2>. QED BY <1>2, <2>2, <2>3, <2>4, ConsumeStep DEF ReadPart
<1>3. CASE ReadRest(t)
  <2>1. need[t] > 0 /\ need[t] <= dataSize /\ rd = 0 /\ need[t] \in Nat
    BY <1>0, <1>3 DEF ReadRest, Sizes, TypeOK
  <2>2. Bytes(rd, need[t]) \in Seq(0 .. Tags)
    BY <2>1, BytesType DEF TypeOK, RingBufAssumption
  <2>3. got[t] \o Bytes(rd, need[t]) \in Seq(0 .. Tags)
    BY <1>0, <2>2 DEF TypeOK
  <2>4. rd + need[t] <= N
    BY <2>1 DEF TypeOK, RingBufAssumption
  <2>5. /\ Consume(t, need[t], got[t] \o Bytes(rd, need[t]))
        /\ op[t] = "read" /\ pc[t] \in {"part", "rest"}
        /\ 0 < need[t] /\ need[t] <= need[t] /\ ~(need[t] > need[t])
    BY <1>3, <2>1 DEF ReadRest
  <2>. HIDE DEF IInv
  <2>. QED BY <2>1, <2>3, <2>4, <2>5, ConsumeStep
<1>. QED BY <1>1, <1>2, <1>3

\* contigRead() hands out no more than one piece of the data, and the commit of
\* what it handed out keeps the ring in shape.
LEMMA ContigReadStep ==
  ASSUME Usage, IInv, NEW t \in Readers, ContigReadTry(t) \/ CommitContigRead(t)
  PROVE  IInv'
<1>. USE RingBufAssumption DEF IInv, At, Free
<1>0. t \in Tasks
  BY DEF Tasks
<1>1. CASE ContigReadTry(t)
  <2> DEFINE k == Least(need[t], AvailRead)
  <2>1. AvailRead = Least(dataSize, N - rd)
    BY <1>1, AvailReadIs DEF ContigReadTry, Levels, Truth
  <2>2. CASE AvailRead < 1
    <3>1. pc' = [pc EXCEPT ![t] = "wait"] /\ tmo' = [tmo EXCEPT ![t] = tmo[t]]
      BY <1>1, <2>2 DEF ContigReadTry, Go, TypeOK
    <3>2. EventTypeOK(Flags)' /\ BlockedOK' /\ \A x \in Level : x \in bits' <=> x \in bits
      BY <1>1 DEF ContigReadTry, egVars, EventTypeOK, BlockedOK, TypeOK
    <3>. QED BY <1>0, <1>1, <2>2, <3>1, <3>2, QuietMove DEF ContigReadTry, Go, TypeOK
  <2>3. CASE ~(AvailRead < 1)
    <3>1. k \in Nat /\ k > 0 /\ k <= dataSize /\ rd + k <= N
      BY <1>0, <1>1, <2>1, <2>3 DEF ContigReadTry, Least, TypeOK, Sizes
    <3>2. Bytes(rd, k) \in Seq(0 .. Tags)
      BY <3>1, BytesType DEF TypeOK
    <3>3. /\ GoGot(t, "hold", k, Bytes(rd, k)) /\ inProgress' = inProgress \cup {"read"}
          /\ UNCHANGED <<ringVars, mutex, egVars, signalled>>
          /\ pc[t] = "try" /\ op[t] = "contigRead" /\ mutex = Nobody
      BY <1>1, <2>3 DEF ContigReadTry
    <3>. HIDE DEF k
    <3>. USE <1>0, <3>1, <3>2, <3>3 DEF GoGot, ringVars, egVars
    <3>4. TypeOK' /\ BlockedOK' /\ RingShape'
      BY DEF TypeOK, EventTypeOK, PCs, BlockedOK, RingShape
    <3>5. Roles'
      BY DEF Roles, TypeOK, Usage, Tasks
    <3>6. Owner' /\ Recorded'
      BY DEF Owner, Recorded, TypeOK, Critical, Usage
    <3>7. Levels'
      BY DEF Levels, TypeOK, Usage, Truth, Tasks
    <3>8. Sizes'
      BY DEF Sizes, TypeOK, Usage, Space, Tasks, Roles
    <3>. QED BY <3>4, <3>5, <3>6, <3>7, <3>8
  <2>. QED BY <2>2, <2>3
<1>2. CASE CommitContigRead(t)
  <2>1. PICK k \in LeastCommit .. need[t] : Consume(t, k, <<>>)
    BY <1>2 DEF CommitContigRead
  <2>2. k \in Nat /\ 0 < k /\ k <= need[t] /\ k <= dataSize /\ rd + k <= N
    BY <1>0, <1>2 DEF CommitContigRead, Usage, TypeOK, Sizes
  <2>3. <<>> \in Seq(0 .. Tags)
    OBVIOUS
  <2>. QED BY <1>2, <2>1, <2>2, <2>3, ConsumeStep DEF CommitContigRead
<1>. QED BY <1>1, <1>2

\* peek() changes nothing but what its caller has.
LEMMA PeekStep ==
  ASSUME Usage, IInv, NEW t \in Readers, PeekTry(t) \/ PeekLock(t) \/ PeekReturn(t)
  PROVE  IInv'
<1>. USE RingBufAssumption DEF IInv, At, Free
<1>0. t \in Tasks
  BY DEF Tasks
<1>1. ASSUME UNCHANGED egVars
      PROVE  EventTypeOK(Flags)' /\ BlockedOK' /\ \A x \in Level : x \in bits' <=> x \in bits
  BY <1>1 DEF egVars, EventTypeOK, BlockedOK, TypeOK
<1>2. CASE PeekTry(t)
  <2>1. CASE PeekEnough(t) /\ Go(t, "peekLock")
    <3>. USE <1>0, <1>2, <2>1 DEF PeekTry, Go, PeekEnough, ringVars, egVars
    <3>1. TypeOK' /\ BlockedOK' /\ RingShape'
      BY DEF TypeOK, EventTypeOK, PCs, BlockedOK, RingShape
    <3>2. Roles'
      BY DEF Roles, TypeOK, Usage, Tasks
    <3>3. Owner' /\ Recorded'
      BY DEF Owner, Recorded, TypeOK, Critical
    <3>4. Levels'
      BY DEF Levels, TypeOK, Usage, Truth, Tasks
    <3>5. Sizes'
      BY DEF Sizes, TypeOK, Usage, Space, Tasks, Roles
    <3>. QED BY <3>1, <3>2, <3>3, <3>4, <3>5
  <2>2. CASE Return(t)
    BY <1>0, <1>1, <1>2, <2>2, QuietReturn DEF PeekTry
  <2>3. CASE Go(t, "wait")
    <3>1. pc' = [pc EXCEPT ![t] = "wait"] /\ tmo' = [tmo EXCEPT ![t] = tmo[t]]
      BY <2>3 DEF Go, TypeOK
    <3>. QED BY <1>0, <1>1, <1>2, <2>3, <3>1, QuietMove DEF PeekTry, Go, TypeOK
  <2>. QED BY <1>2, <2>1, <2>2, <2>3 DEF PeekTry
<1>3. CASE PeekLock(t)
  <2> DEFINE k == Least(need[t], AvailRead)
             bytes == Bytes(rd, k) \o Bytes(0, need[t] - k)
  <2>1. AvailRead = Least(dataSize, N - rd)
    BY <1>3, AvailReadIs DEF PeekLock, Levels, Truth
  <2>2. k \in Nat /\ k <= need[t] /\ rd + k <= N /\ need[t] - k \in Nat /\ 0 + (need[t] - k) <= N
    BY <1>0, <1>3, <2>1, SMTT(30) DEF PeekLock, Least, TypeOK, Sizes, RingBufAssumption
  <2>3. Bytes(rd, k) \in Seq(0 .. Tags)
    BY <2>2, BytesType DEF TypeOK
  <2>4. Bytes(0, need[t] - k) \in Seq(0 .. Tags)
    BY <2>2, BytesType DEF TypeOK
  <2>5. bytes \in Seq(0 .. Tags)
    BY <2>3, <2>4
  <2>6. GoGot(t, "peeked", need[t], bytes) /\ pc[t] = "peekLock" /\ mutex = Nobody
        /\ UNCHANGED <<ringVars, inProgress, mutex, egVars, signalled>>
    BY <1>3 DEF PeekLock
  <2>. HIDE DEF bytes
  <2>. USE <1>0, <2>5, <2>6 DEF GoGot, ringVars, egVars
  <2>7. TypeOK' /\ BlockedOK' /\ RingShape'
    BY DEF TypeOK, EventTypeOK, PCs, BlockedOK, RingShape
  <2>8. Roles'
    BY DEF Roles, TypeOK, Usage, Tasks
  <2>9. Owner' /\ Recorded'
    BY DEF Owner, Recorded, TypeOK, Critical
  <2>10. Levels'
    BY DEF Levels, TypeOK, Usage, Truth, Tasks
  <2>11. Sizes'
    BY DEF Sizes, TypeOK, Usage, Space, Tasks, Roles
  <2>. QED BY <2>7, <2>8, <2>9, <2>10, <2>11
<1>4. CASE PeekReturn(t)
  BY <1>0, <1>1, <1>4, QuietReturn DEF PeekReturn
<1>. QED BY <1>2, <1>3, <1>4
-----------------------------------------------------------------------------
\* Writing.

\* The bytes a writer puts into cells are bytes.
LEMMA FilledType ==
  ASSUME TypeOK, RingBufAssumption, NEW p \in Nat, NEW k \in Nat
  PROVE  Filled(p, k) \in [0 .. N - 1 -> 0 .. Tags]
<1>1. \A i \in 0 .. N - 1 : (nextTag + i - p) % Tags \in 0 .. Tags
  <2>. TAKE i \in 0 .. N - 1
  <2>1. nextTag + i - p \in Int
    BY DEF TypeOK, RingBufAssumption
  <2>. QED BY <2>1, Modulo DEF RingBufAssumption
<1>. QED BY <1>1 DEF Filled, TypeOK

\* commitContigWrite, up to its first event call, when there is room.
LEMMA ProduceStep ==
  ASSUME Usage, IInv, NEW t \in Writers, NEW k \in Nat,
         Produce(t, k), mem' \in [0 .. N - 1 -> 0 .. Tags],
         0 < k, k <= Space, k <= need[t], wr + k <= N,
         \/ op[t] = "write" /\ pc[t] \in {"part", "rest"}
                            /\ need[t] <= Space /\ (need[t] > k => wr + k = N)
         \/ At(t, "filled", "getWriteBuf") /\ Free
  PROVE  IInv'
<1>. USE RingBufAssumption DEF IInv, Tasks, Free, At
<1>0. /\ need[t] - k \in Nat /\ t \in Tasks /\ mutex' = t
      /\ UNCHANGED <<rd, inProgress, signalled>>
  BY DEF Produce, TypeOK
<1>1. wr' = Wrap(wr + k) /\ dataSize' = dataSize + k
  BY DEF Produce
<1>2. RingShape' /\ wr' \in 0 .. N - 1 /\ (wr' = rd <=> dataSize + k = N)
  BY <1>0, <1>1 DEF RingShape, TypeOK, Wrap, Space, RingBufAssumption
<1>3. GoNeed(t, "setOp", need[t] - k)
  BY DEF Produce
<1>4. bits' = bits \ ({"IsEmpty"} \cup (IF wr' = rd THEN {"HasSpace"} ELSE {}))
  BY DEF Produce, ClearBits, WriteClears
<1>5. blocked' = blocked /\ ret' = ret
  BY DEF Produce, ClearBits
<1>6. nextTag' \in 0 .. Tags - 1
  <2>1. nextTag + k \in Int
    BY DEF TypeOK, RingBufAssumption
  <2>. QED BY <2>1, Modulo DEF Produce, RingBufAssumption
<1>7. TypeOK'
  <2>1. dataSize' \in 0 .. N /\ EventTypeOK(Flags)'
    BY <1>1, <1>4, <1>5 DEF TypeOK, EventTypeOK, Space, RingBufAssumption
  <2>. QED BY <1>0, <1>1, <1>2, <1>3, <1>6, <2>1 DEF TypeOK, GoNeed, PCs
<1>8. BlockedOK'
  BY <1>5 DEF BlockedOK
<1>9. Roles'
  BY <1>3 DEF Roles, TypeOK, Usage, GoNeed
<1>10. Owner' /\ Recorded'
  BY <1>0, <1>3, SMTT(30) DEF Owner, Recorded, Critical, TypeOK, GoNeed, RingBufAssumption, Roles
<1>11. Truth
  BY DEF Levels
<1>12. Levels'
  <2>1. pc'[t] = "setOp" /\ \A u \in Tasks \ {t} : pc'[u] = pc[u] /\ pc[u] \notin Critical
    BY <1>3 DEF GoNeed, TypeOK, Owner, Critical, RingBufAssumption
  <2>2. dataSize' > 0 /\ "IsEmpty" \notin bits' /\ ("HasSpace" \in bits' <=> dataSize' < N)
    <3>1. dataSize \in 0 .. N /\ dataSize < N /\ "HasSpace" \in bits
      BY <1>11 DEF Truth, TypeOK, Space
    <3>2. wr' = rd <=> dataSize' = N
      BY <1>1, <1>2
    <3>. HIDE DEF IInv, At, Free
    <3>3. dataSize' > 0 /\ dataSize' <= N
      BY <1>1, <3>1 DEF Space
    <3>4. "IsEmpty" \notin bits' /\ ("HasSpace" \in bits' <=> wr' # rd)
      BY <1>4, <3>1, Zenon
    <3>. QED BY <3>2, <3>3, <3>4, <3>1, <1>1
  <2>. HIDE DEF IInv, At
  <2>3. ~Free' /\ t \notin Readers /\ t \notin Controllers /\ \A w \in Writers : w = t
    BY <1>0 DEF Usage, RingBufAssumption
  <2>4. \A u \in Tasks \ {t} : pc'[u] \notin Critical
    BY <2>1
  <2>. HIDE DEF Free
  <2>. QED BY <2>1, <2>2, <2>3, <2>4 DEF Levels, Critical
<1>13. Sizes'
  <2>1. \A w \in Writers : w = t
    BY DEF Usage
  <2>2. \A r \in Readers : /\ pc'[r] = pc[r] /\ op'[r] = op[r] /\ need'[r] = need[r]
                           /\ pc[r] \notin Critical
    BY <1>3 DEF GoNeed, TypeOK, Usage, Owner, Critical, RingBufAssumption
  <2>3. pc'[t] = "setOp" /\ need'[t] = need[t] - k /\ op'[t] = op[t]
    BY <1>3 DEF GoNeed, TypeOK
  <2>4. op[t] = "write" => need'[t] <= Space' /\ (need'[t] > 0 => wr' = 0)
    BY <1>1, <2>3 DEF TypeOK, Wrap, Space, RingBufAssumption
  <2>5. \A r \in Readers : need[r] \in Nat
    BY DEF TypeOK
  <2>6. \A r \in Readers : pc[r] = "hold" => need'[r] > 0 /\ need'[r] <= dataSize' /\ rd' + need'[r] <= N
    <3>. TAKE r \in Readers
    <3>1. pc[r] = "hold" => need[r] > 0 /\ need[r] <= dataSize /\ rd + need[r] <= N
      BY DEF Sizes
    <3>2. dataSize \in Nat /\ dataSize' = dataSize + k /\ rd' = rd /\ need'[r] = need[r]
      BY <1>0, <1>1, <2>2 DEF TypeOK
    <3>. HIDE DEF IInv
    <3>. QED BY <2>5, <3>1, <3>2
  <2>. HIDE DEF IInv
  <2>. QED BY <2>1, <2>2, <2>3, <2>4, <2>6, IInv DEF Sizes, Critical, IInv
<1>. QED BY <1>2, <1>7, <1>8, <1>9, <1>10, <1>12, <1>13

\* write() makes room count: each of its parts fits, and the second begins at
\* offset 0.
LEMMA WriteStep ==
  ASSUME Usage, IInv, NEW t \in Writers, WriteTry(t) \/ WritePart(t)
  PROVE  IInv'
<1>. USE RingBufAssumption DEF IInv, At, Free
<1>0. t \in Tasks
  BY DEF Tasks
<1>1. CASE WriteTry(t)
  <2>. USE <1>0, <1>1 DEF WriteTry, Go, ringVars, egVars, RingBufAssumption
  <2>1. TypeOK' /\ BlockedOK' /\ RingShape'
    BY DEF TypeOK, EventTypeOK, PCs, BlockedOK, RingShape
  <2>2. Roles'
    BY DEF Roles, TypeOK, Usage, Tasks
  <2>3. Owner' /\ Recorded'
    BY DEF Owner, Recorded, TypeOK, Critical
  <2>4. Levels'
    BY DEF Levels, TypeOK, Usage, Truth, Tasks
  <2>5. Sizes'
    BY DEF Sizes, TypeOK, Usage, Space, Tasks, Roles
  <2>. QED BY <2>1, <2>2, <2>3, <2>4, <2>5
<1>2. CASE WritePart(t)
  <2> DEFINE k == Least(need[t], AvailWrite)
  <2>1. AvailWrite = Least(Space, N - wr)
    BY AvailWriteIs
  <2>2. /\ k \in Nat /\ 0 < k /\ k <= Space /\ k <= need[t] /\ wr + k <= N
        /\ need[t] <= Space /\ (need[t] > k => wr + k = N)
    BY <1>0, <1>2, <2>1 DEF WritePart, Sizes, TypeOK, Least, Space, RingBufAssumption
  <2>3. mem' = Filled(wr, k) /\ Produce(t, k)
    BY <1>2 DEF WritePart
  <2>4. op[t] = "write" /\ pc[t] \in {"part", "rest"}
    BY <1>2 DEF WritePart
  <2>. HIDE DEF k
  <2>5. mem' \in [0 .. N - 1 -> 0 .. Tags]
    <3>1. TypeOK /\ wr \in Nat
      BY DEF TypeOK
    <3>. QED BY <2>2, <2>3, <3>1, FilledType
  <2>. HIDE DEF IInv
  <2>. QED BY <2>2, <2>3, <2>4, <2>5, ProduceStep
<1>. QED BY <1>1, <1>2

\* getWriteBuf(), the filling, the commit and abortWrite() keep the ring in shape.
LEMMA WriteBufStep ==
  ASSUME Usage, IInv, NEW t \in Writers,
         GetWriteBufTry(t) \/ FillWriteBuf(t) \/ CommitWrite(t) \/ AbortWrite(t)
  PROVE  IInv'
<1>. USE RingBufAssumption DEF IInv, At, Free
<1>0. t \in Tasks
  BY DEF Tasks
<1>1. CASE GetWriteBufTry(t)
  <2> DEFINE n == IF pc[t] = "enter" THEN Least(need[t], N - wr) ELSE need[t]
  <2>1. AvailWrite = Least(Space, N - wr)
    BY AvailWriteIs
  <2>2. n \in Nat /\ n > 0
    BY <1>0, <1>1 DEF GetWriteBufTry, Least, TypeOK, Sizes, RingBufAssumption
  <2>3. PICK p \in {"hold", "wait"}, m \in Nat :
          /\ m > 0 /\ GoNeed(t, p, m)
          /\ p = "hold" => m <= Space /\ wr + m <= N /\ inProgress' = inProgress \cup {"write"}
          /\ p = "wait" => UNCHANGED inProgress
    <3>1. CASE AvailWrite >= n
      <4>1. AvailWrite \in Nat /\ AvailWrite > 0 /\ AvailWrite <= Space /\ wr + AvailWrite <= N
        BY <2>1, <2>2, <3>1 DEF Least, Space, TypeOK
      <4>2. GoNeed(t, "hold", AvailWrite) /\ inProgress' = inProgress \cup {"write"}
        BY <1>1, <3>1 DEF GetWriteBufTry
      <4>. QED BY <4>1, <4>2
    <3>2. CASE ~(AvailWrite >= n)
      <4>1. GoNeed(t, "wait", n) /\ UNCHANGED inProgress
        BY <1>1, <3>2 DEF GetWriteBufTry
      <4>. QED BY <2>2, <4>1
    <3>. QED BY <3>1, <3>2
  <2>4. /\ UNCHANGED <<ringVars, mutex, egVars, signalled>>
        /\ op[t] = "getWriteBuf" /\ pc[t] \in {"enter", "try"} /\ mutex = Nobody
    BY <1>1 DEF GetWriteBufTry
  <2>. HIDE DEF n
  <2>. USE <1>0, <2>3, <2>4 DEF GoNeed, ringVars, egVars
  <2>5. TypeOK' /\ BlockedOK' /\ RingShape'
    BY DEF TypeOK, EventTypeOK, PCs, BlockedOK, RingShape
  <2>6. Roles'
    BY DEF Roles, TypeOK, Usage, Tasks
  <2>7. Owner' /\ Recorded'
    BY DEF Owner, Recorded, TypeOK, Critical, Usage
  <2>8. Levels'
    BY DEF Levels, TypeOK, Usage, Truth, Tasks
  <2>9. Sizes'
    BY DEF Sizes, TypeOK, Usage, Space, Tasks, Roles
  <2>. QED BY <2>5, <2>6, <2>7, <2>8, <2>9
<1>2. CASE FillWriteBuf(t)
  <2>1. PICK k \in LeastCommit .. need[t] : mem' = Filled(wr, k) /\ GoNeed(t, "filled", k)
    BY <1>2 DEF FillWriteBuf
  <2>2. k \in Nat /\ 0 < k /\ k <= need[t]
    BY <1>0, <2>1 DEF Usage, TypeOK
  <2>3. mem' \in [0 .. N - 1 -> 0 .. Tags]
    <3>1. TypeOK /\ wr \in Nat
      BY DEF TypeOK
    <3>. QED BY <2>1, <2>2, <3>1, FilledType
  <2>4. /\ UNCHANGED <<wr, rd, dataSize, nextTag, inProgress, mutex, egVars, signalled>>
        /\ pc[t] = "hold" /\ op[t] = "getWriteBuf"
    BY <1>2 DEF FillWriteBuf
  <2>. USE <1>0, <2>1, <2>2, <2>3, <2>4 DEF GoNeed, egVars
  <2>5. TypeOK' /\ BlockedOK' /\ RingShape'
    BY DEF TypeOK, EventTypeOK, PCs, BlockedOK, RingShape
  <2>6. Roles'
    BY DEF Roles, TypeOK, Usage, Tasks
  <2>7. Owner' /\ Recorded'
    BY DEF Owner, Recorded, TypeOK, Critical, Usage
  <2>8. Levels'
    BY DEF Levels, TypeOK, Usage, Truth, Tasks
  <2>9. Sizes'
    BY SMTT(30) DEF Sizes, TypeOK, Usage, Space, Tasks, Roles
  <2>. QED BY <2>5, <2>6, <2>7, <2>8, <2>9
<1>3. CASE CommitWrite(t)
  <2>1. /\ need[t] \in Nat /\ 0 < need[t] /\ need[t] <= Space /\ wr + need[t] <= N
        /\ need[t] <= need[t]
    BY <1>0, <1>3 DEF CommitWrite, TypeOK, Sizes
  <2>2. Produce(t, need[t]) /\ mem' \in [0 .. N - 1 -> 0 .. Tags]
    BY <1>3 DEF CommitWrite, TypeOK
  <2>3. pc[t] = "filled" /\ op[t] = "getWriteBuf" /\ mutex = Nobody
    BY <1>3 DEF CommitWrite
  <2>. HIDE DEF IInv
  <2>. QED BY <2>1, <2>2, <2>3, ProduceStep
<1>4. CASE AbortWrite(t)
  <2>1. mem' \in [0 .. N - 1 -> 0 .. Tags]
    BY <1>4 DEF AbortWrite, TypeOK, Dead, RingBufAssumption
  <2>2. /\ UNCHANGED <<wr, rd, dataSize, nextTag, mutex, egVars, signalled>>
        /\ inProgress' = inProgress \ {"write"} /\ Return(t)
        /\ pc[t] \in {"hold", "filled"} /\ mutex = Nobody
    BY <1>4 DEF AbortWrite
  <2>. USE <1>0, <2>1, <2>2 DEF Return, egVars
  <2>3. TypeOK' /\ BlockedOK' /\ RingShape'
    BY DEF TypeOK, EventTypeOK, PCs, BlockedOK, RingShape
  <2>4. Roles'
    BY DEF Roles, TypeOK, Usage, Tasks
  <2>5. Owner' /\ Recorded'
    BY DEF Owner, Recorded, TypeOK, Critical, Usage
  <2>6. Levels'
    BY DEF Levels, TypeOK, Usage, Truth, Tasks
  <2>7. Sizes'
    BY DEF Sizes, TypeOK, Usage, Space, Tasks, Roles
  <2>. QED BY <2>3, <2>4, <2>5, <2>6, <2>7
<1>. QED BY <1>1, <1>2, <1>3, <1>4
-----------------------------------------------------------------------------
\* The calls of setBits that end the commits and doClear().

\* SetBitsEffect, under the invariant.
LEMMA SetBitsKeeps ==
  ASSUME IInv, NEW f \in SUBSET Flags, SetBits(f)
  PROVE  EventTypeOK(Flags)' /\ BlockedOK' /\ \A x \in Level : x \in bits' <=> x \in bits \cup f
  BY SetBitsEffect DEF SetBits, IInv, TypeOK, EventTypeOK

\* Setting IsEmpty after the last byte was read makes that flag true.
LEMMA SetIsEmptyStep ==
  ASSUME Usage, IInv, NEW t \in Readers, SetIsEmpty(t)
  PROVE  IInv'
<1>. USE RingBufAssumption DEF IInv, SetIsEmpty, Go, Tasks, ringVars, Free
<1>1. EventTypeOK(Flags)' /\ BlockedOK' /\ \A x \in Level : x \in bits' <=> x \in bits \cup {"IsEmpty"}
  BY SetBitsKeeps DEF Flags, Level
<1>2. TypeOK' /\ RingShape'
  BY <1>1 DEF TypeOK, PCs, RingShape
<1>3. Roles'
  BY DEF Roles, TypeOK, Usage
<1>4. Owner' /\ Recorded'
  BY DEF Owner, Recorded, TypeOK, Critical
<1>5. Levels'
  BY <1>1 DEF Levels, TypeOK, Usage, Truth, Level, Owner, Critical, RingBufAssumption
<1>6. Sizes'
  BY DEF Sizes, TypeOK, Usage, Space, Roles
<1>. QED BY <1>1, <1>2, <1>3, <1>4, <1>5, <1>6

\* The last call of a reader's commit makes the flags true again, and ends the
\* operation that contigRead began.
LEMMA SetReadOpStep ==
  ASSUME Usage, IInv, NEW t \in Readers, SetReadOp(t)
  PROVE  IInv'
<1>. USE RingBufAssumption DEF IInv, Tasks, ringVars, Free
<1>1. EventTypeOK(Flags)' /\ BlockedOK' /\ \A x \in Level : x \in bits' <=> x \in bits \cup ReadDone
  BY SetBitsKeeps DEF SetReadOp, ReadDone, Flags, Level, Pulse
<1>2. pc[t] = "setOp" /\ UNCHANGED <<ringVars, signalled>>
  BY DEF SetReadOp
<1>3. \/ op[t] = "read" /\ need[t] > 0 /\ Go(t, "rest") /\ UNCHANGED <<mutex, inProgress>>
      \/ op[t] = "read" /\ Return(t) /\ mutex' = Nobody /\ UNCHANGED inProgress
      \/ op[t] = "contigRead" /\ Return(t) /\ mutex' = Nobody /\ inProgress' = inProgress \ {"read"}
  BY DEF SetReadOp
<1>4. CASE op[t] = "read" /\ need[t] > 0 /\ Go(t, "rest") /\ UNCHANGED <<mutex, inProgress>>
  <2>. USE <1>2, <1>4 DEF Go
  <2>1. TypeOK' /\ RingShape'
    BY <1>1 DEF TypeOK, PCs, RingShape
  <2>2. Roles'
    BY DEF Roles, TypeOK, Usage
  <2>3. Owner' /\ Recorded'
    BY DEF Owner, Recorded, TypeOK, Critical
  <2>4. Levels'
    BY <1>1 DEF Levels, TypeOK, Usage, Truth, Level, ReadDone, Owner, Critical, RingBufAssumption
  <2>5. Sizes'
    BY DEF Sizes, TypeOK, Usage, Space, Roles
  <2>. QED BY <1>1, <2>1, <2>2, <2>3, <2>4, <2>5
<1>5. CASE /\ Return(t) /\ mutex' = Nobody
           /\ UNCHANGED inProgress \/ inProgress' = inProgress \ {"read"}
  <2>. USE <1>2, <1>5 DEF Return
  <2>0. inProgress' \subseteq {"read", "write"}
    BY DEF TypeOK
  <2>1. TypeOK'
    BY <1>1, <2>0
       DEF TypeOK, PCs, AllCalls
  <2>7. RingShape'
    BY DEF RingShape
  <2>2. Roles'
    BY DEF Roles, TypeOK, Usage
  <2>3. Owner'
    BY DEF Owner, TypeOK, Critical, RingBufAssumption
  <2>4. Recorded'
    BY DEF Recorded, TypeOK, Usage
  <2>5. Levels'
    BY <1>1 DEF Levels, TypeOK, Usage, Truth, Level, ReadDone, Owner, Critical, RingBufAssumption
  <2>6. Sizes'
    BY DEF Sizes, TypeOK, Usage, Space, Roles
  <2>. QED BY <1>1, <2>1, <2>2, <2>3, <2>4, <2>5, <2>6, <2>7
<1>. QED BY <1>3, <1>4, <1>5

\* The last call of a writer's commit makes the flags true again, and ends the
\* operation that getWriteBuf began.
LEMMA SetWriteOpStep ==
  ASSUME Usage, IInv, NEW t \in Writers, SetWriteOp(t)
  PROVE  IInv'
<1>. USE RingBufAssumption DEF IInv, Tasks, ringVars, Free
<1>1. EventTypeOK(Flags)' /\ BlockedOK' /\ \A x \in Level : x \in bits' <=> x \in bits \cup WriteDone
  BY SetBitsKeeps DEF SetWriteOp, WriteDone, Flags, Level, Pulse
<1>2. pc[t] = "setOp" /\ UNCHANGED <<ringVars, signalled>>
  BY DEF SetWriteOp
<1>3. \/ op[t] = "write" /\ need[t] > 0 /\ Go(t, "rest") /\ UNCHANGED <<mutex, inProgress>>
      \/ op[t] = "write" /\ Return(t) /\ mutex' = Nobody /\ UNCHANGED inProgress
      \/ op[t] = "getWriteBuf" /\ Return(t) /\ mutex' = Nobody /\ inProgress' = inProgress \ {"write"}
  BY DEF SetWriteOp
<1>4. CASE op[t] = "write" /\ need[t] > 0 /\ Go(t, "rest") /\ UNCHANGED <<mutex, inProgress>>
  <2>. USE <1>2, <1>4 DEF Go
  <2>1. TypeOK' /\ RingShape'
    BY <1>1 DEF TypeOK, PCs, RingShape
  <2>2. Roles'
    BY DEF Roles, TypeOK, Usage
  <2>3. Owner' /\ Recorded'
    BY DEF Owner, Recorded, TypeOK, Critical
  <2>4. Levels'
    BY <1>1 DEF Levels, TypeOK, Usage, Truth, Level, WriteDone, Owner, Critical, RingBufAssumption
  <2>5. Sizes'
    BY DEF Sizes, TypeOK, Usage, Space, Roles
  <2>. QED BY <1>1, <2>1, <2>2, <2>3, <2>4, <2>5
<1>5. CASE /\ Return(t) /\ mutex' = Nobody
           /\ UNCHANGED inProgress \/ inProgress' = inProgress \ {"write"}
  <2>. USE <1>2, <1>5 DEF Return
  <2>0. inProgress' \subseteq {"read", "write"}
    BY DEF TypeOK
  <2>1. TypeOK'
    BY <1>1, <2>0
       DEF TypeOK, PCs, AllCalls
  <2>7. RingShape'
    BY DEF RingShape
  <2>2. Roles'
    BY DEF Roles, TypeOK, Usage
  <2>3. Owner'
    BY DEF Owner, TypeOK, Critical, RingBufAssumption
  <2>4. Recorded'
    BY DEF Recorded, TypeOK, Usage
  <2>5. Levels'
    BY <1>1 DEF Levels, TypeOK, Usage, Truth, Level, WriteDone, Owner, Critical, RingBufAssumption
  <2>6. Sizes'
    BY DEF Sizes, TypeOK, Usage, Space, Roles
  <2>. QED BY <1>1, <2>1, <2>2, <2>3, <2>4, <2>5, <2>6, <2>7
<1>. QED BY <1>3, <1>4, <1>5

-----------------------------------------------------------------------------
\* clear() and the stop signal.

\* clear() empties the ring only while nobody holds a part of it.
LEMMA ClearStep ==
  ASSUME Usage, IInv, NEW t \in Controllers, ClearTry(t) \/ ClearSet(t) \/ ClearReturn(t)
  PROVE  IInv'
<1>1. CASE ClearTry(t) /\ Busy
  <2>1. /\ t \in Tasks /\ pc[t] = "try"
        /\ pc' = [pc EXCEPT ![t] = "wait"]
        /\ UNCHANGED <<tmo, op, need, got, ringVars, inProgress, mutex, egVars, signalled>>
    BY <1>1 DEF ClearTry, Go, At, Tasks
  <2>2. tmo' = [tmo EXCEPT ![t] = tmo[t]] /\ tmo[t] \in {"forever", "poll", "timed"}
    BY <2>1 DEF IInv, TypeOK
  <2>3. EventTypeOK(Flags)' /\ BlockedOK' /\ \A x \in Level : x \in bits' <=> x \in bits
    BY <2>1 DEF egVars, EventTypeOK, BlockedOK, IInv, TypeOK
  <2>. HIDE DEF IInv, BlockedOK, EventTypeOK
  <2>. QED BY <2>1, <2>2, <2>3, QuietMove
<1>. USE RingBufAssumption DEF IInv, Tasks, Free, At
<1>2. CASE ClearTry(t) /\ ~Busy
  <2>1. /\ DoClear /\ ClearBits(Flags) /\ Go(t, "clearSet") /\ mutex' = t
        /\ UNCHANGED <<inProgress, signalled>>
        /\ pc[t] = "try" /\ op[t] = "clear" /\ mutex = Nobody /\ inProgress = {}
    BY <1>2 DEF ClearTry, Busy
  <2>2. bits' = {} /\ blocked' = blocked /\ ret' = ret
    BY <2>1 DEF ClearBits, TypeOK, EventTypeOK
  <2>. USE <2>1, <2>2 DEF Go, DoClear
  <2>3. TypeOK' /\ BlockedOK' /\ RingShape'
    BY DEF TypeOK, EventTypeOK, PCs, Dead, BlockedOK, RingShape, RingBufAssumption
  <2>4. Roles'
    BY DEF Roles, TypeOK, Usage
  <2>5. Owner' /\ Recorded'
    BY DEF Owner, Recorded, TypeOK, Critical, RingBufAssumption
  <2>6. Levels'
    BY DEF Levels, TypeOK, Usage, Truth, Owner, Critical, RingBufAssumption
  <2>7. Sizes'
    BY DEF Sizes, TypeOK, Usage, Space, Roles, Owner, Critical, Recorded, RingBufAssumption
  <2>. QED BY <2>3, <2>4, <2>5, <2>6, <2>7
<1>3. CASE ClearSet(t)
  <2>. USE <1>3 DEF ClearSet, Go, ringVars
  <2>1. EventTypeOK(Flags)' /\ BlockedOK' /\ \A x \in Level : x \in bits' <=> x \in bits \cup Cleared
    BY SetBitsKeeps DEF Cleared, Flags, Level, Pulse
  <2>2. TypeOK' /\ RingShape'
    BY <2>1 DEF TypeOK, PCs, RingShape
  <2>3. Roles'
    BY DEF Roles, TypeOK, Usage
  <2>4. Owner' /\ Recorded'
    BY DEF Owner, Recorded, TypeOK, Critical
  <2>5. Levels'
    BY <2>1 DEF Levels, TypeOK, Usage, Truth, Level, Cleared, Owner, Critical, RingBufAssumption
  <2>6. Sizes'
    BY DEF Sizes, TypeOK, Usage, Space, Roles
  <2>. QED BY <2>1, <2>2, <2>3, <2>4, <2>5, <2>6
<1>4. CASE ClearReturn(t)
  <2>. USE <1>4 DEF ClearReturn, Return, ringVars, egVars
  <2>1. TypeOK' /\ BlockedOK' /\ RingShape'
    BY DEF TypeOK, EventTypeOK, PCs, BlockedOK, RingShape
  <2>2. Roles'
    BY DEF Roles, TypeOK, Usage
  <2>3. Owner' /\ Recorded'
    BY DEF Owner, Recorded, TypeOK, Critical, RingBufAssumption
  <2>4. Levels'
    BY DEF Levels, TypeOK, Usage, Truth, Owner, Critical, RingBufAssumption
  <2>5. Sizes'
    BY DEF Sizes, TypeOK, Usage, Space, Roles
  <2>. QED BY <2>1, <2>2, <2>3, <2>4, <2>5
<1>. QED BY <1>1, <1>2, <1>3, <1>4

\* The stop signal, which is raised and taken back without the mutex, touches no
\* other flag that anything relies on.
LEMMA StopSignalStep ==
  ASSUME Usage, IInv, NEW t \in Controllers, SetStopSignal(t) \/ ClearStopSignal(t)
  PROVE  IInv'
<1>1. /\ EventTypeOK(Flags)' /\ BlockedOK'
      /\ \A x \in Level : x \in bits' <=> x \in bits
  <2>1. CASE SetStopSignal(t)
    BY <2>1, SetBitsKeeps DEF SetStopSignal, Flags, Level
  <2>2. CASE ClearStopSignal(t)
    BY <2>2 DEF ClearStopSignal, ClearBits, Level, IInv, TypeOK, EventTypeOK, BlockedOK
  <2>. QED BY <2>1, <2>2
<1>2. UNCHANGED <<ringVars, inProgress, mutex, localVars>> /\ signalled' \in BOOLEAN
  BY DEF SetStopSignal, ClearStopSignal
<1>. QED
  BY <1>1, <1>2
     DEF IInv, TypeOK, Roles, Owner, Recorded, RingShape, Levels, Truth, Level, Sizes, Space, Free,
         ringVars, localVars

-----------------------------------------------------------------------------
\* The theorems.

\* The constructor establishes the invariant.
LEMMA InitIInv == Usage /\ Init => IInv
<1>. SUFFICES ASSUME Init PROVE IInv
  OBVIOUS
<1>. USE RingBufAssumption DEF Init, EventInit, RingBufAssumption
<1>1. TypeOK
  <2>1. EventTypeOK(Flags)
    BY DEF EventTypeOK, NoWait, Request, Cleared, Flags, Level, Pulse
  <2>2. got \in [Tasks -> Seq(0 .. Tags)]
    OBVIOUS
  <2>3. mem \in [0 .. N - 1 -> 0 .. Tags]
    BY DEF Dead
  <2>4. /\ pc \in [Tasks -> PCs]
        /\ op \in [Tasks -> AllCalls \cup {"none"}]
        /\ need \in [Tasks -> Nat]
        /\ tmo \in [Tasks -> {"forever", "poll", "timed"}]
    BY DEF PCs
  <2>5. /\ wr \in 0 .. N - 1 /\ rd \in 0 .. N - 1 /\ dataSize \in 0 .. N
        /\ nextTag \in 0 .. Tags - 1
    OBVIOUS
  <2>6. mutex \in Tasks \cup {Nobody} /\ inProgress \subseteq {"read", "write"}
    OBVIOUS
  <2>7. signalled \in BOOLEAN
    OBVIOUS
  <2>. QED BY <2>1, <2>2, <2>3, <2>4, <2>5, <2>6, <2>7 DEF TypeOK
<1>2. BlockedOK /\ Roles /\ Owner /\ Recorded /\ RingShape
  BY DEF BlockedOK, NoWait, Request, Roles, Owner, Critical, Recorded, RingShape, Tasks
<1>3. Levels /\ Sizes
  BY DEF Levels, Truth, Cleared, Sizes, Tasks
<1>. QED BY <1>1, <1>2, <1>3 DEF IInv

\* Every step keeps the invariant.
LEMMA NextIInv == Usage /\ IInv /\ [Next]_vars => IInv'
<1>. SUFFICES ASSUME Usage, IInv, [Next]_vars PROVE IInv'
  OBVIOUS
<1>1. ASSUME NEW t \in Readers, ReaderCall(t) PROVE IInv'
  <2>1. t \in Tasks /\ RingBufAssumption
    BY RingBufAssumption DEF Tasks
  <2>2. PICK n \in ReadSizes, w \in Timeouts :
          \E call \in {"read", "contigRead", "peek"} : Begin(t, call, "try", n, w)
    BY <1>1 DEF ReaderCall, CallRead, CallContigRead, CallPeek
  <2>3. n \in Nat /\ n > 0
    BY <2>1 DEF Usage, RingBufAssumption
  <2>. QED BY <2>1, <2>2, <2>3, BeginStep
<1>2. ASSUME NEW t \in Writers, WriterCall(t) PROVE IInv'
  <2>1. t \in Tasks /\ RingBufAssumption
    BY RingBufAssumption DEF Tasks
  <2>2. PICK n \in WriteSizes, w \in Timeouts \cup {"forever"} :
          \/ Begin(t, "write", "try", n, w)
          \/ Begin(t, "getWriteBuf", "enter", n, w)
    BY <1>2 DEF WriterCall, CallWrite, CallGetWriteBuf
  <2>3. n \in Nat /\ n > 0
    BY <2>1 DEF Usage, RingBufAssumption
  <2>. QED BY <2>1, <2>2, <2>3, BeginStep
<1>3. ASSUME NEW t \in Controllers, ControllerCall(t) PROVE IInv'
  <2>1. t \in Tasks
    BY DEF Tasks
  <2>2. CASE CallClear(t)
    BY <2>1, <2>2, BeginStep DEF CallClear
  <2>. QED BY <1>3, <2>2, StopSignalStep DEF ControllerCall
<1>4. ASSUME NEW t \in Readers, ReaderStep(t) PROVE IInv'
  BY <1>4, WaitingStep, ReadStep, ContigReadStep, SetIsEmptyStep, SetReadOpStep, PeekStep
     DEF ReaderStep, Tasks
<1>5. ASSUME NEW t \in Writers, WriterStep(t) \/ AbortWrite(t) PROVE IInv'
  BY <1>5, WaitingStep, WriteStep, WriteBufStep, SetWriteOpStep DEF WriterStep, Tasks
<1>6. ASSUME NEW t \in Controllers, ControllerStep(t) PROVE IInv'
  BY <1>6, WaitingStep, ClearStep DEF ControllerStep, Tasks
<1>7. CASE UNCHANGED vars
  BY <1>7 DEF vars, ringVars, egVars, localVars, IInv, TypeOK, EventTypeOK, BlockedOK, Roles, Owner,
              Recorded, RingShape, Levels, Truth, Sizes, Space, Free
<1>. QED BY <1>1, <1>2, <1>3, <1>4, <1>5, <1>6, <1>7 DEF Next

\* IInv is an invariant of the ring buffer.
LEMMA Invariance == ASSUME Usage PROVE Spec => []IInv
<1>1. Init => IInv
  BY InitIInv
<1>2. IInv /\ [Next]_vars => IInv'
  BY NextIInv
<1>. QED BY <1>1, <1>2, PTL DEF Spec

\* Every variable keeps its type: in particular neither offset ever leaves the
\* buffer and the byte count stays between nothing and its size.
THEOREM TypeCorrect == ASSUME Usage PROVE Spec => []TypeOK
<1>1. IInv => TypeOK
  BY DEF IInv
<1>. QED BY <1>1, Invariance, PTL

\* The offsets and the byte count always describe one ring.
THEOREM ShapeHolds == ASSUME Usage PROVE Spec => []RingShape
<1>1. IInv => RingShape
  BY DEF IInv
<1>. QED BY <1>1, Invariance, PTL

\* Whenever the mutex is free the level flags agree with the byte count.
THEOREM FlagsHold == ASSUME Usage PROVE Spec => []FlagsTellTheTruth
<1>1. IInv => FlagsTellTheTruth
  BY DEF IInv, Levels, Truth, FlagsTellTheTruth
<1>. QED BY <1>1, Invariance, PTL

\* No assertion of a commit fails: what a task measured earlier still fits.
THEOREM CommitsFitHolds == ASSUME Usage PROVE Spec => []CommitsFit
<1>1. IInv => CommitsFit
  <2>. SUFFICES ASSUME IInv PROVE CommitsFit
    OBVIOUS
  <2>. USE RingBufAssumption DEF IInv
  <2>1. AvailWrite = Least(Space, N - wr)
    BY AvailWriteIs
  <2>2. ASSUME NEW t \in Readers, pc[t] \in {"rest", "hold"} PROVE need[t] <= AvailRead
    <3>1. t \in Tasks
      BY DEF Tasks
    <3>2. need[t] \in Nat /\ need[t] <= dataSize /\ rd + need[t] <= N
      BY <2>2, <3>1 DEF Sizes, TypeOK, Roles, RingBufAssumption
    <3>3. "HasSpace" \in bits <=> dataSize < N
      <4>1. CASE pc[t] = "rest"
        BY <3>1, <4>1 DEF Levels, Truth
      <4>2. CASE pc[t] = "hold"
        <5>1. need[t] > 0 /\ dataSize > 0
          BY <3>2, <4>2 DEF Sizes, TypeOK
        <5>2. CASE Free
          BY <5>2 DEF Levels, Truth
        <5>3. CASE ~Free
          <6>1. PICK u \in Tasks : mutex = u /\ pc[u] \in Critical
            BY <5>3 DEF Free, TypeOK, Owner
          <6>2. u \notin Readers
            BY <4>2, <6>1 DEF Usage, Critical
          <6>. QED BY <5>1, <6>1, <6>2 DEF Levels, Truth, Critical, Roles, Usage, Tasks, TypeOK
        <5>. QED BY <5>2, <5>3
      <4>. QED BY <2>2, <4>1, <4>2
    <3>4. AvailRead = Least(dataSize, N - rd)
      BY <3>3, AvailReadIs
    <3>. QED BY <3>2, <3>4 DEF Least, TypeOK, RingBufAssumption
  <2>3. ASSUME NEW t \in Writers, pc[t] \in {"rest", "hold", "filled"} PROVE need[t] <= AvailWrite
    <3>1. t \in Tasks
      BY DEF Tasks
    <3>2. need[t] \in Nat /\ need[t] <= Space /\ wr + need[t] <= N
      BY <2>3, <3>1 DEF Sizes, TypeOK, Roles, Space, RingBufAssumption
    <3>. QED BY <2>1, <3>2 DEF Least, Space, TypeOK, RingBufAssumption
  <2>. QED BY <2>2, <2>3 DEF CommitsFit, At, Roles, Usage, Tasks
<1>. QED BY <1>1, Invariance, PTL
-----------------------------------------------------------------------------
\* Buffers that are handed out.

\* The data that a reader may hold and the room that a writer may fill have no
\* cell in common.
LEMMA Apart ==
  ASSUME TypeOK, RingShape, RingBufAssumption,
         NEW a \in Nat, a <= dataSize, rd + a <= N,
         NEW b \in Nat, b <= Space, wr + b <= N
  PROVE  \A i \in Slice(rd, a) : i \in 0 .. N - 1 /\ i \notin Slice(wr, b)
  BY DEF TypeOK, RingShape, RingBufAssumption, Slice, Space

\* Whoever changes an offset or a cell is a reader that commits, a writer that
\* changes cells it has room for, or a clear() while nothing is in progress.
LEMMA RingMoves ==
  ASSUME Usage, IInv, [Next]_vars
  PROVE  \/ UNCHANGED <<wr, rd, mem>>
         \/ UNCHANGED wr /\ \E r \in Readers : pc'[r] \in {"setEmpty", "setOp"}
         \/ \E w \in Writers, k \in Nat :
              /\ k <= Space /\ wr + k <= N /\ UNCHANGED rd
              /\ \A i \in 0 .. N - 1 : i \notin Slice(wr, k) => mem'[i] = mem[i]
              /\ wr' = wr \/ pc'[w] = "setOp"
         \/ inProgress = {}
<1>. USE RingBufAssumption DEF Tasks
<1>1. ASSUME NEW r \in Readers, NEW k, NEW bytes, Consume(r, k, bytes)
      PROVE  UNCHANGED wr /\ pc'[r] \in {"setEmpty", "setOp"}
  BY <1>1 DEF Consume, GoGot, IInv, TypeOK
<1>2. ASSUME NEW t \in Tasks, Waiting(t) PROVE UNCHANGED <<wr, rd, mem>>
  BY <1>2 DEF Waiting, Wait, TimeOut, WokenByStop, WokenByEvent, WokenByTimeout, Woken, ringVars
<1>3. ASSUME NEW r \in Readers, ReaderStep(r)
      PROVE  \/ UNCHANGED <<wr, rd, mem>>
             \/ UNCHANGED wr /\ pc'[r] \in {"setEmpty", "setOp"}
  BY <1>1, <1>2, <1>3 DEF ReaderStep, ReadTry, ReadPart, ReadRest, ContigReadTry, CommitContigRead,
                          SetIsEmpty, SetReadOp, PeekTry, PeekLock, PeekReturn, ringVars
<1>4. ASSUME NEW w \in Writers, WriterStep(w) \/ AbortWrite(w)
      PROVE  \/ UNCHANGED <<wr, rd, mem>>
             \/ \E k \in Nat :
                  /\ k <= Space /\ wr + k <= N /\ UNCHANGED rd
                  /\ \A i \in 0 .. N - 1 : i \notin Slice(wr, k) => mem'[i] = mem[i]
                  /\ wr' = wr \/ pc'[w] = "setOp"
  <2>1. need[w] \in Nat /\ w \in Tasks /\ wr \in 0 .. N - 1 /\ Space \in Nat
    BY DEF IInv, TypeOK, Space, RingBufAssumption
  <2>2. CASE WritePart(w)
    <3> DEFINE k == Least(need[w], AvailWrite)
    <3>1. AvailWrite = Least(Space, N - wr)
      BY AvailWriteIs DEF IInv
    <3>2. k \in Nat /\ k <= Space /\ wr + k <= N
      BY <2>1, <3>1 DEF Least, RingBufAssumption
    <3>3. mem' = Filled(wr, k) /\ Produce(w, k)
      BY <2>2 DEF WritePart
    <3>. HIDE DEF k
    <3>4. UNCHANGED rd /\ pc'[w] = "setOp"
      BY <2>1, <3>3 DEF Produce, GoNeed, IInv, TypeOK
    <3>5. \A i \in 0 .. N - 1 : i \notin Slice(wr, k) => mem'[i] = mem[i]
      BY <3>3 DEF Filled
    <3>. QED BY <3>2, <3>4, <3>5
  <2>3. CASE FillWriteBuf(w)
    <3>1. need[w] <= Space /\ wr + need[w] <= N
      BY <2>1, <2>3 DEF FillWriteBuf, At, IInv, Sizes
    <3>2. PICK k \in LeastCommit .. need[w] : mem' = Filled(wr, k)
      BY <2>3 DEF FillWriteBuf
    <3>3. k \in Nat /\ k <= Space /\ wr + k <= N
      BY <2>1, <3>1 DEF Usage
    <3>4. \A i \in 0 .. N - 1 : i \notin Slice(wr, k) => mem'[i] = mem[i]
      BY <3>2 DEF Filled
    <3>. QED BY <2>3, <3>3, <3>4 DEF FillWriteBuf
  <2>4. CASE AbortWrite(w)
    <3>1. need[w] <= Space /\ wr + need[w] <= N
      BY <2>1, <2>4 DEF AbortWrite, IInv, Sizes
    <3>2. \A i \in 0 .. N - 1 : i \notin Slice(wr, need[w]) => mem'[i] = mem[i]
      BY <2>4 DEF AbortWrite
    <3>. QED BY <2>1, <2>4, <3>1, <3>2 DEF AbortWrite
  <2>5. CASE CommitWrite(w)
    <3>1. need[w] <= Space /\ wr + need[w] <= N
      BY <2>1, <2>5 DEF CommitWrite, At, IInv, Sizes
    <3>2. UNCHANGED <<rd, mem>> /\ pc'[w] = "setOp"
      BY <2>1, <2>5 DEF CommitWrite, Produce, GoNeed, IInv, TypeOK
    <3>. QED BY <2>1, <3>1, <3>2
  <2>6. CASE Waiting(w) \/ WriteTry(w) \/ GetWriteBufTry(w) \/ SetWriteOp(w)
    BY <1>2, <2>1, <2>6 DEF WriteTry, GetWriteBufTry, SetWriteOp, ringVars
  <2>. QED BY <1>4, <2>2, <2>3, <2>4, <2>5, <2>6 DEF WriterStep
<1>5. ASSUME NEW c \in Controllers, ControllerStep(c)
      PROVE  UNCHANGED <<wr, rd, mem>> \/ inProgress = {}
  BY <1>2, <1>5 DEF ControllerStep, ClearTry, ClearSet, ClearReturn, Busy, ringVars
<1>6. ASSUME NEW t \in Tasks, ReaderCall(t) \/ WriterCall(t) \/ ControllerCall(t)
      PROVE  UNCHANGED <<wr, rd, mem>>
  BY <1>6 DEF ReaderCall, CallRead, CallContigRead, CallPeek, WriterCall, CallWrite, CallGetWriteBuf,
              ControllerCall, CallClear, SetStopSignal, ClearStopSignal, Begin, ringVars
<1>. QED BY <1>3, <1>4, <1>5, <1>6 DEF Next, vars, ringVars

\* A buffer that was handed out stays where it is, and keeps its bytes if they
\* are there to be read, whatever the other side and clear() do meanwhile.
THEOREM HeldBufferStableHolds == ASSUME Usage PROVE Spec => HeldBufferStable
<1>. USE RingBufAssumption
<1> DEFINE Kept(t) ==
             pc[t] \in {"hold", "filled"} /\ pc'[t] \in {"hold", "filled"} =>
                /\ t \in Readers => /\ rd' = rd
                                    /\ \A i \in Slice(rd, need[t]) : mem'[i] = mem[i]
                /\ t \in Writers => wr' = wr
<1>1. ASSUME Usage, IInv, [Next]_vars, NEW t \in Tasks PROVE Kept(t)
  <2>. SUFFICES ASSUME pc[t] \in {"hold", "filled"}, pc'[t] \in {"hold", "filled"}
                PROVE  /\ t \in Readers => /\ rd' = rd
                                           /\ \A i \in Slice(rd, need[t]) : mem'[i] = mem[i]
                       /\ t \in Writers => wr' = wr
    OBVIOUS
  <2>1. inProgress # {} \/ t \in Controllers
    BY <1>1 DEF IInv, Recorded, Tasks
  <2>2. t \notin Controllers
    BY <1>1 DEF IInv, Roles, Usage
  <2>3. t \in Readers => need[t] \in Nat /\ need[t] <= dataSize /\ rd + need[t] <= N
    BY <1>1 DEF IInv, Roles, Sizes, TypeOK
  <2>4. CASE UNCHANGED <<wr, rd, mem>>
    BY <2>4
  <2>5. CASE UNCHANGED wr /\ \E r \in Readers : pc'[r] \in {"setEmpty", "setOp"}
    BY <1>1, <2>5 DEF Usage
  <2>6. ASSUME NEW w \in Writers, NEW k \in Nat, k <= Space, wr + k <= N, UNCHANGED rd,
               \A i \in 0 .. N - 1 : i \notin Slice(wr, k) => mem'[i] = mem[i],
               wr' = wr \/ pc'[w] = "setOp"
        PROVE  /\ t \in Readers => /\ rd' = rd
                                   /\ \A i \in Slice(rd, need[t]) : mem'[i] = mem[i]
               /\ t \in Writers => wr' = wr
    <3>1. t \in Writers => wr' = wr
      BY <1>1, <2>6 DEF Usage
    <3>2. t \in Readers => \A i \in Slice(rd, need[t]) : i \in 0 .. N - 1 /\ i \notin Slice(wr, k)
      BY <1>1, <2>3, <2>6, Apart DEF IInv
    <3>. QED BY <2>6, <3>1, <3>2
  <2>. QED BY <1>1, <2>1, <2>2, <2>4, <2>5, <2>6, RingMoves
<1>2. Usage /\ IInv /\ [Next]_vars => [\A t \in Tasks : Kept(t)]_vars
  BY <1>1
<1>. QED BY <1>2, Invariance, PTL DEF Spec, HeldBufferStable
-----------------------------------------------------------------------------
\* Wake-ups. A reader or writer that has looked, or sleeps, without what it needs
\* is told of it when it comes: by a pulse that is still set, or by the task that
\* is about to set it. The flags that a sleeping task waits for are not set.

Wanted(r) == IF op[r] = "contigRead" THEN 1 ELSE need[r]
DataFor(r) == dataSize >= Wanted(r)
RoomFor(w) == Space >= need[w] /\ (op[w] = "getWriteBuf" => wr + need[w] <= N)

WaitShape ==
    \A t \in Tasks :
        /\ op[t] = "none" => pc[t] = "idle"
        /\ IsBlocked(t) => /\ pc[t] = "woken"
                           /\ blocked[t] = Request(WaitFlags(t) \cup {"Stop"}, FALSE, Resets(t))
                           /\ blocked[t].for \cap bits = {}

Asleep(t) == pc[t] = "wait" \/ IsBlocked(t)
Giving == \E w \in Writers : pc[w] = "setOp"
Taking == \/ \E r \in Readers : pc[r] \in {"setEmpty", "setOp"}
          \/ \E c \in Controllers : pc[c] = "clearSet"

ReadersTold == \A r \in Readers : Asleep(r) /\ DataFor(r) => "WriteOp" \in bits \/ Giving
WritersTold == \A w \in Writers : Asleep(w) /\ RoomFor(w) => "ReadOp" \in bits \/ Taking

WakeInv == WaitShape /\ ReadersTold /\ WritersTold

\* A step of a task that sets no flag and clears no pulse, and that sleeps only
\* without what it needs: who adds or takes bytes is about to tell.
LEMMA Undisturbed ==
  ASSUME Usage, IInv, WakeInv, NEW u \in Tasks,
         \A t \in Tasks \ {u} : pc'[t] = pc[t] /\ op'[t] = op[t] /\ need'[t] = need[t],
         blocked' = blocked, bits' \subseteq bits, bits \cap Pulse \subseteq bits',
         ~IsBlocked(u), op'[u] = "none" => pc'[u] = "idle",
         pc'[u] = "wait" => (u \in Readers => ~DataFor(u)') /\ (u \in Writers => ~RoomFor(u)'),
         \/ UNCHANGED <<wr, dataSize>> /\ pc[u] \notin {"setEmpty", "setOp", "clearSet"}
         \/ /\ u \in Readers /\ pc'[u] \in {"setEmpty", "setOp"} /\ wr' = wr
            /\ dataSize' \in Int /\ dataSize' <= dataSize
         \/ u \in Writers /\ pc'[u] = "setOp"
  PROVE  WakeInv'
<1>. USE DEF WakeInv
<1>1. /\ \A t \in Tasks : IsBlocked(t)' = IsBlocked(t)
      /\ \A t \in Tasks : ~IsBlocked(t) \/ t # u
  BY DEF IsBlocked
<1>2. WaitShape'
  BY <1>1 DEF WaitShape, WaitFlags, Resets
<1>3. ReadersTold'
  <2>. SUFFICES ASSUME NEW r \in Readers, Asleep(r)', DataFor(r)' PROVE "WriteOp" \in bits' \/ Giving'
    BY DEF ReadersTold
  <2>1. r \in Tasks /\ r # u
    BY <1>1 DEF Tasks, Asleep
  <2>2. Asleep(r) /\ Wanted(r)' = Wanted(r) /\ Wanted(r) \in Int /\ dataSize \in Int
    BY <1>1, <2>1 DEF Asleep, Wanted, IInv, TypeOK
  <2>3. CASE u \in Writers /\ pc'[u] = "setOp"
    BY <2>3 DEF Giving
  <2>4. CASE ~(u \in Writers /\ pc'[u] = "setOp")
    <3>1. DataFor(r)
      BY <2>2, <2>4 DEF DataFor
    <3>2. Giving => Giving'
      BY <2>1, <2>4 DEF Giving, Usage, Tasks
    <3>. QED BY <2>2, <3>1, <3>2 DEF ReadersTold, Pulse
  <2>. QED BY <2>3, <2>4
<1>4. WritersTold'
  <2>. SUFFICES ASSUME NEW w \in Writers, Asleep(w)', RoomFor(w)' PROVE "ReadOp" \in bits' \/ Taking'
    BY DEF WritersTold
  <2>1. w \in Tasks /\ w # u /\ u \notin Writers
    BY <1>1 DEF Tasks, Asleep, Usage
  <2>2. Asleep(w) /\ wr' = wr /\ need'[w] = need[w] /\ op'[w] = op[w]
    BY <1>1, <2>1 DEF Asleep
  <2>3. CASE u \in Readers /\ pc'[u] \in {"setEmpty", "setOp"}
    BY <2>3 DEF Taking
  <2>4. CASE ~(u \in Readers /\ pc'[u] \in {"setEmpty", "setOp"})
    <3>1. dataSize' = dataSize
      BY <2>1, <2>4
    <3>2. RoomFor(w)
      BY <2>2, <3>1 DEF RoomFor, Space
    <3>3. Taking => Taking'
      BY <2>1, <2>4 DEF Taking, Tasks
    <3>. QED BY <2>2, <3>2, <3>3 DEF WritersTold, Pulse
  <2>. QED BY <2>3, <2>4
<1>. QED BY <1>2, <1>3, <1>4

\* What a request says.
LEMMA RequestFields ==
  ASSUME NEW flags, NEW reset, NEW q, q = Request(flags, FALSE, reset)
  PROVE  q.for = flags /\ ~q.all /\ (q.reset <=> reset)
  BY Zenon DEF Request

\* Setting flags wakes who waits for one of them; what disappears in the same
\* call is what some of these have asked to reset.
LEMMA SetBitsWakes ==
  ASSUME WaitShape, NEW f, NEW base, SetBitsOver(f, base)
  PROVE  /\ \A t \in Tasks : IsBlocked(t)' => /\ IsBlocked(t) /\ blocked'[t] = blocked[t]
                                              /\ blocked[t].for \cap (bits \cup f) = {}
         /\ bits' \subseteq bits \cup f
         /\ \A x \in bits \cup f :
               x \in bits' \/ \E t \in Tasks : /\ IsBlocked(t) /\ blocked[t].reset /\ x \in blocked[t].for
                                               /\ ~IsBlocked(t)'
<1> DEFINE now == bits \cup f
           woken == {t \in Tasks : IsBlocked(t) /\ Met(now, blocked[t])}
           spent == UNION {blocked[t].for : t \in {u \in woken : blocked[u].reset}}
<1>1. /\ bits' = now \ spent
      /\ blocked' = [t \in Tasks |-> IF t \in woken THEN NoWait ELSE blocked[t]]
  BY DEF SetBitsOver
<1>2. \A t \in Tasks : IsBlocked(t) /\ t \notin woken => blocked[t].for \cap now = {}
  <2>. TAKE t \in Tasks
  <2>. HAVE IsBlocked(t) /\ t \notin woken
  <2>1. blocked[t] = Request(WaitFlags(t) \cup {"Stop"}, FALSE, Resets(t))
    BY DEF WaitShape
  <2>2. ~blocked[t].all
    BY <2>1, RequestFields
  <2>. HIDE DEF now
  <2>. QED BY <2>2 DEF Met
<1>3. \A t \in woken : ~IsBlocked(t)' /\ t \in Tasks /\ IsBlocked(t)
  BY <1>1 DEF IsBlocked, NoWait, Request
<1>4. \A t \in Tasks : IsBlocked(t)' => IsBlocked(t) /\ blocked'[t] = blocked[t] /\ t \notin woken
  BY <1>1, <1>3 DEF IsBlocked
<1>. QED BY <1>1, <1>2, <1>3, <1>4

\* A step of a task that sets flags. Who has added or taken bytes sets its pulse.
LEMMA Telling ==
  ASSUME Usage, IInv, WakeInv, NEW u \in Tasks,
         \A t \in Tasks \ {u} : pc'[t] = pc[t] /\ op'[t] = op[t] /\ need'[t] = need[t],
         NEW f, NEW base, SetBitsOver(f, base), UNCHANGED <<wr, dataSize>>,
         ~IsBlocked(u), op'[u] = "none" => pc'[u] = "idle", pc'[u] # "wait",
         u \in Readers /\ pc[u] \in {"setEmpty", "setOp"} => "ReadOp" \in f \/ pc'[u] = "setOp",
         u \in Writers /\ pc[u] = "setOp" => "WriteOp" \in f,
         u \in Controllers /\ pc[u] = "clearSet" => "ReadOp" \in f
  PROVE  WakeInv'
<1>. USE DEF WakeInv
<1>1. /\ \A t \in Tasks : IsBlocked(t)' => /\ IsBlocked(t) /\ blocked'[t] = blocked[t]
                                           /\ blocked[t].for \cap (bits \cup f) = {}
      /\ bits' \subseteq bits \cup f
      /\ \A x \in bits \cup f :
            x \in bits' \/ \E t \in Tasks : /\ IsBlocked(t) /\ blocked[t].reset /\ x \in blocked[t].for
                                            /\ ~IsBlocked(t)'
  BY SetBitsWakes
<1>2. WaitShape'
  BY <1>1 DEF WaitShape, WaitFlags, Resets
\* Only a reader that sleeps takes WriteOp away, only a writer takes ReadOp.
<1>3. \A t \in Tasks : IsBlocked(t) /\ blocked[t].reset =>
          /\ "WriteOp" \in blocked[t].for => t \in Readers
          /\ "ReadOp" \in blocked[t].for => t \in Writers
          /\ pc[t] = "woken"
  <2>. SUFFICES ASSUME NEW t \in Tasks, IsBlocked(t), blocked[t].reset
                PROVE  /\ "WriteOp" \in blocked[t].for => t \in Readers
                       /\ "ReadOp" \in blocked[t].for => t \in Writers
                       /\ pc[t] = "woken"
    OBVIOUS
  <2>1. /\ blocked[t] = Request(WaitFlags(t) \cup {"Stop"}, FALSE, Resets(t))
        /\ pc[t] = "woken" /\ op[t] # "none"
    BY DEF WaitShape
  <2>2. op[t] # "clear" /\ blocked[t].for = WaitFlags(t) \cup {"Stop"}
    BY <2>1, RequestFields DEF Resets
  <2>3. t \notin Controllers
    BY <2>1, <2>2 DEF IInv, Roles
  <2>. QED BY <2>1, <2>2, <2>3 DEF WaitFlags, Tasks
<1>4. ReadersTold'
  <2>. SUFFICES ASSUME NEW r \in Readers, Asleep(r)', DataFor(r)' PROVE "WriteOp" \in bits' \/ Giving'
    BY DEF ReadersTold
  <2>1. r \in Tasks /\ r # u /\ Asleep(r) /\ DataFor(r)
    BY <1>1 DEF Tasks, Asleep, DataFor, Wanted
  <2>2. CASE "WriteOp" \in bits \cup f
    <3>1. ASSUME "WriteOp" \notin bits' PROVE FALSE
      <4>1. PICK t \in Tasks : /\ IsBlocked(t) /\ blocked[t].reset /\ "WriteOp" \in blocked[t].for
                               /\ ~IsBlocked(t)'
        BY <1>1, <2>2, <3>1
      <4>2. t = r /\ pc[r] = "woken"
        BY <1>3, <4>1 DEF Usage
      <4>. QED BY <2>1, <4>1, <4>2 DEF Asleep
    <3>. QED BY <3>1
  <2>3. CASE "WriteOp" \notin bits \cup f
    <3>1. Giving
      BY <2>1, <2>3 DEF ReadersTold
    <3>. QED BY <2>3, <3>1 DEF Giving, Tasks
  <2>. QED BY <2>2, <2>3
<1>5. WritersTold'
  <2>. SUFFICES ASSUME NEW w \in Writers, Asleep(w)', RoomFor(w)' PROVE "ReadOp" \in bits' \/ Taking'
    BY DEF WritersTold
  <2>1. w \in Tasks /\ w # u /\ Asleep(w) /\ RoomFor(w)
    BY <1>1 DEF Tasks, Asleep, RoomFor, Space
  <2>2. CASE "ReadOp" \in bits \cup f
    <3>1. ASSUME "ReadOp" \notin bits' PROVE FALSE
      <4>1. PICK t \in Tasks : /\ IsBlocked(t) /\ blocked[t].reset /\ "ReadOp" \in blocked[t].for
                               /\ ~IsBlocked(t)'
        BY <1>1, <2>2, <3>1
      <4>2. t = w /\ pc[w] = "woken"
        BY <1>3, <4>1 DEF Usage
      <4>. QED BY <2>1, <4>1, <4>2 DEF Asleep
    <3>. QED BY <3>1
  <2>3. CASE "ReadOp" \notin bits \cup f
    <3>1. Taking
      BY <2>1, <2>3 DEF WritersTold
    <3>. QED BY <2>3, <3>1 DEF Taking, Tasks
  <2>. QED BY <2>2, <2>3
<1>. QED BY <1>2, <1>4, <1>5
\* Who is not inside a wait is not blocked.
LEMMA AwakeOutside == ASSUME WaitShape, NEW t \in Tasks, pc[t] # "woken" PROVE ~IsBlocked(t)
  BY DEF WaitShape

\* The five steps of a wait.
LEMMA WakeWaiting == ASSUME Usage, IInv, WakeInv, NEW t \in Tasks, Waiting(t) PROVE WakeInv'
<1>. USE DEF WakeInv
<1>0. pc \in [Tasks -> PCs] /\ blocked \in [Tasks -> [for : SUBSET Flags, all : BOOLEAN, reset : BOOLEAN]]
  BY DEF IInv, TypeOK, EventTypeOK
<1>1. CASE Wait(t)
  <2> DEFINE q == Request(WaitFlags(t) \cup {"Stop"}, FALSE, Resets(t))
  <2>1. /\ pc[t] = "wait" /\ WaitBits(t, q, tmo[t] # "poll")
        /\ pc' = [pc EXCEPT ![t] = "woken"]
        /\ UNCHANGED <<op, need, wr, dataSize>>
    BY <1>1 DEF Wait, Go, ringVars
  <2>2. q.for = WaitFlags(t) \cup {"Stop"} /\ ~q.all /\ (q.reset <=> Resets(t))
    <3>1. q = Request(WaitFlags(t) \cup {"Stop"}, FALSE, Resets(t))
      OBVIOUS
    <3>. HIDE DEF q
    <3>. QED BY <3>1, RequestFields, ZenonT(60) DEF Resets
  <2>3. ~IsBlocked(t) /\ op[t] # "none"
    BY <2>1, AwakeOutside DEF WaitShape
  <2>. HIDE DEF q
  <2>4. \/ /\ blocked' = blocked /\ bits' = bits
        \/ /\ blocked' = blocked /\ q.reset /\ bits' = bits \ q.for
        \/ /\ blocked' = [blocked EXCEPT ![t] = q] /\ bits' = bits /\ q.for \cap bits = {}
    <3>1. CASE Met(bits, q)
      BY <2>1, <3>1 DEF WaitBits
    <3>2. CASE ~Met(bits, q)
      <4>1. q.for \cap bits = {}
        BY <2>2, <3>2 DEF Met
      <4>. QED BY <2>1, <3>2, <4>1 DEF WaitBits
    <3>. QED BY <3>1, <3>2
  <2>5. \A u \in Tasks \ {t} : blocked'[u] = blocked[u] /\ pc'[u] = pc[u]
    BY <1>0, <2>1, <2>4
  <2>6. pc'[t] = "woken" /\ bits' \subseteq bits
    BY <1>0, <2>1, <2>4
  <2>7. blocked'[t] = blocked[t] \/ (blocked'[t] = q /\ q.for \cap bits' = {} /\ bits' = bits)
    BY <1>0, <2>4
  <2>8. WaitShape'
    <3>1. ASSUME NEW u \in Tasks \ {t}, IsBlocked(u)'
          PROVE  /\ pc'[u] = "woken"
                 /\ blocked'[u] = Request(WaitFlags(u) \cup {"Stop"}, FALSE, Resets(u))'
                 /\ blocked'[u].for \cap bits' = {}
      BY <2>1, <2>5, <2>6, <3>1 DEF WaitShape, WaitFlags, Resets, IsBlocked
    <3>2. ASSUME IsBlocked(t)'
          PROVE  /\ pc'[t] = "woken"
                 /\ blocked'[t] = Request(WaitFlags(t) \cup {"Stop"}, FALSE, Resets(t))'
                 /\ blocked'[t].for \cap bits' = {}
      BY <2>1, <2>3, <2>6, <2>7, <3>2 DEF WaitFlags, Resets, IsBlocked, q
    <3>3. \A u \in Tasks : op'[u] = "none" => pc'[u] = "idle"
      BY <2>1, <2>3, <2>5 DEF WaitShape
    <3>. QED BY <3>1, <3>2, <3>3 DEF WaitShape
  <2>9. \A u \in Tasks : Asleep(u)' => Asleep(u)
    BY <2>1, <2>5, <2>6 DEF Asleep, IsBlocked
  <2>10. ASSUME NEW u \in Tasks, Asleep(u)'
         PROVE  /\ u \in Readers /\ "WriteOp" \in bits => "WriteOp" \in bits'
                /\ u \in Writers /\ "ReadOp" \in bits => "ReadOp" \in bits'
    <3>1. CASE bits' = bits
      BY <3>1
    <3>2. CASE bits' # bits
      <4>1. u # t /\ q.reset /\ bits' = bits \ q.for
        BY <2>3, <2>4, <2>6, <2>7, <2>10, <3>2 DEF Asleep, IsBlocked
      <4>2. t \notin Controllers
        BY <2>2, <2>3, <4>1 DEF Resets, IInv, Roles
      <4>3. q.for = IF t \in Readers THEN {"WriteOp", "Stop"} ELSE {"ReadOp", "Stop"}
        BY <2>2, <4>1 DEF Resets, WaitFlags
      <4>. QED BY <4>1, <4>2, <4>3 DEF Usage, Tasks
    <3>. QED BY <3>1, <3>2
  <2>11. /\ \A r \in Readers : DataFor(r)' = DataFor(r)
         /\ \A w \in Writers : RoomFor(w)' = RoomFor(w)
    BY <2>1 DEF DataFor, Wanted, RoomFor, Space
  <2>12. (Giving => Giving') /\ (Taking => Taking')
    BY <2>1, <2>5 DEF Giving, Taking, Tasks
  <2>. QED BY <2>8, <2>9, <2>10, <2>11, <2>12 DEF ReadersTold, WritersTold, Tasks
<1>2. CASE TimeOut(t)
  <2>1. /\ blocked' = [blocked EXCEPT ![t] = NoWait] /\ bits' = bits
        /\ UNCHANGED <<pc, op, need, wr, dataSize>>
    BY <1>2 DEF TimeOut, Expire, localVars, ringVars
  <2>2. \A u \in Tasks : IsBlocked(u)' => IsBlocked(u) /\ blocked'[u] = blocked[u]
    BY <1>0, <2>1 DEF IsBlocked, NoWait, Request
  <2>3. WaitShape'
    BY <2>1, <2>2 DEF WaitShape, WaitFlags, Resets
  <2>4. ReadersTold' /\ WritersTold'
    BY <2>1, <2>2 DEF ReadersTold, WritersTold, Asleep, DataFor, Wanted, RoomFor, Space, Giving, Taking, Tasks
  <2>. QED BY <2>3, <2>4
<1>3. ASSUME pc[t] = "woken", ~IsBlocked(t), Forget(t), UNCHANGED ringVars,
             GoOn(t) \/ Return(t) \/ (Go(t, "try") /\ op[t] # "none")
      PROVE  WakeInv'
  <2>1. /\ \A u \in Tasks \ {t} : pc'[u] = pc[u] /\ op'[u] = op[u] /\ need'[u] = need[u]
        /\ op'[t] = "none" => pc'[t] = "idle"
        /\ pc'[t] # "wait"
    <3>1. op[t] # "none"
      BY <1>3 DEF WaitShape
    <3>. QED BY <1>0, <1>3, <3>1 DEF GoOn, Return, Go, IInv, TypeOK
  <2>. QED BY <1>3, <2>1, Undisturbed DEF Forget, ringVars
<1>4. CASE WokenByStop(t)
  <2>1. pc[t] = "woken" /\ ~IsBlocked(t) /\ UNCHANGED ringVars /\ op[t] # "none"
    BY <1>4 DEF WokenByStop, Woken, WaitShape
  <2>2. CASE Resets(t)
    <3>1. SetBitsOver(ret[t] \cap {"Stop"}, [ret EXCEPT ![t] = {}]) /\ Return(t)
      BY <1>4, <2>2 DEF WokenByStop, Restore
    <3>2. /\ \A u \in Tasks \ {t} : pc'[u] = pc[u] /\ op'[u] = op[u] /\ need'[u] = need[u]
          /\ pc'[t] = "idle"
      BY <1>0, <3>1 DEF Return, IInv, TypeOK
    <3>. QED BY <2>1, <3>1, <3>2, Telling DEF ringVars
  <2>3. CASE ~Resets(t)
    BY <1>3, <1>4, <2>1, <2>3 DEF WokenByStop
  <2>. QED BY <2>2, <2>3
<1>5. CASE WokenByEvent(t) \/ WokenByTimeout(t)
  BY <1>3, <1>5 DEF WokenByEvent, WokenByTimeout, Woken
<1>. QED BY <1>1, <1>2, <1>4, <1>5 DEF Waiting
\* A reader sleeps only without data, and its commits tell the writer.
LEMMA WakeReader == ASSUME Usage, IInv, WakeInv, NEW t \in Readers, ReaderStep(t) PROVE WakeInv'
<1>. USE RingBufAssumption DEF WakeInv
<1>0. t \in Tasks /\ TypeOK /\ dataSize \in Nat
  BY DEF Tasks, IInv, TypeOK
<1>1. ASSUME pc[t] # "woken", UNCHANGED <<ringVars, egVars>>, pc[t] \notin {"setEmpty", "setOp"},
             \/ Go(t, "part") \/ Go(t, "peekLock") \/ Return(t)
             \/ \E n, bytes : GoGot(t, "hold", n, bytes) \/ GoGot(t, "peeked", n, bytes)
             \/ Go(t, "wait") /\ ~DataFor(t),
             op[t] # "none"
      PROVE  WakeInv'
  <2>1. \A u \in Tasks \ {t} : pc'[u] = pc[u] /\ op'[u] = op[u] /\ need'[u] = need[u]
    BY <1>0, <1>1 DEF TypeOK, Go, GoGot, Return
  <2>2. op'[t] = "none" => pc'[t] = "idle"
    BY <1>0, <1>1 DEF TypeOK, Go, GoGot, Return
  <2>3. ~IsBlocked(t) /\ t \notin Writers /\ t \notin Controllers
    BY <1>0, <1>1, AwakeOutside DEF Usage
  <2>4. pc'[t] = "wait" => ~DataFor(t)'
    BY <1>0, <1>1 DEF TypeOK, Go, GoGot, Return, DataFor, Wanted, ringVars
  <2>5. UNCHANGED <<wr, dataSize, bits, blocked>> /\ pc[t] # "clearSet"
    BY <1>0, <1>1, <2>3 DEF ringVars, egVars, IInv, Roles
  <2>. QED BY <1>0, <1>1, <2>1, <2>2, <2>3, <2>4, <2>5, Undisturbed
<1>2. CASE ReadTry(t)
  <2>1. ~(dataSize >= need[t]) => ~DataFor(t)
    BY <1>2 DEF ReadTry, At, DataFor, Wanted
  <2>. QED BY <1>1, <1>2, <2>1 DEF ReadTry, At, ringVars, egVars
<1>3. CASE PeekTry(t)
  <2>1. ~PeekEnough(t) => ~DataFor(t)
    BY <1>3 DEF PeekTry, At, DataFor, Wanted, PeekEnough
  <2>. QED BY <1>1, <1>3, <2>1 DEF PeekTry, At, ringVars, egVars
<1>4. CASE ContigReadTry(t)
  <2>1. AvailRead < 1 => ~DataFor(t)
    <3>1. AvailRead = Least(dataSize, N - rd)
      BY <1>4, AvailReadIs DEF ContigReadTry, IInv, Levels, Truth
    <3>. QED BY <1>0, <1>4, <3>1 DEF ContigReadTry, At, DataFor, Wanted, Least, TypeOK
  <2>. QED BY <1>1, <1>4, <2>1 DEF ContigReadTry, At, ringVars, egVars
<1>5. CASE PeekLock(t) \/ PeekReturn(t)
  <2>1. op[t] # "none"
    BY <1>0, <1>5 DEF PeekLock, PeekReturn, IInv, Roles
  <2>. QED BY <1>1, <1>5, <2>1 DEF PeekLock, PeekReturn, ringVars, egVars
<1>6. ASSUME NEW k \in Nat, NEW bytes, Consume(t, k, bytes), pc[t] # "woken", op[t] # "none"
      PROVE  WakeInv'
  <2>1. /\ \A u \in Tasks \ {t} : pc'[u] = pc[u] /\ op'[u] = op[u] /\ need'[u] = need[u]
        /\ pc'[t] \in {"setEmpty", "setOp"} /\ op'[t] = op[t]
    BY <1>0, <1>6 DEF TypeOK, Consume, GoGot
  <2>2. wr' = wr /\ dataSize' \in Int /\ dataSize' <= dataSize
    BY <1>0, <1>6 DEF Consume
  <2>3. blocked' = blocked /\ bits' \subseteq bits /\ bits \cap Pulse \subseteq bits'
    BY <1>6 DEF Consume, ClearBits, egVars, Pulse
  <2>4. ~IsBlocked(t)
    BY <1>0, <1>6, AwakeOutside
  <2>. QED BY <1>0, <1>6, <2>1, <2>2, <2>3, <2>4, Undisturbed
<1>7. CASE ReadPart(t)
  <2> DEFINE k == Least(need[t], AvailRead)
  <2>1. AvailRead = Least(dataSize, N - rd)
    BY <1>0, <1>7, AvailReadIs DEF ReadPart, At, IInv, Levels, Truth
  <2>2. k \in Nat
    BY <1>0, <2>1 DEF Least, TypeOK
  <2>. HIDE DEF k
  <2>. QED BY <1>6, <1>7, <2>2 DEF ReadPart, At, k
<1>8. CASE ReadRest(t)
  <2>1. need[t] \in Nat
    BY <1>0 DEF TypeOK
  <2>. QED BY <1>6, <1>8, <2>1 DEF ReadRest, At
<1>9. CASE CommitContigRead(t)
  <2>1. PICK k \in LeastCommit .. need[t] : Consume(t, k, <<>>)
    BY <1>9 DEF CommitContigRead
  <2>2. k \in Nat
    BY <1>0 DEF TypeOK, Usage
  <2>. QED BY <1>6, <1>9, <2>1, <2>2 DEF CommitContigRead, At
<1>10. CASE SetIsEmpty(t)
  <2>1. /\ \A u \in Tasks \ {t} : pc'[u] = pc[u] /\ op'[u] = op[u] /\ need'[u] = need[u]
        /\ pc[t] = "setEmpty" /\ pc'[t] = "setOp" /\ op'[t] = op[t] /\ op[t] # "none"
    BY <1>0, <1>10 DEF TypeOK, SetIsEmpty, Go, WaitShape
  <2>2. SetBitsOver({"IsEmpty"}, ret) /\ UNCHANGED <<wr, dataSize>>
    BY <1>10 DEF SetIsEmpty, SetBits, ringVars
  <2>3. ~IsBlocked(t) /\ t \notin Writers /\ t \notin Controllers
    BY <1>0, <2>1, AwakeOutside DEF Usage
  <2>. QED BY <1>0, <2>1, <2>2, <2>3, Telling
<1>11. CASE SetReadOp(t)
  <2>1. /\ \A u \in Tasks \ {t} : pc'[u] = pc[u] /\ op'[u] = op[u] /\ need'[u] = need[u]
        /\ pc[t] = "setOp" /\ pc'[t] # "wait" /\ (op'[t] = "none" => pc'[t] = "idle")
    BY <1>0, <1>11 DEF TypeOK, SetReadOp, Go, Return
  <2>2. SetBitsOver(ReadDone, ret) /\ "ReadOp" \in ReadDone /\ UNCHANGED <<wr, dataSize>>
    BY <1>11 DEF SetReadOp, SetBits, ReadDone, ringVars
  <2>3. ~IsBlocked(t) /\ t \notin Writers /\ t \notin Controllers
    BY <1>0, <2>1, AwakeOutside DEF Usage
  <2>. QED BY <1>0, <2>1, <2>2, <2>3, Telling
<1>. QED BY <1>0, <1>2, <1>3, <1>4, <1>5, <1>7, <1>8, <1>9, <1>10, <1>11, WakeWaiting DEF ReaderStep

\* A writer sleeps only without room, and its commits tell the reader.
LEMMA WakeWriter ==
  ASSUME Usage, IInv, WakeInv, NEW t \in Writers, WriterStep(t) \/ AbortWrite(t)
  PROVE  WakeInv'
<1>. USE RingBufAssumption DEF WakeInv
<1>0. t \in Tasks /\ TypeOK /\ dataSize \in Nat /\ wr \in Nat
  BY DEF Tasks, IInv, TypeOK
<1>1. ASSUME pc[t] # "woken", pc[t] # "setOp", UNCHANGED <<wr, dataSize, egVars>>,
             \/ Go(t, "part") \/ Return(t) \/ \E n : GoNeed(t, "hold", n) \/ GoNeed(t, "filled", n)
             \/ Go(t, "wait") /\ ~RoomFor(t)
             \/ \E n \in Nat : GoNeed(t, "wait", n) /\ op[t] = "getWriteBuf" /\ ~(Space >= n /\ wr + n <= N),
             op[t] # "none"
      PROVE  WakeInv'
  <2>1. \A u \in Tasks \ {t} : pc'[u] = pc[u] /\ op'[u] = op[u] /\ need'[u] = need[u]
    BY <1>0, <1>1 DEF TypeOK, Go, GoNeed, Return
  <2>2. op'[t] = "none" => pc'[t] = "idle"
    BY <1>0, <1>1 DEF TypeOK, Go, GoNeed, Return
  <2>3. ~IsBlocked(t) /\ t \notin Readers /\ t \notin Controllers
    BY <1>0, <1>1, AwakeOutside DEF Usage
  <2>4. pc'[t] = "wait" => ~RoomFor(t)'
    BY <1>0, <1>1 DEF TypeOK, Go, GoNeed, Return, RoomFor, Space
  <2>5. UNCHANGED <<wr, dataSize, bits, blocked>> /\ pc[t] \notin {"clearSet", "setEmpty"}
    BY <1>0, <1>1, <2>3 DEF egVars, IInv, Roles
  <2>. QED BY <1>0, <1>1, <2>1, <2>2, <2>3, <2>4, <2>5, Undisturbed
<1>2. CASE WriteTry(t)
  <2>1. ~(Space >= need[t]) => ~RoomFor(t)
    BY DEF RoomFor
  <2>. QED BY <1>1, <1>2, <2>1 DEF WriteTry, At, ringVars, egVars
<1>3. CASE GetWriteBufTry(t)
  <2> DEFINE n == IF pc[t] = "enter" THEN Least(need[t], N - wr) ELSE need[t]
  <2>1. AvailWrite = Least(Space, N - wr)
    BY AvailWriteIs DEF IInv
  <2>2. n \in Nat /\ Space \in Int /\ N \in Nat
    BY <1>0 DEF Least, Space, TypeOK, RingBufAssumption
  <2>3. \/ GoNeed(t, "hold", AvailWrite)
        \/ GoNeed(t, "wait", n) /\ ~(AvailWrite >= n)
    BY <1>3 DEF GetWriteBufTry
  <2>. HIDE DEF n
  <2>4. ~(AvailWrite >= n) => ~(Space >= n /\ wr + n <= N)
    BY <1>0, <2>1, <2>2 DEF Least
  <2>5. UNCHANGED <<wr, dataSize, egVars>> /\ pc[t] \in {"enter", "try"} /\ op[t] = "getWriteBuf"
    BY <1>3 DEF GetWriteBufTry, ringVars
  <2>. QED BY <1>1, <2>2, <2>3, <2>4, <2>5
<1>4. CASE FillWriteBuf(t) \/ AbortWrite(t)
  BY <1>1, <1>4 DEF FillWriteBuf, AbortWrite, At
<1>5. ASSUME NEW k, Produce(t, k), pc[t] # "woken", op[t] # "none"
      PROVE  WakeInv'
  <2>1. /\ \A u \in Tasks \ {t} : pc'[u] = pc[u] /\ op'[u] = op[u] /\ need'[u] = need[u]
        /\ pc'[t] = "setOp" /\ op'[t] = op[t]
    BY <1>0, <1>5 DEF TypeOK, Produce, GoNeed
  <2>2. blocked' = blocked /\ bits' \subseteq bits /\ bits \cap Pulse \subseteq bits'
    BY <1>5 DEF Produce, WriteClears, ClearBits, Pulse
  <2>3. ~IsBlocked(t)
    BY <1>0, <1>5, AwakeOutside
  <2>. QED BY <1>0, <1>5, <2>1, <2>2, <2>3, Undisturbed
<1>6. CASE WritePart(t)
  BY <1>5, <1>6 DEF WritePart
<1>7. CASE CommitWrite(t)
  BY <1>5, <1>7 DEF CommitWrite, At
<1>8. CASE SetWriteOp(t)
  <2>1. /\ \A u \in Tasks \ {t} : pc'[u] = pc[u] /\ op'[u] = op[u] /\ need'[u] = need[u]
        /\ pc[t] = "setOp" /\ pc'[t] # "wait" /\ (op'[t] = "none" => pc'[t] = "idle")
    BY <1>0, <1>8 DEF TypeOK, SetWriteOp, Go, Return
  <2>2. SetBitsOver(WriteDone, ret) /\ "WriteOp" \in WriteDone /\ UNCHANGED <<wr, dataSize>>
    BY <1>8 DEF SetWriteOp, SetBits, WriteDone, ringVars
  <2>3. ~IsBlocked(t) /\ t \notin Readers /\ t \notin Controllers
    BY <1>0, <2>1, AwakeOutside DEF Usage
  <2>. QED BY <1>0, <2>1, <2>2, <2>3, Telling
<1>. QED BY <1>0, <1>2, <1>3, <1>4, <1>6, <1>7, <1>8, WakeWaiting DEF WriterStep

\* clear() leaves nothing to read and tells the writer; the stop signal is no pulse.
LEMMA WakeController ==
  ASSUME Usage, IInv, WakeInv, NEW t \in Controllers,
         ControllerStep(t) \/ SetStopSignal(t) \/ ClearStopSignal(t)
  PROVE  WakeInv'
<1>. USE RingBufAssumption DEF WakeInv
<1>0. t \in Tasks /\ TypeOK /\ t \notin Readers /\ t \notin Writers
  BY DEF Tasks, IInv, Usage
<1>1. CASE ClearTry(t) /\ Busy
  <2>1. /\ \A u \in Tasks \ {t} : pc'[u] = pc[u] /\ op'[u] = op[u] /\ need'[u] = need[u]
        /\ pc[t] = "try" /\ op'[t] = op[t] /\ op[t] = "clear"
        /\ UNCHANGED <<wr, dataSize, bits, blocked>>
    BY <1>0, <1>1 DEF TypeOK, ClearTry, Go, At, ringVars, egVars
  <2>. QED BY <1>0, <2>1, AwakeOutside, Undisturbed
<1>2. CASE ClearReturn(t)
  <2>1. /\ \A u \in Tasks \ {t} : pc'[u] = pc[u] /\ op'[u] = op[u] /\ need'[u] = need[u]
        /\ pc[t] = "clearCheck" /\ pc'[t] = "idle"
        /\ UNCHANGED <<wr, dataSize, bits, blocked>>
    BY <1>0, <1>2 DEF TypeOK, ClearReturn, Return, ringVars, egVars
  <2>. QED BY <1>0, <2>1, AwakeOutside, Undisturbed
<1>3. CASE ClearSet(t)
  <2>1. /\ \A u \in Tasks \ {t} : pc'[u] = pc[u] /\ op'[u] = op[u] /\ need'[u] = need[u]
        /\ pc[t] = "clearSet" /\ pc'[t] = "clearCheck" /\ op'[t] = op[t] /\ op[t] # "none"
    BY <1>0, <1>3 DEF TypeOK, ClearSet, Go, WaitShape
  <2>2. SetBitsOver(Cleared, ret) /\ "ReadOp" \in Cleared /\ UNCHANGED <<wr, dataSize>>
    BY <1>3 DEF ClearSet, SetBits, Cleared, ringVars
  <2>. QED BY <1>0, <2>1, <2>2, AwakeOutside, Telling
<1>4. CASE SetStopSignal(t)
  <2>1. SetBitsOver({"Stop"}, ret) /\ UNCHANGED <<wr, dataSize, pc, op, need>> /\ pc[t] = "idle"
    BY <1>4 DEF SetStopSignal, SetBits, ringVars, localVars
  <2>. QED BY <1>0, <2>1, AwakeOutside, Telling
<1>5. CASE ClearStopSignal(t)
  <2>1. /\ blocked' = blocked /\ bits' = bits \ {"Stop"}
        /\ UNCHANGED <<wr, dataSize, pc, op, need>> /\ pc[t] = "idle"
    BY <1>5 DEF ClearStopSignal, ClearBits, ringVars, localVars
  <2>2. bits' \subseteq bits /\ bits \cap Pulse \subseteq bits'
    BY <2>1 DEF Pulse
  <2>. QED BY <1>0, <2>1, <2>2, AwakeOutside, Undisturbed
<1>6. CASE ClearTry(t) /\ ~Busy
  <2>1. /\ \A u \in Tasks \ {t} : pc'[u] = pc[u]
        /\ pc[t] = "try" /\ pc'[t] = "clearSet" /\ dataSize' = 0 /\ UNCHANGED <<op, need, blocked>>
        /\ bits' \subseteq bits /\ op[t] = "clear"
    BY <1>0, <1>6 DEF TypeOK, ClearTry, DoClear, ClearBits, Go, At
  <2>2. ~IsBlocked(t)
    BY <1>0, <2>1, AwakeOutside
  <2>3. WaitShape'
    BY <2>1, <2>2 DEF WaitShape, WaitFlags, Resets, IsBlocked
  <2>4. WritersTold'
    BY <2>1 DEF WritersTold, Taking
  <2>5. ASSUME NEW r \in Readers, Asleep(r)' PROVE ~DataFor(r)'
    <3>1. r \in Tasks /\ r # t /\ Asleep(r)
      BY <1>0, <2>1, <2>5 DEF Asleep, IsBlocked, Tasks
    <3>2. pc[r] \in {"wait", "woken"} /\ op[r] # "none"
      BY <3>1 DEF Asleep, WaitShape
    <3>3. need[r] \in Nat /\ need[r] > 0
      BY <3>1, <3>2 DEF IInv, Sizes, TypeOK
    <3>. QED BY <2>1, <3>3 DEF DataFor, Wanted
  <2>. QED BY <2>3, <2>4, <2>5 DEF ReadersTold
<1>. QED BY <1>0, <1>1, <1>2, <1>3, <1>4, <1>5, <1>6, WakeWaiting DEF ControllerStep

\* A call begins.
LEMMA WakeCall ==
  ASSUME Usage, IInv, WakeInv, NEW t \in Tasks, NEW call, NEW where, NEW n, NEW w,
         Begin(t, call, where, n, w), call # "none", where \in {"try", "enter"}
  PROVE  WakeInv'
<1>1. /\ \A u \in Tasks \ {t} : pc'[u] = pc[u] /\ op'[u] = op[u] /\ need'[u] = need[u]
      /\ pc[t] = "idle" /\ pc'[t] = where /\ op'[t] = call
      /\ UNCHANGED <<wr, dataSize, bits, blocked>>
  BY DEF Begin, ringVars, egVars, IInv, TypeOK
<1>. QED BY <1>1, AwakeOutside, Undisturbed DEF WakeInv

LEMMA WakeInvariance == ASSUME Usage PROVE Spec => [](IInv /\ WakeInv)
<1>1. Init => IInv /\ WakeInv
  <2>. SUFFICES ASSUME Init PROVE WakeInv
    BY InitIInv
  <2>1. \A t \in Tasks : ~IsBlocked(t) /\ pc[t] = "idle"
    BY DEF Init, EventInit, IsBlocked, NoWait, Request
  <2>. QED BY <2>1 DEF WakeInv, WaitShape, ReadersTold, WritersTold, Asleep, Tasks
<1>2. IInv /\ WakeInv /\ [Next]_vars => IInv' /\ WakeInv'
  <2>. SUFFICES ASSUME IInv, WakeInv, [Next]_vars PROVE WakeInv'
    BY NextIInv
  <2>1. ASSUME NEW t \in Readers, ReaderCall(t) PROVE WakeInv'
    BY <2>1, WakeCall DEF ReaderCall, CallRead, CallContigRead, CallPeek, Tasks
  <2>2. ASSUME NEW t \in Writers, WriterCall(t) PROVE WakeInv'
    BY <2>2, WakeCall DEF WriterCall, CallWrite, CallGetWriteBuf, Tasks
  <2>3. ASSUME NEW t \in Controllers, ControllerCall(t) PROVE WakeInv'
    BY <2>3, WakeCall, WakeController DEF ControllerCall, CallClear, Tasks
  <2>4. CASE UNCHANGED vars
    BY <2>4 DEF vars, ringVars, egVars, localVars, WakeInv, WaitShape, WaitFlags, Resets, ReadersTold,
                WritersTold, Asleep, DataFor, Wanted, RoomFor, Space, Giving, Taking, IsBlocked
  <2>. QED BY <2>1, <2>2, <2>3, <2>4, WakeReader, WakeWriter, WakeController DEF Next
<1>. QED BY <1>1, <1>2, PTL DEF Spec

\* With one reader and one writer none of them sleeps, the mutex free, while what
\* it waits for is there, for any buffer, sizes, timeouts and number of others.
THEOREM NoLostWakeupHolds == ASSUME Usage PROVE Spec => []NoLostWakeup
<1>. USE RingBufAssumption
<1>1. IInv /\ WakeInv => NoLostWakeup
  <2>. SUFFICES ASSUME IInv, WakeInv, Free, NEW t \in Readers \cup Writers, IsBlocked(t), CanGoOn(t)
                PROVE  FALSE
    BY DEF NoLostWakeup
  <2>0. t \in Tasks /\ TypeOK
    BY DEF Tasks, IInv
  <2>1. /\ pc[t] = "woken" /\ op[t] # "none"
        /\ blocked[t] = Request(WaitFlags(t) \cup {"Stop"}, FALSE, Resets(t))
        /\ blocked[t].for \cap bits = {}
    BY <2>0 DEF WakeInv, WaitShape
  <2>2. WaitFlags(t) \cap bits = {}
    <3>1. blocked[t].for = WaitFlags(t) \cup {"Stop"}
      BY <2>1, RequestFields DEF Resets
    <3>. QED BY <2>1, <3>1
  <2>3. ~Giving /\ ~Taking
    BY <2>0 DEF IInv, Owner, Critical, Free, Giving, Taking, Tasks, RingBufAssumption
  <2>4. CASE t \in Readers
    <3>1. dataSize \in Int /\ "WriteOp" \notin bits
      <4>1. op[t] # "clear"
        BY <2>4 DEF IInv, Roles
      <4>. QED BY <2>0, <2>2, <2>4, <4>1 DEF TypeOK, WaitFlags
    <3>2. DataFor(t)
      BY <2>1, <2>4, <3>1 DEF CanGoOn, DataFor, Wanted, IInv, Roles
    <3>. QED BY <2>3, <2>4, <3>1, <3>2 DEF WakeInv, ReadersTold, Asleep
  <2>5. CASE t \in Writers
    <3>1. "ReadOp" \notin bits /\ op[t] \in {"write", "getWriteBuf"}
      BY <2>1, <2>2, <2>5 DEF WaitFlags, IInv, Roles, Usage
    <3>2. AvailWrite = Least(Space, N - wr)
      BY AvailWriteIs DEF IInv
    <3>3. Space \in Int /\ need[t] \in Int /\ wr \in Int /\ N \in Int
      BY <2>0 DEF TypeOK, Space, RingBufAssumption
    <3>4. RoomFor(t)
      BY <3>1, <3>2, <3>3 DEF CanGoOn, RoomFor, Least
    <3>. QED BY <2>3, <2>5, <3>1, <3>4 DEF WakeInv, WritersTold, Asleep
  <2>. QED BY <2>4, <2>5
<1>. QED BY <1>1, WakeInvariance, PTL
=============================================================================
