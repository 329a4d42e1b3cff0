--------------------------- MODULE RingStreamProofs ---------------------------
(***************************************************************************)
(* The data of the ring buffer, for every size, every number of tags and   *)
(* any number of controllers: the cells hold the last bytes in order, what *)
(* a call hands to its caller is the oldest data, and the ring buffer      *)
(* implements the stream of ByteStream.                                    *)
(***************************************************************************)
EXTENDS MCRingBuf, RingBufProofs

-----------------------------------------------------------------------------
\* Remainders.

\* Quotient and remainder, for a divisor that is not a number the prover sees.
LEMMA Quotient ==
  ASSUME NEW x \in Int, NEW m \in Nat \ {0}
  PROVE  x \div m \in Int /\ x % m \in 0 .. m - 1 /\ x = m * (x \div m) + (x % m)
<1>1. x \div m \in Int
  OBVIOUS
<1>2. x % m \in 0 .. m - 1
  OBVIOUS
<1>3. x = m * (x \div m) + (x % m)
  OBVIOUS
<1>. QED BY <1>1, <1>2, <1>3

LEMMA Times == ASSUME NEW q \in Int, NEW m \in Nat \ {0}, q >= 1 PROVE m * q >= m
  OBVIOUS

\* A number has one remainder.
LEMMA OneRemainder ==
  ASSUME NEW m \in Nat \ {0}, NEW q \in Int, NEW p \in Int,
         NEW r \in 0 .. m - 1, NEW s \in 0 .. m - 1, m * q + r = m * p + s
  PROVE  r = s
<1>1. m * (q - p) = s - r /\ m * (p - q) = r - s
  OBVIOUS
<1>2. q - p >= 1 => m * (q - p) >= m
  BY Times
<1>3. p - q >= 1 => m * (p - q) >= m
  BY Times
<1>. QED BY <1>1, <1>2, <1>3

\* A multiple of the divisor does not change the remainder.
LEMMA Shifted ==
  ASSUME NEW m \in Nat \ {0}, NEW a \in Int, NEW b \in Int, NEW d \in Int, b = m * d + a
  PROVE  a % m = b % m
<1> DEFINE p == a \div m
           q == b \div m
           r == a % m
           s == b % m
<1>1. p \in Int /\ q \in Int /\ r \in 0 .. m - 1 /\ s \in 0 .. m - 1 /\ a = m * p + r /\ b = m * q + s
  BY Quotient
<1>. HIDE DEF p, q, r, s
<1>2. m * (d + p) + r = m * q + s /\ d + p \in Int
  BY <1>1
<1>3. r = s
  BY <1>1, <1>2, OneRemainder
<1>. QED BY <1>3 DEF r, s

\* A remainder may be taken before something is added, or after.
LEMMA ModAdd ==
  ASSUME NEW a \in Int, NEW b \in Int, NEW m \in Nat \ {0}
  PROVE  ((a % m) + b) % m = (a + b) % m
<1> DEFINE r == a % m
           d == a \div m
<1>1. d \in Int /\ r \in Int /\ a = m * d + r
  BY Quotient
<1>. HIDE DEF r, d
<1>2. a + b = m * d + (r + b) /\ a + b \in Int /\ r + b \in Int
  BY <1>1
<1>3. (r + b) % m = (a + b) % m
  BY <1>1, <1>2, Shifted
<1>. QED BY <1>3 DEF r

\* The remainder of what is less than twice the divisor.
LEMMA ModSmall ==
  ASSUME NEW m \in Nat \ {0}, NEW a \in 0 .. 2 * m - 1
  PROVE  a % m = IF a < m THEN a ELSE a - m
<1>1. a \div m \in Int /\ a % m \in 0 .. m - 1 /\ a = m * (a \div m) + (a % m)
  BY Quotient
<1>2. CASE a < m
  <2>1. m * (a \div m) + (a % m) = m * 0 + a
    BY <1>1
  <2>. QED BY <1>1, <1>2, <2>1, OneRemainder
<1>3. CASE ~(a < m)
  <2>1. m * (a \div m) + (a % m) = m * 1 + (a - m) /\ a - m \in 0 .. m - 1
    BY <1>1, <1>3
  <2>. QED BY <1>1, <1>3, <2>1, OneRemainder
<1>. QED BY <1>2, <1>3

\* A remainder is its own remainder.
LEMMA ModTwice == ASSUME NEW x \in Int, NEW m \in Nat \ {0} PROVE (x % m) % m = x % m
<1> DEFINE r == x % m
<1>1. r \in 0 .. m - 1
  BY Quotient
<1>. HIDE DEF r
<1>2. r \in 0 .. 2 * m - 1 /\ r < m
  BY <1>1
<1>3. r % m = r
  BY <1>2, ModSmall
<1>. QED BY <1>3 DEF r

LEMMA ModSum ==
  ASSUME NEW m \in Nat \ {0}, NEW a \in 0 .. m - 1, NEW b \in 0 .. m - 1
  PROVE  /\ (a + b) % m = IF a + b < m THEN a + b ELSE a + b - m
         /\ (a + b) % m \in 0 .. m - 1
<1>1. a + b \in 0 .. 2 * m - 1
  OBVIOUS
<1>2. (a + b) % m = IF a + b < m THEN a + b ELSE a + b - m
  <2>1. \A x \in 0 .. 2 * m - 1 : x % m = IF x < m THEN x ELSE x - m
    BY ModSmall
  <2>. QED BY <1>1, <2>1
<1>3. (IF a + b < m THEN a + b ELSE a + b - m) \in 0 .. m - 1
  OBVIOUS
<1>. QED BY <1>2, <1>3
-----------------------------------------------------------------------------
\* The cells.

\* Where the i-th byte of the data is.
LEMMA CellIs ==
  ASSUME TypeOK, RingBufAssumption, NEW i \in 0 .. N - 1
  PROVE  /\ (rd + i) % N = IF rd + i < N THEN rd + i ELSE rd + i - N
         /\ (rd + i) % N \in 0 .. N - 1
<1>1. N \in Nat \ {0} /\ rd \in 0 .. N - 1
  BY DEF TypeOK, RingBufAssumption
<1>. QED BY <1>1, ModSum

\* The data is not where there is room.
LEMMA DataCell ==
  ASSUME TypeOK, RingShape, RingBufAssumption, NEW i \in 0 .. dataSize - 1,
         NEW k \in Nat, k <= Space, wr + k <= N
  PROVE  (rd + i) % N \in 0 .. N - 1 /\ (rd + i) % N \notin Slice(wr, k)
<1>1. i \in 0 .. N - 1
  BY DEF TypeOK
<1> DEFINE c == (rd + i) % N
<1>2. c = IF rd + i < N THEN rd + i ELSE rd + i - N
  BY <1>1, CellIs
<1>3. c \in 0 .. N - 1
  BY <1>1, CellIs
<1>. HIDE DEF c
<1>4. c \notin Slice(wr, k)
  <2>. SUFFICES ASSUME c \in wr .. wr + k - 1 PROVE FALSE
    BY DEF Slice
  <2>. QED BY <1>2, <1>3 DEF TypeOK, RingShape, RingBufAssumption, Space
<1>. QED BY <1>3, <1>4 DEF c

\* The room begins where the data ends.
LEMMA RoomCell ==
  ASSUME TypeOK, RingShape, RingBufAssumption, NEW k \in Nat, k <= Space, wr + k <= N,
         NEW i \in dataSize .. dataSize + k - 1
  PROVE  (rd + i) % N = wr + (i - dataSize)
<1>1. i \in 0 .. N - 1
  BY DEF TypeOK, Space, RingBufAssumption
<1>2. (rd + i) % N = IF rd + i < N THEN rd + i ELSE rd + i - N
  BY <1>1, CellIs
<1>. QED BY <1>1, <1>2 DEF TypeOK, RingShape, RingBufAssumption, Space

\* What a writer has filled, and not committed yet, are the next bytes.
FilledInOrder ==
    \A w \in Writers : pc[w] = "filled" =>
        \A i \in 0 .. need[w] - 1 : mem[wr + i] = (nextTag + i) % Tags

DataInv == InOrder /\ FilledInOrder

\* Who changes neither the count of the bytes nor a cell in use.
LEMMA DataUntouched ==
  ASSUME Usage, IInv, DataInv, NEW k \in Nat, k <= Space, wr + k <= N,
         UNCHANGED <<wr, rd, dataSize, nextTag>>,
         \A i \in 0 .. N - 1 : i \notin Slice(wr, k) => mem'[i] = mem[i],
         \A w \in Writers : pc'[w] # "filled"
  PROVE  DataInv'
<1>1. InOrder'
  BY RingBufAssumption, DataCell DEF IInv, DataInv, InOrder
<1>. QED BY <1>1 DEF DataInv, FilledInOrder

\* doCommitContigRead takes the oldest bytes.
LEMMA DataConsumed ==
  ASSUME Usage, IInv, DataInv, NEW r \in Readers, NEW k \in Nat, NEW bytes, Consume(r, k, bytes),
         k <= dataSize, rd + k <= N, rd' \in 0 .. N - 1, k > 0
  PROVE  DataInv'
<1>. USE RingBufAssumption DEF DataInv
<1>1. /\ rd' = Wrap(rd + k) /\ dataSize' = dataSize - k /\ UNCHANGED <<wr, nextTag>>
      /\ mem' = [i \in 0 .. N - 1 |-> IF i \in Slice(rd, k) THEN Dead ELSE mem[i]]
      /\ \A w \in Writers : pc'[w] = pc[w] /\ need'[w] = need[w]
  <2>1. pc \in [Tasks -> PCs] /\ need \in [Tasks -> Nat] /\ \A w \in Writers : w \in Tasks /\ w # r
    BY DEF Usage, IInv, TypeOK, Tasks
  <2>. QED BY <2>1 DEF Consume, GoGot
<1>2. /\ TypeOK /\ RingShape /\ N \in Nat \ {0} /\ rd \in 0 .. N - 1 /\ dataSize \in 0 .. N
      /\ nextTag \in Int
  BY DEF IInv, TypeOK, RingBufAssumption
<1>3. InOrder'
  <2>. SUFFICES ASSUME NEW i \in 0 .. dataSize - k - 1
                PROVE  mem'[(rd' + i) % N] = (nextTag - (dataSize - k) + i) % Tags
    BY <1>1 DEF InOrder
  <2>1. k + i \in 0 .. dataSize - 1 /\ k + i \in 0 .. N - 1 /\ i \in 0 .. N - 1
    BY <1>2
  <2>2. mem[(rd + (k + i)) % N] = (nextTag - dataSize + (k + i)) % Tags
    BY <2>1 DEF InOrder
  <2>3. /\ (rd + (k + i)) % N = IF rd + (k + i) < N THEN rd + (k + i) ELSE rd + (k + i) - N
        /\ (rd + (k + i)) % N \in 0 .. N - 1
    BY <1>2, <2>1, CellIs
  <2>4. (rd' + i) % N = IF rd' + i < N THEN rd' + i ELSE rd' + i - N
    BY <1>2, <2>1, ModSum
  <2>5. (rd' + i) % N = (rd + (k + i)) % N
    BY <1>1, <1>2, <2>1, <2>3, <2>4 DEF Wrap
  <2>6. (rd + (k + i)) % N \notin Slice(rd, k)
    BY <1>2, <2>1, <2>3 DEF Slice
  <2>7. nextTag - (dataSize - k) + i = nextTag - dataSize + (k + i)
    BY <1>2
  <2>. QED BY <1>1, <2>2, <2>3, <2>5, <2>6, <2>7
<1>4. FilledInOrder'
  <2>. SUFFICES ASSUME NEW w \in Writers, pc[w] = "filled", NEW i \in 0 .. need[w] - 1
                PROVE  mem'[wr + i] = (nextTag + i) % Tags
    BY <1>1 DEF FilledInOrder
  <2>1. need[w] \in Nat /\ need[w] <= Space /\ wr + need[w] <= N /\ wr \in Nat
    BY DEF IInv, Sizes, TypeOK, Tasks
  <2>2. wr + i \in 0 .. N - 1 /\ wr + i \in Slice(wr, need[w])
    BY <1>2, <2>1 DEF Slice
  <2>3. wr + i \notin Slice(rd, k)
    BY <1>2, <2>1, <2>2, Apart
  <2>4. mem[wr + i] = (nextTag + i) % Tags
    BY DEF FilledInOrder
  <2>. QED BY <1>1, <2>2, <2>3, <2>4
<1>. QED BY <1>3, <1>4

\* commitContigWrite adds the next bytes behind the others.
LEMMA DataProduced ==
  ASSUME Usage, IInv, DataInv, NEW w \in Writers, NEW k \in Nat, Produce(w, k),
         k <= Space, wr + k <= N,
         \A i \in 0 .. N - 1 : i \notin Slice(wr, k) => mem'[i] = mem[i],
         \A i \in 0 .. k - 1 : mem'[wr + i] = (nextTag + i) % Tags
  PROVE  DataInv'
<1>. USE RingBufAssumption DEF DataInv
<1>1. /\ dataSize' = dataSize + k /\ nextTag' = (nextTag + k) % Tags /\ UNCHANGED rd
      /\ \A v \in Writers : pc'[v] = "setOp"
  BY DEF Produce, GoNeed, Usage, IInv, TypeOK, Tasks
<1>2. /\ TypeOK /\ RingShape /\ N \in Nat \ {0} /\ Tags \in Nat \ {0} /\ nextTag \in Int
      /\ dataSize \in 0 .. N /\ wr \in 0 .. N - 1
  BY DEF IInv, TypeOK, RingBufAssumption
<1>3. InOrder'
  <2>. SUFFICES ASSUME NEW i \in 0 .. dataSize + k - 1
                PROVE  mem'[(rd + i) % N] = (nextTag' - (dataSize + k) + i) % Tags
    <3>1. dataSize' = dataSize + k /\ rd' = rd /\ dataSize \in Int
      BY <1>1, <1>2
    <3>2. nextTag' - dataSize' = nextTag' - (dataSize + k)
      BY <3>1
    <3>. QED BY <3>1, <3>2 DEF InOrder
  <2>1. (nextTag' - (dataSize + k) + i) % Tags = (nextTag - dataSize + i) % Tags
    <3> DEFINE a == nextTag + k
               b == i - (dataSize + k)
    <3>1. a \in Int /\ b \in Int /\ a + b = nextTag - dataSize + i /\ nextTag' = a % Tags
      BY <1>1, <1>2
    <3>2. nextTag' \in Int
      BY <1>2, <3>1, Quotient
    <3>3. nextTag' - (dataSize + k) + i = nextTag' + b
      BY <1>2, <3>2
    <3>. HIDE DEF a, b
    <3>4. ((a % Tags) + b) % Tags = (a + b) % Tags
      BY <1>2, <3>1, ModAdd
    <3>. QED BY <3>1, <3>3, <3>4
  <2>2. CASE i < dataSize
    <3>1. i \in 0 .. dataSize - 1
      BY <1>2, <2>2
    <3>2. (rd + i) % N \in 0 .. N - 1 /\ (rd + i) % N \notin Slice(wr, k)
      BY <1>2, <3>1, DataCell
    <3>3. mem[(rd + i) % N] = (nextTag - dataSize + i) % Tags
      BY <3>1 DEF InOrder
    <3>. QED BY <2>1, <3>2, <3>3
  <2>3. CASE ~(i < dataSize)
    <3>1. i \in dataSize .. dataSize + k - 1 /\ i - dataSize \in 0 .. k - 1
      BY <1>2, <2>3
    <3>2. (rd + i) % N = wr + (i - dataSize)
      BY <1>2, <3>1, RoomCell
    <3>3. mem'[wr + (i - dataSize)] = (nextTag + (i - dataSize)) % Tags
      BY <3>1
    <3>4. nextTag + (i - dataSize) = nextTag - dataSize + i
      BY <1>2
    <3>. QED BY <2>1, <3>2, <3>3, <3>4
  <2>. QED BY <2>2, <2>3
<1>4. FilledInOrder'
  BY <1>1 DEF FilledInOrder
<1>. QED BY <1>3, <1>4
\* Nobody moves a byte, and no writer fills any.
LEMMA DataQuiet ==
  ASSUME IInv, DataInv, UNCHANGED ringVars,
         \A w \in Writers : pc'[w] = "filled" => pc[w] = "filled" /\ need'[w] = need[w]
  PROVE  DataInv'
  BY DEF DataInv, InOrder, FilledInOrder, ringVars

\* How much a reader takes, and what it has then.
LEMMA Consumes ==
  ASSUME Usage, IInv, NEW r \in Readers, ReadPart(r) \/ ReadRest(r) \/ CommitContigRead(r)
  PROVE  \E k \in Nat : \E bytes :
           /\ k > 0 /\ k <= dataSize /\ rd + k <= N /\ k <= need[r] /\ Consume(r, k, bytes)
           /\ \/ /\ op[r] = "read" /\ pc[r] = "part" /\ bytes = Bytes(rd, k)
                 /\ need[r] <= dataSize
              \/ /\ op[r] = "read" /\ pc[r] = "rest" /\ bytes = got[r] \o Bytes(rd, k)
              \/ op[r] = "contigRead" /\ pc[r] = "hold" /\ Free /\ bytes = <<>>
<1>. USE RingBufAssumption
<1>0. r \in Tasks /\ need[r] \in Nat /\ dataSize \in Nat /\ rd \in 0 .. N - 1
  BY DEF Tasks, IInv, TypeOK
<1>1. CASE ReadPart(r)
  <2> DEFINE k == Least(need[r], AvailRead)
  <2>1. AvailRead = Least(dataSize, N - rd)
    BY <1>0, <1>1, AvailReadIs DEF ReadPart, At, IInv, Levels, Truth
  <2>2. need[r] > 0 /\ need[r] <= dataSize
    BY <1>1 DEF ReadPart, At, IInv, Sizes
  <2>3. k \in Nat /\ k > 0 /\ k <= dataSize /\ rd + k <= N /\ k <= need[r]
    BY <1>0, <2>1, <2>2 DEF Least, RingBufAssumption
  <2>4. Consume(r, k, Bytes(rd, k)) /\ op[r] = "read" /\ pc[r] = "part"
    BY <1>1 DEF ReadPart, At
  <2>. HIDE DEF k
  <2>. QED BY <2>2, <2>3, <2>4
<1>2. CASE ReadRest(r)
  <2>1. Consume(r, need[r], got[r] \o Bytes(rd, need[r])) /\ op[r] = "read" /\ pc[r] = "rest"
    BY <1>2 DEF ReadRest, At
  <2>2. need[r] > 0 /\ need[r] <= dataSize /\ rd = 0 /\ dataSize <= N
    BY <1>0, <2>1 DEF IInv, Sizes, TypeOK
  <2>3. rd + need[r] <= N /\ need[r] <= need[r]
    BY <1>0, <2>2 DEF RingBufAssumption
  <2>. need[r] \in Nat
    BY <1>0
  <2>. WITNESS need[r] \in Nat
  <2>. WITNESS got[r] \o Bytes(rd, need[r])
  <2>. QED BY <1>0, <2>1, <2>2, <2>3
<1>3. CASE CommitContigRead(r)
  <2>1. PICK k \in LeastCommit .. need[r] : Consume(r, k, <<>>)
    BY <1>3 DEF CommitContigRead
  <2>2. op[r] = "contigRead" /\ pc[r] = "hold" /\ Free
    BY <1>3 DEF CommitContigRead, At
  <2>3. need[r] <= dataSize /\ rd + need[r] <= N
    BY <2>2 DEF IInv, Sizes
  <2>4. k \in Nat /\ k > 0 /\ k <= dataSize /\ rd + k <= N /\ k <= need[r]
    BY <1>0, <2>3 DEF Usage, RingBufAssumption
  <2>. QED BY <2>1, <2>2, <2>4
<1>. QED BY <1>1, <1>2, <1>3

\* How much a writer adds, and that the bytes are where they belong.
LEMMA Produces ==
  ASSUME Usage, IInv, DataInv, NEW w \in Writers, WritePart(w) \/ CommitWrite(w)
  PROVE  \E k \in Nat :
           /\ k > 0 /\ k <= Space /\ wr + k <= N /\ k <= need[w] /\ need[w] <= Space /\ Produce(w, k)
           /\ \A i \in 0 .. N - 1 : i \notin Slice(wr, k) => mem'[i] = mem[i]
           /\ \A i \in 0 .. k - 1 : mem'[wr + i] = (nextTag + i) % Tags
           /\ \/ op[w] = "write" /\ pc[w] \in {"part", "rest"}
              \/ op[w] = "getWriteBuf" /\ pc[w] = "filled" /\ Free /\ k = need[w]
<1>. USE RingBufAssumption
<1>0. /\ w \in Tasks /\ need[w] \in Nat /\ wr \in 0 .. N - 1 /\ Space \in Nat /\ N \in Nat
      /\ nextTag \in Int
  BY DEF Tasks, IInv, TypeOK, Space, RingBufAssumption
<1>1. CASE WritePart(w)
  <2> DEFINE k == Least(need[w], AvailWrite)
  <2>1. AvailWrite = Least(Space, N - wr)
    BY AvailWriteIs DEF IInv
  <2>2. op[w] = "write" /\ pc[w] \in {"part", "rest"} /\ need[w] > 0 /\ need[w] <= Space
    BY <1>0, <1>1 DEF WritePart, IInv, Sizes
  <2>3. k \in Nat /\ k > 0 /\ k <= Space /\ wr + k <= N /\ k <= need[w]
    BY <1>0, <2>1, <2>2 DEF Least
  <2>4. mem' = Filled(wr, k) /\ Produce(w, k)
    BY <1>1 DEF WritePart
  <2>. HIDE DEF k
  <2>5. \A i \in 0 .. N - 1 : i \notin Slice(wr, k) => mem'[i] = mem[i]
    BY <2>4 DEF Filled
  <2>6. \A i \in 0 .. k - 1 : mem'[wr + i] = (nextTag + i) % Tags
    <3>. TAKE i \in 0 .. k - 1
    <3>1. wr + i \in 0 .. N - 1 /\ wr + i \in Slice(wr, k) /\ nextTag + (wr + i) - wr = nextTag + i
      BY <1>0, <2>3 DEF Slice
    <3>. QED BY <2>4, <3>1 DEF Filled
  <2>. QED BY <2>2, <2>3, <2>4, <2>5, <2>6
<1>2. CASE CommitWrite(w)
  <2>1. op[w] = "getWriteBuf" /\ pc[w] = "filled" /\ Free /\ Produce(w, need[w]) /\ mem' = mem
    BY <1>2 DEF CommitWrite, At
  <2>2. need[w] > 0 /\ need[w] <= Space /\ wr + need[w] <= N
    BY <2>1 DEF IInv, Sizes
  <2>3. \A i \in 0 .. need[w] - 1 : mem[wr + i] = (nextTag + i) % Tags
    BY <2>1 DEF DataInv, FilledInOrder
  <2>4. need[w] <= need[w]
    BY <1>0
  <2>. need[w] \in Nat
    BY <1>0
  <2>. WITNESS need[w] \in Nat
  <2>. QED BY <2>1, <2>2, <2>3, <2>4
<1>. QED BY <1>1, <1>2


\* Every step keeps the data in order.
LEMMA DataStep == ASSUME Usage, IInv, IInv', DataInv, [Next]_vars PROVE DataInv'
<1>. USE RingBufAssumption
<1>0. TypeOK /\ rd' \in 0 .. N - 1 /\ \A t \in Tasks : pc[t] \in PCs
  BY DEF IInv, TypeOK
<1>1. ASSUME NEW t \in Tasks, UNCHANGED ringVars, t \in Writers => pc'[t] # "filled",
             \A u \in Tasks \ {t} : pc'[u] = pc[u] /\ need'[u] = need[u]
      PROVE  DataInv'
  <2>1. \A w \in Writers : pc'[w] = "filled" => pc[w] = "filled" /\ need'[w] = need[w]
    BY <1>1 DEF Tasks
  <2>. QED BY <1>1, <2>1, DataQuiet
<1>2. ASSUME NEW t \in Tasks, Waiting(t) PROVE DataInv'
  <2>1. UNCHANGED ringVars
    BY <1>2 DEF Waiting, Wait, TimeOut, WokenByStop, WokenByEvent, WokenByTimeout, Woken
  <2>2. /\ \A u \in Tasks \ {t} : pc'[u] = pc[u] /\ need'[u] = need[u]
        /\ pc'[t] # "filled"
    BY <1>0, <1>2 DEF Waiting, Wait, TimeOut, WokenByStop, WokenByEvent, WokenByTimeout, Woken,
                      TypeOK, Go, GoOn, Return, localVars
  <2>. QED BY <1>1, <2>1, <2>2
<1>3. ASSUME NEW r \in Readers, ReaderStep(r) PROVE DataInv'
  <2>0. r \in Tasks /\ r \notin Writers
    BY DEF Tasks, Usage
  <2>1. CASE ReadPart(r) \/ ReadRest(r) \/ CommitContigRead(r)
    BY <1>0, <2>1, Consumes, DataConsumed
  <2>2. CASE \/ ReadTry(r) \/ ContigReadTry(r) \/ SetIsEmpty(r) \/ SetReadOp(r)
             \/ PeekTry(r) \/ PeekLock(r) \/ PeekReturn(r)
    <3>1. UNCHANGED ringVars
      BY <2>2 DEF ReadTry, ContigReadTry, SetIsEmpty, SetReadOp, PeekTry, PeekLock, PeekReturn
    <3>2. \A u \in Tasks \ {r} : pc'[u] = pc[u] /\ need'[u] = need[u]
      BY <1>0, <2>0, <2>2
         DEF ReadTry, ContigReadTry, SetIsEmpty, SetReadOp, PeekTry, PeekLock, PeekReturn,
             TypeOK, Go, GoGot, Return
    <3>. QED BY <1>1, <2>0, <3>1, <3>2
  <2>. QED BY <1>2, <1>3, <2>0, <2>1, <2>2 DEF ReaderStep
<1>4. ASSUME NEW w \in Writers, WriterStep(w) \/ AbortWrite(w) PROVE DataInv'
  <2>0. w \in Tasks /\ need[w] \in Nat /\ Space \in Nat /\ wr \in 0 .. N - 1 /\ N \in Nat /\ nextTag \in Int
    BY DEF Tasks, IInv, TypeOK, Space, RingBufAssumption
  <2>1. CASE WritePart(w) \/ CommitWrite(w)
    <3>1. PICK k \in Nat :
           /\ k > 0 /\ k <= Space /\ wr + k <= N /\ Produce(w, k)
           /\ \A i \in 0 .. N - 1 : i \notin Slice(wr, k) => mem'[i] = mem[i]
           /\ \A i \in 0 .. k - 1 : mem'[wr + i] = (nextTag + i) % Tags
      BY <2>1, Produces
    <3>. QED BY <3>1, DataProduced
  <2>2. CASE WriteTry(w) \/ GetWriteBufTry(w) \/ SetWriteOp(w)
    <3>1. UNCHANGED ringVars
      BY <2>2 DEF WriteTry, GetWriteBufTry, SetWriteOp
    <3>2. \A u \in Tasks \ {w} : pc'[u] = pc[u] /\ need'[u] = need[u]
      BY <1>0, <2>0, <2>2 DEF WriteTry, GetWriteBufTry, SetWriteOp, TypeOK, Go, GoNeed, Return
    <3>3. pc'[w] # "filled"
      BY <1>0, <2>0, <2>2 DEF WriteTry, GetWriteBufTry, SetWriteOp, TypeOK, Go, GoNeed, Return
    <3>. QED BY <1>1, <2>0, <3>1, <3>2, <3>3
  <2>3. CASE AbortWrite(w)
    <3>1. need[w] <= Space /\ wr + need[w] <= N
      BY <2>3 DEF AbortWrite, IInv, Sizes
    <3>2. \A i \in 0 .. N - 1 : i \notin Slice(wr, need[w]) => mem'[i] = mem[i]
      BY <2>3 DEF AbortWrite
    <3>3. \A v \in Writers : pc'[v] # "filled"
      BY <1>0, <2>3 DEF AbortWrite, Return, Usage, TypeOK, Tasks
    <3>. QED BY <2>0, <2>3, <3>1, <3>2, <3>3, DataUntouched DEF AbortWrite
  <2>4. CASE FillWriteBuf(w)
    <3>1. PICK k \in LeastCommit .. need[w] : mem' = Filled(wr, k) /\ GoNeed(w, "filled", k)
      BY <2>4 DEF FillWriteBuf
    <3>2. need[w] <= Space /\ wr + need[w] <= N /\ UNCHANGED <<wr, rd, dataSize, nextTag>>
      BY <2>4 DEF FillWriteBuf, At, IInv, Sizes
    <3>3. k \in Nat /\ k <= Space /\ wr + k <= N
      BY <2>0, <3>1, <3>2 DEF Usage
    <3>4. \A i \in 0 .. N - 1 : i \notin Slice(wr, k) => mem'[i] = mem[i]
      BY <3>1 DEF Filled
    <3>5. InOrder'
      BY <3>2, <3>3, <3>4, DataCell DEF IInv, DataInv, InOrder
    <3>6. need'[w] = k /\ \A v \in Writers : v = w
      BY <1>0, <2>0, <3>1 DEF GoNeed, TypeOK, Usage
    <3>7. \A i \in 0 .. k - 1 : mem'[wr + i] = (nextTag + i) % Tags
      <4>. TAKE i \in 0 .. k - 1
      <4>1. wr + i \in 0 .. N - 1 /\ wr + i \in Slice(wr, k) /\ nextTag + (wr + i) - wr = nextTag + i
        BY <2>0, <3>3 DEF Slice
      <4>. QED BY <3>1, <4>1 DEF Filled
    <3>. QED BY <3>2, <3>5, <3>6, <3>7 DEF DataInv, FilledInOrder
  <2>. QED BY <1>2, <1>4, <2>0, <2>1, <2>2, <2>3, <2>4 DEF WriterStep
<1>5. ASSUME NEW c \in Controllers, ControllerCall(c) \/ ControllerStep(c) PROVE DataInv'
  <2>0. c \in Tasks /\ c \notin Writers
    BY DEF Tasks, Usage
  <2>1. CASE ClearTry(c) /\ ~Busy
    <3>1. dataSize' = 0 /\ \A w \in Writers : pc'[w] # "filled"
      BY <1>0, <2>0, <2>1 DEF ClearTry, DoClear, Busy, Go, IInv, Recorded, TypeOK, Tasks, Usage
    <3>. QED BY <3>1 DEF DataInv, InOrder, FilledInOrder
  <2>2. CASE ControllerCall(c) \/ ClearSet(c) \/ ClearReturn(c) \/ (ClearTry(c) /\ Busy)
    <3>1. UNCHANGED ringVars
      BY <2>2 DEF ControllerCall, CallClear, Begin, SetStopSignal, ClearStopSignal, ClearSet, ClearReturn, ClearTry
    <3>2. \A u \in Tasks \ {c} : pc'[u] = pc[u] /\ need'[u] = need[u]
      BY <1>0, <2>0, <2>2
         DEF ControllerCall, CallClear, Begin, SetStopSignal, ClearStopSignal, ClearSet, ClearReturn,
             ClearTry, TypeOK, Go, Return, localVars
    <3>. QED BY <1>1, <2>0, <3>1, <3>2
  <2>. QED BY <1>2, <1>5, <2>0, <2>1, <2>2 DEF ControllerStep
<1>6. ASSUME NEW t \in Tasks, ReaderCall(t) \/ WriterCall(t) PROVE DataInv'
  <2>1. PICK call, where, n, w : Begin(t, call, where, n, w) /\ where \in {"try", "enter"}
    BY <1>6, Zenon DEF ReaderCall, WriterCall, CallRead, CallContigRead, CallPeek, CallWrite, CallGetWriteBuf
  <2>2. UNCHANGED ringVars /\ \A u \in Tasks \ {t} : pc'[u] = pc[u] /\ need'[u] = need[u]
    BY <1>0, <2>1 DEF Begin, TypeOK
  <2>3. pc'[t] # "filled"
    BY <1>0, <2>1 DEF Begin, TypeOK
  <2>. QED BY <1>1, <2>2, <2>3
<1>7. CASE UNCHANGED vars
  BY <1>7, DataQuiet DEF vars, localVars
<1>. QED BY <1>3, <1>4, <1>5, <1>6, <1>7 DEF Next, Tasks

LEMMA DataInvariance == ASSUME Usage PROVE Spec => [](IInv /\ DataInv)
<1>1. Init => IInv /\ DataInv
  <2>1. Init => DataInv
    BY DEF Init, DataInv, InOrder, FilledInOrder, Tasks
  <2>. QED BY <2>1, InitIInv
<1>2. IInv /\ DataInv /\ [Next]_vars => IInv' /\ DataInv'
  BY NextIInv, DataStep
<1>. QED BY <1>1, <1>2, PTL DEF Spec

\* The cells hold the last bytes that were committed, in that order, for every
\* buffer, whatever wraps around and whoever comes in between.
THEOREM InOrderHolds == ASSUME Usage PROVE Spec => []InOrder
<1>1. DataInv => InOrder
  BY DEF DataInv
<1>. QED BY <1>1, DataInvariance, PTL
-----------------------------------------------------------------------------
\* What a call hands to its caller.

\* The caller has bytes only at some points of its call, and a peek that has seen
\* enough data still finds it: who looks without the mutex is never overtaken by
\* a clear().
Named == \A t \in Tasks : op[t] \in Calls \cup {"none"}

HandedOut ==
    \A r \in Readers :
        /\ got[r] # <<>> => pc[r] \in {"rest", "setEmpty", "setOp", "hold", "peeked"}
        /\ op[r] = "contigRead" /\ pc[r] # "hold" => got[r] = <<>>
        /\ pc[r] = "peekLock" => need[r] <= dataSize

GotInv == Named /\ HandedOut /\ GotInOrder

NoClash == "clear" \notin Calls \/ "peek" \notin Calls

\* The cells from the read offset on hold the oldest bytes.
LEMMA CopyInOrder ==
  ASSUME TypeOK, RingBufAssumption, InOrder, NEW k \in Nat, k <= dataSize, rd + k <= N
  PROVE  /\ Bytes(rd, k) \in Seq(0 .. Tags) /\ Len(Bytes(rd, k)) = k
         /\ \A i \in 1 .. k : Bytes(rd, k)[i] = (nextTag - dataSize + i - 1) % Tags
<1>0. N \in Nat \ {0} /\ rd \in 0 .. N - 1 /\ dataSize \in 0 .. N /\ nextTag \in Int
  BY DEF TypeOK, RingBufAssumption
<1>1. Bytes(rd, k) \in Seq(0 .. Tags)
  BY <1>0, BytesType DEF TypeOK
<1>2. Len(Bytes(rd, k)) = k
  BY DEF Bytes
<1>3. ASSUME NEW i \in 1 .. k PROVE Bytes(rd, k)[i] = (nextTag - dataSize + i - 1) % Tags
  <2>1. i - 1 \in 0 .. dataSize - 1 /\ i - 1 \in 0 .. N - 1
    BY <1>0
  <2>2. \A j \in 0 .. N - 1 : (rd + j) % N = IF rd + j < N THEN rd + j ELSE rd + j - N
    BY CellIs
  <2>3. (rd + (i - 1)) % N = rd + (i - 1) /\ rd + (i - 1) = rd + i - 1
    BY <1>0, <2>1, <2>2
  <2>4. mem[(rd + (i - 1)) % N] = (nextTag - dataSize + (i - 1)) % Tags
    BY <2>1 DEF InOrder
  <2>5. nextTag - dataSize + (i - 1) = nextTag - dataSize + i - 1
    BY <1>0, <2>1
  <2>. QED BY <2>3, <2>4, <2>5 DEF Bytes
<1>. QED BY <1>1, <1>2, <1>3

\* The same where the data wraps around.
LEMMA WrappedInOrder ==
  ASSUME TypeOK, RingBufAssumption, InOrder, NEW k \in Nat, rd + k = N,
         NEW m \in Nat, k + m <= dataSize
  PROVE  /\ Bytes(0, m) \in Seq(0 .. Tags) /\ Len(Bytes(0, m)) = m
         /\ \A i \in 1 .. m : Bytes(0, m)[i] = (nextTag - dataSize + (k + i) - 1) % Tags
<1>0. N \in Nat \ {0} /\ rd \in 0 .. N - 1 /\ dataSize \in 0 .. N /\ nextTag \in Int
  BY DEF TypeOK, RingBufAssumption
<1>1. 0 + m <= N
  BY <1>0
<1>2. Bytes(0, m) \in Seq(0 .. Tags)
  BY <1>1, BytesType DEF TypeOK
<1>3. Len(Bytes(0, m)) = m
  BY DEF Bytes
<1>4. ASSUME NEW i \in 1 .. m PROVE Bytes(0, m)[i] = (nextTag - dataSize + (k + i) - 1) % Tags
  <2>1. k + i - 1 \in 0 .. dataSize - 1 /\ k + i - 1 \in 0 .. N - 1
    BY <1>0
  <2>2. \A j \in 0 .. N - 1 : (rd + j) % N = IF rd + j < N THEN rd + j ELSE rd + j - N
    BY CellIs
  <2>3. (rd + (k + i - 1)) % N = 0 + i - 1
    BY <1>0, <2>1, <2>2
  <2>4. mem[(rd + (k + i - 1)) % N] = (nextTag - dataSize + (k + i - 1)) % Tags
    BY <2>1 DEF InOrder
  <2>5. nextTag - dataSize + (k + i - 1) = nextTag - dataSize + (k + i) - 1
    BY <1>0, <2>1
  <2>6. Bytes(0, m)[i] = mem[0 + i - 1]
    BY DEF Bytes
  <2>. QED BY <2>3, <2>4, <2>5, <2>6
<1>. QED BY <1>2, <1>3, <1>4

\* Who moves no byte and is not the reader.
LEMMA GotElsewhere ==
  ASSUME Usage, IInv, GotInv, Named', UNCHANGED <<rd, dataSize, nextTag>>, NEW u \in Tasks \ Readers,
         \A t \in Tasks \ {u} : pc'[t] = pc[t] /\ op'[t] = op[t] /\ need'[t] = need[t] /\ got'[t] = got[t]
  PROVE  GotInv'
  BY DEF GotInv, HandedOut, GotInOrder, Tasks

\* A reader that goes on without bytes.
LEMMA GotNothing ==
  ASSUME Usage, Named', NEW r \in Readers, got'[r] = <<>>,
         pc'[r] = "peekLock" => need'[r] <= dataSize'
  PROVE  GotInv'
<1>1. \A q \in Readers : q = r
  BY DEF Usage
<1>2. HandedOut'
  BY <1>1 DEF HandedOut
<1>3. GotInOrder'
  BY <1>1 DEF GotInOrder
<1>. QED BY <1>2, <1>3 DEF GotInv

\* The elements of two sequences, one behind the other.
LEMMA ConcatIs ==
  ASSUME NEW S, NEW s \in Seq(S), NEW t \in Seq(S)
  PROVE  /\ Len(s \o t) = Len(s) + Len(t)
         /\ \A i \in 1 .. Len(s) + Len(t) : (s \o t)[i] = IF i <= Len(s) THEN s[i] ELSE t[i - Len(s)]
  OBVIOUS

\* doCommitContigRead, and the copy that read() makes just before it.
LEMMA GotConsumed ==
  ASSUME Usage, IInv, DataInv, GotInv, Named', NEW r \in Readers,
         ReadPart(r) \/ ReadRest(r) \/ CommitContigRead(r)
  PROVE  GotInv'
<1>. USE RingBufAssumption
<1>0. /\ r \in Tasks /\ \A q \in Readers : q = r
      /\ TypeOK /\ InOrder /\ nextTag \in Int /\ dataSize \in Int /\ got[r] \in Seq(0 .. Tags)
  BY DEF Usage, Tasks, IInv, TypeOK, DataInv
<1>1. PICK k \in Nat : \E bytes :
        /\ k > 0 /\ k <= dataSize /\ rd + k <= N /\ k <= need[r] /\ Consume(r, k, bytes)
        /\ \/ /\ op[r] = "read" /\ pc[r] = "part" /\ bytes = Bytes(rd, k)
              /\ need[r] <= dataSize
           \/ /\ op[r] = "read" /\ pc[r] = "rest" /\ bytes = got[r] \o Bytes(rd, k)
           \/ op[r] = "contigRead" /\ pc[r] = "hold" /\ Free /\ bytes = <<>>
  BY Consumes
<1>2. PICK bytes :
        /\ k > 0 /\ k <= dataSize /\ rd + k <= N /\ k <= need[r] /\ Consume(r, k, bytes)
        /\ \/ /\ op[r] = "read" /\ pc[r] = "part" /\ bytes = Bytes(rd, k)
              /\ need[r] <= dataSize
           \/ /\ op[r] = "read" /\ pc[r] = "rest" /\ bytes = got[r] \o Bytes(rd, k)
           \/ op[r] = "contigRead" /\ pc[r] = "hold" /\ Free /\ bytes = <<>>
  BY <1>1
<1>3. /\ got'[r] = bytes /\ op'[r] = op[r] /\ pc'[r] \in {"setEmpty", "setOp"}
      /\ dataSize' = dataSize - k /\ nextTag' = nextTag
  BY <1>0, <1>2 DEF Consume, GoGot, TypeOK
<1>4. /\ Bytes(rd, k) \in Seq(0 .. Tags) /\ Len(Bytes(rd, k)) = k
      /\ \A i \in 1 .. k : Bytes(rd, k)[i] = (nextTag - dataSize + i - 1) % Tags
  BY <1>0, <1>2, CopyInOrder
<1>5. CASE op[r] = "contigRead" /\ bytes = <<>>
  BY <1>3, <1>5, GotNothing
<1>6. ASSUME op[r] = "read",
             \A i \in 1 .. Len(bytes) :
                bytes[i] = (nextTag - (dataSize - k) - Len(bytes) + i - 1) % Tags
      PROVE  GotInv'
  <2>1. HandedOut'
    BY <1>0, <1>3, <1>6 DEF HandedOut
  <2>2. GotInOrder'
    BY <1>0, <1>3, <1>6 DEF GotInOrder
  <2>. QED BY <2>1, <2>2 DEF GotInv
<1>7. CASE op[r] = "read" /\ bytes = Bytes(rd, k)
  <2>1. ASSUME NEW i \in 1 .. k
        PROVE  bytes[i] = (nextTag - (dataSize - k) - k + i - 1) % Tags
    <3>1. nextTag - (dataSize - k) - k + i - 1 = nextTag - dataSize + i - 1
      BY <1>0
    <3>. QED BY <1>4, <1>7, <3>1
  <2>. QED BY <1>4, <1>6, <1>7, <2>1
<1>8. CASE op[r] = "read" /\ bytes = got[r] \o Bytes(rd, k)
  <2> DEFINE n == Len(got[r])
             copy == Bytes(rd, k)
  <2>1. n \in Nat /\ copy \in Seq(0 .. Tags) /\ Len(copy) = k
    BY <1>0, <1>4
  <2>2. Len(bytes) = n + k /\ \A i \in 1 .. n + k : bytes[i] = IF i <= n THEN got[r][i] ELSE copy[i - n]
    <3>. HIDE DEF copy
    <3>1. bytes = got[r] \o copy
      BY <1>8 DEF copy
    <3>. QED BY <1>0, <2>1, <3>1, ConcatIs
  <2>3. ASSUME NEW i \in 1 .. n
        PROVE  got[r][i] = (nextTag - dataSize - n + i - 1) % Tags
    BY <1>8 DEF GotInv, GotInOrder
  <2>4. ASSUME NEW i \in 1 .. n + k
        PROVE  bytes[i] = (nextTag - (dataSize - k) - (n + k) + i - 1) % Tags
    <3>. HIDE DEF copy, n
    <3>1. nextTag - (dataSize - k) - (n + k) + i - 1 = nextTag - dataSize - n + i - 1
      BY <1>0, <2>1
    <3>2. CASE i <= n
      <4>1. i \in 1 .. n
        BY <2>1, <3>2
      <4>. QED BY <2>2, <2>3, <3>1, <3>2, <4>1
    <3>3. CASE ~(i <= n)
      <4>1. i - n \in 1 .. k /\ nextTag - dataSize + (i - n) - 1 = nextTag - dataSize - n + i - 1
        BY <1>0, <2>1, <3>3
      <4>2. copy[i - n] = (nextTag - dataSize + (i - n) - 1) % Tags
        BY <1>4, <4>1 DEF copy
      <4>. QED BY <2>2, <3>1, <3>3, <4>1, <4>2
    <3>. QED BY <3>2, <3>3
  <2>. QED BY <1>6, <1>8, <2>2, <2>4
<1>. QED BY <1>2, <1>5, <1>7, <1>8

\* commitContigWrite moves the numbers of the bytes and the count together.
LEMMA GotProduced ==
  ASSUME Usage, IInv, DataInv, GotInv, Named', NEW w \in Writers, WritePart(w) \/ CommitWrite(w)
  PROVE  GotInv'
<1>. USE RingBufAssumption
<1>1. PICK k \in Nat : Produce(w, k)
  BY Produces
<1>2. /\ dataSize' = dataSize + k /\ nextTag' = (nextTag + k) % Tags /\ got' = got /\ op' = op
      /\ dataSize \in Int /\ nextTag \in Int /\ Tags \in Nat \ {0} /\ w \in Tasks
  BY <1>1 DEF Produce, GoNeed, IInv, TypeOK, RingBufAssumption, Tasks
<1>3. \A r \in Readers : pc'[r] = pc[r] /\ need'[r] = need[r] /\ got[r] \in Seq(0 .. Tags)
  BY <1>1, <1>2 DEF Produce, GoNeed, IInv, TypeOK, Usage, Tasks
<1>4. HandedOut'
  <2>1. \A r \in Readers : need[r] \in Nat
    BY DEF IInv, TypeOK, Tasks
  <2>2. \A r \in Readers : need[r] <= dataSize => need[r] <= dataSize + k
    BY <1>2, <2>1
  <2>. QED BY <1>2, <1>3, <2>2 DEF GotInv, HandedOut
<1>5. GotInOrder'
  <2>. SUFFICES ASSUME NEW r \in Readers, NEW i \in 1 .. Len(got[r]), NEW n \in Nat,
                       got[r][i] = (nextTag - dataSize - n + i - 1) % Tags
                PROVE  got[r][i] = (nextTag' - dataSize' - n + i - 1) % Tags
    <3> DEFINE taken(r) == IF op[r] = "read" THEN Len(got[r]) ELSE 0
    <3>1. \A r \in Readers : taken(r) \in Nat
      BY <1>3
    <3>2. \A r \in Readers : \A i \in 1 .. Len(got[r]) :
             got[r][i] = (nextTag - dataSize - taken(r) + i - 1) % Tags
      BY DEF GotInv, GotInOrder
    <3>3. GotInOrder' <=> \A r \in Readers : \A i \in 1 .. Len(got[r]) :
             got[r][i] = (nextTag' - dataSize' - taken(r) + i - 1) % Tags
      BY <1>2, Zenon DEF GotInOrder
    <3>. HIDE DEF taken
    <3>. QED BY <3>1, <3>2, <3>3, Zenon
  <2> DEFINE a == nextTag + k
             b == i - 1 - n - (dataSize + k)
  <2>1. a \in Int /\ b \in Int /\ a + b = nextTag - dataSize - n + i - 1 /\ nextTag' = a % Tags
    BY <1>2, <1>3
  <2>2. nextTag' \in Int
    <3>. HIDE DEF a
    <3>1. a % Tags \in 0 .. Tags - 1
      BY <1>2, <2>1, Quotient, Zenon
    <3>2. \A x \in 0 .. Tags - 1 : x \in Int
      BY <1>2
    <3>. QED BY <2>1, <3>1, <3>2, Zenon
  <2>3. nextTag' - dataSize' - n + i - 1 = nextTag' + b
    BY <1>2, <1>3, <2>2
  <2>. HIDE DEF a, b
  <2>4. ((a % Tags) + b) % Tags = (a + b) % Tags
    BY <1>2, <2>1, ModAdd
  <2>. QED BY <2>1, <2>3, <2>4
<1>. QED BY <1>4, <1>5 DEF GotInv
\* A call that runs is one the tasks use.
LEMMA NamedStep == ASSUME TypeOK, Named, [Next]_vars PROVE Named'
<1>. USE DEF Named
<1>1. CASE UNCHANGED op
  BY <1>1
<1>2. ASSUME NEW t \in Tasks, Return(t) PROVE Named'
  BY <1>2 DEF Return, TypeOK
<1>3. ASSUME NEW t \in Tasks, NEW call, NEW where, NEW n, NEW w, Begin(t, call, where, n, w) PROVE Named'
  BY <1>3 DEF Begin, TypeOK
<1>4. ASSUME NEW t \in Tasks, Waiting(t) PROVE Named'
  <2>1. (UNCHANGED op) \/ Return(t)
    BY <1>4, Zenon DEF Waiting, Wait, TimeOut, WokenByStop, WokenByEvent, WokenByTimeout, Go, GoOn, localVars
  <2>. QED BY <1>1, <1>2, <2>1
<1>5. ASSUME NEW t \in Readers, ReaderStep(t) PROVE Named'
  <2>1. Waiting(t) \/ (UNCHANGED op) \/ Return(t)
    BY <1>5, Zenon DEF ReaderStep, ReadTry, ReadPart, ReadRest, ContigReadTry, CommitContigRead, SetIsEmpty,
                SetReadOp, PeekTry, PeekLock, PeekReturn, Consume, Go, GoGot
  <2>. QED BY <1>1, <1>2, <1>4, <2>1 DEF Tasks
<1>6. ASSUME NEW t \in Writers, WriterStep(t) \/ AbortWrite(t) PROVE Named'
  <2>1. Waiting(t) \/ (UNCHANGED op) \/ Return(t)
    BY <1>6, Zenon DEF WriterStep, AbortWrite, WriteTry, WritePart, GetWriteBufTry, FillWriteBuf, CommitWrite,
                SetWriteOp, Produce, Go, GoNeed
  <2>. QED BY <1>1, <1>2, <1>4, <2>1 DEF Tasks
<1>7. ASSUME NEW t \in Controllers, ControllerStep(t) PROVE Named'
  <2>1. Waiting(t) \/ (UNCHANGED op) \/ Return(t)
    BY <1>7, Zenon DEF ControllerStep, ClearTry, ClearSet, ClearReturn, Go
  <2>. QED BY <1>1, <1>2, <1>4, <2>1 DEF Tasks
<1>8. ASSUME NEW t \in Tasks, ReaderCall(t) \/ WriterCall(t) \/ ControllerCall(t) PROVE Named'
  <2>1. (UNCHANGED op) \/ \E call, where, n, w : Begin(t, call, where, n, w)
    BY <1>8, Zenon DEF ReaderCall, WriterCall, ControllerCall, CallRead, CallContigRead, CallPeek, CallWrite,
                CallGetWriteBuf, CallClear, SetStopSignal, ClearStopSignal, localVars
  <2>. QED BY <1>1, <1>3, <2>1
<1>9. CASE UNCHANGED vars
  BY <1>1, <1>9 DEF vars, localVars
<1>. QED BY <1>5, <1>6, <1>7, <1>8, <1>9 DEF Next, Tasks

\* peek() copies what it has seen to be there.
LEMMA GotPeeked ==
  ASSUME Usage, IInv, DataInv, GotInv, Named', NEW r \in Readers, PeekLock(r)
  PROVE  GotInv'
<1>. USE RingBufAssumption
<1> DEFINE k == Least(need[r], AvailRead)
           m == need[r] - k
           s == Bytes(rd, k)
           t == Bytes(0, m)
<1>0. /\ r \in Tasks /\ \A q \in Readers : q = r
      /\ TypeOK /\ RingShape /\ InOrder /\ nextTag \in Int /\ dataSize \in 0 .. N /\ need[r] \in Nat
      /\ rd \in 0 .. N - 1 /\ N \in Nat
      /\ pc[r] = "peekLock" /\ op[r] = "peek" /\ need[r] <= dataSize
  BY DEF Usage, Tasks, IInv, TypeOK, DataInv, RingBufAssumption, PeekLock, Roles, GotInv, HandedOut
<1>1. AvailRead = Least(dataSize, N - rd)
  BY <1>0, AvailReadIs DEF PeekLock, IInv, Levels, Truth
<1>2. k \in Nat /\ k <= dataSize /\ rd + k <= N /\ m \in Nat /\ k + m = need[r] /\ (m > 0 => rd + k = N)
  BY <1>0, <1>1 DEF Least
<1>3. GoGot(r, "peeked", need[r], s \o t) /\ UNCHANGED ringVars
  BY DEF PeekLock
<1>4. /\ got'[r] = s \o t /\ op'[r] = "peek" /\ pc'[r] = "peeked"
      /\ dataSize' = dataSize /\ nextTag' = nextTag
  BY <1>0, <1>3 DEF GoGot, TypeOK, IInv, ringVars
<1>. HIDE DEF k, m
<1>5. /\ s \in Seq(0 .. Tags) /\ Len(s) = k
      /\ \A i \in 1 .. k : s[i] = (nextTag - dataSize + i - 1) % Tags
  BY <1>0, <1>2, CopyInOrder
<1>6. /\ t \in Seq(0 .. Tags) /\ Len(t) = m
      /\ \A i \in 1 .. m : t[i] = (nextTag - dataSize + (k + i) - 1) % Tags
  <2>1. CASE m > 0
    BY <1>0, <1>2, <2>1, WrappedInOrder, ZenonT(60)
  <2>2. CASE m = 0
    <3>1. t = <<>>
      BY <2>2 DEF Bytes
    <3>. HIDE DEF t
    <3>. QED BY <2>2, <3>1
  <2>. QED BY <1>2, <2>1, <2>2
<1>. HIDE DEF s, t
<1>7. Len(s \o t) = k + m /\ \A i \in 1 .. k + m : (s \o t)[i] = IF i <= k THEN s[i] ELSE t[i - k]
  BY <1>5, <1>6, ConcatIs
<1>8. ASSUME NEW i \in 1 .. k + m
      PROVE  (s \o t)[i] = (nextTag - dataSize - 0 + i - 1) % Tags
  <2>1. nextTag - dataSize - 0 + i - 1 = nextTag - dataSize + i - 1
    BY <1>0, <1>2
  <2>2. CASE i <= k
    <3>1. i \in 1 .. k
      BY <1>2, <2>2
    <3>. QED BY <1>5, <1>7, <2>1, <2>2, <3>1
  <2>3. CASE ~(i <= k)
    <3>1. i - k \in 1 .. m /\ k + (i - k) = i
      BY <1>2, <2>3
    <3>. QED BY <1>6, <1>7, <2>1, <2>3, <3>1
  <2>. QED BY <2>2, <2>3
<1>9. HandedOut'
  BY <1>0, <1>4 DEF HandedOut
<1>10. GotInOrder'
  BY <1>0, <1>4, <1>7, <1>8 DEF GotInOrder
<1>. QED BY <1>9, <1>10 DEF GotInv

\* Every step.
LEMMA GotStep ==
  ASSUME Usage, NoClash, IInv, DataInv, GotInv, [Next]_vars
  PROVE  GotInv'
<1>. USE RingBufAssumption
<1>0. TypeOK /\ Named /\ HandedOut
  BY DEF IInv, GotInv
<1>1. Named'
  BY <1>0, NamedStep
<1>2. ASSUME NEW t \in Tasks \ Readers, UNCHANGED <<rd, dataSize, nextTag>>,
             \A u \in Tasks \ {t} : pc'[u] = pc[u] /\ op'[u] = op[u] /\ need'[u] = need[u] /\ got'[u] = got[u]
      PROVE  GotInv'
  BY <1>1, <1>2, GotElsewhere
<1>3. ASSUME NEW t \in Tasks, Waiting(t) PROVE GotInv'
  <2>1. UNCHANGED ringVars /\ pc[t] \in {"wait", "woken"}
    BY <1>3 DEF Waiting, Wait, TimeOut, WokenByStop, WokenByEvent, WokenByTimeout, Woken
  <2>2. \A u \in Tasks \ {t} : pc'[u] = pc[u] /\ op'[u] = op[u] /\ need'[u] = need[u] /\ got'[u] = got[u]
    BY <1>0, <1>3 DEF Waiting, Wait, TimeOut, WokenByStop, WokenByEvent, WokenByTimeout, Woken,
                      TypeOK, Go, GoOn, Return, localVars
  <2>3. CASE t \notin Readers
    BY <1>2, <2>1, <2>2, <2>3 DEF ringVars
  <2>4. CASE t \in Readers
    <3>1. got[t] = <<>>
      BY <1>0, <2>1, <2>4 DEF HandedOut
    <3>2. got'[t] = <<>> /\ pc'[t] # "peekLock"
      BY <1>0, <1>3, <3>1 DEF Waiting, Wait, TimeOut, WokenByStop, WokenByEvent, WokenByTimeout, Woken,
                        TypeOK, Go, GoOn, Return, localVars
    <3>. QED BY <1>1, <2>4, <3>2, GotNothing
  <2>. QED BY <2>3, <2>4
<1>4. ASSUME NEW r \in Readers, ReaderStep(r) PROVE GotInv'
  <2>0. /\ r \in Tasks /\ \A q \in Readers : q = r
        /\ pc[r] \notin {"rest", "setEmpty", "setOp", "hold", "peeked"} => got[r] = <<>>
    BY <1>0 DEF Tasks, Usage, HandedOut
  <2>1. CASE ReadPart(r) \/ ReadRest(r) \/ CommitContigRead(r)
    BY <1>1, <2>1, GotConsumed
  <2>2. CASE PeekLock(r)
    BY <1>1, <2>2, GotPeeked
  <2>3. CASE ReadTry(r)
    BY <1>0, <1>1, <2>0, <2>3, GotNothing DEF ReadTry, At, Go, TypeOK
  <2>4. CASE PeekTry(r) \/ PeekReturn(r)
    <3>1. got'[r] = <<>>
      BY <1>0, <2>0, <2>4 DEF PeekTry, PeekReturn, At, Go, Return, TypeOK
    <3>2. pc'[r] = "peekLock" => need'[r] <= dataSize'
      BY <1>0, <2>0, <2>4 DEF PeekTry, PeekReturn, At, Go, Return, TypeOK, PeekEnough, ringVars
    <3>. QED BY <1>1, <3>1, <3>2, GotNothing
  <2>5. CASE ContigReadTry(r) /\ AvailRead < 1
    BY <1>0, <1>1, <2>0, <2>5, GotNothing DEF ContigReadTry, At, Go, TypeOK
  <2>6. CASE ContigReadTry(r) /\ ~(AvailRead < 1)
    <3> DEFINE k == Least(need[r], AvailRead)
    <3>0. /\ need[r] \in Nat /\ dataSize \in 0 .. N /\ rd \in 0 .. N - 1 /\ N \in Nat /\ op[r] = "contigRead"
          /\ nextTag \in Int /\ InOrder
      BY <1>0, <2>0, <2>6 DEF TypeOK, RingBufAssumption, ContigReadTry, At, DataInv
    <3>1. AvailRead = Least(dataSize, N - rd)
      BY <2>6, AvailReadIs DEF ContigReadTry, IInv, Levels, Truth
    <3>2. k \in Nat /\ k <= dataSize /\ rd + k <= N
      BY <2>6, <3>0, <3>1 DEF Least
    <3>3. GoGot(r, "hold", k, Bytes(rd, k)) /\ UNCHANGED ringVars
      BY <2>6 DEF ContigReadTry
    <3>. HIDE DEF k
    <3>4. /\ Len(Bytes(rd, k)) = k
          /\ \A i \in 1 .. k : Bytes(rd, k)[i] = (nextTag - dataSize + i - 1) % Tags
      BY <1>0, <3>0, <3>2, CopyInOrder
    <3>5. /\ got'[r] = Bytes(rd, k) /\ op'[r] = "contigRead" /\ pc'[r] = "hold"
          /\ dataSize' = dataSize /\ nextTag' = nextTag
      BY <1>0, <2>0, <3>0, <3>3 DEF GoGot, TypeOK, ringVars
    <3>6. HandedOut'
      BY <2>0, <3>5 DEF HandedOut
    <3>7. nextTag - dataSize - 0 = nextTag - dataSize
      BY <3>0
    <3>8. GotInOrder'
      BY <2>0, <3>4, <3>5, <3>7 DEF GotInOrder
    <3>. QED BY <1>1, <3>6, <3>8 DEF GotInv
  <2>7. CASE SetReadOp(r) /\ Return(r)
    BY <1>0, <1>1, <2>0, <2>7, GotNothing DEF Return, TypeOK
  <2>8. CASE SetIsEmpty(r) \/ (SetReadOp(r) /\ op[r] = "read" /\ Go(r, "rest"))
    <3>1. /\ op' = op /\ got' = got /\ dataSize' = dataSize /\ nextTag' = nextTag
          /\ pc[r] \in {"setEmpty", "setOp"} /\ pc'[r] \in {"rest", "setOp"}
          /\ pc'[r] = "rest" => op[r] = "read"
      BY <1>0, <2>0, <2>8 DEF SetIsEmpty, SetReadOp, Go, TypeOK, ringVars
    <3>2. HandedOut'
      BY <1>0, <2>0, <3>1 DEF HandedOut
    <3>3. GotInOrder'
      BY <3>1 DEF GotInv, GotInOrder
    <3>. QED BY <1>1, <3>2, <3>3 DEF GotInv
  <2>9. SetReadOp(r) => Return(r) \/ (op[r] = "read" /\ Go(r, "rest"))
    BY DEF SetReadOp
  <2>. QED BY <1>3, <1>4, <2>0, <2>1, <2>2, <2>3, <2>4, <2>5, <2>6, <2>7, <2>8, <2>9 DEF ReaderStep
<1>5. ASSUME NEW w \in Writers, WriterStep(w) \/ AbortWrite(w) PROVE GotInv'
  <2>0. w \in Tasks \ Readers
    BY DEF Tasks, Usage
  <2>1. CASE WritePart(w) \/ CommitWrite(w)
    BY <1>1, <2>1, GotProduced
  <2>2. CASE WriteTry(w) \/ GetWriteBufTry(w) \/ SetWriteOp(w) \/ FillWriteBuf(w) \/ AbortWrite(w)
    <3>1. UNCHANGED <<rd, dataSize, nextTag>>
      BY <2>2 DEF WriteTry, GetWriteBufTry, SetWriteOp, FillWriteBuf, AbortWrite, ringVars
    <3>2. \A u \in Tasks \ {w} : pc'[u] = pc[u] /\ op'[u] = op[u] /\ need'[u] = need[u] /\ got'[u] = got[u]
      BY <1>0, <2>0, <2>2
         DEF WriteTry, GetWriteBufTry, SetWriteOp, FillWriteBuf, AbortWrite, TypeOK, Go, GoNeed, Return
    <3>. QED BY <1>2, <2>0, <3>1, <3>2
  <2>. QED BY <1>3, <1>5, <2>0, <2>1, <2>2 DEF WriterStep
<1>6. ASSUME NEW c \in Controllers, ControllerCall(c) \/ ControllerStep(c) PROVE GotInv'
  <2>0. c \in Tasks \ Readers
    BY DEF Tasks, Usage
  <2>1. CASE ClearTry(c) /\ ~Busy
    <3>1. inProgress = {} /\ mutex = Nobody /\ op[c] = "clear" /\ got' = got
      BY <2>1 DEF ClearTry, Busy, Free, At, Go
    <3>2. "peek" \notin Calls
      BY <1>0, <2>0, <3>1 DEF Named, NoClash
    <3>3. ASSUME NEW r \in Readers PROVE got[r] = <<>> /\ pc'[r] # "peekLock"
      <4>1. r \in Tasks /\ pc[r] \notin {"hold", "rest", "setEmpty", "setOp"}
        BY <3>1 DEF Tasks, IInv, Recorded, Owner, Critical, RingBufAssumption
      <4>2. pc[r] \notin {"peekLock", "peeked"}
        BY <1>0, <3>2, <4>1 DEF Named, IInv, Roles
      <4>3. pc'[r] = pc[r]
        BY <1>0, <2>0, <2>1, <4>1 DEF ClearTry, Go, TypeOK
      <4>. QED BY <1>0, <4>1, <4>2, <4>3 DEF HandedOut
    <3>4. CASE Readers = {}
      BY <1>1, <3>4 DEF GotInv, HandedOut, GotInOrder
    <3>. QED BY <1>1, <3>1, <3>3, <3>4, GotNothing
  <2>2. CASE ControllerCall(c) \/ ClearSet(c) \/ ClearReturn(c) \/ (ClearTry(c) /\ Busy)
    <3>1. UNCHANGED ringVars
      BY <2>2 DEF ControllerCall, CallClear, Begin, SetStopSignal, ClearStopSignal, ClearSet, ClearReturn, ClearTry
    <3>2. \A u \in Tasks \ {c} : pc'[u] = pc[u] /\ op'[u] = op[u] /\ need'[u] = need[u] /\ got'[u] = got[u]
      BY <1>0, <2>0, <2>2
         DEF ControllerCall, CallClear, Begin, SetStopSignal, ClearStopSignal, ClearSet, ClearReturn,
             ClearTry, TypeOK, Go, Return, localVars
    <3>. QED BY <1>2, <2>0, <3>1, <3>2 DEF ringVars
  <2>. QED BY <1>3, <1>6, <2>0, <2>1, <2>2 DEF ControllerStep
<1>7. ASSUME NEW t \in Readers, ReaderCall(t) PROVE GotInv'
  <2>1. PICK call, where, n, w : Begin(t, call, where, n, w) /\ where \in {"try", "enter"}
    BY <1>7, Zenon DEF ReaderCall, CallRead, CallContigRead, CallPeek
  <2>2. t \in Tasks /\ got[t] = <<>>
    BY <1>0, <2>1 DEF Begin, HandedOut, Tasks
  <2>3. got'[t] = <<>> /\ pc'[t] # "peekLock"
    BY <1>0, <2>1, <2>2 DEF Begin, TypeOK
  <2>. QED BY <1>1, <2>3, GotNothing
<1>8. ASSUME NEW t \in Writers, WriterCall(t) PROVE GotInv'
  <2>1. PICK call, where, n, w : Begin(t, call, where, n, w)
    BY <1>8, Zenon DEF WriterCall, CallWrite, CallGetWriteBuf
  <2>2. t \in Tasks \ Readers
    BY DEF Tasks, Usage
  <2>3. UNCHANGED ringVars
    BY <2>1 DEF Begin
  <2>4. \A u \in Tasks \ {t} : pc'[u] = pc[u] /\ op'[u] = op[u] /\ need'[u] = need[u] /\ got'[u] = got[u]
    BY <1>0, <2>1 DEF Begin, TypeOK
  <2>. QED BY <1>2, <2>2, <2>3, <2>4 DEF ringVars
<1>9. CASE UNCHANGED vars
  BY <1>0, <1>1, <1>9 DEF vars, localVars, ringVars, GotInv, HandedOut, GotInOrder
<1>. QED BY <1>4, <1>5, <1>6, <1>7, <1>8, <1>9 DEF Next

\* What a call hands to its caller is the oldest data, without a gap, for every
\* size of the buffer and every order of steps - unless the tasks use both peek(),
\* which looks without the mutex, and clear().
THEOREM GotInOrderHolds == ASSUME Usage, NoClash PROVE Spec => []GotInOrder
<1>1. Init => GotInv
  <2>1. Init => \A t \in Tasks : got[t] = <<>> /\ op[t] = "none" /\ pc[t] = "idle"
    BY DEF Init
  <2>. QED BY <2>1 DEF GotInv, Named, HandedOut, GotInOrder, Tasks
<1>2. GotInv /\ IInv /\ DataInv /\ [Next]_vars => GotInv'
  BY GotStep
<1>3. GotInv => GotInOrder
  BY DEF GotInv
<1>. QED BY <1>1, <1>2, <1>3, DataInvariance, PTL DEF Spec
-----------------------------------------------------------------------------
\* The ring buffer implements the stream.

\* The l bytes before the one numbered n: the stream is the last bytes that were
\* written, so its length and the next number say all there is to say of it.
Last(l, n) == [i \in 1 .. l |-> (n - l + i - 1) % Tags]

Length == dataSize + Owes("write") - Owes("read")
Number == (nextTag + Owes("write")) % Tags

LEMMA SameSequence ==
  ASSUME NEW S, NEW s \in Seq(S), NEW t \in Seq(S), Len(s) = Len(t),
         \A i \in 1 .. Len(s) : s[i] = t[i]
  PROVE  s = t
  OBVIOUS

LEMMA LastIs ==
  ASSUME RingBufAssumption, NEW l \in Nat, NEW n \in Int
  PROVE  Last(l, n) \in Seq(Int) /\ Len(Last(l, n)) = l
<1>1. \A i \in 1 .. l : (n - l + i - 1) % Tags \in Int
  <2>. TAKE i \in 1 .. l
  <2>1. n - l + i - 1 \in Int /\ Tags \in Nat \ {0}
    BY DEF RingBufAssumption
  <2>. QED BY <2>1, Quotient
<1>. QED BY <1>1 DEF Last

\* Writing k bytes.
LEMMA LastWritten ==
  ASSUME RingBufAssumption, NEW l \in Nat, NEW n \in Int, NEW k \in Nat
  PROVE  Last(l + k, (n + k) % Tags) = Last(l, n) \o [i \in 1 .. k |-> (n + i - 1) % Tags]
<1> DEFINE new == [i \in 1 .. k |-> (n + i - 1) % Tags]
           m == (n + k) % Tags
<1>0. Tags \in Nat \ {0} /\ n + k \in Int /\ l + k \in Nat
  BY DEF RingBufAssumption
<1>1. m \in Int
  BY <1>0, Quotient
<1>2. new \in Seq(Int) /\ Len(new) = k
  <2>1. \A i \in 1 .. k : (n + i - 1) % Tags \in Int
    <3>. TAKE i \in 1 .. k
    <3>1. n + i - 1 \in Int
      OBVIOUS
    <3>. QED BY <1>0, <3>1, Quotient
  <2>. QED BY <2>1
<1>3. ASSUME NEW b \in Int PROVE (m + b) % Tags = (n + k + b) % Tags
  <2>1. \A a \in Int : ((a % Tags) + b) % Tags = (a + b) % Tags
    BY <1>0, ModAdd
  <2>. QED BY <1>0, <2>1
<1>. HIDE DEF m
<1>4. Last(l, n) \in Seq(Int) /\ Len(Last(l, n)) = l
  BY LastIs
<1>5. Last(l + k, m) \in Seq(Int) /\ Len(Last(l + k, m)) = l + k
  BY <1>0, <1>1, LastIs
<1>6. /\ Last(l, n) \o new \in Seq(Int) /\ Len(Last(l, n) \o new) = l + k
      /\ \A i \in 1 .. l + k : (Last(l, n) \o new)[i] = IF i <= l THEN Last(l, n)[i] ELSE new[i - l]
  <2> DEFINE s == Last(l, n)
  <2>1. s \in Seq(Int) /\ Len(s) = l
    BY <1>4
  <2>. HIDE DEF new, s
  <2>2. /\ Len(s \o new) = Len(s) + Len(new)
        /\ \A i \in 1 .. Len(s) + Len(new) : (s \o new)[i] = IF i <= Len(s) THEN s[i] ELSE new[i - Len(s)]
    BY <1>2, <2>1, ConcatIs
  <2>3. s \o new \in Seq(Int)
    BY <1>2, <2>1
  <2>4. /\ Len(s \o new) = l + k
        /\ \A i \in 1 .. l + k : (s \o new)[i] = IF i <= l THEN s[i] ELSE new[i - l]
    BY <1>2, <2>1, <2>2
  <2>. QED BY <2>3, <2>4 DEF s
<1>7. ASSUME NEW i \in 1 .. l + k
      PROVE  Last(l + k, m)[i] = (Last(l, n) \o new)[i]
  <2>1. Last(l + k, m)[i] = (m - (l + k) + i - 1) % Tags
    BY DEF Last
  <2> DEFINE b == i - 1 - (l + k)
  <2>2. b \in Int /\ m - (l + k) + i - 1 = m + b /\ n + k + b = n - l + i - 1
    BY <1>0, <1>1
  <2>. HIDE DEF b
  <2>3. Last(l + k, m)[i] = (n - l + i - 1) % Tags
    BY <1>3, <2>1, <2>2
  <2>4. CASE i <= l
    <3>1. i \in 1 .. l
      BY <2>4
    <3>2. Last(l, n)[i] = (n - l + i - 1) % Tags
      BY <3>1 DEF Last
    <3>. QED BY <1>6, <2>3, <2>4, <3>2
  <2>5. CASE ~(i <= l)
    <3>1. i - l \in 1 .. k /\ n + (i - l) - 1 = n - l + i - 1
      BY <2>5
    <3>2. new[i - l] = (n + (i - l) - 1) % Tags
      BY <3>1
    <3>. HIDE DEF new
    <3>. QED BY <1>6, <2>3, <2>5, <3>1, <3>2
  <2>. QED BY <2>4, <2>5
<1>. HIDE DEF new
<1>8. Last(l + k, m) = Last(l, n) \o new
  BY <1>5, <1>6, <1>7, SameSequence
<1>. QED BY <1>8 DEF m, new

\* Reading k bytes.
LEMMA LastRead ==
  ASSUME RingBufAssumption, NEW l \in Nat, NEW n \in Int, NEW k \in Nat, k <= l
  PROVE  Last(l - k, n) = SubSeq(Last(l, n), k + 1, Len(Last(l, n)))
<1>1. Last(l, n) \in Seq(Int) /\ Len(Last(l, n)) = l
  BY LastIs
<1>2. l - k \in Nat /\ Last(l - k, n) \in Seq(Int) /\ Len(Last(l - k, n)) = l - k
  BY LastIs
<1> DEFINE s == Last(l, n)
           rest == SubSeq(s, k + 1, l)
<1>. HIDE DEF s
<1>3. /\ rest \in Seq(Int) /\ Len(rest) = l - k
      /\ \A i \in 1 .. l - k : rest[i] = s[k + i]
  BY <1>1 DEF s
<1>. HIDE DEF rest
<1>4. ASSUME NEW i \in 1 .. l - k PROVE Last(l - k, n)[i] = rest[i]
  <2>1. k + i \in 1 .. l /\ n - (l - k) + i - 1 = n - l + (k + i) - 1
    OBVIOUS
  <2>2. s[k + i] = (n - l + (k + i) - 1) % Tags
    BY <2>1 DEF s, Last
  <2>3. Last(l - k, n)[i] = (n - (l - k) + i - 1) % Tags
    BY DEF Last
  <2>. QED BY <1>3, <2>1, <2>2, <2>3
<1>5. Last(l - k, n) = rest
  BY <1>2, <1>3, <1>4, SameSequence
<1>. QED BY <1>1, <1>5 DEF rest, s

\* What is owed, and by whom.
LEMMA OwesIs ==
  ASSUME Usage, IInv, RingBufAssumption
  PROVE  /\ Owes("read") \in Nat /\ Owes("read") <= dataSize
         /\ Owes("write") \in Nat /\ Owes("write") <= Space
<1>0. dataSize \in 0 .. N /\ N \in Nat /\ Space \in Nat
  BY DEF IInv, TypeOK, Space, RingBufAssumption
<1>1. CASE ~(mutex # Nobody /\ pc[mutex] \in {"setEmpty", "setOp", "rest"})
  BY <1>0, <1>1 DEF Owes
<1>2. CASE mutex # Nobody /\ pc[mutex] \in {"setEmpty", "setOp", "rest"}
  <2>1. mutex \in Tasks /\ need[mutex] \in Nat /\ mutex \in Readers \cup Writers
    BY <1>2 DEF IInv, TypeOK, Roles
  <2>2. op[mutex] = "read" => mutex \in Readers
    BY <2>1 DEF IInv, Roles
  <2>3. op[mutex] = "write" => mutex \in Writers
    BY <2>1 DEF IInv, Roles
  <2>4. op[mutex] = "read" => need[mutex] <= dataSize
    BY <1>2, <2>2 DEF IInv, Sizes
  <2>5. op[mutex] = "write" => need[mutex] <= Space
    BY <1>0, <1>2, <2>1, <2>3 DEF IInv, Sizes, Roles
  <2>. QED BY <1>0, <2>1, <2>4, <2>5 DEF Owes
<1>. QED BY <1>1, <1>2

\* The mapping, by its length and its next number.
LEMMA StreamIs ==
  ASSUME Usage, IInv, InOrder, RingBufAssumption
  PROVE  Length \in 0 .. N /\ Number \in Int /\ stream = Last(Length, Number)
<1> DEFINE owed == Owes("write")
           taken == Owes("read")
<1>0. /\ N \in Nat /\ Tags \in Nat \ {0} /\ nextTag \in Int /\ dataSize \in 0 .. N
      /\ owed \in Nat /\ taken \in Nat /\ taken <= dataSize /\ owed <= N - dataSize
  BY OwesIs DEF IInv, TypeOK, RingBufAssumption, Space
<1>. HIDE DEF owed, taken
<1>1. Length = dataSize + owed - taken /\ Number = (nextTag + owed) % Tags
  BY DEF Length, Number, owed, taken
<1>2. Length \in 0 .. N /\ Number \in Int
  <2>1. nextTag + owed \in Int
    BY <1>0
  <2>. QED BY <1>0, <1>1, <2>1, Quotient
<1> DEFINE Byte(i) == IF i - 1 + taken < dataSize THEN mem[(rd + (i - 1 + taken)) % N]
                      ELSE (nextTag + (i - 1 + taken) - dataSize) % Tags
<1>3. ASSUME NEW i \in 1 .. Length
      PROVE  Byte(i) = (Number - Length + i - 1) % Tags
  <2> DEFINE j == i - 1 + taken
             a == nextTag + owed
             b == i - 1 - Length
  <2>1. j \in Int /\ j >= 0 /\ a \in Int /\ b \in Int /\ a + b = nextTag - dataSize + j
    BY <1>0, <1>1, <1>2
  <2>2. Number = a % Tags /\ Number - Length + i - 1 = Number + b
    BY <1>1, <1>2
  <2>3. Byte(i) = IF j < dataSize THEN mem[(rd + j) % N] ELSE (nextTag + j - dataSize) % Tags
    OBVIOUS
  <2>. HIDE DEF a, b, j, Byte
  <2>4. ((a % Tags) + b) % Tags = (a + b) % Tags
    BY <1>0, <2>1, ModAdd
  <2>5. Byte(i) = (nextTag - dataSize + j) % Tags
    <3>1. CASE j < dataSize
      <4>1. j \in 0 .. dataSize - 1
        BY <1>0, <2>1, <3>1
      <4>. QED BY <2>3, <3>1, <4>1 DEF InOrder
    <3>2. CASE ~(j < dataSize)
      <4>1. nextTag + j - dataSize = nextTag - dataSize + j
        BY <1>0, <2>1
      <4>. QED BY <2>3, <3>2, <4>1
    <3>. QED BY <3>1, <3>2
  <2>. QED BY <2>1, <2>2, <2>4, <2>5
<1>4. stream = [i \in 1 .. Length |-> Byte(i)]
  BY DEF stream, Length, taken
<1>. HIDE DEF Byte
<1>5. stream = [i \in 1 .. Length |-> (Number - Length + i - 1) % Tags]
  BY <1>3, <1>4
<1>. QED BY <1>2, <1>5 DEF Last
\* What a step may do to the stream: nothing, write, read, or clear.
Moves ==
    \/ Length' = Length /\ Number' = Number
    \/ \E k \in 1 .. N : Length + k <= N /\ Length' = Length + k /\ Number' = (Number + k) % Tags
    \/ \E k \in 1 .. N : k <= Length /\ Length' = Length - k /\ Number' = Number
    \/ Length' = 0 /\ Number' = Number

\* Who is outside the critical sections and leaves the mutex alone.
LEMMA MovesOutside ==
  ASSUME Usage, IInv, NEW t \in Tasks, pc[t] \notin Critical,
         UNCHANGED <<mutex, dataSize, nextTag>>,
         \A u \in Tasks \ {t} : pc'[u] = pc[u] /\ op'[u] = op[u] /\ need'[u] = need[u]
  PROVE  Moves
<1>1. mutex # Nobody => mutex \in Tasks \ {t}
  BY DEF IInv, TypeOK, Owner
<1>2. Owes("read")' = Owes("read") /\ Owes("write")' = Owes("write")
  BY <1>1 DEF Owes
<1>. QED BY <1>2 DEF Moves, Length, Number

\* Who owes nothing before and after.
LEMMA MovesOwing ==
  ASSUME UNCHANGED <<dataSize, nextTag>>,
         Owes("read")' = Owes("read"), Owes("write")' = Owes("write")
  PROVE  Moves
  BY DEF Moves, Length, Number

\* doCommitContigRead.
LEMMA MovesConsume ==
  ASSUME Usage, IInv, NEW r \in Readers, ReadPart(r) \/ ReadRest(r) \/ CommitContigRead(r)
  PROVE  Moves
<1>. USE RingBufAssumption
<1>0. /\ r \in Tasks /\ r # Nobody /\ N \in Nat /\ dataSize \in 0 .. N /\ need[r] \in Nat /\ nextTag \in Int
      /\ TypeOK /\ Owner
  BY DEF Usage, Tasks, IInv, TypeOK, RingBufAssumption
<1>1. PICK k \in Nat : \E bytes :
        /\ k > 0 /\ k <= dataSize /\ rd + k <= N /\ k <= need[r] /\ Consume(r, k, bytes)
        /\ \/ /\ op[r] = "read" /\ pc[r] = "part" /\ bytes = Bytes(rd, k)
              /\ need[r] <= dataSize
           \/ /\ op[r] = "read" /\ pc[r] = "rest" /\ bytes = got[r] \o Bytes(rd, k)
           \/ op[r] = "contigRead" /\ pc[r] = "hold" /\ Free /\ bytes = <<>>
  BY Consumes
<1>2. /\ k > 0 /\ k <= dataSize /\ k <= need[r] /\ \E bytes : Consume(r, k, bytes)
      /\ \/ op[r] = "read" /\ pc[r] = "part" /\ need[r] <= dataSize
         \/ op[r] = "read" /\ pc[r] = "rest"
         \/ op[r] = "contigRead" /\ pc[r] = "hold" /\ Free
  BY <1>1
<1>3. /\ mutex' = r /\ op' = op /\ need'[r] = need[r] - k /\ pc'[r] \in {"setEmpty", "setOp"}
      /\ dataSize' = dataSize - k /\ nextTag' = nextTag
  BY <1>0, <1>2 DEF Consume, GoGot, TypeOK
<1>4. /\ Owes("read")' = IF op[r] = "read" THEN need[r] - k ELSE 0
      /\ op[r] # "write" => Owes("write")' = 0
  BY <1>0, <1>3 DEF Owes
<1>5. CASE op[r] = "read" /\ pc[r] = "part" /\ need[r] <= dataSize
  <2>1. mutex = r
    BY <1>0, <1>5 DEF Owner, Critical
  <2>2. Owes("read") = 0 /\ Owes("write") = 0
    BY <1>0, <1>5, <2>1 DEF Owes
  <2>3. need[r] \in 1 .. N /\ need[r] <= Length /\ Length' = Length - need[r] /\ Number' = Number
    BY <1>0, <1>2, <1>3, <1>4, <1>5, <2>2 DEF Length, Number
  <2>. QED BY <2>3 DEF Moves
<1>6. CASE op[r] = "read" /\ pc[r] = "rest"
  <2>1. mutex = r
    BY <1>0, <1>6 DEF Owner, Critical
  <2>2. Owes("read") = need[r] /\ Owes("write") = 0
    BY <1>0, <1>6, <2>1 DEF Owes
  <2>3. Length' = Length /\ Number' = Number
    BY <1>0, <1>2, <1>3, <1>4, <1>6, <2>2 DEF Length, Number
  <2>. QED BY <2>3 DEF Moves
<1>7. CASE op[r] = "contigRead" /\ pc[r] = "hold" /\ Free
  <2>1. Owes("read") = 0 /\ Owes("write") = 0
    BY <1>7 DEF Owes, Free
  <2>2. k \in 1 .. N /\ k <= Length /\ Length' = Length - k /\ Number' = Number
    BY <1>0, <1>2, <1>3, <1>4, <1>7, <2>1 DEF Length, Number
  <2>. QED BY <2>2 DEF Moves
<1>. QED BY <1>2, <1>5, <1>6, <1>7

\* commitContigWrite.
LEMMA MovesProduce ==
  ASSUME Usage, IInv, DataInv, NEW w \in Writers, WritePart(w) \/ CommitWrite(w)
  PROVE  Moves
<1>. USE RingBufAssumption
<1>0. /\ w \in Tasks /\ w # Nobody /\ N \in Nat /\ dataSize \in 0 .. N /\ need[w] \in Nat /\ nextTag \in Int
      /\ Tags \in Nat \ {0} /\ TypeOK /\ Owner
  BY DEF Usage, Tasks, IInv, TypeOK, RingBufAssumption
<1>1. PICK k \in Nat :
        /\ k > 0 /\ k <= Space /\ k <= need[w] /\ need[w] <= Space /\ Produce(w, k)
        /\ \/ op[w] = "write" /\ pc[w] \in {"part", "rest"}
           \/ op[w] = "getWriteBuf" /\ pc[w] = "filled" /\ Free /\ k = need[w]
  BY Produces
<1>2. /\ mutex' = w /\ op' = op /\ need'[w] = need[w] - k /\ pc'[w] = "setOp"
      /\ dataSize' = dataSize + k /\ nextTag' = (nextTag + k) % Tags
  BY <1>0, <1>1 DEF Produce, GoNeed, TypeOK
<1>3. /\ Owes("write")' = IF op[w] = "write" THEN need[w] - k ELSE 0
      /\ op[w] # "read" => Owes("read")' = 0
  BY <1>0, <1>2 DEF Owes
<1>4. \A a, b \in Int : ((a % Tags) + b) % Tags = (a + b) % Tags
  BY <1>0, ModAdd
<1>5. need[w] <= N - dataSize /\ need[w] \in 1 .. N
  BY <1>0, <1>1 DEF Space
<1>6. CASE op[w] = "write"
  <2>1. mutex = w
    BY <1>0, <1>1, <1>6 DEF Owner, Critical
  <2>2. Owes("read") = 0 /\ Owes("read")' = 0
    BY <1>3, <1>6, <2>1 DEF Owes
  <2>3. Number' = (nextTag + need[w]) % Tags
    <3> DEFINE a == nextTag + k
               b == need[w] - k
    <3>1. a \in Int /\ b \in Int /\ a + b = nextTag + need[w]
      BY <1>0
    <3>2. Number' = ((a % Tags) + b) % Tags
      BY <1>2, <1>3, <1>6 DEF Number
    <3>. HIDE DEF a, b
    <3>. QED BY <1>4, <3>1, <3>2
  <2>4. CASE pc[w] = "part"
    <3>1. Owes("write") = 0
      BY <1>0, <2>1, <2>4 DEF Owes
    <3>2. Length + need[w] <= N /\ Length' = Length + need[w]
      BY <1>0, <1>2, <1>3, <1>5, <1>6, <2>2, <3>1 DEF Length
    <3>3. Number = nextTag % Tags
      BY <1>0, <3>1 DEF Number
    <3> DEFINE b == need[w]
    <3>4. Number' = (nextTag + b) % Tags /\ b \in Int
      BY <1>0, <2>3
    <3>. HIDE DEF b
    <3>5. Number' = (Number + b) % Tags
      BY <1>0, <1>4, <3>3, <3>4
    <3>. QED BY <1>5, <3>2, <3>5 DEF Moves, b
  <2>5. CASE pc[w] = "rest"
    <3>1. Owes("write") = need[w]
      BY <1>0, <1>6, <2>1, <2>5 DEF Owes
    <3>2. Length' = Length
      BY <1>0, <1>2, <1>3, <1>6, <2>2, <3>1 DEF Length
    <3>. QED BY <2>3, <3>1, <3>2 DEF Moves, Number
  <2>. QED BY <1>1, <1>6, <2>4, <2>5
<1>7. CASE op[w] = "getWriteBuf" /\ Free /\ k = need[w]
  <2>1. Owes("read") = 0 /\ Owes("write") = 0 /\ Owes("read")' = 0 /\ Owes("write")' = 0
    BY <1>3, <1>7 DEF Owes, Free
  <2>2. Length + need[w] <= N /\ Length' = Length + need[w]
    BY <1>0, <1>2, <1>5, <1>7, <2>1 DEF Length
  <2>3. Number' = ((nextTag + need[w]) % Tags) % Tags /\ Number = nextTag % Tags
    <3> DEFINE c == nextTag + need[w]
    <3>1. nextTag' = c % Tags /\ c \in Int
      BY <1>0, <1>2, <1>7
    <3>. HIDE DEF c
    <3>2. nextTag' \in Int
      BY <1>0, <3>1, Quotient
    <3>3. Number' = nextTag' % Tags /\ Number = nextTag % Tags
      BY <1>0, <2>1, <3>2 DEF Number
    <3>. QED BY <3>1, <3>3 DEF c
  <2> DEFINE b == need[w]
             a == nextTag + b
  <2>4. Number' = (a % Tags) % Tags /\ a \in Int /\ b \in Int
    BY <1>0, <2>3
  <2>. HIDE DEF a
  <2>6. Number' = a % Tags
    BY <1>0, <2>4, ModTwice
  <2>. HIDE DEF b
  <2>7. Number' = (Number + b) % Tags
    BY <1>0, <1>4, <2>3, <2>4, <2>6 DEF a
  <2>. QED BY <1>5, <2>2, <2>7 DEF Moves, b
<1>. QED BY <1>1, <1>6, <1>7

\* Every step.
LEMMA StreamStep ==
  ASSUME Usage, IInv, DataInv, [Next]_vars
  PROVE  Moves
<1>. USE RingBufAssumption
<1>0. TypeOK /\ Owner /\ Nobody \notin Tasks
  BY DEF IInv, RingBufAssumption
<1>1. ASSUME NEW t \in Tasks, pc[t] \notin Critical, mutex' = mutex, UNCHANGED <<dataSize, nextTag>>,
             \A u \in Tasks \ {t} : pc'[u] = pc[u] /\ op'[u] = op[u] /\ need'[u] = need[u]
      PROVE  Moves
  BY <1>1, MovesOutside
<1>2. ASSUME NEW t \in Tasks, Waiting(t) PROVE Moves
  <2>1. UNCHANGED ringVars /\ mutex' = mutex /\ pc[t] \in {"wait", "woken"}
    BY <1>2 DEF Waiting, Wait, TimeOut, WokenByStop, WokenByEvent, WokenByTimeout, Woken
  <2>2. \A u \in Tasks \ {t} : pc'[u] = pc[u] /\ op'[u] = op[u] /\ need'[u] = need[u]
    BY <1>0, <1>2 DEF Waiting, Wait, TimeOut, WokenByStop, WokenByEvent, WokenByTimeout, Woken,
                      TypeOK, Go, GoOn, Return, localVars
  <2>. QED BY <1>1, <2>1, <2>2 DEF ringVars, Critical
<1>3. ASSUME NEW t \in Tasks, Free, mutex' = t, pc'[t] \notin {"setEmpty", "setOp", "rest"},
             UNCHANGED <<dataSize, nextTag>>
      PROVE  Moves
  BY <1>3, MovesOwing DEF Owes, Free
<1>4. ASSUME NEW t \in Tasks, mutex = t, mutex' = t, UNCHANGED <<dataSize, nextTag, op, need>>,
             pc[t] \in {"setEmpty", "setOp"}, pc'[t] \in {"setOp", "rest"}
      PROVE  Moves
  BY <1>0, <1>4, MovesOwing DEF Owes
<1>5. ASSUME NEW t \in Tasks, mutex = t, mutex' = Nobody, UNCHANGED <<dataSize, nextTag>>,
             op[t] \in {"read", "write"} => need[t] = 0
      PROVE  Moves
  BY <1>0, <1>5, MovesOwing DEF Owes
<1>6. ASSUME NEW r \in Readers, ReaderStep(r) PROVE Moves
  <2>0. r \in Tasks /\ r # Nobody
    BY <1>0 DEF Tasks
  <2>1. CASE ReadPart(r) \/ ReadRest(r) \/ CommitContigRead(r)
    BY <2>1, MovesConsume
  <2>2. CASE ContigReadTry(r) \/ PeekTry(r) \/ PeekLock(r) \/ PeekReturn(r)
    <3>1. pc[r] \notin Critical /\ mutex' = mutex /\ UNCHANGED <<dataSize, nextTag>>
      BY <2>2 DEF ContigReadTry, PeekTry, PeekLock, PeekReturn, At, Critical, ringVars
    <3>2. \A u \in Tasks \ {r} : pc'[u] = pc[u] /\ op'[u] = op[u] /\ need'[u] = need[u]
      BY <1>0, <2>0, <2>2 DEF ContigReadTry, PeekTry, PeekLock, PeekReturn, TypeOK, Go, GoGot, Return
    <3>. QED BY <1>1, <2>0, <3>1, <3>2
  <2>3. CASE ReadTry(r)
    <3>1. CASE Go(r, "part") /\ mutex' = r
      BY <1>0, <1>3, <2>0, <2>3, <3>1 DEF ReadTry, Go, TypeOK, ringVars
    <3>2. CASE Go(r, "wait") /\ mutex' = mutex
      <4>1. \A u \in Tasks \ {r} : pc'[u] = pc[u] /\ op'[u] = op[u] /\ need'[u] = need[u]
        BY <1>0, <2>0, <3>2 DEF TypeOK, Go
      <4>. QED BY <1>1, <2>0, <2>3, <3>2, <4>1 DEF ReadTry, At, Critical, ringVars
    <3>. QED BY <2>3, <3>1, <3>2 DEF ReadTry
  <2>4. CASE SetIsEmpty(r)
    <3>1. mutex = r /\ mutex' = mutex
      BY <1>0, <2>0, <2>4 DEF SetIsEmpty, Owner, Critical
    <3>. QED BY <1>0, <1>4, <2>0, <2>4, <3>1 DEF SetIsEmpty, Go, TypeOK, ringVars
  <2>5. CASE SetReadOp(r)
    <3>1. mutex = r /\ UNCHANGED <<dataSize, nextTag>>
      BY <1>0, <2>0, <2>5 DEF SetReadOp, Owner, Critical, ringVars
    <3>2. CASE Go(r, "rest") /\ mutex' = mutex
      BY <1>0, <1>4, <2>0, <2>5, <3>1, <3>2 DEF SetReadOp, Go, TypeOK
    <3>3. CASE mutex' = Nobody /\ (op[r] \in {"read", "write"} => need[r] = 0)
      BY <1>5, <2>0, <3>1, <3>3
    <3>. QED BY <2>5, <3>2, <3>3 DEF SetReadOp
  <2>. QED BY <1>2, <1>6, <2>0, <2>1, <2>2, <2>3, <2>4, <2>5 DEF ReaderStep
<1>7. ASSUME NEW w \in Writers, WriterStep(w) \/ AbortWrite(w) PROVE Moves
  <2>0. w \in Tasks /\ w # Nobody
    BY <1>0 DEF Tasks
  <2>1. CASE WritePart(w) \/ CommitWrite(w)
    BY <2>1, MovesProduce
  <2>2. CASE GetWriteBufTry(w) \/ FillWriteBuf(w) \/ AbortWrite(w)
    <3>1. pc[w] \notin Critical /\ mutex' = mutex /\ UNCHANGED <<dataSize, nextTag>>
      BY <2>2 DEF GetWriteBufTry, FillWriteBuf, AbortWrite, At, Critical, ringVars
    <3>2. \A u \in Tasks \ {w} : pc'[u] = pc[u] /\ op'[u] = op[u] /\ need'[u] = need[u]
      BY <1>0, <2>0, <2>2 DEF GetWriteBufTry, FillWriteBuf, AbortWrite, TypeOK, Go, GoNeed, Return
    <3>. QED BY <1>1, <2>0, <3>1, <3>2
  <2>3. CASE WriteTry(w)
    <3>1. CASE Go(w, "part") /\ mutex' = w
      BY <1>0, <1>3, <2>0, <2>3, <3>1 DEF WriteTry, Go, TypeOK, ringVars
    <3>2. CASE Go(w, "wait") /\ mutex' = mutex
      <4>1. \A u \in Tasks \ {w} : pc'[u] = pc[u] /\ op'[u] = op[u] /\ need'[u] = need[u]
        BY <1>0, <2>0, <3>2 DEF TypeOK, Go
      <4>. QED BY <1>1, <2>0, <2>3, <3>2, <4>1 DEF WriteTry, At, Critical, ringVars
    <3>. QED BY <2>3, <3>1, <3>2 DEF WriteTry
  <2>4. CASE SetWriteOp(w)
    <3>1. mutex = w /\ UNCHANGED <<dataSize, nextTag>>
      BY <1>0, <2>0, <2>4 DEF SetWriteOp, Owner, Critical, ringVars
    <3>2. CASE Go(w, "rest") /\ mutex' = mutex
      BY <1>0, <1>4, <2>0, <2>4, <3>1, <3>2 DEF SetWriteOp, Go, TypeOK
    <3>3. CASE mutex' = Nobody /\ (op[w] \in {"read", "write"} => need[w] = 0)
      BY <1>5, <2>0, <3>1, <3>3
    <3>. QED BY <2>4, <3>2, <3>3 DEF SetWriteOp
  <2>. QED BY <1>2, <1>7, <2>0, <2>1, <2>2, <2>3, <2>4 DEF WriterStep
<1>8. ASSUME NEW c \in Controllers, ControllerStep(c) PROVE Moves
  <2>0. c \in Tasks /\ c # Nobody /\ op[c] \notin {"read", "write"}
    BY <1>0 DEF Tasks, IInv, Roles
  <2>1. CASE ClearTry(c) /\ Busy
    <3>1. \A u \in Tasks \ {c} : pc'[u] = pc[u] /\ op'[u] = op[u] /\ need'[u] = need[u]
      BY <1>0, <2>0, <2>1 DEF ClearTry, TypeOK, Go
    <3>. QED BY <1>1, <2>0, <2>1, <3>1 DEF ClearTry, At, Critical, ringVars
  <2>2. CASE ClearTry(c) /\ ~Busy
    <3>1. mutex = Nobody /\ mutex' = c /\ pc'[c] = "clearSet" /\ dataSize' = 0 /\ nextTag' = nextTag
      BY <1>0, <2>0, <2>2 DEF ClearTry, DoClear, Go, Free, TypeOK
    <3>2. Owes("read")' = 0 /\ Owes("write")' = 0 /\ Owes("write") = 0
      BY <3>1 DEF Owes
    <3>. QED BY <3>1, <3>2 DEF Moves, Length, Number
  <2>3. CASE ClearSet(c)
    <3>1. mutex = c /\ mutex' = c /\ op' = op /\ UNCHANGED <<dataSize, nextTag>>
      BY <1>0, <2>0, <2>3 DEF ClearSet, Owner, Critical, ringVars, Go
    <3>. QED BY <2>0, <3>1, MovesOwing DEF Owes
  <2>4. CASE ClearReturn(c)
    <3>1. mutex = c /\ mutex' = Nobody /\ UNCHANGED <<dataSize, nextTag>>
      BY <1>0, <2>0, <2>4 DEF ClearReturn, Owner, Critical, ringVars
    <3>. QED BY <1>5, <2>0, <3>1
  <2>. QED BY <1>2, <1>8, <2>0, <2>1, <2>2, <2>3, <2>4 DEF ControllerStep
<1>9. ASSUME NEW t \in Tasks, ReaderCall(t) \/ WriterCall(t) \/ ControllerCall(t) PROVE Moves
  <2>1. CASE \E call, where, n, w : Begin(t, call, where, n, w)
    <3>1. PICK call, where, n, w : Begin(t, call, where, n, w)
      BY <2>1
    <3>2. \A u \in Tasks \ {t} : pc'[u] = pc[u] /\ op'[u] = op[u] /\ need'[u] = need[u]
      BY <1>0, <3>1 DEF Begin, TypeOK
    <3>. QED BY <1>1, <3>1, <3>2 DEF Begin, Critical, ringVars
  <2>2. CASE SetStopSignal(t) \/ ClearStopSignal(t)
    BY <1>1, <2>2 DEF SetStopSignal, ClearStopSignal, Critical, ringVars, localVars
  <2>. QED BY <1>9, <2>1, <2>2, Zenon
         DEF ReaderCall, WriterCall, ControllerCall, CallRead, CallContigRead, CallPeek, CallWrite,
             CallGetWriteBuf, CallClear
<1>10. CASE UNCHANGED vars
  BY <1>10, MovesOwing DEF vars, ringVars, localVars, Owes
<1>. QED BY <1>6, <1>7, <1>8, <1>9, <1>10 DEF Next, Tasks

\* What a step does to the length and the number, it does to the stream.
Mapped == Length \in 0 .. N /\ Number \in Int /\ stream = Last(Length, Number)

LEMMA MovesTheStream ==
  ASSUME RingBufAssumption, Moves, Mapped, Mapped'
  PROVE  [Stream!Next]_<<stream, Number>>
<1>. USE DEF Mapped
<1>0. Len(stream) = Length /\ Length \in Nat
  BY LastIs DEF RingBufAssumption
<1>1. CASE Length' = Length /\ Number' = Number
  BY <1>1
<1>2. ASSUME NEW k \in 1 .. N, Length + k <= N, Length' = Length + k, Number' = (Number + k) % Tags
      PROVE  Stream!Write(k)
  <2>0. k \in Nat
    BY DEF RingBufAssumption
  <2>1. ASSUME NEW l \in Nat, NEW n \in Int
        PROVE  Last(l + k, (n + k) % Tags) = Last(l, n) \o [i \in 1 .. k |-> (n + i - 1) % Tags]
    BY <2>0, LastWritten
  <2>2. stream' = stream \o [i \in 1 .. k |-> (Number + i - 1) % Tags]
    BY <1>0, <1>2, <2>1
  <2>. QED BY <1>0, <1>2, <2>2 DEF Stream!Write, Stream!Numbered, Number
<1>3. ASSUME NEW k \in 1 .. N, k <= Length, Length' = Length - k, Number' = Number
      PROVE  Stream!Read(k)
  <2>0. k \in Nat
    BY DEF RingBufAssumption
  <2>1. ASSUME NEW l \in Nat, NEW n \in Int, k <= l
        PROVE  Last(l - k, n) = SubSeq(Last(l, n), k + 1, Len(Last(l, n)))
    BY <2>0, <2>1, LastRead
  <2>2. stream' = SubSeq(stream, k + 1, Len(stream))
    BY <1>0, <1>3, <2>1
  <2>. QED BY <1>0, <1>3, <2>2 DEF Stream!Read, Number
<1>4. ASSUME Length' = 0, Number' = Number
      PROVE  Stream!Clear
  <2>1. stream' = <<>>
    BY <1>4 DEF Last
  <2>. QED BY <1>4, <2>1 DEF Stream!Clear, Number
<1>. QED BY <1>1, <1>2, <1>3, <1>4 DEF Moves, Stream!Next

\* Every ring buffer, of whatever size, behaves as a stream of bytes on which each
\* call happens at once: nothing is lost, doubled or put out of order.
THEOREM StreamImplemented == ASSUME Usage PROVE Spec => ImplementsByteStream
<1>. USE RingBufAssumption
<1>1. Init => Stream!Init
  BY DEF Init, Stream!Init, stream, Owes, RingBufAssumption
<1>2. IInv /\ DataInv => Mapped
  BY StreamIs DEF DataInv, Mapped
<1>3. IInv /\ DataInv /\ [Next]_vars => Moves
  BY StreamStep
<1>4. Moves /\ Mapped /\ Mapped' => [Stream!Next]_<<stream, Number>>
  BY MovesTheStream
<1>. QED
  BY <1>1, <1>2, <1>3, <1>4, DataInvariance, PTL DEF Spec, ImplementsByteStream, Stream!Spec, Number
=============================================================================
