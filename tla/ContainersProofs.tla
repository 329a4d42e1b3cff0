--------------------------- MODULE ContainersProofs ---------------------------
(***************************************************************************)
(* What holds of RingQueue for every ring size and every set of items: the *)
(* type, that items live exactly where iterate() visits, and that the ring *)
(* implements BoundedQueue. Of LogBuffer, for any limits and any sizes of  *)
(* lines, across growth, wrapping and clear(): the newest lines are there, *)
(* in order and within the limit; and, under the conditions that the       *)
(* theorem names, without holes and counted right. Of the buffers, for     *)
(* texts of any length, chunks of any size and calls in any order: what    *)
(* was put in is there, whole, in order and with at most one end. And of   *)
(* the conversions to text, what NumberTextProofs shows.                   *)
(***************************************************************************)
EXTENDS MCContainers, NumberTextProofs

-----------------------------------------------------------------------------
(* RingQueue. *)

IInv == TypeOK /\ LivesWhereVisited

\* A position past a cell is a cell: the wrap-around of emplaceBack and popFront.
LEMMA PastIsCell == \A i \in Cells : Past(i) \in Cells
  BY RingQueueAssumption DEF Past, Cells

\* The invariant holds of an empty ring.
LEMMA InitIInv == Init => IInv
  BY RingQueueAssumption
  DEF Init, IInv, TypeOK, LivesWhereVisited, Visited, Empty, Cells

\* Each call keeps the invariant.
LEMMA NextIInv == IInv /\ [Next]_vars => IInv'
<1> SUFFICES ASSUME IInv, [Next]_vars PROVE IInv'
  OBVIOUS
<1> USE RingQueueAssumption, PastIsCell
<1>1. ASSUME NEW v \in Values, EmplaceBack(v) PROVE IInv'
  <2>1. TypeOK'
    BY <1>1 DEF IInv, TypeOK, EmplaceBack, Empty, Full, Cells
  <2>2. LivesWhereVisited'
    BY <1>1 DEF IInv, TypeOK, LivesWhereVisited, EmplaceBack, Empty, Full, Visited, Past, Cells
  <2> QED BY <2>1, <2>2 DEF IInv
<1>2. CASE PopFront
  <2>1. TypeOK'
    BY <1>2, SMTT(30) DEF IInv, TypeOK, PopFront, AfterPop, Empty, Cells
  <2>2. LivesWhereVisited'
    BY <1>2 DEF IInv, TypeOK, LivesWhereVisited, PopFront, AfterPop, Empty, Visited, Past, Cells
  <2> QED BY <2>1, <2>2 DEF IInv
<1>3. CASE Clear
  BY <1>3 DEF IInv, TypeOK, LivesWhereVisited, Clear, Visited, Empty, Cells
<1>4. CASE UNCHANGED vars
  BY <1>4 DEF IInv, TypeOK, LivesWhereVisited, Visited, Empty, vars
<1> QED BY <1>1, <1>2, <1>3, <1>4 DEF Next

\* The ring keeps the types and never looks at a dead cell.
THEOREM Invariance == Spec => []IInv
<1>1. Init => IInv
  BY InitIInv
<1>2. IInv /\ [Next]_vars => IInv'
  BY NextIInv
<1> QED BY <1>1, <1>2, PTL DEF Spec

\* Every variable always has its type: mStart and mEnd stay inside the ring.
THEOREM TypeCorrect == Spec => []TypeOK
  BY Invariance, PTL DEF IInv

\* Items live in exactly the cells that iterate() visits, in a ring of any size.
THEOREM LivesHolds == Spec => []LivesWhereVisited
  BY Invariance, PTL DEF IInv
-----------------------------------------------------------------------------
\* There are never more items than cells, and each of them lives in its cell.
ItemsShape ==
    /\ Size \in 0 .. N
    /\ \A k \in 1 .. Size : At(k) \in Cells /\ At(k) \in Visited
    /\ \A k \in 1 .. Size : Items[k] = cells[At(k)]
    /\ Items \in Seq(Values) /\ Len(Items) = Size

LEMMA ItemsType == IInv => ItemsShape
<1> SUFFICES ASSUME IInv PROVE ItemsShape
  OBVIOUS
<1> USE RingQueueAssumption
<1>1. Size \in 0 .. N
  BY DEF IInv, TypeOK, LivesWhereVisited, Size, Empty, Cells
<1>2. \A k \in 1 .. Size : At(k) \in Cells /\ At(k) \in Visited
  BY DEF IInv, TypeOK, Size, At, Visited, Empty, Cells
<1>3. \A k \in 1 .. Size : cells[At(k)] \in Values
  BY <1>2 DEF IInv, TypeOK, LivesWhereVisited
<1> QED BY <1>1, <1>2, <1>3 DEF Items, ItemsShape

\* The empty ring is the empty queue.
LEMMA InitRefines == Init => Queue!Init
  BY DEF Init, Queue!Init, Items, Size, Empty

\* emplaceBack() appends, and finds room exactly while there is some.
LEMMA EmplaceBackRefines == \A v \in Values : IInv /\ IInv' /\ EmplaceBack(v) => Queue!Put(v)
<1> SUFFICES ASSUME IInv, IInv', NEW v \in Values, EmplaceBack(v) PROVE Queue!Put(v)
  OBVIOUS
<1> USE RingQueueAssumption
<1>a. ItemsShape
  BY ItemsType
<1>b. ItemsShape'
  BY ItemsType, PTL
<1>1. Size < N /\ Size' = Size + 1
  BY DEF IInv, TypeOK, LivesWhereVisited, EmplaceBack, Size, Empty, Full, Past, Cells
<1>2. \A k \in 1 .. Size : At(k)' = At(k) /\ At(k) # end
  BY DEF IInv, TypeOK, LivesWhereVisited, EmplaceBack, At, Size, Empty, Full, Past, Cells
<1>3. ASSUME NEW k \in Nat, k = Size + 1 PROVE At(k)' = end
  BY <1>3 DEF IInv, TypeOK, LivesWhereVisited, EmplaceBack, At, Size, Empty, Full, Past, Cells
<1>4. /\ \A i \in Cells : cells'[i] = IF i = end THEN v ELSE cells[i]
      /\ end \in Cells
  BY DEF IInv, TypeOK, EmplaceBack
<1>5. \A k \in 1 .. Size + 1 : Items'[k] = cells'[At(k)']
  BY <1>1, <1>b DEF ItemsShape
<1>6. \A k \in 1 .. Size : Items'[k] = Items[k]
  BY <1>a, <1>2, <1>4, <1>5 DEF ItemsShape
<1>7. ASSUME NEW k \in Nat, k = Size + 1 PROVE Items'[k] = v
  BY <1>7, <1>a, <1>3, <1>4, <1>5 DEF ItemsShape
<1>8. Items' = Append(Items, v)
  BY <1>1, <1>6, <1>7, <1>a, <1>b DEF ItemsShape
<1> QED BY <1>1, <1>8, <1>a DEF Queue!Put, ItemsShape

\* popFront() takes the oldest item.
LEMMA PopFrontRefines == IInv /\ IInv' /\ PopFront => Queue!Take
<1> SUFFICES ASSUME IInv, IInv', PopFront PROVE Queue!Take
  OBVIOUS
<1> USE RingQueueAssumption
<1>a. ItemsShape
  BY ItemsType
<1>b. ItemsShape'
  BY ItemsType, PTL
<1>0. /\ start \in 0 .. N - 1 /\ end \in 0 .. N - 1
      /\ ~(start < 0)
      /\ AfterPop(Past(start))
  BY DEF IInv, TypeOK, PopFront, Empty, Cells
<1>1. Size > 0 /\ Size' = Size - 1
  <2>1. CASE Past(start) = end
    BY <1>0, <2>1 DEF AfterPop, Size, Empty, Past
  <2>2. CASE Past(start) # end
    BY <1>0, <2>2 DEF AfterPop, Size, Empty, Past
  <2> QED BY <2>1, <2>2
<1>2. \A k \in 1 .. Size - 1 : At(k)' = At(k + 1) /\ At(k + 1) # start
  <2>1. CASE Past(start) = end
    BY <1>0, <2>1 DEF Size, Empty, Past
  <2>2. CASE Past(start) # end
    BY <1>0, <2>2 DEF AfterPop, At, Size, Empty, Past
  <2> QED BY <2>1, <2>2
<1>3. \A i \in Cells : i # start => cells'[i] = cells[i]
  BY DEF IInv, TypeOK, PopFront
<1>4. \A k \in 1 .. Size - 1 : Items'[k] = Items[k + 1]
  BY <1>a, <1>b, <1>1, <1>2, <1>3 DEF ItemsShape
<1>5. Items' = Tail(Items)
  BY <1>1, <1>4, <1>a, <1>b DEF ItemsShape
<1> QED BY <1>1, <1>5, <1>a DEF Queue!Take, ItemsShape

\* clear() drops everything.
LEMMA ClearRefines == Clear => Queue!Drop
  BY DEF Clear, Queue!Drop, Items, Size, Empty

\* The ring, of whatever size, is a first-in-first-out queue of at most N items.
THEOREM Refinement == Spec => ImplementsQueue
<1>1. IInv /\ IInv' /\ [Next]_vars => [Queue!Next]_Items
  <2> SUFFICES ASSUME IInv, IInv', [Next]_vars PROVE [Queue!Next]_Items
    OBVIOUS
  <2>1. CASE PopFront
    BY <2>1, PopFrontRefines DEF Queue!Next
  <2>2. CASE Clear
    BY <2>2, ClearRefines DEF Queue!Next
  <2>3. ASSUME NEW v \in Values, EmplaceBack(v) PROVE Queue!Next
    BY <2>3, EmplaceBackRefines DEF Queue!Next
  <2>4. CASE UNCHANGED vars
    BY <2>4 DEF vars, Items, Size, At, Empty
  <2> QED BY <2>1, <2>2, <2>3, <2>4 DEF Next
<1> QED BY <1>1, InitRefines, Invariance, PTL DEF Spec, ImplementsQueue, Queue!Spec
-----------------------------------------------------------------------------
(* LogBuffer: sums of sizes. *)

Places == Log!Line \cup {Nothing}

\* T[k] is the size of the first k lines of s.
Sums(T, s) == T = [k \in 0 .. Len(s) |-> IF k = 0 THEN 0 ELSE T[k - 1] + Log!SizeOf(s[k])]

LEMMA SizeIsNat == \A line \in Places : Log!SizeOf(line) \in Nat
  BY LogAssumption DEF Places, Log!SizeOf, Log!Line, Log!LogBufferAssumption

LEMMA SumsAre ==
  ASSUME NEW s \in Seq(Places), NEW T, Sums(T, s)
  PROVE  T[0] = 0 /\ \A k \in 1 .. Len(s) : T[k] = T[k - 1] + Log!SizeOf(s[k])
  BY DEF Sums

\* The definition of Total is one that a function satisfies.
LEMMA SumsExist == ASSUME NEW s \in Seq(Places) PROVE \E T : Sums(T, s)
<1> DEFINE Upto(T, n) == T = [k \in 0 .. n |-> IF k = 0 THEN 0 ELSE T[k - 1] + Log!SizeOf(s[k])]
           S == {n \in 0 .. Len(s) : \E T : Upto(T, n)}
<1>1. 0 \in S
  <2> DEFINE T == [k \in 0 .. 0 |-> 0]
  <2>1. T = [k \in 0 .. 0 |-> IF k = 0 THEN 0 ELSE T[k - 1] + Log!SizeOf(s[k])]
    OBVIOUS
  <2>2. Upto(T, 0)
    BY <2>1
  <2>3. 0 \in 0 .. Len(s)
    OBVIOUS
  <2> HIDE DEF T
  <2> QED BY <2>2, <2>3
<1>2. ASSUME NEW n \in 0 .. Len(s) - 1, n \in S PROVE n + 1 \in S
  <2>1. PICK T : Upto(T, n)
    BY <1>2
  <2> DEFINE U == [k \in 0 .. n + 1 |-> IF k = n + 1 THEN T[n] + Log!SizeOf(s[n + 1]) ELSE T[k]]
  <2>2. T = [k \in 0 .. n |-> IF k = 0 THEN 0 ELSE T[k - 1] + Log!SizeOf(s[k])]
    BY <2>1
  <2>3. ASSUME NEW k \in 0 .. n + 1
        PROVE  U[k] = IF k = 0 THEN 0 ELSE U[k - 1] + Log!SizeOf(s[k])
    <3>1. CASE k = n + 1
      BY <3>1
    <3>2. CASE k # n + 1
      <4>1. k \in 0 .. n /\ U[k] = T[k]
        BY <3>2
      <4>2. k # 0 => U[k - 1] = T[k - 1]
        BY <4>1
      <4>3. T[k] = IF k = 0 THEN 0 ELSE T[k - 1] + Log!SizeOf(s[k])
        BY <2>2, <4>1
      <4> QED BY <4>1, <4>2, <4>3
    <3> QED BY <3>1, <3>2
  <2>4. U = [k \in 0 .. n + 1 |-> IF k = 0 THEN 0 ELSE U[k - 1] + Log!SizeOf(s[k])]
    BY <2>3, Zenon
  <2>5. Upto(U, n + 1)
    BY <2>4
  <2>6. n + 1 \in 0 .. Len(s)
    OBVIOUS
  <2> QED BY <2>5, <2>6
<1>3. \A n \in 0 .. Len(s) : n \in S
  <2>1. Len(s) \in Nat
    OBVIOUS
  <2> HIDE DEF S
  <2> QED BY <1>1, <1>2, <2>1, UpTo
<1>4. Len(s) \in S
  BY <1>3
<1> QED BY <1>4 DEF Sums

LEMMA TotalIs == lines \in Seq(Places) => Sums(Log!Total, lines)
  BY SumsExist DEF Log!Total, Sums, Log!Count

LEMMA TotalIsNext == lines' \in Seq(Places) => Sums(Log!Total', lines')
  BY SumsExist DEF Log!Total, Sums, Log!Count, Log!SizeOf

LEMMA SumsAreNat ==
  ASSUME NEW s \in Seq(Places), NEW T, Sums(T, s)
  PROVE  \A k \in 0 .. Len(s) : T[k] \in Nat
<1> DEFINE S == {k \in 0 .. Len(s) : T[k] \in Nat}
<1>1. 0 \in S
  BY SumsAre
<1>2. ASSUME NEW k \in 0 .. Len(s) - 1, k \in S PROVE k + 1 \in S
  <2>1. k + 1 \in 1 .. Len(s) /\ (k + 1) - 1 = k /\ T[k] \in Nat
    BY <1>2
  <2>2. s[k + 1] \in Places
    BY <2>1
  <2>3. T[k + 1] = T[k] + Log!SizeOf(s[k + 1])
    BY <2>1, SumsAre
  <2> QED BY <2>1, <2>2, <2>3, SizeIsNat
<1> HIDE DEF S
<1>3. \A k \in 0 .. Len(s) : k \in S
  <2>1. Len(s) \in Nat
    OBVIOUS
  <2> QED BY <1>1, <1>2, <2>1, UpTo
<1> QED BY <1>3 DEF S

\* Sums of sequences that agree up to n.
LEMMA SumsAgree ==
  ASSUME NEW s \in Seq(Places), NEW T, Sums(T, s), NEW u \in Seq(Places), NEW U, Sums(U, u),
         NEW n \in Nat, n <= Len(s), n <= Len(u), \A k \in 1 .. n : u[k] = s[k]
  PROVE  U[n] = T[n]
<1> DEFINE S == {k \in 0 .. n : U[k] = T[k]}
<1>1. 0 \in S
  <2>1. U[0] = 0 /\ T[0] = 0
    BY SumsAre
  <2> QED BY <2>1
<1>2. ASSUME NEW k \in 0 .. n - 1, k \in S PROVE k + 1 \in S
  <2>1. /\ k + 1 \in 1 .. Len(s) /\ k + 1 \in 1 .. Len(u) /\ (k + 1) - 1 = k /\ U[k] = T[k]
        /\ u[k + 1] = s[k + 1] /\ k + 1 \in 0 .. n
    BY <1>2
  <2>2. T[k + 1] = T[k] + Log!SizeOf(s[k + 1])
    BY <2>1, SumsAre
  <2>3. U[k + 1] = U[k] + Log!SizeOf(u[k + 1])
    BY <2>1, SumsAre
  <2> QED BY <2>1, <2>2, <2>3
<1> HIDE DEF S
<1>3. \A k \in 0 .. n : k \in S
  BY <1>1, <1>2, UpTo
<1> QED BY <1>3 DEF S

\* One place changes.
LEMMA SumsChange ==
  ASSUME NEW s \in Seq(Places), NEW T, Sums(T, s), NEW i \in 1 .. Len(s), NEW line \in Places,
         NEW u \in Seq(Places), NEW U, Sums(U, u), Len(u) = Len(s), u[i] = line,
         \A k \in 1 .. Len(s) : k # i => u[k] = s[k]
  PROVE  U[Len(s)] = T[Len(s)] - Log!SizeOf(s[i]) + Log!SizeOf(line)
<1> DEFINE S == {k \in 0 .. Len(s) : k >= i => U[k] = T[k] - Log!SizeOf(s[i]) + Log!SizeOf(line)}
<1>0. Len(s) \in Nat /\ s[i] \in Places
  OBVIOUS
<1>1. Sums(U, u)
  OBVIOUS
<1>2. \A k \in 0 .. Len(s) : T[k] \in Nat /\ U[k] \in Nat
  BY <1>0, <1>1, SumsAreNat
<1>3. Log!SizeOf(s[i]) \in Nat /\ Log!SizeOf(line) \in Nat
  BY <1>0, SizeIsNat
<1>4. 0 \in S
  BY <1>0
<1>5. ASSUME NEW k \in 0 .. Len(s) - 1, k \in S PROVE k + 1 \in S
  <2>1. k + 1 \in 1 .. Len(s) /\ (k + 1) - 1 = k /\ k \in 0 .. Len(s) /\ k + 1 \in 0 .. Len(s)
    BY <1>0
  <2>2. T[k + 1] = T[k] + Log!SizeOf(s[k + 1])
    BY <2>1, SumsAre
  <2>3. U[k + 1] = U[k] + Log!SizeOf(u[k + 1])
    BY <1>0, <1>1, <2>1, SumsAre
  <2>4. T[k] \in Nat /\ U[k] \in Nat
    BY <1>2, <2>1
  <2>5. CASE k + 1 < i
    BY <2>1, <2>5
  <2>6. CASE k + 1 = i
    <3>1. \A m \in 1 .. k : u[m] = s[m]
      BY <1>0, <2>6
    <3>2. U[k] = T[k]
      BY <1>0, <1>1, <2>1, <3>1, SumsAgree
    <3>3. u[k + 1] = line /\ s[k + 1] = s[i]
      BY <1>0, <2>6
    <3> QED BY <1>3, <2>1, <2>2, <2>3, <2>4, <3>2, <3>3
  <2>7. CASE k + 1 > i
    <3>1. k >= i /\ u[k + 1] = s[k + 1] /\ s[k + 1] \in Places
      BY <1>0, <2>1, <2>7
    <3>2. U[k] = T[k] - Log!SizeOf(s[i]) + Log!SizeOf(line)
      BY <1>5, <3>1
    <3>3. Log!SizeOf(s[k + 1]) \in Nat
      BY <3>1, SizeIsNat
    <3> QED BY <1>3, <2>1, <2>2, <2>3, <2>4, <3>1, <3>2, <3>3
  <2> QED BY <2>1, <2>5, <2>6, <2>7
<1> HIDE DEF S
<1>6. \A k \in 0 .. Len(s) : k \in S
  BY <1>0, <1>4, <1>5, UpTo
<1>7. Len(s) \in S /\ Len(s) >= i
  BY <1>0, <1>6
<1> QED BY <1>7 DEF S

\* One place more.
LEMMA SumsAppend ==
  ASSUME NEW s \in Seq(Places), NEW T, Sums(T, s), NEW line \in Places, NEW U, Sums(U, Append(s, line))
  PROVE  U[Len(Append(s, line))] = T[Len(s)] + Log!SizeOf(line)
<1> DEFINE u == Append(s, line)
<1>0. /\ u \in Seq(Places) /\ Len(u) = Len(s) + 1 /\ Len(s) \in Nat /\ u[Len(s) + 1] = line
      /\ \A k \in 1 .. Len(s) : u[k] = s[k]
  OBVIOUS
<1>1. Sums(U, u)
  OBVIOUS
<1> HIDE DEF u
<1>2. U[Len(s)] = T[Len(s)]
  BY <1>0, <1>1, SumsAgree
<1>3. U[Len(s) + 1] = U[(Len(s) + 1) - 1] + Log!SizeOf(u[Len(s) + 1])
  BY <1>0, <1>1, SumsAre
<1> QED BY <1>0, <1>2, <1>3 DEF u

\* Nobody there but one.
LEMMA SumsOfOne ==
  ASSUME NEW s \in Seq(Places), NEW T, Sums(T, s), NEW i \in 1 .. Len(s),
         \A k \in 1 .. Len(s) : k # i => s[k] = Nothing
  PROVE  T[Len(s)] = Log!SizeOf(s[i])
<1> DEFINE S == {k \in 0 .. Len(s) : T[k] = IF k < i THEN 0 ELSE Log!SizeOf(s[i])}
<1>0. Len(s) \in Nat /\ Log!SizeOf(Nothing) = 0 /\ Log!SizeOf(s[i]) \in Nat
  BY SizeIsNat DEF Log!SizeOf
<1>1. 0 \in S
  BY <1>0, SumsAre
<1>2. ASSUME NEW k \in 0 .. Len(s) - 1, k \in S PROVE k + 1 \in S
  <2>1. k + 1 \in 1 .. Len(s) /\ (k + 1) - 1 = k /\ T[k] = IF k < i THEN 0 ELSE Log!SizeOf(s[i])
    BY <1>0, <1>2
  <2>2. T[k + 1] = T[k] + Log!SizeOf(s[k + 1])
    BY <2>1, SumsAre
  <2>3. k + 1 # i => Log!SizeOf(s[k + 1]) = 0
    BY <1>0, <2>1
  <2> QED BY <1>0, <2>1, <2>2, <2>3
<1> HIDE DEF S
<1>3. \A k \in 0 .. Len(s) : k \in S
  BY <1>0, <1>1, <1>2, UpTo
<1>4. Len(s) \in S /\ ~(Len(s) < i)
  BY <1>0, <1>3
<1> QED BY <1>4 DEF S
-----------------------------------------------------------------------------
(* LogBuffer: with and without clear(), for all limits and sizes. *)

LogCells == 0 .. Len(lines) - 1
LogSum == Log!Total[Log!Count]

LogType ==
    /\ lines \in Seq(Places) /\ Len(lines) <= MaxLineCount
    /\ logStart \in LogCells \cup {-1}
    /\ logEnd \in LogCells \cup {0}
    /\ logStart < 0 => logEnd = 0
    /\ dataSize \in Nat
    /\ adding \in Places /\ (adding # Nothing => adding.id = nextId)
    /\ nextId \in 0 .. Ids - 1

\* A cell that is not visited is free. (A log of one line loses its line from sight
\* when the next one comes.)
OutsideFree == Len(lines) > 1 => \A i \in LogCells \ Log!Visited : Log!Cell(i) = Nothing

\* The lines that come after cell i when iterate() visits it.
Later(i) ==
    {j \in IF i < logEnd THEN i + 1 .. logEnd - 1
                         ELSE (i + 1 .. Len(lines) - 1) \cup (0 .. logEnd - 1) :
        Log!Cell(j) # Nothing}

\* The line after that in cell i, if there is one, is the first of those, and was
\* added next; if there is none, the next one will come.
Followed(i) ==
    LET after == (Log!Cell(i).id + 1) % Ids
    IN  \/ Later(i) = {} /\ nextId = after
        \/ \E j \in Later(i) :
              /\ \A k \in Later(i) : k = j \/ k \in Later(j)
              /\ Log!Cell(j).id = after

Linked == \A i \in Log!Visited : Log!Cell(i) # Nothing => Followed(i)

LogInv == LogType /\ Log!LimitKept /\ OutsideFree /\ Linked

LEMMA TotalChanges ==
  ASSUME lines \in Seq(Places), NEW i \in 1 .. Len(lines), NEW line \in Places,
         lines' = [lines EXCEPT ![i] = line]
  PROVE  /\ LogSum \in Nat /\ LogSum' \in Nat
         /\ LogSum' = LogSum - Log!SizeOf(lines[i]) + Log!SizeOf(line)
<1>1. Sums(Log!Total, lines) /\ Sums(Log!Total', lines')
  BY TotalIs, TotalIsNext
<1>2. lines' \in Seq(Places) /\ Len(lines') = Len(lines) /\ Len(lines) \in 0 .. Len(lines)
  OBVIOUS
<1>3. LogSum = Log!Total[Len(lines)] /\ LogSum' = Log!Total'[Len(lines)]
  BY <1>2 DEF LogSum, Log!Count
<1>4. LogSum \in Nat /\ LogSum' \in Nat
  BY <1>1, <1>2, <1>3, SumsAreNat
<1>5. Log!Total'[Len(lines)] = Log!Total[Len(lines)] - Log!SizeOf(lines[i]) + Log!SizeOf(line)
  <2>1. lines'[i] = line /\ \A k \in 1 .. Len(lines) : k # i => lines'[k] = lines[k]
    OBVIOUS
  <2>2. PICK T : T = Log!Total
    OBVIOUS
  <2>3. PICK U : U = Log!Total'
    OBVIOUS
  <2>4. PICK u : u = lines'
    OBVIOUS
  <2>5. Sums(T, lines) /\ Sums(U, u)
    BY <1>1, <2>2, <2>3, <2>4
  <2>6. u \in Seq(Places) /\ Len(u) = Len(lines) /\ u[i] = line
        /\ \A k \in 1 .. Len(lines) : k # i => u[k] = lines[k]
    BY <1>2, <2>1, <2>4
  <2>7. U[Len(lines)] = T[Len(lines)] - Log!SizeOf(lines[i]) + Log!SizeOf(line)
    BY <2>5, <2>6, SumsChange
  <2> QED BY <2>2, <2>3, <2>7
<1>6. lines[i] \in Places
  BY <1>2
<1>7. Log!SizeOf(lines[i]) \in Nat /\ Log!SizeOf(line) \in Nat
  BY <1>6, SizeIsNat
<1> QED BY <1>3, <1>4, <1>5, <1>7

LEMMA TotalAppends ==
  ASSUME lines \in Seq(Places), NEW line \in Places, lines' = Append(lines, line)
  PROVE  LogSum \in Nat /\ LogSum' \in Nat /\ LogSum' = LogSum + Log!SizeOf(line)
<1>1. Sums(Log!Total, lines) /\ Sums(Log!Total', lines')
  BY TotalIs, TotalIsNext
<1>2. lines' \in Seq(Places) /\ Len(lines) \in 0 .. Len(lines) /\ Len(lines') \in 0 .. Len(lines')
  OBVIOUS
<1>3. LogSum = Log!Total[Len(lines)] /\ LogSum' = Log!Total'[Len(Append(lines, line))]
  BY DEF LogSum, Log!Count
<1>4. LogSum \in Nat /\ LogSum' \in Nat
  BY <1>1, <1>2, <1>3, SumsAreNat DEF LogSum, Log!Count
<1> QED BY <1>1, <1>3, <1>4, SumsAppend

\* What there is at the beginning of a turn of the loop, or of what follows it.
LEMMA Present ==
  ASSUME LogInv, adding # Nothing
  PROVE  /\ adding.size \in Nat /\ Log!SizeOf(adding) = adding.size /\ adding \in Places
         /\ dataSize \in Nat /\ MaxDataSize \in Nat /\ MaxLineCount \in Nat \ {0} /\ Ids \in Nat \ {0}
         /\ LogSum \in Nat /\ LogSum <= dataSize /\ dataSize <= MaxDataSize
<1>1. Sums(Log!Total, lines) /\ Len(lines) \in 0 .. Len(lines)
  BY TotalIs DEF LogInv, LogType
<1>2. LogSum \in Nat
  BY <1>1, SumsAreNat DEF LogSum, Log!Count, LogInv, LogType
<1>3. adding \in Log!Line
  BY DEF LogInv, LogType, Places
<1> QED BY <1>2, <1>3, LogAssumption
  DEF LogInv, LogType, Log!LimitKept, LogSum, Log!SizeOf, Log!Line, Log!LogBufferAssumption, Places

LEMMA MakeRoomKeeps == ASSUME LogInv, Log!MakeRoom PROVE LogInv'
<1> DEFINE n == Len(lines)
<1>0. /\ lines \in Seq(Places) /\ n \in Nat /\ logStart \in 0 .. n - 1 /\ logEnd \in 0 .. n - 1
      /\ n <= MaxLineCount /\ dataSize \in Nat /\ adding # Nothing /\ Nothing \in Places
      /\ lines[logStart + 1] \in Places
  BY DEF LogInv, LogType, LogCells, Places, Log!MakeRoom
<1>1. /\ lines' = [lines EXCEPT ![logStart + 1] = Nothing]
      /\ dataSize' = dataSize - Log!SizeOf(lines[logStart + 1])
      /\ adding' = adding /\ nextId' = nextId
      /\ Log!AfterFirst
  BY DEF Log!MakeRoom, Log!Freed, Log!Cell
<1>2. /\ lines' \in Seq(Places) /\ Len(lines') = n /\ lines'[logStart + 1] = Nothing
      /\ \A i \in 0 .. n - 1 : i # logStart => lines'[i + 1] = lines[i + 1]
  BY <1>0, <1>1
<1>3. \/ Log!Past(logStart) = logEnd /\ logStart' = -1 /\ logEnd' = 0
      \/ Log!Past(logStart) # logEnd /\ logStart' = Log!Past(logStart) /\ logEnd' = logEnd
  BY <1>1 DEF Log!AfterFirst
<1>4. /\ LogSum \in Nat /\ LogSum' \in Nat /\ LogSum <= dataSize /\ dataSize <= MaxDataSize
      /\ LogSum' = LogSum - Log!SizeOf(lines[logStart + 1]) + 0
      /\ Log!SizeOf(lines[logStart + 1]) \in Nat /\ MaxDataSize \in Nat
  <2>1. Log!SizeOf(Nothing) = 0
    BY DEF Log!SizeOf
  <2>2. logStart + 1 \in 1 .. Len(lines)
    BY <1>0
  <2>3. LogSum \in Nat /\ LogSum' \in Nat
        /\ LogSum' = LogSum - Log!SizeOf(lines[logStart + 1]) + Log!SizeOf(Nothing)
    BY <1>0, <1>1, <2>2, TotalChanges
  <2>4. Log!SizeOf(lines[logStart + 1]) \in Nat
    BY <1>0, SizeIsNat
  <2>5. LogSum <= dataSize /\ dataSize <= MaxDataSize /\ MaxDataSize \in Nat
    BY <1>0, Present
  <2> QED BY <2>1, <2>3, <2>4, <2>5
<1>5. LogType'
  BY <1>0, <1>1, <1>2, <1>3, <1>4 DEF LogInv, LogType, LogCells, Log!Past, Log!Count
<1>6. Log!LimitKept'
  BY <1>0, <1>1, <1>4 DEF Log!LimitKept, LogSum
<1>7. Log!Visited' \subseteq Log!Visited \ {logStart} /\ Log!Visited \subseteq 0 .. n - 1
      /\ \A i \in Log!Visited : i # logStart => i \in Log!Visited' \/ n = 1
  BY <1>0, <1>2, <1>3 DEF Log!Visited, Log!Past, Log!Count
<1>8. OutsideFree'
  BY <1>0, <1>2, <1>7 DEF LogInv, OutsideFree, LogCells, Log!Cell
<1>9. Linked'
  <2> SUFFICES ASSUME NEW i \in Log!Visited', lines'[i + 1] # Nothing PROVE Followed(i)'
    BY DEF Linked, Log!Cell
  <2>1. i \in Log!Visited /\ i \in 0 .. n - 1 /\ i # logStart /\ logEnd' = logEnd /\ logStart' >= 0
    BY <1>0, <1>3, <1>7 DEF Log!Visited, Log!Past, Log!Count
  <2>2. \A j \in Later(i) \cup {i} : j \in Log!Visited /\ j \in 0 .. n - 1 /\ j # logStart
    BY <1>0, <2>1 DEF Later, Log!Visited, Log!Count
  <2>3. \A j \in Later(i) \cup {i} : Later(j)' = Later(j)
    <3> SUFFICES ASSUME NEW j \in Later(i) \cup {i} PROVE Later(j)' = Later(j)
      OBVIOUS
    <3>1. j \in Log!Visited /\ j \in 0 .. n - 1 /\ j # logStart
      BY <2>2
    <3>2. logStart \notin IF j < logEnd THEN j + 1 .. logEnd - 1
                                       ELSE (j + 1 .. n - 1) \cup (0 .. logEnd - 1)
      BY <1>0, <3>1 DEF Log!Visited, Log!Count
    <3> QED BY <1>0, <1>2, <2>1, <3>1, <3>2 DEF Later, Log!Cell
  <2>4. Followed(i)
    BY <1>2, <2>1, <2>2 DEF LogInv, Linked, Log!Cell
  <2> QED BY <1>1, <1>2, <2>1, <2>2, <2>3, <2>4 DEF Followed, Log!Cell
<1> QED BY <1>5, <1>6, <1>8, <1>9 DEF LogInv

\* The newest line is in cell e, after all others that are still visited.
LEMMA NewestLinked ==
  ASSUME LogInv, adding # Nothing, nextId' = (nextId + 1) % Ids, NEW e \in Int,
         lines'[e + 1] = adding, Later(e)' = {},
         \A i \in Log!Visited' \ {e} :
            /\ i \in Log!Visited
            /\ \A j \in Later(i) \cup {i} : lines'[j + 1] = lines[j + 1] /\ Later(j)' = Later(j) \cup {e}
  PROVE  Linked'
<1> SUFFICES ASSUME NEW i \in Log!Visited', lines'[i + 1] # Nothing PROVE Followed(i)'
  BY DEF Linked, Log!Cell
<1>1. adding.id = nextId
  BY DEF LogInv, LogType
<1>2. CASE i = e
  BY <1>1, <1>2 DEF Followed, Log!Cell
<1>3. CASE i # e
  <2>1. Followed(i) /\ lines'[i + 1] = lines[i + 1] /\ Later(i)' = Later(i) \cup {e}
    BY <1>3 DEF LogInv, Linked, Log!Cell
  <2>2. CASE Later(i) = {} /\ nextId = (lines[i + 1].id + 1) % Ids
    BY <1>1, <2>1, <2>2 DEF Followed, Log!Cell
  <2>3. ASSUME NEW j \in Later(i), lines[j + 1].id = (lines[i + 1].id + 1) % Ids,
               \A k \in Later(i) : k = j \/ k \in Later(j)
        PROVE  Followed(i)'
    <3>1. lines'[j + 1] = lines[j + 1] /\ Later(j)' = Later(j) \cup {e} /\ j \in Later(i)'
      BY <1>3, <2>1
    <3>2. \A k \in Later(i)' : k = j \/ k \in Later(j)'
      BY <2>1, <2>3, <3>1
    <3> QED BY <2>1, <2>3, <3>1, <3>2 DEF Followed, Log!Cell
  <2> QED BY <2>1, <2>2, <2>3 DEF Followed, Log!Cell
<1> QED BY <1>2, <1>3

\* The newest line is where the last one ended, in a ring that does not grow.
LEMMA EndLinked ==
  ASSUME LogInv, adding # Nothing, nextId' = (nextId + 1) % Ids, logEnd \in LogCells,
         lines' = [lines EXCEPT ![logEnd + 1] = adding], logEnd' = Log!Past(logEnd),
         Log!Visited' \ {logEnd} \subseteq Log!Visited, Log!Visited' \subseteq LogCells
  PROVE  Linked'
<1>0. SUFFICES ASSUME NEW e \in Int, e = logEnd, NEW n \in Nat, n = Len(lines) PROVE Linked'
  BY DEF LogInv, LogType, LogCells
<1> DEFINE After(i) == IF i < e THEN i + 1 .. e - 1 ELSE (i + 1 .. n - 1) \cup (0 .. e - 1)
           AfterNext(i) == IF i < logEnd' THEN i + 1 .. logEnd' - 1 ELSE (i + 1 .. n - 1) \cup (0 .. logEnd' - 1)
<1>1. /\ e \in 0 .. n - 1 /\ Len(lines') = n
      /\ lines'[e + 1] = adding
      /\ \A i \in 0 .. n - 1 : i # e => lines'[i + 1] = lines[i + 1]
      /\ logEnd' = IF e + 1 >= n THEN 0 ELSE e + 1
  BY <1>0 DEF LogInv, LogType, LogCells, Log!Past, Log!Count
<1>2. ASSUME NEW i \in 0 .. n - 1, i # e
      PROVE  e \notin After(i) /\ After(i) \subseteq 0 .. n - 1 /\ AfterNext(i) = After(i) \cup {e}
  BY <1>1, <1>2
<1>3. ASSUME NEW i \in 0 .. n - 1, i # e
      PROVE  Later(i)' = Later(i) \cup {e} /\ Later(i) \subseteq 0 .. n - 1 /\ e \notin Later(i)
  <2>1. Later(i) = {j \in After(i) : lines[j + 1] # Nothing}
    BY <1>0 DEF Later, Log!Cell
  <2>2. Later(i)' = {j \in AfterNext(i) : lines'[j + 1] # Nothing}
    BY <1>1 DEF Later, Log!Cell
  <2>3. e \notin After(i) /\ After(i) \subseteq 0 .. n - 1 /\ AfterNext(i) = After(i) \cup {e}
    BY <1>2, <1>3
  <2> HIDE DEF After, AfterNext
  <2> QED BY <1>1, <2>1, <2>2, <2>3
<1>4. Later(e)' = {}
  <2>1. Later(e)' = {j \in AfterNext(e) : lines'[j + 1] # Nothing}
    BY <1>1 DEF Later, Log!Cell
  <2>2. AfterNext(e) = {}
    BY <1>1
  <2> QED BY <2>1, <2>2
<1>5. ASSUME NEW i \in Log!Visited' \ {e}
      PROVE  /\ i \in Log!Visited
             /\ \A j \in Later(i) \cup {i} : lines'[j + 1] = lines[j + 1] /\ Later(j)' = Later(j) \cup {e}
  <2>1. i \in Log!Visited /\ i \in 0 .. n - 1 /\ i # e
    BY <1>0 DEF LogCells
  <2>2. \A j \in Later(i) \cup {i} : j \in 0 .. n - 1 /\ j # e
    BY <1>3, <2>1
  <2> QED BY <1>1, <1>3, <2>1, <2>2
<1> QED BY <1>1, <1>4, <1>5, NewestLinked

LEMMA UseKeeps == ASSUME LogInv, Log!Use PROVE LogInv'
<1> DEFINE n == Len(lines)
<1>0. /\ lines \in Seq(Places) /\ n \in Nat /\ logStart \in 0 .. n - 1 /\ logEnd \in 0 .. n - 1
      /\ n <= MaxLineCount /\ adding # Nothing /\ Nothing \in Places /\ logStart # logEnd
      /\ lines[logEnd + 1] \in Places
  BY DEF LogInv, LogType, LogCells, Places, Log!Use, Log!Ready
<1>1. /\ lines' = [lines EXCEPT ![logEnd + 1] = adding]
      /\ dataSize' = dataSize + adding.size /\ dataSize + adding.size <= MaxDataSize
      /\ adding' = Nothing /\ nextId' = (nextId + 1) % Ids
      /\ logEnd' = Log!Past(logEnd) /\ logStart' = logStart
  BY DEF Log!Use, Log!Ready, Log!Fits, Log!Added
<1>2. /\ lines' \in Seq(Places) /\ Len(lines') = n /\ lines'[logEnd + 1] = adding
      /\ \A i \in 0 .. n - 1 : i # logEnd => lines'[i + 1] = lines[i + 1]
  <2>1. adding \in Places
    BY <1>0, Present
  <2> HIDE DEF n
  <2>2. n = Len(lines)
    BY DEF n
  <2> QED BY <1>0, <1>1, <2>1, <2>2
<1>3. /\ LogSum \in Nat /\ LogSum' \in Nat /\ LogSum <= dataSize /\ dataSize \in Nat
      /\ LogSum' = LogSum - Log!SizeOf(lines[logEnd + 1]) + adding.size
      /\ Log!SizeOf(lines[logEnd + 1]) \in Nat /\ MaxDataSize \in Nat /\ adding.size \in Nat
      /\ Ids \in Nat \ {0}
  <2>1. logEnd + 1 \in 1 .. Len(lines)
    BY <1>0
  <2>2. LogSum \in Nat /\ LogSum' \in Nat
        /\ LogSum' = LogSum - Log!SizeOf(lines[logEnd + 1]) + Log!SizeOf(adding)
    BY <1>0, <1>1, <2>1, TotalChanges, Present
  <2>3. Log!SizeOf(lines[logEnd + 1]) \in Nat
    BY <1>0, SizeIsNat
  <2>4. /\ Log!SizeOf(adding) = adding.size /\ adding.size \in Nat /\ LogSum <= dataSize
        /\ dataSize \in Nat /\ MaxDataSize \in Nat /\ Ids \in Nat \ {0}
    BY <1>0, Present
  <2> QED BY <2>2, <2>3, <2>4
<1>4. LogType'
  <2>1. (nextId + 1) % Ids \in 0 .. Ids - 1
    BY <1>3 DEF LogInv, LogType
  <2>2. dataSize' \in Nat
    BY <1>1, <1>3
  <2> QED BY <1>0, <1>1, <1>2, <2>1, <2>2 DEF LogType, LogCells, Log!Past, Log!Count
<1>5. Log!LimitKept'
  BY <1>1, <1>3 DEF Log!LimitKept, LogSum
<1>6. Log!Visited' = Log!Visited \cup {logEnd} /\ Log!Visited' \subseteq 0 .. n - 1
  BY <1>0, <1>1, <1>2 DEF Log!Visited, Log!Past, Log!Count
<1>7. OutsideFree'
  BY <1>0, <1>2, <1>6 DEF LogInv, OutsideFree, LogCells, Log!Cell
<1>8. Linked'
  BY <1>0, <1>1, <1>6, EndLinked DEF LogCells
<1> QED BY <1>4, <1>5, <1>7, <1>8 DEF LogInv

\* From a cell to the end, and on from the beginning.
LEMMA Around == ASSUME NEW n \in Nat, NEW i \in 0 .. n - 1 PROVE (i .. n - 1) \cup (0 .. i - 1) = 0 .. n - 1
  OBVIOUS

LEMMA ReplaceKeeps == ASSUME LogInv, Log!Replace PROVE LogInv'
<1> DEFINE n == Len(lines)
<1>0. /\ lines \in Seq(Places) /\ n \in Nat /\ logStart \in 0 .. n - 1 /\ logEnd = logStart
      /\ n <= MaxLineCount /\ adding # Nothing /\ Nothing \in Places
      /\ lines[logEnd + 1] \in Places
  BY DEF LogInv, LogType, LogCells, Places, Log!Replace, Log!Ready
<1>1. /\ lines' = [lines EXCEPT ![logEnd + 1] = adding]
      /\ dataSize' = dataSize - Log!SizeOf(lines[logEnd + 1]) + adding.size
      /\ dataSize + adding.size <= MaxDataSize
      /\ adding' = Nothing /\ nextId' = (nextId + 1) % Ids
      /\ logEnd' = Log!Past(logEnd) /\ logStart' = IF Log!Past(logStart) = logEnd THEN -1 ELSE Log!Past(logStart)
  BY DEF Log!Replace, Log!Ready, Log!Fits, Log!Added, Log!Freed, Log!Cell
<1>2. /\ lines' \in Seq(Places) /\ Len(lines') = n /\ lines'[logEnd + 1] = adding
      /\ \A i \in 0 .. n - 1 : i # logEnd => lines'[i + 1] = lines[i + 1]
  BY <1>0, <1>1, Present
<1>3. /\ LogSum \in Nat /\ LogSum' \in Nat /\ LogSum <= dataSize /\ dataSize \in Nat
      /\ LogSum' = LogSum - Log!SizeOf(lines[logEnd + 1]) + adding.size
      /\ Log!SizeOf(lines[logEnd + 1]) \in Nat /\ MaxDataSize \in Nat /\ adding.size \in Nat
      /\ Ids \in Nat \ {0}
  <2>1. logEnd + 1 \in 1 .. Len(lines)
    BY <1>0
  <2>2. LogSum \in Nat /\ LogSum' \in Nat
        /\ LogSum' = LogSum - Log!SizeOf(lines[logEnd + 1]) + Log!SizeOf(adding)
    BY <1>0, <1>1, <2>1, TotalChanges, Present
  <2>3. Log!SizeOf(lines[logEnd + 1]) \in Nat
    BY <1>0, SizeIsNat
  <2>4. /\ Log!SizeOf(adding) = adding.size /\ adding.size \in Nat /\ LogSum <= dataSize
        /\ dataSize \in Nat /\ MaxDataSize \in Nat /\ Ids \in Nat \ {0}
    BY <1>0, Present
  <2> QED BY <2>2, <2>3, <2>4
<1>4. LogType'
  <2>1. (nextId + 1) % Ids \in 0 .. Ids - 1
    BY <1>3 DEF LogInv, LogType
  <2>2. dataSize' \in Nat
    BY <1>1, <1>3
  <2> QED BY <1>0, <1>1, <1>2, <2>1, <2>2 DEF LogType, LogCells, Log!Past, Log!Count
<1>5. Log!LimitKept'
  BY <1>1, <1>3 DEF Log!LimitKept, LogSum
<1>6. Log!Visited' = (IF n = 1 THEN {} ELSE 0 .. n - 1) /\ Log!Visited = 0 .. n - 1
  <2>0. Log!Past(logStart) = IF logStart + 1 >= n THEN 0 ELSE logStart + 1
    BY DEF Log!Past, Log!Count
  <2>1. Log!Visited = 0 .. n - 1
    <3>1. Log!Visited = (logStart .. n - 1) \cup (0 .. logStart - 1)
      BY <1>0 DEF Log!Visited, Log!Count
    <3> QED BY <1>0, <3>1, Around
  <2>2. n = 1 => logStart' = -1
    BY <1>0, <1>1, <2>0
  <2>3. n # 1 => logStart' \in 0 .. n - 1 /\ logEnd' = logStart'
    <3> DEFINE p == Log!Past(logStart)
    <3>1. p \in 0 .. n - 1 /\ (n # 1 => p # logStart)
      <4>1. CASE logStart + 1 >= n
        BY <1>0, <2>0, <4>1
      <4>2. CASE ~(logStart + 1 >= n)
        BY <1>0, <2>0, <4>2
      <4> QED BY <4>1, <4>2
    <3>2. Log!Past(logEnd) = Log!Past(logStart)
      BY <1>0
    <3> QED BY <1>0, <1>1, <3>1, <3>2
  <2>4. n = 1 => Log!Visited' = {}
    BY <2>2 DEF Log!Visited
  <2>5. n # 1 => Log!Visited' = 0 .. n - 1
    <3>1. n # 1 => Log!Visited' = (logStart' .. n - 1) \cup (0 .. logStart' - 1)
      BY <1>2, <2>3 DEF Log!Visited, Log!Count
    <3> QED BY <1>0, <2>3, <3>1, Around
  <2> QED BY <2>1, <2>4, <2>5
<1>7. OutsideFree'
  BY <1>0, <1>2, <1>6 DEF OutsideFree, LogCells
<1>8. Linked'
  BY <1>0, <1>1, <1>6, EndLinked DEF LogCells
<1> QED BY <1>4, <1>5, <1>7, <1>8 DEF LogInv

LEMMA GrowKeeps == ASSUME LogInv, Log!Grow PROVE LogInv'
<1> DEFINE n == Len(lines)
<1>0. /\ lines \in Seq(Places) /\ n \in Nat /\ n < MaxLineCount /\ logStart = 0 /\ logEnd = 0
      /\ n > 0 /\ adding # Nothing
  BY LogAssumption DEF LogInv, LogType, LogCells, Log!Grow, Log!Ready, Log!CanGrow, Log!Count, Log!LogBufferAssumption
<1>1. /\ lines' = Append(lines, adding)
      /\ dataSize' = dataSize + adding.size /\ dataSize + adding.size <= MaxDataSize
      /\ adding' = Nothing /\ nextId' = (nextId + 1) % Ids
      /\ logEnd' = 0 /\ logStart' = 0
  BY <1>0 DEF Log!Grow, Log!Ready, Log!Fits, Log!Added
<1>2. /\ lines' \in Seq(Places) /\ Len(lines') = n + 1 /\ lines'[n + 1] = adding
      /\ \A i \in 0 .. n - 1 : lines'[i + 1] = lines[i + 1]
      /\ Nothing \in Places
  BY <1>0, <1>1, Present DEF Places
<1>3. /\ LogSum \in Nat /\ LogSum' \in Nat /\ LogSum <= dataSize /\ dataSize \in Nat
      /\ LogSum' = LogSum + adding.size
      /\ MaxDataSize \in Nat /\ adding.size \in Nat /\ Ids \in Nat \ {0} /\ MaxLineCount \in Nat
  BY <1>0, <1>1, TotalAppends, Present
<1>4. LogType'
  <2>1. (nextId + 1) % Ids \in 0 .. Ids - 1
    BY <1>3 DEF LogInv, LogType
  <2> QED BY <1>0, <1>1, <1>2, <1>3, <2>1 DEF LogType, LogCells
<1>5. Log!LimitKept'
  BY <1>1, <1>3 DEF Log!LimitKept, LogSum
<1>6. Log!Visited' = 0 .. n /\ Log!Visited = 0 .. n - 1
  BY <1>0, <1>1, <1>2 DEF Log!Visited, Log!Count
<1>7. OutsideFree'
  BY <1>0, <1>2, <1>6 DEF OutsideFree, LogCells
<1>8. Linked'
  <2>0. SUFFICES ASSUME NEW e \in Nat, e = n PROVE Linked'
    BY <1>0
  <2>1. ASSUME NEW i \in 0 .. e - 1
        PROVE  Later(i)' = Later(i) \cup {e} /\ Later(i) \subseteq 0 .. e - 1
    <3>1. Later(i) = {j \in i + 1 .. e - 1 : lines[j + 1] # Nothing}
      BY <1>0, <2>0 DEF Later, Log!Cell
    <3>2. Later(i)' = {j \in i + 1 .. e : lines'[j + 1] # Nothing}
      BY <1>1, <1>2, <2>0 DEF Later, Log!Cell
    <3> QED BY <1>0, <1>2, <2>0, <3>1, <3>2
  <2>2. Later(e)' = {}
    BY <1>0, <1>1, <1>2, <2>0 DEF Later
  <2>3. ASSUME NEW i \in Log!Visited' \ {e}
        PROVE  /\ i \in Log!Visited
               /\ \A j \in Later(i) \cup {i} :
                      lines'[j + 1] = lines[j + 1] /\ Later(j)' = Later(j) \cup {e}
    <3>1. i \in Log!Visited /\ i \in 0 .. e - 1
      BY <1>0, <1>6, <2>0
    <3>2. \A j \in Later(i) \cup {i} : j \in 0 .. e - 1
      BY <2>1, <3>1
    <3> QED BY <1>2, <2>0, <2>1, <3>1, <3>2
  <2>4. e \in Int /\ lines'[e + 1] = adding
    BY <1>2, <2>0
  <2> QED BY <1>0, <1>1, <2>2, <2>3, <2>4, NewestLinked
<1> QED BY <1>4, <1>5, <1>7, <1>8 DEF LogInv

LEMMA BootstrapKeeps == ASSUME LogInv, Log!Bootstrap PROVE LogInv'
<1> DEFINE n == Len(lines)
<1>0. /\ lines \in Seq(Places) /\ n \in Nat /\ n <= MaxLineCount /\ logStart = -1 /\ logEnd = 0
      /\ adding # Nothing /\ adding \in Places /\ Nothing \in Places /\ MaxLineCount \in Nat \ {0}
      /\ Log!Visited = {}
  BY Present DEF LogInv, LogType, LogCells, Log!Bootstrap, Log!Ready, Log!Visited, Places
<1>1. /\ lines' = IF lines = <<>> THEN <<adding>> ELSE [lines EXCEPT ![1] = adding]
      /\ dataSize' = dataSize + adding.size /\ dataSize + adding.size <= MaxDataSize
      /\ adding' = Nothing /\ nextId' = (nextId + 1) % Ids
      /\ logEnd' = 0 /\ logStart' = 0
  BY <1>0 DEF Log!Bootstrap, Log!Ready, Log!Fits, Log!Added
<1>2. /\ lines' \in Seq(Places) /\ Len(lines') \in Nat /\ Len(lines') >= 1 /\ lines'[1] = adding
      /\ Len(lines') = IF n = 0 THEN 1 ELSE n
      /\ \A i \in 1 .. Len(lines') - 1 : lines'[i + 1] = Nothing
  <2>1. CASE lines = <<>>
    BY <1>0, <1>1, <2>1
  <2>2. CASE lines # <<>>
    <3>1. n >= 1 /\ lines' = [lines EXCEPT ![1] = adding]
      BY <1>0, <1>1, <2>2
    <3>2. \A i \in 1 .. n - 1 : lines[i + 1] = Nothing
      BY <1>0, <3>1 DEF LogInv, OutsideFree, LogCells, Log!Cell
    <3> QED BY <1>0, <3>1, <3>2
  <2> QED BY <2>1, <2>2
<1>3. /\ LogSum \in Nat /\ LogSum' \in Nat /\ LogSum <= dataSize /\ dataSize \in Nat
      /\ LogSum' <= LogSum + adding.size
      /\ MaxDataSize \in Nat /\ adding.size \in Nat /\ Ids \in Nat \ {0}
  <2>1. CASE lines = <<>>
    <3>1. lines' = Append(lines, adding)
      BY <1>1, <2>1
    <3> QED BY <1>0, <3>1, TotalAppends, Present
  <2>2. CASE lines # <<>>
    <3>1. 1 \in 1 .. Len(lines) /\ lines' = [lines EXCEPT ![1] = adding] /\ lines[1] \in Places
      BY <1>0, <1>1, <2>2
    <3>2. Log!SizeOf(lines[1]) \in Nat
      BY <3>1, SizeIsNat
    <3>3. LogSum \in Nat /\ LogSum' \in Nat /\ LogSum' = LogSum - Log!SizeOf(lines[1]) + Log!SizeOf(adding)
      BY <1>0, <3>1, TotalChanges
    <3>4. /\ LogSum <= dataSize /\ dataSize \in Nat /\ MaxDataSize \in Nat /\ adding.size \in Nat
          /\ Log!SizeOf(adding) = adding.size /\ Ids \in Nat \ {0}
      BY <1>0, Present
    <3> QED BY <3>2, <3>3, <3>4
  <2> QED BY <2>1, <2>2
<1>4. LogType'
  <2>1. (nextId + 1) % Ids \in 0 .. Ids - 1
    BY <1>3 DEF LogInv, LogType
  <2> QED BY <1>0, <1>1, <1>2, <1>3, <2>1 DEF LogType, LogCells
<1>5. Log!LimitKept'
  BY <1>1, <1>3 DEF Log!LimitKept, LogSum
<1>6. Log!Visited' = 0 .. Len(lines') - 1
  BY <1>1, <1>2 DEF Log!Visited, Log!Count
<1>7. OutsideFree'
  BY <1>6 DEF OutsideFree, LogCells
<1>8. Linked'
  <2>1. Later(0)' = {}
    BY <1>1, <1>2 DEF Later, Log!Cell
  <2>2. \A i \in Log!Visited' : i # 0 => lines'[i + 1] = Nothing
    BY <1>2, <1>6
  <2>3. lines'[0 + 1].id = nextId
    BY <1>0, <1>2 DEF LogInv, LogType
  <2>4. Followed(0)'
    BY <1>1, <2>1, <2>3 DEF Followed, Log!Cell
  <2> QED BY <2>2, <2>4 DEF Linked, Log!Cell
<1> QED BY <1>4, <1>5, <1>7, <1>8 DEF LogInv

LEMMA ClearKeeps == ASSUME LogInv, Log!Clear PROVE LogInv'
<1>1. /\ lines' = <<>> /\ logStart' = -1 /\ logEnd' = 0 /\ adding = Nothing
      /\ UNCHANGED <<dataSize, adding, nextId>>
  BY DEF Log!Clear
<1>2. Log!Visited' = {}
  BY <1>1 DEF Log!Visited
<1>3. LogSum' = 0
  <2>1. lines' \in Seq(Places) /\ Len(lines') = 0
    BY <1>1
  <2>2. Sums(Log!Total', lines')
    BY <2>1, TotalIsNext
  <2> QED BY <2>1, <2>2, SumsAre DEF LogSum, Log!Count
<1>4. LogType'
  BY <1>1, LogAssumption DEF LogInv, LogType, LogCells, Log!LogBufferAssumption
<1>5. Log!LimitKept'
  BY <1>1, <1>3 DEF LogInv, LogType, Log!LimitKept, LogSum
<1> QED BY <1>1, <1>2, <1>4, <1>5 DEF LogInv, OutsideFree, Linked

LEMMA BeginKeeps == ASSUME LogInv, Log!Begin PROVE LogInv'
<1>1. PICK s \in Sizes : adding' = [id |-> nextId, size |-> s]
  BY DEF Log!Begin
<1>2. UNCHANGED <<lines, logStart, logEnd, dataSize, nextId>>
  BY DEF Log!Begin
<1>3. adding' \in Places /\ adding'.id = nextId
  BY <1>1 DEF LogInv, LogType, Places, Log!Line
<1>4. LogType'
  BY <1>2, <1>3 DEF LogInv, LogType, LogCells
<1>5. Log!LimitKept'
  BY <1>2 DEF LogInv, Log!LimitKept, Log!Total, Log!Count, Log!SizeOf
<1>6. OutsideFree'
  BY <1>2 DEF LogInv, OutsideFree, LogCells, Log!Cell, Log!Visited, Log!Count
<1>7. Linked'
  BY <1>2 DEF LogInv, Linked, Followed, Later, Log!Cell, Log!Visited, Log!Count
<1> QED BY <1>4, <1>5, <1>6, <1>7 DEF LogInv

LEMMA QuietKeeps == ASSUME LogInv, UNCHANGED logVars PROVE LogInv'
<1>1. UNCHANGED <<lines, logStart, logEnd, dataSize, adding, nextId>>
  BY DEF logVars
<1>2. LogType'
  BY <1>1 DEF LogInv, LogType, LogCells
<1>3. Log!LimitKept'
  BY <1>1 DEF LogInv, Log!LimitKept, Log!Total, Log!Count, Log!SizeOf
<1>4. OutsideFree'
  BY <1>1 DEF LogInv, OutsideFree, LogCells, Log!Cell, Log!Visited, Log!Count
<1>5. Linked'
  BY <1>1 DEF LogInv, Linked, Followed, Later, Log!Cell, Log!Visited, Log!Count
<1> QED BY <1>2, <1>3, <1>4, <1>5 DEF LogInv

LEMMA LogInvInit == MCInit => LogInv
<1> SUFFICES ASSUME MCInit PROVE LogInv
  OBVIOUS
<1>1. /\ lines = <<>> /\ logStart = -1 /\ logEnd = 0 /\ dataSize = 0 /\ adding = Nothing /\ nextId = 0
  BY DEF MCInit, Log!Init
<1>2. Log!Visited = {}
  BY <1>1 DEF Log!Visited
<1>3. LogSum = 0
  <2>1. lines \in Seq(Places) /\ Len(lines) = 0
    BY <1>1
  <2>2. Sums(Log!Total, lines)
    BY <2>1, TotalIs
  <2> QED BY <2>1, <2>2, SumsAre DEF LogSum, Log!Count
<1>4. LogType
  BY <1>1, LogAssumption DEF LogType, LogCells, Places, Log!LogBufferAssumption
<1>5. Log!LimitKept
  BY <1>1, <1>3, LogAssumption DEF Log!LimitKept, LogSum, Log!LogBufferAssumption
<1> QED BY <1>1, <1>2, <1>4, <1>5 DEF LogInv, OutsideFree, Linked

LEMMA LogInvStep == LogInv /\ [MCNext]_mcVars => LogInv'
<1> SUFFICES ASSUME LogInv, [MCNext]_mcVars PROVE LogInv'
  OBVIOUS
<1>1. CASE QueueStep
  BY <1>1, QuietKeeps DEF QueueStep
<1>2. CASE AddLine
  <2>1. CASE Log!Spin
    BY <2>1, QuietKeeps DEF Log!Spin, Log!vars, logVars
  <2> QED BY <1>2, <2>1, MakeRoomKeeps, UseKeeps, ReplaceKeeps, GrowKeeps, BootstrapKeeps DEF AddLine, Log!AddLine
<1>3. CASE BeginAddLine
  BY <1>3, BeginKeeps DEF BeginAddLine
<1>4. CASE ClearLog
  BY <1>4, ClearKeeps DEF ClearLog
<1>5. CASE TextStep \/ ChunkStep \/ NumberStep
  BY <1>5, QuietKeeps DEF TextStep, ChunkStep, NumberStep
<1>6. CASE UNCHANGED mcVars
  BY <1>6, QuietKeeps DEF mcVars
<1> QED BY <1>1, <1>2, <1>3, <1>4, <1>5, <1>6 DEF MCNext

LEMMA LogInvHolds == MCSpec => []LogInv
  BY LogInvInit, LogInvStep, PTL DEF MCSpec
-----------------------------------------------------------------------------
(* LogBuffer: what iterate() shows. *)

\* The length of Contents, the cell of its k-th line, and back.
Shown == IF logStart < logEnd THEN logEnd - logStart ELSE Len(lines) - logStart + logEnd
CellOf(k) ==
    IF logStart < logEnd \/ k <= Len(lines) - logStart THEN logStart + k - 1
                                                       ELSE k - 1 - (Len(lines) - logStart)
PlaceOf(i) == IF logStart < logEnd \/ i >= logStart THEN i - logStart + 1
                                                    ELSE i + 1 + Len(lines) - logStart

LEMMA ContentsAre ==
  ASSUME LogInv, logStart >= 0
  PROVE  /\ Shown \in Nat /\ Len(Log!Contents) = Shown
         /\ \A k \in 1 .. Shown :
                Log!Contents[k] = lines[CellOf(k) + 1] /\ CellOf(k) \in Log!Visited /\ CellOf(k) \in LogCells
<1>0. /\ lines \in Seq(Places) /\ Len(lines) \in Nat /\ logStart \in 0 .. Len(lines) - 1
      /\ logEnd \in 0 .. Len(lines) - 1
  BY DEF LogInv, LogType, LogCells
<1>1. CASE logStart < logEnd
  <2>1. Log!Contents = SubSeq(lines, logStart + 1, logEnd)
    BY <1>0, <1>1 DEF Log!Contents
  <2> QED BY <1>0, <1>1, <2>1 DEF Shown, CellOf, Log!Visited, LogCells
<1>2. CASE ~(logStart < logEnd)
  <2> DEFINE a == SubSeq(lines, logStart + 1, Len(lines))
             b == SubSeq(lines, 1, logEnd)
  <2>1. Log!Contents = a \o b
    BY <1>0, <1>2 DEF Log!Contents, Log!Count
  <2>2. /\ a \in Seq(Places) /\ Len(a) = Len(lines) - logStart
        /\ \A k \in 1 .. Len(lines) - logStart : a[k] = lines[logStart + k]
    BY <1>0
  <2>3. /\ b \in Seq(Places) /\ Len(b) = logEnd
        /\ \A k \in 1 .. logEnd : b[k] = lines[k]
    BY <1>0
  <2> HIDE DEF a, b
  <2>4. Len(a \o b) = Shown /\ Shown \in Nat
    <3>1. Len(a \o b) = Len(a) + Len(b)
      BY <2>2, <2>3
    <3>2. Shown = Len(lines) - logStart + logEnd
      BY <1>2 DEF Shown
    <3> QED BY <1>0, <2>2, <2>3, <3>1, <3>2
  <2>5. ASSUME NEW k \in 1 .. Shown PROVE (a \o b)[k] = lines[CellOf(k) + 1]
    <3>1. CASE k <= Len(lines) - logStart
      <4>1. (a \o b)[k] = a[k]
        BY <1>0, <2>2, <2>3, <2>4, <3>1
      <4>2. CellOf(k) + 1 = logStart + k
        BY <1>0, <3>1 DEF CellOf
      <4> QED BY <1>0, <2>2, <3>1, <4>1, <4>2
    <3>2. CASE ~(k <= Len(lines) - logStart)
      <4>1. (a \o b)[k] = b[k - (Len(lines) - logStart)]
        BY <1>0, <2>2, <2>3, <2>4, <3>2
      <4>2. CellOf(k) + 1 = k - (Len(lines) - logStart) /\ k - (Len(lines) - logStart) \in 1 .. logEnd
        BY <1>0, <1>2, <3>2 DEF CellOf, Shown
      <4> QED BY <1>0, <2>3, <4>1, <4>2
    <3> QED BY <3>1, <3>2
  <2>6. ASSUME NEW k \in 1 .. Shown PROVE CellOf(k) \in Log!Visited /\ CellOf(k) \in LogCells
    BY <1>0, <1>2 DEF CellOf, Shown, Log!Visited, LogCells, Log!Count
  <2> QED BY <2>1, <2>4, <2>5, <2>6
<1> QED BY <1>1, <1>2

LEMMA LaterShown ==
  ASSUME LogInv, logStart >= 0, NEW i \in 1 .. Shown, NEW j \in 1 .. Shown, lines[CellOf(j) + 1] # Nothing
  PROVE  /\ CellOf(j) \in Later(CellOf(i)) <=> i < j
         /\ CellOf(i) = CellOf(j) => i = j
<1>0. /\ Len(lines) \in Nat /\ logStart \in 0 .. Len(lines) - 1 /\ logEnd \in 0 .. Len(lines) - 1
  BY DEF LogInv, LogType, LogCells
<1>1. CASE logStart < logEnd
  BY <1>0, <1>1 DEF Later, CellOf, Shown, Log!Cell
<1>2. CASE ~(logStart < logEnd)
  BY <1>0, <1>2 DEF Later, CellOf, Shown, Log!Cell
<1> QED BY <1>1, <1>2

LEMMA LaterHasPlace ==
  ASSUME LogInv, logStart >= 0, NEW i \in 1 .. Shown, NEW c \in Later(CellOf(i))
  PROVE  PlaceOf(c) \in 1 .. Shown /\ CellOf(PlaceOf(c)) = c
<1>0. /\ Len(lines) \in Nat /\ logStart \in 0 .. Len(lines) - 1 /\ logEnd \in 0 .. Len(lines) - 1
  BY DEF LogInv, LogType, LogCells
<1>1. CASE logStart < logEnd
  BY <1>0, <1>1 DEF Later, CellOf, Shown, PlaceOf
<1>2. CASE ~(logStart < logEnd)
  BY <1>0, <1>2 DEF Later, CellOf, Shown, PlaceOf
<1> QED BY <1>1, <1>2

LEMMA NewestFromLinked == LogInv => Log!NewestKept
<1>1. CASE logStart < 0
  BY <1>1 DEF Log!NewestKept, Log!Contents
<1>2. ASSUME LogInv, ~(logStart < 0) PROVE Log!NewestKept
  <2>0. logStart >= 0
    BY <1>2 DEF LogInv, LogType, LogCells
  <2> DEFINE later(i) == {j \in i + 1 .. Shown : Log!Contents[j] # Nothing}
             after(i) == (Log!Contents[i].id + 1) % Ids
  <2>1. SUFFICES ASSUME NEW i \in 1 .. Shown, Log!Contents[i] # Nothing
                 PROVE  \/ later(i) = {} /\ nextId = after(i)
                        \/ \E j \in later(i) : (\A k \in later(i) : j <= k) /\ Log!Contents[j].id = after(i)
    <3>1. Len(Log!Contents) = Shown
      BY <1>2, <2>0, ContentsAre
    <3> QED BY <3>1 DEF Log!NewestKept
  <2> DEFINE c == CellOf(i)
  <2>2. c \in Log!Visited /\ Log!Contents[i] = lines[c + 1] /\ Shown \in Nat
    BY <1>2, <2>0, ContentsAre
  <2>3. Followed(c)
    BY <1>2, <2>1, <2>2 DEF LogInv, Linked, Log!Cell
  <2>4. \A k \in later(i) : /\ k \in 1 .. Shown /\ lines[CellOf(k) + 1] # Nothing
                            /\ CellOf(k) \in Later(c) /\ Log!Contents[k] = lines[CellOf(k) + 1]
    <3> TAKE k \in later(i)
    <3>1. k \in 1 .. Shown /\ i < k
      BY <2>2
    <3>2. Log!Contents[k] = lines[CellOf(k) + 1] /\ Log!Contents[k] # Nothing
      BY <1>2, <2>0, <3>1, ContentsAre
    <3> QED BY <1>2, <2>0, <3>1, <3>2, LaterShown
  <2>5. CASE Later(c) = {} /\ nextId = (lines[c + 1].id + 1) % Ids
    BY <2>2, <2>4, <2>5
  <2>6. ASSUME NEW d \in Later(c), \A k \in Later(c) : k = d \/ k \in Later(d),
               lines[d + 1].id = (lines[c + 1].id + 1) % Ids
        PROVE  \E j \in later(i) : (\A k \in later(i) : j <= k) /\ Log!Contents[j].id = after(i)
    <3> DEFINE j == PlaceOf(d)
    <3>1. j \in 1 .. Shown /\ CellOf(j) = d
      BY <1>2, <2>0, LaterHasPlace
    <3>2. lines[CellOf(j) + 1] # Nothing
      BY <2>6, <3>1 DEF Later, Log!Cell
    <3> HIDE DEF j
    <3>3. i < j
      BY <1>2, <2>0, <2>6, <3>1, <3>2, LaterShown
    <3>4. Log!Contents[j] = lines[d + 1]
      BY <1>2, <2>0, <3>1, ContentsAre
    <3>5. j \in later(i)
      BY <2>2, <3>1, <3>2, <3>3, <3>4
    <3>6. ASSUME NEW k \in later(i) PROVE j <= k
      <4>1. k \in 1 .. Shown /\ lines[CellOf(k) + 1] # Nothing /\ (CellOf(k) = d \/ CellOf(k) \in Later(d))
        BY <2>4, <2>6
      <4>2. CASE CellOf(k) = d
        BY <1>2, <2>0, <3>1, <4>1, <4>2, LaterShown
      <4>3. CASE CellOf(k) \in Later(CellOf(j))
        BY <1>2, <2>0, <3>1, <4>1, <4>3, LaterShown
      <4> QED BY <3>1, <4>1, <4>2, <4>3
    <3> HIDE DEF later
    <3> QED BY <2>2, <2>6, <3>4, <3>5, <3>6
  <2> QED BY <2>3, <2>5, <2>6 DEF Followed, Log!Cell
<1> QED BY <1>1, <1>2

\* The lines that are there are the newest ones and keep within the limit, with and
\* without clear(), whatever the limits and the sizes of the lines.
THEOREM NewestWithinLimit == MCSpec => [](LogLimitKept /\ LogNewestKept)
<1>1. LogInv => LogLimitKept /\ LogNewestKept
  BY NewestFromLinked DEF LogInv, LogLimitKept, LogNewestKept
<1> QED BY <1>1, LogInvHolds, PTL
-----------------------------------------------------------------------------
(* LogBuffer: no holes, and the sum, without clear() and for lines of at most *)
(* half the limit.                                                            *)

RoomForTwo == MaxLineCount > 1 /\ \A s \in Sizes : 2 * s <= MaxDataSize

\* The log is empty only at the beginning.
FullInv ==
    subject = "log" =>
        /\ \A i \in Log!Visited : Log!Cell(i) # Nothing
        /\ logStart < 0 => lines = <<>>
        /\ dataSize = LogSum

LEMMA OnlyLine ==
  ASSUME LogInv, logStart >= 0, Log!Past(logStart) = logEnd
  PROVE  LogSum = Log!SizeOf(Log!Cell(logStart))
<1> DEFINE n == Len(lines)
<1>0. /\ lines \in Seq(Places) /\ n \in Nat /\ logStart \in 0 .. n - 1 /\ logEnd \in 0 .. n - 1
      /\ logEnd = IF logStart + 1 >= n THEN 0 ELSE logStart + 1
  BY DEF LogInv, LogType, LogCells, Log!Past, Log!Count
<1>1. n > 1 => Log!Visited = {logStart}
  BY <1>0 DEF Log!Visited, Log!Count
<1>2. \A k \in 1 .. n : k # logStart + 1 => lines[k] = Nothing
  <2> SUFFICES ASSUME NEW k \in 1 .. n, k # logStart + 1 PROVE lines[k] = Nothing
    OBVIOUS
  <2>1. n > 1 /\ k - 1 \in 0 .. n - 1 /\ k - 1 # logStart /\ (k - 1) + 1 = k
    BY <1>0
  <2> QED BY <1>1, <2>1 DEF LogInv, OutsideFree, LogCells, Log!Cell
<1>3. logStart + 1 \in 1 .. n
  BY <1>0
<1> QED BY <1>0, <1>2, <1>3, TotalIs, SumsOfOne DEF LogSum, Log!Count, Log!Cell

\* A line that does not fit does not meet a log of one line.
LEMMA NotEmptied ==
  ASSUME LogInv, FullInv, subject = "log", RoomForTwo, Log!MakeRoom
  PROVE  Log!Past(logStart) # logEnd
<1> SUFFICES ASSUME Log!Past(logStart) = logEnd PROVE FALSE
  OBVIOUS
<1>1. adding # Nothing /\ ~(dataSize + adding.size <= MaxDataSize) /\ logStart >= 0
  BY DEF Log!MakeRoom, Log!Fits
<1>2. logStart \in Log!Visited /\ logStart + 1 \in 1 .. Len(lines) /\ lines \in Seq(Places)
  BY <1>1 DEF LogInv, LogType, LogCells, Log!Visited, Log!Count
<1>3. Log!Cell(logStart) \in Log!Line /\ adding \in Log!Line
  BY <1>1, <1>2 DEF FullInv, Places, Log!Cell, LogInv, LogType
<1>4. dataSize = Log!Cell(logStart).size
  <2>1. Log!Cell(logStart) # Nothing
    BY <1>2 DEF FullInv
  <2> QED BY <1>1, <2>1, OnlyLine DEF FullInv, Log!SizeOf
<1>5. Log!Cell(logStart).size \in Sizes /\ adding.size \in Sizes
  BY <1>3 DEF Log!Line
<1>6. Sizes \subseteq Nat /\ MaxDataSize \in Nat
  BY LogAssumption DEF Log!LogBufferAssumption
<1>7. 2 * Log!Cell(logStart).size <= MaxDataSize /\ 2 * adding.size <= MaxDataSize
  BY <1>5 DEF RoomForTwo
<1>8. adding.size \in Nat /\ Log!Cell(logStart).size \in Nat
  BY <1>5, <1>6
<1> QED BY <1>1, <1>4, <1>6, <1>7, <1>8

LEMMA FullMakeRoom ==
  ASSUME LogInv, FullInv, subject = "log", subject' = subject, RoomForTwo, Log!MakeRoom
  PROVE  FullInv'
<1> DEFINE n == Len(lines)
<1>0. /\ lines \in Seq(Places) /\ n \in Nat /\ logStart \in 0 .. n - 1 /\ logEnd \in 0 .. n - 1
      /\ Nothing \in Places
  BY DEF LogInv, LogType, LogCells, Places, Log!MakeRoom
<1>1. /\ lines' = [lines EXCEPT ![logStart + 1] = Nothing]
      /\ dataSize' = dataSize - Log!SizeOf(lines[logStart + 1])
      /\ logStart' = Log!Past(logStart) /\ logEnd' = logEnd
  BY NotEmptied DEF Log!MakeRoom, Log!AfterFirst, Log!Freed, Log!Cell
<1>2. /\ Len(lines') = n /\ \A i \in 0 .. n - 1 : i # logStart => lines'[i + 1] = lines[i + 1]
      /\ logStart + 1 \in 1 .. Len(lines) /\ logStart' \in 0 .. n - 1 /\ lines[logStart + 1] \in Places
  BY <1>0, <1>1 DEF Log!Past, Log!Count
<1>3. Log!Visited' \subseteq Log!Visited \ {logStart} /\ Log!Visited \subseteq 0 .. n - 1
  BY <1>0, <1>1, <1>2, NotEmptied DEF Log!Visited, Log!Past, Log!Count
<1>4. \A i \in Log!Visited' : lines'[i + 1] # Nothing
  BY <1>2, <1>3 DEF FullInv, Log!Cell
<1>5. dataSize' = LogSum'
  <2>1. LogSum \in Nat /\ LogSum' \in Nat
        /\ LogSum' = LogSum - Log!SizeOf(lines[logStart + 1]) + Log!SizeOf(Nothing)
    BY <1>0, <1>1, <1>2, TotalChanges
  <2>2. Log!SizeOf(Nothing) = 0 /\ Log!SizeOf(lines[logStart + 1]) \in Nat
    BY <1>2, SizeIsNat DEF Log!SizeOf
  <2> QED BY <1>1, <2>1, <2>2 DEF FullInv
<1> QED BY <1>2, <1>4, <1>5 DEF FullInv, Log!Cell

LEMMA FullUse ==
  ASSUME LogInv, FullInv, subject = "log", subject' = subject, Log!Use
  PROVE  FullInv'
<1> DEFINE n == Len(lines)
<1>0. /\ lines \in Seq(Places) /\ n \in Nat /\ logStart \in 0 .. n - 1 /\ logEnd \in 0 .. n - 1
      /\ adding # Nothing /\ logStart # logEnd
  BY DEF LogInv, LogType, LogCells, Log!Use, Log!Ready
<1>1. /\ lines' = [lines EXCEPT ![logEnd + 1] = adding]
      /\ dataSize' = dataSize + adding.size
      /\ logEnd' = Log!Past(logEnd) /\ logStart' = logStart
  BY DEF Log!Use, Log!Added
<1>2. /\ Len(lines') = n /\ lines'[logEnd + 1] = adding
      /\ \A i \in 0 .. n - 1 : i # logEnd => lines'[i + 1] = lines[i + 1]
      /\ logEnd + 1 \in 1 .. Len(lines)
  BY <1>0, <1>1
<1>3. Log!Visited' = Log!Visited \cup {logEnd} /\ Log!Visited \subseteq 0 .. n - 1 /\ logEnd \notin Log!Visited
  BY <1>0, <1>1, <1>2 DEF Log!Visited, Log!Past, Log!Count
<1>4. \A i \in Log!Visited' : lines'[i + 1] # Nothing
  BY <1>0, <1>2, <1>3 DEF FullInv, Log!Cell
<1>5. dataSize' = LogSum'
  <2>1. n > 1
    BY <1>0
  <2>2. lines[logEnd + 1] = Nothing
    BY <1>0, <1>3, <2>1 DEF LogInv, OutsideFree, LogCells, Log!Cell
  <2>3. Log!SizeOf(lines[logEnd + 1]) = 0
    BY <2>2 DEF Log!SizeOf
  <2>4. adding.size \in Nat /\ Log!SizeOf(adding) = adding.size /\ adding \in Places
    BY <1>0, Present
  <2>5. LogSum \in Nat /\ LogSum' = LogSum - Log!SizeOf(lines[logEnd + 1]) + Log!SizeOf(adding)
    BY <1>0, <1>1, <1>2, <2>4, TotalChanges
  <2> QED BY <1>1, <2>3, <2>4, <2>5 DEF FullInv
<1> QED BY <1>0, <1>1, <1>4, <1>5 DEF FullInv, Log!Cell

LEMMA FullReplace ==
  ASSUME LogInv, FullInv, subject = "log", subject' = subject, RoomForTwo, Log!Replace
  PROVE  FullInv'
<1> DEFINE n == Len(lines)
<1>0. /\ lines \in Seq(Places) /\ n \in Nat /\ logStart \in 0 .. n - 1 /\ logEnd = logStart
      /\ adding # Nothing /\ ~Log!CanGrow
  BY DEF LogInv, LogType, LogCells, Log!Replace, Log!Ready
<1>1. n > 1
  BY <1>0, LogAssumption DEF Log!CanGrow, Log!Count, RoomForTwo, Log!LogBufferAssumption
<1>2. Log!Past(logStart) = (IF logStart + 1 >= n THEN 0 ELSE logStart + 1)
  BY DEF Log!Past, Log!Count
<1>3. /\ lines' = [lines EXCEPT ![logEnd + 1] = adding]
      /\ dataSize' = dataSize - Log!SizeOf(lines[logEnd + 1]) + adding.size
      /\ logStart' = IF Log!Past(logStart) = logEnd THEN -1 ELSE Log!Past(logStart)
  BY <1>0 DEF Log!Replace, Log!Added, Log!Freed, Log!Cell
<1>4. /\ Len(lines') = n /\ lines'[logEnd + 1] = adding
      /\ \A i \in 0 .. n - 1 : i # logEnd => lines'[i + 1] = lines[i + 1]
      /\ logEnd + 1 \in 1 .. Len(lines) /\ lines[logEnd + 1] \in Places
  BY <1>0, <1>3
<1>5. Log!Past(logStart) # logEnd
  <2>1. CASE logStart + 1 >= n
    BY <1>0, <1>1, <1>2, <2>1
  <2>2. CASE ~(logStart + 1 >= n)
    BY <1>0, <1>2, <2>2
  <2> QED BY <2>1, <2>2
<1>6. Log!Visited' \subseteq 0 .. n - 1 /\ 0 .. n - 1 \subseteq Log!Visited
  <2>1. 0 .. n - 1 \subseteq Log!Visited
    BY <1>0 DEF Log!Visited, Log!Count
  <2>2. logStart' \in Nat /\ logEnd' \in 0 .. n - 1
    BY <1>0, <1>2, <1>3, <1>5 DEF Log!Replace
  <2> QED BY <1>0, <1>4, <2>1, <2>2 DEF Log!Visited, Log!Count
<1>7. \A i \in Log!Visited' : lines'[i + 1] # Nothing
  BY <1>0, <1>4, <1>6 DEF FullInv, Log!Cell
<1>8. ~(logStart' < 0)
  BY <1>0, <1>2, <1>3, <1>5
<1>9. dataSize' = LogSum'
  <2>1. adding.size \in Nat /\ Log!SizeOf(adding) = adding.size /\ adding \in Places
    BY <1>0, Present
  <2>2. LogSum \in Nat /\ LogSum' = LogSum - Log!SizeOf(lines[logEnd + 1]) + Log!SizeOf(adding)
    BY <1>0, <1>3, <1>4, <2>1, TotalChanges
  <2>3. Log!SizeOf(lines[logEnd + 1]) \in Nat
    BY <1>4, SizeIsNat
  <2>4. dataSize = LogSum
    BY DEF FullInv
  <2> QED BY <1>3, <2>1, <2>2, <2>3, <2>4
<1> QED BY <1>7, <1>8, <1>9 DEF FullInv, Log!Cell

\* What is appended, at the beginning or when the vector grows.
LEMMA FullAppended ==
  ASSUME LogInv, FullInv, subject = "log", subject' = subject, Log!Grow \/ Log!Bootstrap
  PROVE  FullInv'
<1> DEFINE n == Len(lines)
<1>0. lines \in Seq(Places) /\ n \in Nat /\ adding # Nothing
  BY DEF LogInv, LogType, Log!Grow, Log!Bootstrap, Log!Ready
<1>1. /\ lines' = Append(lines, adding) /\ logStart' = 0 /\ logEnd' = 0
      /\ dataSize' = dataSize + adding.size
  <2>1. CASE Log!Grow
    BY <2>1 DEF Log!Grow, Log!Ready, Log!CanGrow
  <2>2. CASE Log!Bootstrap
    <3>1. lines = <<>> /\ logEnd = 0
      BY <2>2 DEF Log!Bootstrap, FullInv, LogInv, LogType
    <3> QED BY <2>2, <3>1 DEF Log!Bootstrap
  <2> QED BY <2>1, <2>2
<1>2. \A i \in 0 .. n - 1 : i \in Log!Visited
  <2>1. CASE Log!Grow
    BY <1>0, <2>1 DEF Log!Grow, Log!CanGrow, Log!Visited, Log!Count
  <2>2. CASE Log!Bootstrap
    BY <2>2 DEF Log!Bootstrap, FullInv
  <2> QED BY <2>1, <2>2
<1>3. /\ Len(lines') = n + 1 /\ lines'[n + 1] = adding
      /\ \A i \in 0 .. n - 1 : lines'[i + 1] = lines[i + 1]
  BY <1>0, <1>1
<1>4. Log!Visited' \subseteq 0 .. n
  BY <1>0, <1>1, <1>3 DEF Log!Visited, Log!Count
<1>5. \A i \in Log!Visited' : lines'[i + 1] # Nothing
  <2> SUFFICES ASSUME NEW i \in 0 .. n PROVE lines'[i + 1] # Nothing
    BY <1>4
  <2>1. CASE i = n
    BY <1>0, <1>3, <2>1
  <2>2. CASE i # n
    <3>1. i \in 0 .. n - 1
      BY <1>0, <2>2
    <3> QED BY <1>2, <1>3, <3>1 DEF FullInv, Log!Cell
  <2> QED BY <2>1, <2>2
<1>6. dataSize' = LogSum'
  <2>1. adding.size \in Nat /\ Log!SizeOf(adding) = adding.size /\ adding \in Places
    BY <1>0, Present
  <2>2. LogSum \in Nat /\ LogSum' = LogSum + Log!SizeOf(adding)
    BY <1>0, <1>1, <2>1, TotalAppends
  <2>3. dataSize = LogSum
    BY DEF FullInv
  <2> QED BY <1>1, <2>1, <2>2, <2>3
<1>7. ~(logStart' < 0)
  BY <1>1
<1> QED BY <1>5, <1>6, <1>7 DEF FullInv, Log!Cell

LEMMA FullQuiet ==
  ASSUME FullInv, UNCHANGED <<lines, logStart, logEnd, dataSize, subject>> PROVE FullInv'
  BY DEF FullInv, LogSum, Log!Total, Log!Count, Log!SizeOf, Log!Visited, Log!Cell

LEMMA FullStep ==
  ASSUME RoomForTwo, LogInv, FullInv, [MCNext]_mcVars PROVE FullInv'
<1>1. CASE QueueStep
  BY <1>1, FullQuiet DEF QueueStep, logVars
<1>2. CASE AddLine
  <2>1. CASE Log!Spin
    BY <1>2, <2>1, FullQuiet DEF AddLine, Log!Spin, Log!vars
  <2>2. CASE subject # "log"
    BY <1>2, <2>2 DEF AddLine, FullInv
  <2>3. CASE subject = "log"
    BY <1>2, <2>1, <2>3, FullMakeRoom, FullUse, FullReplace, FullAppended DEF AddLine, Log!AddLine
  <2> QED BY <2>1, <2>2, <2>3
<1>3. CASE BeginAddLine
  BY <1>3, FullQuiet DEF BeginAddLine, Log!Begin
<1>4. CASE ClearLog
  BY <1>4 DEF ClearLog, FullInv
<1>5. CASE TextStep \/ ChunkStep \/ NumberStep
  BY <1>5, FullQuiet DEF TextStep, ChunkStep, NumberStep, logVars
<1>6. CASE UNCHANGED mcVars
  BY <1>6, FullQuiet DEF mcVars, logVars
<1> QED BY <1>1, <1>2, <1>3, <1>4, <1>5, <1>6 DEF MCNext

LEMMA FullInit == MCInit => FullInv
<1> SUFFICES ASSUME MCInit PROVE FullInv
  OBVIOUS
<1>1. lines = <<>> /\ logStart = -1 /\ dataSize = 0
  BY DEF MCInit, Log!Init
<1>2. LogSum = 0
  <2>1. lines \in Seq(Places) /\ Len(lines) = 0
    BY <1>1
  <2>2. Sums(Log!Total, lines)
    BY <2>1, TotalIs
  <2> QED BY <2>1, <2>2, SumsAre DEF LogSum, Log!Count
<1> QED BY <1>1, <1>2 DEF FullInv, Log!Visited

\* What a reader of the log finds: the newest lines, in order, within the limit,
\* and, without clear() and for lines of at most half the limit, no cell that was
\* freed and the size that was counted.
THEOREM LogKeptHolds == ASSUME RoomForTwo PROVE MCSpec => []LogKept
<1>1. MCInit => FullInv
  BY FullInit
<1>2. LogInv /\ FullInv /\ [MCNext]_mcVars => FullInv'
  BY FullStep
<1>3. LogInv /\ FullInv => LogNoHoles /\ LogSizeIsSum
  <2> SUFFICES ASSUME LogInv, FullInv, subject = "log" PROVE Log!NoHoles /\ Log!SizeIsSum
    BY DEF LogNoHoles, LogSizeIsSum
  <2>1. Log!SizeIsSum
    BY DEF FullInv, LogSum, Log!SizeIsSum
  <2>2. ASSUME NEW i \in 0 .. Len(lines) - 1 PROVE Log!Cell(i) # Nothing <=> i \in Log!Visited
    <3>1. CASE Len(lines) > 1
      BY <3>1 DEF FullInv, LogInv, OutsideFree, LogCells, Log!Count
    <3>2. CASE ~(Len(lines) > 1)
      <4>1. Len(lines) = 1 /\ i = 0 /\ logStart = 0
        <5>1. lines \in Seq(Places) /\ Len(lines) \in Nat
          BY DEF LogInv, LogType
        <5>2. Len(lines) = 1 /\ i = 0
          BY <3>2, <5>1
        <5>3. ~(logStart < 0)
          BY <5>2 DEF FullInv
        <5> QED BY <5>2, <5>3 DEF LogInv, LogType, LogCells
      <4>2. i \in Log!Visited
        BY <4>1 DEF Log!Visited, Log!Count, LogInv, LogType, LogCells
      <4> QED BY <4>2 DEF FullInv
    <3> QED BY <3>1, <3>2
  <2> QED BY <2>1, <2>2 DEF Log!NoHoles, Log!Count
<1> QED BY <1>1, <1>2, <1>3, LogInvHolds, NewestWithinLimit, PTL DEF MCSpec, LogKept
-----------------------------------------------------------------------------
LEMMA LargerIs == ASSUME NEW a \in Int, NEW b \in Int PROVE Buf!Max({a, b}) = Larger(a, b)
  BY DEF Buf!Max, Larger

LEMMA SmallerIs == ASSUME NEW a \in Int, NEW b \in Int PROVE Buf!Min({a, b}) = Smaller(a, b)
  BY DEF Buf!Min, Smaller
-----------------------------------------------------------------------------
(* DynBuffer: what each operation makes of the size and of the bytes. *)

Buffer == [bufSize : Nat, data : Seq(Nat)]
IsBuffer(b, size, data) == b \in Buffer /\ b.bufSize = size /\ b.data = data

LEMMA ReserveIs ==
  ASSUME NEW b \in Buffer, NEW size \in Nat
  PROVE  IsBuffer(Buf!reserve(b, size), Larger(b.bufSize, size), b.data)
<1>1. Buf!Max({b.bufSize, size}) = Larger(b.bufSize, size) /\ Larger(b.bufSize, size) \in Nat
  BY LargerIs DEF Buffer, Larger
<1>2. Buf!reserve(b, size) = [b EXCEPT !.bufSize = Larger(b.bufSize, size)]
  BY <1>1 DEF Buf!reserve
<1> QED BY <1>1, <1>2 DEF IsBuffer, Buffer

\* Appending makes as much room as it needs.
LEMMA AppendIs ==
  ASSUME NEW b \in Buffer, NEW bytes \in Seq(Nat)
  PROVE  IsBuffer(Buf!append(b, bytes), Larger(b.bufSize, Len(b.data) + Len(bytes)), b.data \o bytes)
<1> DEFINE size == Len(b.data) + Len(bytes)
           r == Buf!reserve(b, size)
<1>1. size \in Nat /\ b.data \in Seq(Nat) /\ b.data \o bytes \in Seq(Nat) /\ b.bufSize \in Nat
  BY DEF Buffer
<1>2. Buf!append(b, bytes) = [r EXCEPT !.data = @ \o bytes]
  BY DEF Buf!append, Buf!ensureFreeSpace
<1> HIDE DEF size
<1>3. IsBuffer(r, Larger(b.bufSize, size), b.data)
  BY <1>1, ReserveIs
<1> HIDE DEF r
<1>4. IsBuffer([r EXCEPT !.data = @ \o bytes], Larger(b.bufSize, size), b.data \o bytes)
  BY <1>1, <1>3 DEF IsBuffer, Buffer
<1> QED BY <1>2, <1>4 DEF size

\* The text in a buffer, whose bytes are not 0, and perhaps its end; there is room.
TextChars == Nat \ {0}
EndMark == <<0>>
Holds(b, s, e) ==
    /\ s \in Seq(TextChars) /\ e \in BOOLEAN
    /\ IsBuffer(b, b.bufSize, IF e THEN s \o EndMark ELSE s)
    /\ Len(b.data) <= b.bufSize

LEMMA EndMarkIs == EndMark \in Seq(Nat) /\ Len(EndMark) = 1 /\ EndMark[1] = 0
  BY DEF EndMark

\* A text, and a text with its end.
LEMMA TextIs ==
  ASSUME NEW s \in Seq(TextChars)
  PROVE  /\ s \in Seq(Nat) /\ Len(s) \in Nat /\ \A i \in 1 .. Len(s) : s[i] # 0
         /\ s \o EndMark \in Seq(Nat) /\ Len(s \o EndMark) = Len(s) + 1
         /\ (s \o EndMark)[Len(s) + 1] = 0
         /\ \A i \in 1 .. Len(s) : (s \o EndMark)[i] = s[i]
<1>1. s \in Seq(Nat) /\ Len(s) \in Nat /\ \A i \in 1 .. Len(s) : s[i] # 0
  BY DEF TextChars
<1> DEFINE m == EndMark
<1>a. m \in Seq(Nat) /\ Len(m) = 1 /\ m[1] = 0
  BY EndMarkIs
<1> HIDE DEF m
<1>2. /\ s \o m \in Seq(Nat) /\ Len(s \o m) = Len(s) + 1
      /\ \A i \in 1 .. Len(s) + 1 : (s \o m)[i] = IF i <= Len(s) THEN s[i] ELSE m[i - Len(s)]
  <2>1. /\ s \o m \in Seq(Nat) /\ Len(s \o m) = Len(s) + Len(m)
        /\ \A i \in 1 .. Len(s) + Len(m) : (s \o m)[i] = IF i <= Len(s) THEN s[i] ELSE m[i - Len(s)]
    BY <1>1, <1>a, ConcatProperties
  <2> QED BY <1>1, <1>a, <2>1
<1>3. (s \o m)[Len(s) + 1] = 0 /\ \A i \in 1 .. Len(s) : (s \o m)[i] = s[i]
  BY <1>1, <1>a, <1>2
<1> QED BY <1>1, <1>2, <1>3 DEF m

\* Whether there is an end is seen from the last byte.
LEMMA EndedIs == ASSUME NEW b, NEW s, NEW e, Holds(b, s, e) PROVE Buf!Ended(b) <=> e
<1> USE DEF Holds, IsBuffer, Buf!Ended, Buf!Last
<1>1. CASE e
  <2>1. b.data = s \o EndMark
    BY <1>1
  <2>2. Len(b.data) = Len(s) + 1 /\ b.data[Len(s) + 1] = 0 /\ Len(s) \in Nat
    BY <2>1, TextIs
  <2>3. b.data # <<>>
    BY <2>2
  <2> QED BY <1>1, <2>2, <2>3
<1>2. CASE ~e
  <2>1. b.data = s
    BY <1>2
  <2>2. s \in Seq(Nat) /\ \A i \in 1 .. Len(s) : s[i] # 0
    BY TextIs
  <2>3. s # <<>> => s[Len(s)] # 0
    BY <2>2
  <2> QED BY <1>2, <2>1, <2>3
<1> QED BY <1>1, <1>2 DEF Holds

\* What is appended to an open text goes behind it: its end is gone.
LEMMA OpenIs ==
  ASSUME NEW b, NEW s, NEW e, Holds(b, s, e)
  PROVE  Holds(Buf!Open(b), s, FALSE) /\ Buf!Open(b).bufSize = b.bufSize
<1>1. Buf!Open(b) = IF e THEN [b EXCEPT !.data = Buf!Front(@)] ELSE b
  BY EndedIs DEF Buf!Open, Buf!Reopen
<1>2. b \in Buffer /\ s \in Seq(TextChars) /\ e \in BOOLEAN /\ Len(b.data) <= b.bufSize
  BY DEF Holds, IsBuffer
<1>3. CASE ~e
  BY <1>1, <1>3 DEF Holds
<1>4. CASE e
  <2> DEFINE d == b.data
  <2>1. /\ d \in Seq(Nat) /\ s \in Seq(Nat) /\ Len(d) = Len(s) + 1 /\ Len(s) \in Nat
        /\ \A i \in 1 .. Len(s) : d[i] = s[i]
    BY <1>2, <1>4, TextIs DEF Holds, IsBuffer, Buffer
  <2>2. Buf!Front(d) = SubSeq(d, 1, Len(s))
    BY <2>1 DEF Buf!Front
  <2> HIDE DEF d
  <2>3. SubSeq(d, 1, Len(s)) = s
    <3>1. \A i \in 1 .. Len(s) : d[i] \in Nat
      BY <2>1
    <3>2. /\ SubSeq(d, 1, Len(s)) \in Seq(Nat) /\ Len(SubSeq(d, 1, Len(s))) = Len(s)
          /\ \A i \in 1 .. Len(s) : SubSeq(d, 1, Len(s))[i] = d[i]
      BY <2>1, <3>1
    <3> QED BY <2>1, <3>2, SeqEqual
  <2>4. Buf!Open(b) = [b EXCEPT !.data = s]
    BY <1>1, <1>2, <1>4, <2>2, <2>3 DEF d, Buffer
  <2>5. Len(s) <= b.bufSize
    BY <1>2, <2>1 DEF d, Buffer
  <2> QED BY <1>2, <2>1, <2>4, <2>5 DEF Holds, IsBuffer, Buffer
<1> QED BY <1>2, <1>3, <1>4

\* Two texts, one behind the other.
LEMMA TwoTexts ==
  ASSUME NEW s \in Seq(TextChars), NEW t \in Seq(TextChars)
  PROVE  s \o t \in Seq(TextChars) /\ (s \o t) \o EndMark = s \o (t \o EndMark)
<1>1. s \in Seq(Nat) /\ t \in Seq(Nat)
  BY TextIs
<1>2. s \o t \in Seq(TextChars)
  BY ConcatProperties
<1> QED BY <1>1, <1>2, EndMarkIs, ConcatAssociative

LEMMA AppendText ==
  ASSUME NEW b, NEW s, Holds(b, s, FALSE), NEW t \in Seq(TextChars)
  PROVE  Holds(Buf!append(b, t), s \o t, FALSE) /\ Holds(Buf!append(b, t \o EndMark), s \o t, TRUE)
<1>1. b \in Buffer /\ b.data = s /\ s \in Seq(TextChars) /\ b.bufSize \in Nat
  BY DEF Holds, IsBuffer, Buffer
<1>2. s \in Seq(Nat) /\ t \in Seq(Nat) /\ t \o EndMark \in Seq(Nat)
  BY <1>1, TextIs
<1>3. ASSUME NEW x \in Seq(Nat)
      PROVE  /\ IsBuffer(Buf!append(b, x), Buf!append(b, x).bufSize, s \o x)
             /\ Len(Buf!append(b, x).data) <= Buf!append(b, x).bufSize
  <2>1. IsBuffer(Buf!append(b, x), Larger(b.bufSize, Len(s) + Len(x)), s \o x)
    BY <1>1, AppendIs
  <2>2. Len(s \o x) = Len(s) + Len(x) /\ Len(s) + Len(x) \in Nat
    BY <1>2, ConcatProperties
  <2> QED BY <1>1, <2>1, <2>2 DEF IsBuffer, Larger
<1>4. s \o t \in Seq(TextChars) /\ (s \o t) \o EndMark = s \o (t \o EndMark)
  BY <1>1, TwoTexts
<1>5. Holds(Buf!append(b, t), s \o t, FALSE)
  BY <1>2, <1>3, <1>4 DEF Holds
<1>6. Holds(Buf!append(b, t \o EndMark), s \o t, TRUE)
  BY <1>2, <1>3, <1>4 DEF Holds
<1> QED BY <1>5, <1>6

\* An end for what has none.
LEMMA AppendEnd ==
  ASSUME NEW b, NEW s, Holds(b, s, FALSE) PROVE Holds(Buf!append(b, EndMark), s, TRUE)
<1>1. s \in Seq(TextChars)
  BY DEF Holds
<1>2. <<>> \in Seq(TextChars) /\ s \o <<>> = s /\ <<>> \o EndMark = EndMark
  BY <1>1, EndMarkIs, ConcatEmptySeq
<1> DEFINE z == <<>>
<1>3. z \in Seq(TextChars) /\ s \o z = s /\ z \o EndMark = EndMark
  BY <1>2
<1> HIDE DEF z
<1>4. Holds(Buf!append(b, z \o EndMark), s \o z, TRUE)
  BY <1>3, AppendText
<1> QED BY <1>3, <1>4

LEMMA AppendStrIs ==
  ASSUME NEW b, NEW s, NEW e, Holds(b, s, e), NEW t \in Seq(TextChars), NEW terminate \in BOOLEAN,
         t = <<>> /\ terminate => ~e
  PROVE  Holds(Buf!appendStr(b, t, terminate), s \o t, IF t = <<>> /\ ~terminate THEN e ELSE terminate)
<1>1. s \in Seq(TextChars)
  BY DEF Holds
<1>2. CASE t = <<>>
  <2>1. s \o t = s
    BY <1>1, <1>2, ConcatEmptySeq
  <2>2. CASE terminate
    <3>1. Holds(b, s, FALSE)
      BY <1>2, <2>2 DEF Holds
    <3>2. Buf!appendStr(b, t, terminate) = Buf!append(b, EndMark)
      BY <1>2, <2>2 DEF Buf!appendStr, EndMark
    <3> QED BY <1>2, <2>1, <2>2, <3>1, <3>2, AppendEnd
  <2>3. CASE ~terminate
    BY <1>2, <2>1, <2>3 DEF Buf!appendStr
  <2> QED BY <2>2, <2>3
<1>3. CASE t # <<>>
  <2>1. Holds(Buf!Open(b), s, FALSE)
    BY OpenIs
  <2>2. CASE terminate
    <3>1. Buf!appendStr(b, t, terminate) = Buf!append(Buf!Open(b), t \o EndMark)
      BY <1>3, <2>2 DEF Buf!appendStr, EndMark
    <3> QED BY <1>3, <2>1, <2>2, <3>1, AppendText
  <2>3. CASE ~terminate
    <3>1. Buf!appendStr(b, t, terminate) = Buf!append(Buf!Open(b), t)
      BY <1>3, <2>3 DEF Buf!appendStr
    <3>2. Holds(Buf!append(Buf!Open(b), t), s \o t, FALSE)
      BY <2>1, AppendText
    <3> QED BY <1>3, <2>3, <3>1, <3>2
  <2> QED BY <2>2, <2>3
<1> QED BY <1>2, <1>3

\* More room changes nothing of the text.
LEMMA ReserveHolds ==
  ASSUME NEW b, NEW s, NEW e, Holds(b, s, e), NEW size \in Nat PROVE Holds(Buf!reserve(b, size), s, e)
<1>1. b \in Buffer /\ b.bufSize \in Nat /\ Len(b.data) \in Nat /\ Len(b.data) <= b.bufSize
  BY DEF Holds, IsBuffer, Buffer
<1>2. IsBuffer(Buf!reserve(b, size), Larger(b.bufSize, size), b.data)
  BY <1>1, ReserveIs
<1> QED BY <1>1, <1>2 DEF Holds, IsBuffer, Larger

LEMMA PrintfIs ==
  ASSUME NEW b, NEW s, NEW e, Holds(b, s, e), NEW t \in Seq(TextChars) PROVE Holds(Buf!vprintf(b, t), s \o t, TRUE)
<1> DEFINE open == Buf!Open(b)
           room == Buf!ensureFreeSpace(open, Len(t) + 1)
<1>1. Holds(open, s, FALSE)
  BY OpenIs
<1>2. Len(open.data) + (Len(t) + 1) \in Nat
  BY <1>1 DEF Holds, IsBuffer, Buffer
<1> HIDE DEF open
<1>3. Holds(room, s, FALSE)
  BY <1>1, <1>2, ReserveHolds DEF Buf!ensureFreeSpace
<1> HIDE DEF room
<1>4. \/ Buf!vprintf(b, t) = Buf!append(open, t \o EndMark)
      \/ Buf!vprintf(b, t) = Buf!append(room, t \o EndMark)
  BY DEF Buf!vprintf, EndMark, open, room
<1> QED BY <1>1, <1>3, <1>4, AppendText

LEMMA NullTerminateIs ==
  ASSUME NEW b, NEW s, NEW e, Holds(b, s, e) PROVE Holds(Buf!nullTerminate(b), s, TRUE)
<1>1. CASE e
  BY <1>1, EndedIs DEF Buf!nullTerminate, Holds
<1>2. CASE ~e
  <2>1. Holds(b, s, FALSE)
    BY <1>2 DEF Holds
  <2>2. Buf!nullTerminate(b) = Buf!append(b, EndMark)
    BY <1>2, EndedIs DEF Buf!nullTerminate, EndMark
  <2> QED BY <2>1, <2>2, AppendEnd
<1> QED BY <1>1, <1>2

\* The first bytes of a text; of one with an end, without it.
LEMMA Beginning ==
  ASSUME NEW s \in Seq(TextChars), NEW n \in 0 .. Len(s)
  PROVE  SubSeq(s, 1, n) \in Seq(TextChars) /\ SubSeq(s \o EndMark, 1, n) = SubSeq(s, 1, n)
<1> DEFINE m == s \o EndMark
<1>1. /\ s \in Seq(Nat) /\ m \in Seq(Nat) /\ Len(m) = Len(s) + 1 /\ Len(s) \in Nat
      /\ \A i \in 1 .. Len(s) : m[i] = s[i]
  BY TextIs
<1>2. \A i \in 1 .. n : s[i] \in TextChars /\ m[i] = s[i] /\ s[i] \in Nat /\ m[i] \in Nat
  BY <1>1 DEF TextChars
<1> HIDE DEF m
<1>3. SubSeq(s, 1, n) \in Seq(TextChars)
  BY <1>1, <1>2, SubSeqProperties
<1>4. /\ SubSeq(s, 1, n) \in Seq(Nat) /\ Len(SubSeq(s, 1, n)) = n
      /\ \A i \in 1 .. n : SubSeq(s, 1, n)[i] = s[i]
  BY <1>1, <1>2
<1>5. /\ SubSeq(m, 1, n) \in Seq(Nat) /\ Len(SubSeq(m, 1, n)) = n
      /\ \A i \in 1 .. n : SubSeq(m, 1, n)[i] = m[i]
  BY <1>1, <1>2
<1>6. SubSeq(m, 1, n) = SubSeq(s, 1, n)
  BY <1>2, <1>4, <1>5, SeqEqual
<1> QED BY <1>3, <1>6 DEF m

\* What is left when characters are cut off, the end first.
LeftOf(s, e, num) == Larger(0, Len(s) + (IF e THEN 1 ELSE 0) - num)

LEMMA TruncateIs ==
  ASSUME NEW b, NEW s, NEW e, Holds(b, s, e), NEW num \in Nat \ {0}, NEW left, left = LeftOf(s, e, num)
  PROVE  Holds(Buf!truncateChar(b, num), SubSeq(s, 1, left), FALSE) /\ left \in 0 .. Len(s)
<1>1. b \in Buffer /\ s \in Seq(TextChars) /\ e \in BOOLEAN /\ Len(b.data) <= b.bufSize
  BY DEF Holds, IsBuffer
<1>2. /\ Len(s) \in Nat /\ s \in Seq(Nat) /\ Len(s \o EndMark) = Len(s) + 1 /\ b.bufSize \in Nat
      /\ s \o EndMark \in Seq(Nat)
  BY <1>1, TextIs DEF Buffer
<1>3. Len(b.data) = Len(s) + (IF e THEN 1 ELSE 0)
  BY <1>1, <1>2 DEF Holds, IsBuffer
<1>4. left \in 0 .. Len(s) /\ left <= b.bufSize
  BY <1>1, <1>2, <1>3 DEF Larger, LeftOf
<1>5. Buf!Max({0, Len(b.data) - num}) = left
  <2>1. Len(b.data) - num \in Int /\ 0 \in Int
    BY <1>2, <1>3
  <2>2. Buf!Max({0, Len(b.data) - num}) = Larger(0, Len(b.data) - num)
    BY <2>1, LargerIs
  <2> QED BY <1>3, <2>2 DEF LeftOf
<1>6. Buf!truncateChar(b, num) = [b EXCEPT !.data = SubSeq(b.data, 1, left)]
  BY <1>1, <1>5 DEF Buf!truncateChar, Buffer
<1>7. SubSeq(s, 1, left) \in Seq(TextChars) /\ SubSeq(b.data, 1, left) = SubSeq(s, 1, left)
  <2>1. SubSeq(s, 1, left) \in Seq(TextChars) /\ SubSeq(s \o EndMark, 1, left) = SubSeq(s, 1, left)
    BY <1>1, <1>4, Beginning
  <2>2. b.data = s \o EndMark \/ b.data = s
    BY DEF Holds, IsBuffer
  <2> QED BY <2>1, <2>2
<1>8. SubSeq(s, 1, left) \in Seq(Nat) /\ Len(SubSeq(s, 1, left)) = left
  <2>1. SubSeq(s, 1, left) \in Seq(Nat)
    BY <1>7, TextIs
  <2>2. \A i \in 1 .. left : s[i] \in Nat
    BY <1>2, <1>4
  <2>3. Len(SubSeq(s, 1, left)) = left
    BY <1>2, <1>4, <2>2
  <2> QED BY <2>1, <2>3
<1> DEFINE t == SubSeq(s, 1, left)
<1>9. t \in Seq(TextChars) /\ t \in Seq(Nat) /\ Len(t) = left /\ Buf!truncateChar(b, num) = [b EXCEPT !.data = t]
  BY <1>6, <1>7, <1>8
<1> HIDE DEF t
<1>10. Holds(Buf!truncateChar(b, num), t, FALSE)
  BY <1>1, <1>2, <1>4, <1>9 DEF Holds, IsBuffer, Buffer
<1> QED BY <1>4, <1>10 DEF t

LEMMA NothingHeld ==
  ASSUME NEW b \in Buffer PROVE Holds(Buf!clear(b), <<>>, FALSE) /\ Holds(Buf!Empty, <<>>, FALSE)
<1> DEFINE z == <<>>
<1>1. z \in Seq(TextChars) /\ z \in Seq(Nat) /\ Len(z) = 0
  OBVIOUS
<1>2. Buf!clear(b) = [b EXCEPT !.data = z] /\ Buf!Empty = [bufSize |-> 0, data |-> z]
  BY DEF Buf!clear, Buf!Empty
<1> HIDE DEF z
<1> DEFINE r == [b EXCEPT !.data = z]
<1>a. r \in Buffer /\ r.data = z /\ r.bufSize \in Nat
  BY <1>1 DEF Buffer
<1> HIDE DEF r
<1>3. Holds(r, z, FALSE)
  BY <1>1, <1>a DEF Holds, IsBuffer
<1>4. Holds([bufSize |-> 0, data |-> z], z, FALSE)
  BY <1>1 DEF Holds, IsBuffer, Buffer
<1> QED BY <1>2, <1>3, <1>4 DEF r, z
-----------------------------------------------------------------------------
(* DynBuffer in use. *)

TextInv == Holds(buf, text, ended)

LEMMA PieceIsText == ASSUME NEW t \in Buf!Pieces PROVE t \in Seq(TextChars)
<1>1. PICK n \in 0 .. MaxPiece : t \in [1 .. n -> Bytes]
  BY DEF Buf!Pieces, Buf!SeqOf
<1>2. Bytes \subseteq TextChars
  BY UseAssumption DEF Buf!BufferAssumption, TextChars
<1>3. n \in Nat /\ t \in [1 .. n -> TextChars]
  BY <1>1, <1>2
<1> QED BY <1>3

LEMMA TextInvInit == Buf!Init => TextInv
<1>1. [bufSize |-> 0, data |-> <<>>] \in Buffer
  BY DEF Buffer
<1> QED BY <1>1, NothingHeld DEF Buf!Init, TextInv

LEMMA TextInvStep == ASSUME TextInv, [Buf!TextStep]_<<buf, text, ended>> PROVE TextInv'
<1> USE DEF TextInv
<1>1. CASE UNCHANGED <<buf, text, ended>>
  BY <1>1 DEF Holds, IsBuffer
<1>2. ASSUME NEW t \in Buf!Pieces, NEW terminate \in BOOLEAN, Buf!AppendStr(t, terminate) PROVE TextInv'
  <2>1. Holds(Buf!appendStr(buf, t, terminate), text \o t, IF t = <<>> /\ ~terminate THEN ended ELSE terminate)
    BY <1>2, PieceIsText, AppendStrIs DEF Buf!AppendStr
  <2> QED BY <1>2, <2>1 DEF Buf!AppendStr, Buf!Grows
<1>3. ASSUME NEW t \in Buf!Pieces, Buf!AppendBytes(t) PROVE TextInv'
  <2>1. Holds(buf, text, FALSE) /\ ended' = FALSE
    BY <1>3 DEF Buf!AppendBytes, Holds
  <2>2. Holds(Buf!append(buf, t), text \o t, FALSE)
    BY <2>1, PieceIsText, AppendText
  <2> QED BY <1>3, <2>1, <2>2 DEF Buf!AppendBytes, Buf!Grows
<1>4. ASSUME NEW t \in Buf!Pieces, Buf!Printf(t) PROVE TextInv'
  <2>1. Holds(Buf!vprintf(buf, t), text \o t, TRUE)
    BY PieceIsText, PrintfIs
  <2> QED BY <1>4, <2>1 DEF Buf!Printf, Buf!Grows
<1>5. CASE Buf!NullTerminate
  BY <1>5, NullTerminateIs DEF Buf!NullTerminate
<1>6. CASE Buf!Reserve
  <2>1. PICK size \in Reserves : buf' = Buf!reserve(buf, size) /\ UNCHANGED <<text, ended>>
    BY <1>6 DEF Buf!Reserve
  <2>2. size \in Nat
    BY <2>1, UseAssumption DEF Buf!BufferAssumption
  <2>3. Holds(Buf!reserve(buf, size), text, ended)
    BY <2>2, ReserveHolds
  <2> QED BY <2>1, <2>3
<1>7. ASSUME NEW num \in 1 .. 2, Buf!TruncateChar(num) PROVE TextInv'
  <2> DEFINE left == LeftOf(text, ended, num)
  <2>1. text \in Seq(TextChars) /\ text \in Seq(Nat) /\ Len(text) \in Nat /\ ended \in BOOLEAN
    BY TextIs DEF Holds
  <2>2. num \in Nat \ {0} /\ left = LeftOf(text, ended, num)
    OBVIOUS
  <2>a. Buf!Max({0, Len(text) + (IF ended THEN 1 ELSE 0) - num}) = left
    BY <2>1, LargerIs DEF LeftOf
  <2> HIDE DEF left
  <2>3. Holds(Buf!truncateChar(buf, num), SubSeq(text, 1, left), FALSE) /\ left \in 0 .. Len(text)
    BY <2>2, TruncateIs
  <2>4. (left > Len(text)) = FALSE
    BY <2>1, <2>3
  <2>5. /\ buf' = Buf!truncateChar(buf, num)
        /\ text' = IF left > Len(text) THEN text ELSE SubSeq(text, 1, left)
        /\ ended' = (left > Len(text))
    BY <1>7, <2>a DEF Buf!TruncateChar
  <2>6. text' = SubSeq(text, 1, left) /\ ended' = FALSE
    BY <2>4, <2>5
  <2> QED BY <2>3, <2>5, <2>6
<1>8. CASE Buf!Clear \/ Buf!FreeBuf
  <2>1. buf \in Buffer
    BY DEF Holds, IsBuffer
  <2> QED BY <1>8, <2>1, NothingHeld DEF Buf!Clear, Buf!FreeBuf
<1> QED BY <1>1, <1>2, <1>3, <1>4, <1>5, <1>6, <1>7, <1>8 DEF Buf!TextStep
-----------------------------------------------------------------------------
(* Pieces put one after the other. *)

\* The sequences up to each place, one after the other.
Joined(T, q) == T = [i \in 1 .. Len(q) |-> IF i = 1 THEN q[i] ELSE T[i - 1] \o q[i]]

LEMMA JoinedExists == ASSUME NEW R, NEW q \in Seq(R), Len(q) > 0 PROVE \E T : Joined(T, q)
<1> DEFINE Upto(T, n) == T = [i \in 1 .. n + 1 |-> IF i = 1 THEN q[i] ELSE T[i - 1] \o q[i]]
           S == {n \in 0 .. Len(q) - 1 : \E T : Upto(T, n)}
<1>1. 0 \in S
  <2> DEFINE T == [i \in 1 .. 0 + 1 |-> q[1]]
  <2>1. T = [i \in 1 .. 0 + 1 |-> IF i = 1 THEN q[i] ELSE T[i - 1] \o q[i]]
    OBVIOUS
  <2>2. Upto(T, 0)
    BY <2>1
  <2>3. 0 \in 0 .. Len(q) - 1
    OBVIOUS
  <2> HIDE DEF T
  <2> QED BY <2>2, <2>3
<1>2. ASSUME NEW n \in 0 .. (Len(q) - 1) - 1, n \in S PROVE n + 1 \in S
  <2>1. PICK T : Upto(T, n)
    BY <1>2
  <2> DEFINE k == n + 1
             v == T[k] \o q[k + 1]
             U == [i \in 1 .. k + 1 |-> IF i = k + 1 THEN v ELSE T[i]]
  <2>2. T = [i \in 1 .. k |-> IF i = 1 THEN q[i] ELSE T[i - 1] \o q[i]]
    BY <2>1
  <2>3. k \in Nat \ {0}
    OBVIOUS
  <2> HIDE DEF k, v
  <2>4. U[k + 1] = v /\ \A i \in 1 .. k : U[i] = T[i]
    BY <2>3
  <2>5. ASSUME NEW i \in 1 .. k + 1
        PROVE  U[i] = IF i = 1 THEN q[i] ELSE U[i - 1] \o q[i]
    <3>1. CASE i = k + 1
      <4>1. i # 1 /\ i - 1 = k /\ k \in 1 .. k
        BY <2>3, <3>1
      <4>2. U[i - 1] = T[k]
        BY <2>4, <4>1
      <4> QED BY <2>4, <3>1, <4>1, <4>2 DEF v
    <3>2. CASE i # k + 1
      <4>1. i \in 1 .. k /\ U[i] = T[i]
        BY <2>3, <2>4, <3>2
      <4>2. i # 1 => U[i - 1] = T[i - 1]
        BY <2>3, <2>4, <4>1
      <4>3. T[i] = IF i = 1 THEN q[i] ELSE T[i - 1] \o q[i]
        BY <2>2, <4>1
      <4> QED BY <4>1, <4>2, <4>3
    <3> QED BY <3>1, <3>2
  <2>6. U = [i \in 1 .. k + 1 |-> IF i = 1 THEN q[i] ELSE U[i - 1] \o q[i]]
    BY <2>5, Zenon
  <2>7. Upto(U, n + 1)
    BY <2>6 DEF k
  <2>8. n + 1 \in 0 .. Len(q) - 1
    OBVIOUS
  <2> HIDE DEF U, Upto
  <2> QED BY <2>7, <2>8
<1>3. Len(q) - 1 \in S
  <2>1. Len(q) - 1 \in Nat
    OBVIOUS
  <2> HIDE DEF S
  <2>2. \A k \in 0 .. Len(q) - 1 : k \in S
    BY <1>1, <1>2, <2>1, UpTo
  <2> QED BY <2>1, <2>2
<1>4. PICK T : Upto(T, Len(q) - 1)
  BY <1>3
<1>5. (Len(q) - 1) + 1 = Len(q)
  OBVIOUS
<1> QED BY <1>4, <1>5 DEF Joined

LEMMA FlattenIs ==
  ASSUME NEW R, NEW q \in Seq(R), NEW n \in Nat \ {0}, Len(q) = n
  PROVE  \E T : /\ T[1] = q[1] /\ Buf!FlattenSeq(q) = T[n]
                /\ \A i \in 2 .. n : T[i] = T[i - 1] \o q[i]
<1> DEFINE F == CHOOSE T : Joined(T, q)
<1>1. Joined(F, q)
  BY JoinedExists
<1>2. Buf!FlattenSeq(q) = F[n]
  BY DEF Buf!FlattenSeq, Joined
<1>3. F = [i \in 1 .. n |-> IF i = 1 THEN q[i] ELSE F[i - 1] \o q[i]]
  BY <1>1 DEF Joined
<1> HIDE DEF F
<1>4. F[1] = q[1] /\ \A i \in 2 .. n : F[i] = F[i - 1] \o q[i]
  <2>1. F[1] = q[1]
    BY <1>3
  <2>2. ASSUME NEW i \in 2 .. n PROVE F[i] = F[i - 1] \o q[i]
    <3>1. i \in 1 .. n /\ i # 1
      OBVIOUS
    <3>2. F[i] = IF i = 1 THEN q[i] ELSE F[i - 1] \o q[i]
      BY <1>3, <3>1
    <3> QED BY <3>1, <3>2
  <2> QED BY <2>1, <2>2
<1> QED BY <1>2, <1>4


\* The bytes of data after the first a of them, up to the b-th.
IsPart(bytes, data, a, b) ==
    /\ bytes \in Seq(Nat) /\ a \in Nat /\ b \in Nat /\ a <= b /\ Len(bytes) = b - a
    /\ \A j \in 1 .. b - a : bytes[j] = data[a + j]

LEMMA PartsJoin ==
  ASSUME NEW data, NEW s, NEW t, NEW z, NEW a, NEW b, z = 0, IsPart(s, data, z, a), IsPart(t, data, a, b)
  PROVE  IsPart(s \o t, data, z, b)
<1>1. /\ s \in Seq(Nat) /\ t \in Seq(Nat) /\ a \in Nat /\ b \in Nat /\ a <= b /\ Len(s) = a /\ Len(t) = b - a
      /\ \A j \in 1 .. b - a : t[j] = data[a + j]
      /\ \A j \in 1 .. a : s[j] = data[j]
  BY DEF IsPart
<1>2. /\ s \o t \in Seq(Nat) /\ Len(s \o t) = Len(s) + Len(t)
      /\ \A j \in 1 .. Len(s) + Len(t) : (s \o t)[j] = IF j <= Len(s) THEN s[j] ELSE t[j - Len(s)]
  BY <1>1, ConcatProperties
<1> DEFINE u == s \o t
<1>3. u \in Seq(Nat) /\ Len(u) = b /\ \A j \in 1 .. b : u[j] = IF j <= a THEN s[j] ELSE t[j - a]
  <2>1. Len(s) + Len(t) = b
    BY <1>1
  <2> QED BY <1>1, <1>2, <2>1
<1> HIDE DEF u
<1>4. ASSUME NEW j \in 1 .. b PROVE u[j] = data[j]
  <2>1. CASE j <= a
    BY <1>1, <1>3, <2>1
  <2>2. CASE ~(j <= a)
    <3>1. j - a \in 1 .. b - a /\ a + (j - a) = j
      BY <1>1, <2>2
    <3>2. t[j - a] = data[a + (j - a)]
      BY <1>1, <3>1
    <3> QED BY <1>3, <2>2, <3>1, <3>2
  <2> QED BY <2>1, <2>2
<1>5. IsPart(u, data, 0, b)
  BY <1>1, <1>3, <1>4 DEF IsPart
<1> QED BY <1>5 DEF u

LEMMA WholeChunks ==
  ASSUME NEW data \in Seq(Nat), NEW s, NEW z, NEW n, z = 0, n = Len(data), IsPart(s, data, z, n)
  PROVE  s = data
<1>1. s \in Seq(Nat) /\ Len(s) = Len(data) /\ \A j \in 1 .. Len(s) : s[j] = data[j]
  BY DEF IsPart
<1> QED BY <1>1, SeqEqual

\* Pieces that go on where the one before ends, from the beginning to the end.
LEMMA FlattenParts ==
  ASSUME NEW data \in Seq(Nat), NEW n \in Nat \ {0}, NEW q, q = [i \in 1 .. n |-> q[i]], NEW e,
         e[0] = 0, e[n] = Len(data), \A i \in 1 .. n : IsPart(q[i], data, e[i - 1], e[i])
  PROVE  Buf!FlattenSeq(q) = data
<1>1. q \in Seq(Seq(Nat)) /\ Len(q) = n
  <2>1. \A i \in 1 .. n : q[i] \in Seq(Nat)
    BY DEF IsPart
  <2>2. q \in [1 .. n -> Seq(Nat)]
    BY <2>1
  <2> QED BY <2>2
<1>2. PICK T : /\ T[1] = q[1] /\ Buf!FlattenSeq(q) = T[n]
               /\ \A i \in 2 .. n : T[i] = T[i - 1] \o q[i]
  BY <1>1, FlattenIs
<1> DEFINE Upto(k) == IsPart(T[k + 1], data, e[0], e[k + 1])
           S == {k \in 0 .. n - 1 : Upto(k)}
<1>3. 0 \in S
  <2>1. 1 \in 1 .. n /\ 1 - 1 = 0 /\ 0 + 1 = 1 /\ 0 \in 0 .. n - 1
    OBVIOUS
  <2>2. IsPart(q[1], data, e[1 - 1], e[1])
    BY <2>1
  <2> QED BY <1>2, <2>1, <2>2
<1>4. ASSUME NEW k \in 0 .. (n - 1) - 1, k \in S PROVE k + 1 \in S
  <2> DEFINE i == k + 2
  <2>1. i \in 2 .. n /\ i \in 1 .. n /\ i - 1 = k + 1 /\ i = (k + 1) + 1 /\ k + 1 \in 0 .. n - 1
    OBVIOUS
  <2> HIDE DEF i
  <2>2. IsPart(T[i - 1], data, e[0], e[i - 1])
    BY <1>4, <2>1
  <2>3. IsPart(q[i], data, e[i - 1], e[i])
    BY <2>1
  <2>4. IsPart(T[i - 1] \o q[i], data, e[0], e[i])
    BY <2>2, <2>3, PartsJoin
  <2>5. IsPart(T[i], data, e[0], e[i])
    BY <1>2, <2>1, <2>4
  <2>6. Upto(k + 1)
    BY <2>1, <2>5
  <2> QED BY <2>1, <2>6
<1>5. n - 1 \in S
  <2>1. n - 1 \in Nat
    OBVIOUS
  <2> HIDE DEF S
  <2>2. \A k \in 0 .. n - 1 : k \in S
    BY <1>3, <1>4, <2>1, UpTo
  <2> QED BY <2>1, <2>2
<1>6. IsPart(T[n], data, e[0], e[n])
  <2>1. (n - 1) + 1 = n
    OBVIOUS
  <2> QED BY <1>5, <2>1
<1>7. T[n] = data
  BY <1>6, WholeChunks
<1> QED BY <1>2, <1>7

\* A text of printable characters is printed as it is.
LEMMA PrintedIs ==
  ASSUME NEW b, NEW s, Holds(b, s, FALSE), s # <<>>, \A i \in DOMAIN s : s[i] \in Buf!Printable
  PROVE  Buf!toString(b) = s \o <<0>>
<1> DEFINE n == Len(s)
           q == [i \in 1 .. n |-> <<s[i]>>]
           e == [i \in 0 .. n |-> i]
<1>1. b.data = s /\ s \in Seq(Nat) /\ n \in Nat \ {0} /\ DOMAIN s = 1 .. n
  <2>1. b.data = s /\ s \in Seq(Nat)
    BY TextIs DEF Holds, IsBuffer
  <2> QED BY <2>1
<1>2. Buf!toString(b) = Buf!FlattenSeq(q) \o <<0>>
  <2>1. \A i \in DOMAIN s : s[i] \in 32 .. 126 \ {92}
    BY DEF Buf!Printable
  <2>2. [i \in DOMAIN s |-> IF s[i] \in 32 .. 126 \ {92} THEN <<s[i]>> ELSE <<92, s[i]>>] = q
    BY <1>1, <2>1
  <2> HIDE DEF n, q
  <2> QED BY <1>1, <2>2 DEF Buf!toString
<1> HIDE DEF n
<1>3. ASSUME NEW i \in 1 .. n PROVE IsPart(q[i], s, e[i - 1], e[i])
  <2>1. i - 1 \in 0 .. n /\ i \in 0 .. n
    BY <1>1
  <2>2. e[i - 1] = i - 1 /\ e[i] = i
    BY <2>1
  <2> DEFINE t == <<s[i]>>
  <2>3. t \in Seq(Nat) /\ Len(t) = 1 /\ t[1] = s[i]
    BY <1>1
  <2> HIDE DEF t
  <2>4. IsPart(t, s, i - 1, i)
    BY <1>1, <2>1, <2>3 DEF IsPart
  <2> QED BY <2>2, <2>4 DEF t
<1>4. e[0] = 0 /\ e[n] = Len(s)
  BY <1>1 DEF n
<1>5. q = [i \in 1 .. n |-> q[i]]
  OBVIOUS
<1> HIDE DEF q, e
<1>6. Buf!FlattenSeq(q) = s
  BY <1>1, <1>3, <1>4, <1>5, FlattenParts
<1> QED BY <1>2, <1>6

LEMMA TextHeldFrom == TextInv => Buf!TextHeld
<1> SUFFICES ASSUME TextInv PROVE Buf!TextHeld
  OBVIOUS
<1>1. buf.data = (IF ended THEN text \o <<0>> ELSE text) /\ Len(buf.data) <= buf.bufSize
  BY DEF TextInv, Holds, IsBuffer, EndMark
<1>2. text # <<>> /\ ~ended /\ (\A i \in DOMAIN text : text[i] \in Buf!Printable)
        => Buf!toString(buf) = text \o <<0>>
  <2> SUFFICES ASSUME text # <<>>, ~ended, \A i \in DOMAIN text : text[i] \in Buf!Printable
               PROVE  Buf!toString(buf) = text \o <<0>>
    OBVIOUS
  <2>1. Holds(buf, text, FALSE)
    BY DEF TextInv, Holds
  <2> QED BY <2>1, PrintedIs
<1> QED BY <1>1, <1>2 DEF Buf!TextHeld
-----------------------------------------------------------------------------
(* SparseBuf: the chunks, one after the other, hold what was put into them. *)

k == kChunkSize
OneChunk == [0 .. k - 1 -> Nat]

\* Cell j of chunk c holds the byte in its place, as far as there are bytes.
InChunks(ch, p) ==
    /\ ch \in Seq(OneChunk) /\ p \in Seq(Nat) /\ Len(p) <= Len(ch) * k
    /\ \A c \in 1 .. Len(ch), j \in 0 .. k - 1 : (c - 1) * k + j < Len(p) => ch[c][j] = p[(c - 1) * k + j + 1]

LEMMA ChunkSize == k \in Nat \ {0}
  BY UseAssumption DEF Buf!BufferAssumption, k

\* The places of a chunk are before those of a later one.
LEMMA Before == ASSUME NEW a \in Nat, NEW b \in Nat, a < b PROVE a * k \in Nat /\ a * k + k <= b * k
<1> DEFINE d == b - a - 1
<1>1. d \in Nat /\ b = a + d + 1 /\ k \in Nat
  BY ChunkSize
<1> HIDE DEF d
<1>2. d * k \in Nat /\ a * k \in Nat
  BY <1>1
<1>3. b * k = a * k + d * k + k
  BY <1>1
<1> QED BY <1>1, <1>2, <1>3

\* Writing into a chunk, where the bytes that are there end.
ChunksWritten(ch, c, ofs, x) ==
    [ch EXCEPT ![c] = [i \in DOMAIN @ |-> IF i - ofs + 1 \in DOMAIN x THEN x[i - ofs + 1] ELSE @[i]]]

LEMMA WriteKeeps ==
  ASSUME NEW ch, NEW p, InChunks(ch, p), NEW last \in Nat, last < Len(ch), NEW o \in 0 .. k - 1,
         Len(p) = last * k + o, NEW x \in Seq(Nat), Len(x) <= k - o
  PROVE  InChunks(ChunksWritten(ch, last + 1, o, x), p \o x) /\ Len(ChunksWritten(ch, last + 1, o, x)) = Len(ch)
<1> DEFINE w == ChunksWritten(ch, last + 1, o, x)
           n == Len(ch)
           d == Len(p)
<1>1. /\ ch \in Seq(OneChunk) /\ p \in Seq(Nat) /\ n \in Nat /\ d \in Nat /\ k \in Nat \ {0}
      /\ last + 1 \in 1 .. n /\ Len(x) \in Nat /\ last * k \in Nat
  BY ChunkSize DEF InChunks
<1>2. /\ p \o x \in Seq(Nat) /\ Len(p \o x) = d + Len(x)
      /\ \A i \in 1 .. d + Len(x) : (p \o x)[i] = IF i <= d THEN p[i] ELSE x[i - d]
  BY <1>1, ConcatProperties
<1>3. d + Len(x) <= n * k
  <2>1. last * k + k <= n * k
    BY <1>1, Before
  <2>2. n * k \in Nat
    BY <1>1
  <2> QED BY <1>1, <2>1, <2>2
<1> DEFINE old == ch[last + 1]
           new == [i \in 0 .. k - 1 |-> IF i - o + 1 \in 1 .. Len(x) THEN x[i - o + 1] ELSE old[i]]
<1>4. old \in OneChunk
  BY <1>1
<1>a. DOMAIN old = 0 .. k - 1 /\ DOMAIN x = 1 .. Len(x) /\ \A i \in 0 .. k - 1 : old[i] \in Nat
  <2> HIDE DEF old
  <2>1. DOMAIN old = 0 .. k - 1 /\ \A i \in 0 .. k - 1 : old[i] \in Nat
    BY <1>4 DEF OneChunk
  <2>2. DOMAIN x = 1 .. Len(x)
    OBVIOUS
  <2> QED BY <2>1, <2>2
<1>6. w = [ch EXCEPT ![last + 1] = new]
  <2>1. [i \in DOMAIN old |-> IF i - o + 1 \in DOMAIN x THEN x[i - o + 1] ELSE old[i]] = new
    BY <1>a
  <2>2. w = [ch EXCEPT ![last + 1] =
              [i \in DOMAIN old |-> IF i - o + 1 \in DOMAIN x THEN x[i - o + 1] ELSE old[i]]]
    BY <1>1 DEF ChunksWritten
  <2> HIDE DEF new, w, old
  <2> QED BY <2>1, <2>2
<1> HIDE DEF old
<1>5. new \in OneChunk
  <2>1. ASSUME NEW i \in 0 .. k - 1
        PROVE  (IF i - o + 1 \in 1 .. Len(x) THEN x[i - o + 1] ELSE old[i]) \in Nat
    <3>1. CASE i - o + 1 \in 1 .. Len(x)
      BY <3>1
    <3>2. CASE ~(i - o + 1 \in 1 .. Len(x))
      BY <1>a, <3>2
    <3> QED BY <3>1, <3>2
  <2> QED BY <2>1 DEF OneChunk
<1>7. /\ w \in Seq(OneChunk) /\ Len(w) = n /\ w[last + 1] = new
      /\ \A c \in 1 .. n : c # last + 1 => w[c] = ch[c]
  <2> HIDE DEF new, w, n
  <2>1. n = Len(ch)
    BY DEF n
  <2> QED BY <1>1, <1>5, <1>6, <2>1
<1>8. ASSUME NEW c \in 1 .. n, NEW j \in 0 .. k - 1, (c - 1) * k + j < d + Len(x)
      PROVE  w[c][j] = (p \o x)[(c - 1) * k + j + 1]
  <2> DEFINE m == (c - 1) * k
  <2>1. m \in Nat /\ c - 1 \in Nat /\ m + j + 1 \in 1 .. d + Len(x)
    <3>1. c - 1 \in Nat
      BY <1>1
    <3>2. m \in Nat
      BY <1>1, <3>1
    <3>3. m + j < d + Len(x)
      BY <1>8
    <3> HIDE DEF m, d
    <3>4. m + j + 1 \in 1 .. d + Len(x)
      <4>1. d \in Nat
        BY <1>1
      <4> QED BY <1>1, <3>2, <3>3, <4>1
    <3> QED BY <3>1, <3>2, <3>4
  <2>2. m + j < d => ch[c][j] = p[m + j + 1]
    BY DEF InChunks
  <2>3. CASE c - 1 < last
    <3>1. m + k <= last * k
      BY <2>1, <2>3, Before
    <3> HIDE DEF m
    <3>2. m + j < d /\ m + j + 1 <= d
      BY <1>1, <2>1, <3>1
    <3>3. w[c] = ch[c]
      BY <1>1, <1>7, <2>3
    <3> QED BY <1>2, <2>1, <2>2, <3>2, <3>3 DEF m
  <2>4. CASE c - 1 = last
    <3>1. m = last * k /\ c = last + 1
      BY <1>1, <2>4
    <3> HIDE DEF m, d
    <3>2. w[c][j] = IF j - o + 1 \in 1 .. Len(x) THEN x[j - o + 1] ELSE old[j]
      BY <1>7, <3>1
    <3>3. d = m + o
      BY <3>1 DEF d
    <3>4. CASE j < o
      <4>1. m + j < d /\ m + j + 1 <= d /\ ~(j - o + 1 \in 1 .. Len(x))
        BY <1>1, <2>1, <3>3, <3>4
      <4>2. old[j] = ch[c][j]
        BY <3>1 DEF old
      <4> QED BY <1>2, <2>1, <2>2, <3>2, <4>1, <4>2 DEF m
    <3>5. CASE ~(j < o)
      <4>1. ~(m + j + 1 <= d) /\ j - o + 1 \in 1 .. Len(x) /\ (m + j + 1) - d = j - o + 1
        BY <1>1, <2>1, <3>3, <3>5
      <4>2. (p \o x)[m + j + 1] = x[(m + j + 1) - d]
        BY <1>2, <2>1, <4>1
      <4> QED BY <3>2, <4>1, <4>2 DEF m
    <3> QED BY <3>4, <3>5
  <2>5. CASE c - 1 > last
    <3>1. last * k + k <= m
      BY <2>1, <2>5, Before
    <3> HIDE DEF m
    <3>2. FALSE
      BY <1>1, <2>1, <3>1
    <3> QED BY <3>2
  <2> QED BY <1>1, <2>1, <2>3, <2>4, <2>5
<1> HIDE DEF w, n, d
<1>9. InChunks(w, p \o x)
  BY <1>2, <1>3, <1>7, <1>8 DEF InChunks
<1> QED BY <1>7, <1>9 DEF w, n
-----------------------------------------------------------------------------
(* SparseBuf in use. *)

SparseBuffer == [chunks : Seq(OneChunk), bufSize : Nat, dataSize : Nat]
Keeps(b, p) ==
    /\ b \in SparseBuffer /\ b.bufSize = Len(b.chunks) * k /\ b.dataSize = Len(p)
    /\ InChunks(b.chunks, p)
SparseInv == Keeps(sparse, put)

\* Nothing is in any chunks, whatever was written there before.
LEMMA NothingIn ==
  ASSUME NEW ch \in Seq(OneChunk), NEW p, p = <<>> PROVE InChunks(ch, p) /\ Len(p) = 0 /\ Len(ch) * k \in Nat
<1> DEFINE n == Len(ch)
<1>1. p \in Seq(Nat) /\ Len(p) = 0
  OBVIOUS
<1>2. n \in Nat /\ k \in Nat
  BY ChunkSize
<1>3. n * k \in Nat
  BY <1>2
<1>4. ASSUME NEW c \in 1 .. n, NEW j \in 0 .. k - 1 PROVE ~((c - 1) * k + j < 0)
  <2>1. c - 1 \in Nat
    BY <1>2
  <2>2. (c - 1) * k \in Nat
    BY <1>2, <2>1
  <2> DEFINE m == (c - 1) * k
  <2> HIDE DEF m
  <2>3. m \in Nat => ~(m + j < 0)
    BY <1>2
  <2> QED BY <2>2, <2>3 DEF m
<1> HIDE DEF n
<1> QED BY <1>1, <1>3, <1>4 DEF InChunks, n

LEMMA ClearSparseKeeps == ASSUME NEW b \in SparseBuffer, b.bufSize = Len(b.chunks) * k, NEW r,
    r = [b EXCEPT !.dataSize = 0] PROVE Keeps(r, <<>>)
<1> DEFINE z == <<>>
<1>1. InChunks(b.chunks, z) /\ Len(z) = 0
  BY NothingIn DEF SparseBuffer
<1> HIDE DEF z
<1>2. Keeps(r, z)
  BY <1>1 DEF Keeps, SparseBuffer
<1> QED BY <1>2 DEF z

LEMMA FreeKeeps == Keeps(Buf!NoChunks, <<>>)
<1> DEFINE z == <<>>
           ch == <<>>
<1>a. ch \in Seq(OneChunk) /\ Len(ch) = 0
  OBVIOUS
<1> HIDE DEF ch
<1>1. ch \in Seq(OneChunk) /\ Len(ch) = 0 /\ InChunks(ch, z) /\ Len(z) = 0 /\ k \in Nat
  BY <1>a, NothingIn, ChunkSize
<1>2. Buf!NoChunks = [chunks |-> ch, bufSize |-> 0, dataSize |-> 0]
  BY DEF Buf!NoChunks, ch
<1> HIDE DEF z
<1>3. Len(ch) * k = 0
  BY <1>1
<1>4. Keeps([chunks |-> ch, bufSize |-> 0, dataSize |-> 0], z)
  BY <1>1, <1>3 DEF Keeps, SparseBuffer
<1> QED BY <1>2, <1>4 DEF z

\* New chunks come behind those that are there, or all are given up.
LEMMA AllocKeeps ==
  ASSUME NEW b \in SparseBuffer, b.bufSize = Len(b.chunks) * k, NEW size \in Nat, NEW enough \in BOOLEAN
  PROVE  Keeps(Buf!allocAndClear(b, size, enough), <<>>)
<1> DEFINE n == (size + k - 1) \div k
           diff == n - Len(b.chunks)
           more == [i \in 1 .. diff |-> Buf!Chunk]
           ch == b.chunks \o more
<1>1. n \in Nat /\ b.chunks \in Seq(OneChunk) /\ Len(b.chunks) \in Nat /\ k \in Nat \ {0}
  BY ChunkSize DEF SparseBuffer
<1>2. Buf!allocAndClear(b, size, enough) =
        IF diff <= 0 THEN [b EXCEPT !.dataSize = 0]
        ELSE IF ~enough THEN Buf!NoChunks
        ELSE [chunks |-> ch, bufSize |-> n * k, dataSize |-> 0]
  BY DEF Buf!allocAndClear, k
<1>3. CASE diff <= 0
  BY <1>2, <1>3, ClearSparseKeeps
<1>4. CASE ~(diff <= 0) /\ ~enough
  BY <1>2, <1>4, FreeKeeps
<1>5. CASE ~(diff <= 0) /\ enough
  <2>1. Buf!Chunk \in OneChunk
    BY DEF Buf!Chunk, OneChunk, k
  <2> HIDE DEF n
  <2>2. diff \in Nat
    BY <1>1, <1>5
  <2>3. more \in Seq(OneChunk) /\ Len(more) = diff
    BY <2>1, <2>2
  <2> HIDE DEF more
  <2>4. ch \in Seq(OneChunk) /\ Len(ch) = Len(b.chunks) + diff
    BY <1>1, <2>3, ConcatProperties
  <2>5. Len(ch) = n
    BY <1>1, <2>4
  <2> HIDE DEF diff, ch
  <2> DEFINE z == <<>>
  <2>6. InChunks(ch, z) /\ Len(z) = 0 /\ Len(ch) * k \in Nat
    BY <2>4, NothingIn
  <2> HIDE DEF z
  <2>7. Keeps([chunks |-> ch, bufSize |-> n * k, dataSize |-> 0], z)
    BY <2>4, <2>5, <2>6 DEF Keeps, SparseBuffer
  <2> QED BY <1>2, <1>5, <2>7 DEF z
<1> QED BY <1>3, <1>4, <1>5

LEMMA WriteToIs ==
  ASSUME NEW b \in SparseBuffer, NEW c, NEW ofs, NEW x
  PROVE  Buf!WriteTo(b, c, ofs, x) = [b EXCEPT !.chunks = ChunksWritten(b.chunks, c, ofs, x)]
  BY DEF Buf!WriteTo, ChunksWritten, SparseBuffer

LEMMA Divided ==
  ASSUME NEW d \in Nat PROVE d \div k \in Nat /\ d % k \in 0 .. k - 1 /\ d = (d \div k) * k + (d % k)
  BY ChunkSize

\* At the start of a chunk rounding up makes no difference.
LEMMA RoundedUp == ASSUME NEW d \in Nat, d % k = 0 PROVE (d + k - 1) \div k = d \div k
<1> DEFINE q == d \div k
           r == (d + k - 1) \div k
           m == (d + k - 1) % k
<1>1. q \in Nat /\ d = q * k + 0 /\ k \in Nat \ {0}
  BY Divided, ChunkSize
<1>2. r \in Nat /\ m \in 0 .. k - 1 /\ d + k - 1 = r * k + m
  BY <1>1, Divided
<1>3. q * k \in Nat /\ r * k \in Nat /\ q * k = d
  BY <1>1, <1>2
<1> HIDE DEF q, r, m
<1>4. ~(q < r)
  <2> SUFFICES ASSUME q < r PROVE FALSE
    OBVIOUS
  <2>1. q * k + k <= r * k
    BY <1>1, <1>2, Before
  <2> QED BY <1>1, <1>2, <1>3, <2>1
<1>5. ~(r < q)
  <2> SUFFICES ASSUME r < q PROVE FALSE
    OBVIOUS
  <2>1. r * k + k <= q * k
    BY <1>1, <1>2, Before
  <2> QED BY <1>1, <1>2, <1>3, <2>1
<1> QED BY <1>1, <1>2, <1>4, <1>5 DEF q, r

LEMMA ThreeParts ==
  ASSUME NEW x \in Seq(Nat), NEW y \in Seq(Nat), NEW z \in Seq(Nat) PROVE (x \o y) \o z = x \o (y \o z)
  BY ConcatAssociative

\* Bytes, and those behind them.
LEMMA CutInTwo ==
  ASSUME NEW x \in Seq(Nat), NEW n \in 0 .. Len(x)
  PROVE  /\ SubSeq(x, 1, n) \in Seq(Nat) /\ Len(SubSeq(x, 1, n)) = n
         /\ SubSeq(x, n + 1, Len(x)) \in Seq(Nat) /\ Len(SubSeq(x, n + 1, Len(x))) = Len(x) - n
         /\ SubSeq(x, 1, n) \o SubSeq(x, n + 1, Len(x)) = x
<1> DEFINE a == SubSeq(x, 1, n)
           b == SubSeq(x, n + 1, Len(x))
<1>1. a \in Seq(Nat) /\ Len(a) = n /\ \A i \in 1 .. n : a[i] = x[i]
  OBVIOUS
<1>2. b \in Seq(Nat) /\ Len(b) = Len(x) - n /\ \A i \in 1 .. Len(x) - n : b[i] = x[n + i]
  <2>1. \A i \in n + 1 .. Len(x) : x[i] \in Nat
    OBVIOUS
  <2>2. b \in Seq(Nat) /\ Len(b) = Len(x) - n
    BY <2>1
  <2>3. \A i \in 1 .. Len(x) - n : b[i] = x[n + i]
    BY <2>1
  <2> QED BY <2>2, <2>3
<1> HIDE DEF a, b
<1>3. /\ a \o b \in Seq(Nat) /\ Len(a \o b) = Len(a) + Len(b)
      /\ \A i \in 1 .. Len(a) + Len(b) : (a \o b)[i] = IF i <= Len(a) THEN a[i] ELSE b[i - Len(a)]
  BY <1>1, <1>2, ConcatProperties
<1> DEFINE u == a \o b
<1>4. u \in Seq(Nat) /\ Len(u) = Len(x) /\ \A i \in 1 .. Len(x) : u[i] = IF i <= n THEN a[i] ELSE b[i - n]
  BY <1>1, <1>2, <1>3
<1> HIDE DEF u
<1>5. ASSUME NEW i \in 1 .. Len(x) PROVE u[i] = x[i]
  <2>1. CASE i <= n
    BY <1>1, <1>4, <2>1
  <2>2. CASE ~(i <= n)
    <3>1. i - n \in 1 .. Len(x) - n /\ n + (i - n) = i
      BY <2>2
    <3>2. b[i - n] = x[n + (i - n)]
      BY <1>2, <3>1
    <3> QED BY <1>4, <2>2, <3>1, <3>2
  <2> QED BY <2>1, <2>2
<1>6. u = x
  BY <1>4, <1>5, SeqEqual
<1> QED BY <1>1, <1>2, <1>6 DEF a, b, u

\* What appendPtr gives room for is written to the chunk in which the bytes end.
LEMMA PieceKeeps ==
  ASSUME NEW b, NEW p, Keeps(b, p), NEW bytes \in Seq(Nat), NEW r,
         r = Buf!FillPiece([buf |-> b, bytes |-> bytes])
  PROVE  Keeps(r.buf, p \o SubSeq(bytes, 1, Len(bytes) - Len(r.bytes)))
<1> DEFINE d == b.dataSize
           last == d \div k
           ofs == d % k
           size == Smaller(Len(bytes), k - ofs)
           x == SubSeq(bytes, 1, size)
           rest == SubSeq(bytes, size + 1, Len(bytes))
           w == Buf!WriteTo(b, last + 1, ofs, x)
<1>1. /\ b \in SparseBuffer /\ b.bufSize = Len(b.chunks) * k /\ d = Len(p) /\ InChunks(b.chunks, p)
      /\ p \in Seq(Nat) /\ d \in Nat /\ Len(b.chunks) \in Nat
  BY DEF Keeps, SparseBuffer, InChunks
<1>2. last \in Nat /\ ofs \in 0 .. k - 1 /\ d = last * k + ofs /\ k \in Nat \ {0}
  BY <1>1, Divided, ChunkSize
<1>3. size = Buf!appendPtr(Len(bytes), ofs) /\ size \in 0 .. Len(bytes) /\ size <= k - ofs
  <2> HIDE DEF ofs
  <2>1. Buf!appendPtr(Len(bytes), ofs) = Buf!Min({Len(bytes), k - ofs})
    BY DEF Buf!appendPtr, k
  <2>2. Len(bytes) \in Int /\ k - ofs \in Int
    BY <1>2
  <2>3. Buf!Min({Len(bytes), k - ofs}) = Smaller(Len(bytes), k - ofs)
    BY <2>2, SmallerIs
  <2> QED BY <1>2, <2>1, <2>3 DEF Smaller
<1>4. r = IF bytes = <<>> \/ last >= Len(b.chunks) THEN [buf |-> b, bytes |-> bytes]
          ELSE [buf |-> [w EXCEPT !.dataSize = @ + size], bytes |-> rest]
  BY <1>3 DEF Buf!FillPiece, k
<1> HIDE DEF size, last, ofs, d
<1>5. CASE bytes = <<>> \/ last >= Len(b.chunks)
  <2>1. r.buf = b /\ r.bytes = bytes
    BY <1>4, <1>5
  <2>2. SubSeq(bytes, 1, Len(bytes) - Len(r.bytes)) = <<>>
    BY <2>1
  <2>3. p \o SubSeq(bytes, 1, Len(bytes) - Len(r.bytes)) = p
    BY <1>1, <2>2, ConcatEmptySeq
  <2> QED BY <2>1, <2>3
<1>6. CASE ~(bytes = <<>> \/ last >= Len(b.chunks))
  <2>1. r.buf = [w EXCEPT !.dataSize = @ + size] /\ r.bytes = rest
    BY <1>4, <1>6
  <2>2. x \in Seq(Nat) /\ Len(x) = size /\ Len(rest) = Len(bytes) - size
    BY <1>3, CutInTwo
  <2>3. SubSeq(bytes, 1, Len(bytes) - Len(r.bytes)) = x
    <3>1. Len(bytes) - Len(r.bytes) = size
      <4> HIDE DEF rest, w, x
      <4>1. Len(r.bytes) = Len(bytes) - size
        BY <2>1, <2>2
      <4> QED BY <1>3, <4>1
    <3> QED BY <3>1
  <2> DEFINE ch == ChunksWritten(b.chunks, last + 1, ofs, x)
  <2>4. w = [b EXCEPT !.chunks = ch]
    BY <1>1, WriteToIs
  <2> HIDE DEF x, w, rest
  <2>5. InChunks(ch, p \o x) /\ Len(ch) = Len(b.chunks)
    <3>1. last < Len(b.chunks) /\ Len(p) = last * k + ofs /\ Len(x) <= k - ofs
      BY <1>1, <1>2, <1>3, <1>6, <2>2
    <3> QED BY <1>1, <1>2, <2>2, <3>1, WriteKeeps
  <2>6. p \o x \in Seq(Nat) /\ Len(p \o x) = d + size
    BY <1>1, <2>2, ConcatProperties
  <2> HIDE DEF ch
  <2>7. [w EXCEPT !.dataSize = @ + size] = [b EXCEPT !.chunks = ch, !.dataSize = d + size]
    BY <1>1, <2>4 DEF SparseBuffer, d
  <2>8. d + size \in Nat /\ ch \in Seq(OneChunk)
    BY <1>1, <1>3, <2>5 DEF InChunks
  <2>9. Keeps([b EXCEPT !.chunks = ch, !.dataSize = d + size], p \o x)
    BY <1>1, <2>5, <2>6, <2>8 DEF Keeps, SparseBuffer
  <2> QED BY <2>1, <2>3, <2>7, <2>9
<1> QED BY <1>5, <1>6

\* append at the start of a chunk: into that one and the next, or not at all.
LEMMA AppendKeeps ==
  ASSUME NEW b, NEW p, Keeps(b, p), NEW bytes \in Seq(Nat), b.dataSize % k = 0,
         NEW fits \in BOOLEAN, fits = (Len(p) + Len(bytes) <= b.bufSize),
         fits => Buf!AppendIsInside(b, bytes), NEW r, r = Buf!AppendToChunks(b, bytes)
  PROVE  Keeps(r, IF fits THEN p \o bytes ELSE p)
<1> DEFINE d == b.dataSize
           last == d \div k
           len == Len(bytes)
           size == Smaller(len, k)
           x == SubSeq(bytes, 1, size)
           rest == SubSeq(bytes, size + 1, len)
           ofs == d % k
           w == Buf!WriteTo(b, last + 1, ofs, x)
           both == IF size < len THEN Buf!WriteTo(w, (last + 1) + 1, 0, rest) ELSE w
<1>1. /\ b \in SparseBuffer /\ b.bufSize = Len(b.chunks) * k /\ d = Len(p) /\ InChunks(b.chunks, p)
      /\ p \in Seq(Nat) /\ d \in Nat /\ Len(b.chunks) \in Nat /\ len \in Nat /\ b.chunks \in Seq(OneChunk)
  BY DEF Keeps, SparseBuffer, InChunks
<1>2. /\ last \in Nat /\ ofs = 0 /\ ofs \in 0 .. k - 1 /\ d = last * k + ofs /\ k \in Nat \ {0}
      /\ (d + k - 1) \div k = last
  BY <1>1, Divided, ChunkSize, RoundedUp
<1>3. size \in 0 .. len /\ size <= k /\ (size < len => size = k) /\ Buf!appendPtr(len, ofs) = size
  <2> HIDE DEF len, ofs
  <2>1. Buf!appendPtr(len, ofs) = Buf!Min({len, k - ofs}) /\ k - ofs = k
    BY <1>2 DEF Buf!appendPtr, k
  <2>2. Buf!Min({len, k}) = Smaller(len, k)
    BY <1>1, <1>2, SmallerIs
  <2> QED BY <1>1, <1>2, <2>1, <2>2 DEF Smaller
<1>4. r = IF d + len > b.bufSize THEN b ELSE [both EXCEPT !.dataSize = @ + len]
  BY <1>2, <1>3 DEF Buf!AppendToChunks, k
<1>5. fits => last < Len(b.chunks) /\ (len - k > 0 => last + 1 < Len(b.chunks) /\ len - k <= k)
  <2> SUFFICES ASSUME fits PROVE last < Len(b.chunks) /\ (len - k > 0 => last + 1 < Len(b.chunks) /\ len - k <= k)
    OBVIOUS
  <2>1. /\ (d + k - 1) \div k < Len(b.chunks)
        /\ len - (k - ofs) > 0 => (d + k - 1) \div k + 1 < Len(b.chunks) /\ len - (k - ofs) <= k
    BY DEF Buf!AppendIsInside, k
  <2> HIDE DEF last, ofs, len, d
  <2>2. k - ofs = k
    BY <1>2
  <2> QED BY <1>2, <2>1, <2>2
<1> HIDE DEF size, last, ofs, d, len
<1>6. CASE ~fits
  <2>1. d + len > b.bufSize
    <3>1. ~(d + len <= b.bufSize)
      BY <1>1, <1>6 DEF len
    <3>2. b.bufSize \in Nat
      BY <1>1 DEF SparseBuffer
    <3> QED BY <1>1, <3>1, <3>2
  <2> QED BY <1>4, <1>6, <2>1
<1>7. CASE fits
  <2>1. r = [both EXCEPT !.dataSize = @ + len]
    <3>1. d + len <= b.bufSize
      BY <1>1, <1>7 DEF len
    <3>2. b.bufSize \in Nat
      BY <1>1 DEF SparseBuffer
    <3> QED BY <1>1, <1>4, <3>1, <3>2
  <2>2. /\ x \in Seq(Nat) /\ Len(x) = size /\ rest \in Seq(Nat) /\ Len(rest) = len - size /\ x \o rest = bytes
    BY <1>3, CutInTwo DEF len
  <2> DEFINE ch == ChunksWritten(b.chunks, last + 1, ofs, x)
             w2 == Buf!WriteTo(w, (last + 1) + 1, 0, rest)
  <2>3. w = [b EXCEPT !.chunks = ch]
    BY <1>1, WriteToIs
  <2> HIDE DEF x, w, rest, w2
  <2>4. InChunks(ch, p \o x) /\ Len(ch) = Len(b.chunks)
    <3>1. last < Len(b.chunks) /\ Len(p) = last * k + ofs /\ Len(x) <= k - ofs
      BY <1>1, <1>2, <1>3, <1>5, <1>7, <2>2
    <3> QED BY <1>1, <1>2, <2>2, <3>1, WriteKeeps
  <2>5. p \o x \in Seq(Nat) /\ Len(p \o x) = d + size
    BY <1>1, <2>2, ConcatProperties
  <2> HIDE DEF ch
  <2>6. ch \in Seq(OneChunk) /\ w \in SparseBuffer /\ w.chunks = ch
    BY <1>1, <2>3, <2>4 DEF InChunks, SparseBuffer
  <2>7. \E c : InChunks(c, p \o bytes) /\ Len(c) = Len(b.chunks) /\ both = [b EXCEPT !.chunks = c]
    <3>1. CASE size < len
      <4> DEFINE o == 0
                 c == ChunksWritten(ch, (last + 1) + 1, o, rest)
                 next == last + 1
      <4>1. size = k /\ len - k > 0
        BY <1>1, <1>2, <1>3, <3>1
      <4>2. next \in Nat /\ next < Len(ch) /\ Len(rest) <= k - o /\ o \in 0 .. k - 1
        BY <1>1, <1>2, <1>5, <1>7, <2>2, <2>4, <4>1
      <4>3. Len(p \o x) = next * k + o
        <5>1. next * k = last * k + k
          BY <1>2
        <5> QED BY <1>2, <2>5, <4>1, <5>1
      <4> HIDE DEF o, next
      <4> DEFINE px == p \o x
      <4>a. InChunks(ch, px) /\ Len(px) = next * k + o
        BY <2>4, <4>3
      <4>b. next \in Nat /\ next < Len(ch) /\ o \in 0 .. k - 1 /\ rest \in Seq(Nat) /\ Len(rest) <= k - o
        BY <2>2, <4>2
      <4> HIDE DEF px
      <4>4. InChunks(ChunksWritten(ch, next + 1, o, rest), px \o rest) /\ Len(ChunksWritten(ch, next + 1, o, rest)) = Len(ch)
        BY <4>a, <4>b, WriteKeeps
      <4>5. px \o rest = p \o bytes
        <5>1. (p \o x) \o rest = p \o (x \o rest)
          <6>1. p \in Seq(Nat) /\ x \in Seq(Nat) /\ rest \in Seq(Nat)
            BY <1>1, <2>2
          <6> QED BY <6>1, ThreeParts
        <5>2. x \o rest = bytes
          BY <2>2
        <5> QED BY <5>1, <5>2 DEF px
      <4>6. w2 = [w EXCEPT !.chunks = c]
        BY <2>6, WriteToIs DEF w2, o
      <4>7. InChunks(c, p \o bytes) /\ Len(c) = Len(b.chunks)
        BY <2>4, <4>4, <4>5 DEF next
      <4> HIDE DEF c
      <4>8. both = [b EXCEPT !.chunks = c]
        <5>1. both = w2
          BY <3>1 DEF w2
        <5> QED BY <1>1, <2>3, <4>6, <5>1 DEF SparseBuffer
      <4> QED BY <4>7, <4>8
    <3>2. CASE ~(size < len)
      <4>1. size = len
        BY <1>1, <1>3, <3>2
      <4>2. x = bytes
        <5>1. Len(rest) = 0 /\ rest = <<>>
          BY <1>1, <2>2, <4>1
        <5>2. x \o rest = x
          BY <2>2, <5>1, ConcatEmptySeq
        <5> QED BY <2>2, <5>2
      <4>3. both = [b EXCEPT !.chunks = ch]
        BY <2>3, <3>2
      <4> QED BY <2>4, <4>2, <4>3
    <3> QED BY <3>1, <3>2
  <2>8. PICK c : InChunks(c, p \o bytes) /\ Len(c) = Len(b.chunks) /\ both = [b EXCEPT !.chunks = c]
    BY <2>7
  <2> HIDE DEF both
  <2>9. p \o bytes \in Seq(Nat) /\ Len(p \o bytes) = d + len /\ c \in Seq(OneChunk) /\ d + len \in Nat
    <3>1. p \o bytes \in Seq(Nat) /\ Len(p \o bytes) = Len(p) + Len(bytes)
      BY <1>1, ConcatProperties
    <3>2. c \in Seq(OneChunk)
      BY <2>8 DEF InChunks
    <3> QED BY <1>1, <3>1, <3>2 DEF len
  <2>10. r = [b EXCEPT !.chunks = c, !.dataSize = d + len]
    BY <1>1, <2>1, <2>8 DEF SparseBuffer, d
  <2>11. Keeps(r, p \o bytes)
    BY <1>1, <2>8, <2>9, <2>10 DEF Keeps, SparseBuffer
  <2> QED BY <1>7, <2>11
<1> QED BY <1>6, <1>7
-----------------------------------------------------------------------------
\* Where the bytes of a chunk begin and end among those that there are.
EndOf(c, d) == Smaller(c * k, d)

LEMMA HashedIs ==
  ASSUME NEW b, NEW p, Keeps(b, p), NEW c \in 1 .. Len(b.chunks)
  PROVE  IsPart(Buf!Hashed(b, c), p, EndOf(c - 1, Len(p)), EndOf(c, Len(p)))
<1> DEFINE d == Len(p)
           m == (c - 1) * k
           len == Smaller(Larger(0, d - m), k)
<1>1. /\ b.dataSize = d /\ d \in Nat /\ p \in Seq(Nat) /\ InChunks(b.chunks, p) /\ k \in Nat \ {0}
      /\ b.chunks \in Seq(OneChunk) /\ c \in Nat /\ c - 1 \in Nat
  BY ChunkSize DEF Keeps, SparseBuffer, InChunks
<1>2. m \in Nat /\ c * k = m + k
  BY <1>1
<1>3. \A j \in 0 .. k - 1 : m + j < d => b.chunks[c][j] = p[m + j + 1]
  BY <1>1 DEF InChunks
<1>4. \A j \in 0 .. k - 1 : b.chunks[c][j] \in Nat
  <2>1. b.chunks[c] \in OneChunk
    BY <1>1
  <2> QED BY <2>1 DEF OneChunk
<1>5. Buf!Hashed(b, c) = [i \in 1 .. len |-> b.chunks[c][i - 1]]
  <2> HIDE DEF m, d
  <2>1. Buf!Max({0, d - m}) = Larger(0, d - m) /\ Larger(0, d - m) \in Int
    BY <1>1, <1>2, LargerIs DEF Larger
  <2>2. Buf!Min({Buf!Max({0, d - m}), k}) = len
    <3> DEFINE t == Larger(0, d - m)
    <3>1. t \in Int /\ Buf!Max({0, d - m}) = t /\ k \in Int
      BY <1>1, <2>1
    <3> HIDE DEF t
    <3>2. Buf!Min({t, k}) = Smaller(t, k)
      BY <3>1, SmallerIs
    <3> QED BY <3>1, <3>2 DEF t
  <2>3. Buf!Hashed(b, c) = [i \in 1 .. Buf!Min({Buf!Max({0, d - m}), k}) |-> b.chunks[c][i - 1]]
    BY <1>1 DEF Buf!Hashed, k, m
  <2> QED BY <2>2, <2>3
<1> DEFINE from == EndOf(c - 1, d)
           upto == EndOf(c, d)
<1>6. from = Smaller(m, d) /\ upto = Smaller(m + k, d)
  BY <1>2 DEF EndOf
<1> HIDE DEF m, d, from, upto
<1>7. /\ from \in Nat /\ upto \in Nat /\ from <= upto /\ len = upto - from /\ len \in 0 .. k
      /\ len > 0 => from = m /\ m + len <= d
  BY <1>1, <1>2, <1>6 DEF Smaller, Larger
<1> HIDE DEF len
<1> DEFINE h == [i \in 1 .. len |-> b.chunks[c][i - 1]]
<1>8. ASSUME NEW i \in 1 .. len PROVE b.chunks[c][i - 1] \in Nat /\ b.chunks[c][i - 1] = p[from + i]
  <2>1. i - 1 \in 0 .. k - 1 /\ m + (i - 1) < d /\ from + i = m + (i - 1) + 1
    BY <1>1, <1>2, <1>7
  <2> QED BY <1>3, <1>4, <2>1
<1>9. h \in Seq(Nat) /\ Len(h) = len /\ \A i \in 1 .. len : h[i] = p[from + i]
  <2>1. len \in Nat
    BY <1>1, <1>7
  <2>2. \A i \in 1 .. len : h[i] = b.chunks[c][i - 1]
    OBVIOUS
  <2>3. h \in [1 .. len -> Nat]
    BY <1>8
  <2>4. h \in Seq(Nat) /\ Len(h) = len
    BY <2>1, <2>3
  <2> QED BY <1>8, <2>2, <2>4
<1> HIDE DEF h
<1>10. IsPart(h, p, from, upto)
  BY <1>7, <1>9 DEF IsPart
<1> QED BY <1>5, <1>10 DEF h, from, upto, d

\* What calculateHash takes, chunk after chunk, is what was put in.
LEMMA HashIs == ASSUME NEW b, NEW p, Keeps(b, p) PROVE Buf!calculateHash(b) = p
<1> DEFINE n == Len(b.chunks)
           q == [c \in 1 .. n |-> Buf!Hashed(b, c)]
           e == [c \in 0 .. n |-> EndOf(c, Len(p))]
<1>1. /\ b.chunks \in Seq(OneChunk) /\ n \in Nat /\ p \in Seq(Nat) /\ Len(p) \in Nat /\ k \in Nat \ {0}
      /\ Len(p) <= n * k /\ DOMAIN b.chunks = 1 .. n
  BY ChunkSize DEF Keeps, SparseBuffer, InChunks
<1>2. Buf!calculateHash(b) = Buf!FlattenSeq(q)
  BY <1>1 DEF Buf!calculateHash
<1>3. CASE n = 0
  <2>1. q = <<>> /\ Len(q) = 0
    BY <1>3
  <2>2. Buf!FlattenSeq(q) = <<>>
    BY <2>1 DEF Buf!FlattenSeq
  <2>3. p = <<>>
    <3>1. n * k = 0
      BY <1>1, <1>3
    <3>2. Len(p) = 0
      BY <1>1, <3>1
    <3> QED BY <1>1, <3>2
  <2> QED BY <1>2, <2>2, <2>3
<1>4. CASE n # 0
  <2> HIDE DEF n
  <2>1. ASSUME NEW c \in 1 .. n PROVE IsPart(q[c], p, e[c - 1], e[c])
    <3>1. c - 1 \in 0 .. n /\ c \in 0 .. n
      BY <1>1
    <3>2. e[c - 1] = EndOf(c - 1, Len(p)) /\ e[c] = EndOf(c, Len(p)) /\ q[c] = Buf!Hashed(b, c)
      BY <3>1
    <3> QED BY <3>2, HashedIs DEF n
  <2>2. e[0] = 0 /\ e[n] = Len(p)
    <3>1. n * k \in Nat /\ 0 * k = 0
      BY <1>1
    <3>2. e[0] = EndOf(0, Len(p)) /\ e[n] = EndOf(n, Len(p))
      BY <1>1
    <3> QED BY <1>1, <3>1, <3>2 DEF EndOf, Smaller
  <2>3. q = [c \in 1 .. n |-> q[c]] /\ n \in Nat \ {0}
    BY <1>1, <1>4
  <2> HIDE DEF q, e
  <2> QED BY <1>1, <1>2, <2>1, <2>2, <2>3, FlattenParts
<1> QED BY <1>3, <1>4

LEMMA SparseInvInit == Buf!Init => SparseInv
  BY FreeKeeps DEF Buf!Init, SparseInv

LEMMA AnyPiece == ASSUME NEW x \in Buf!SeqOf(Bytes \cup {0}, MaxPiece) PROVE x \in Seq(Nat)
<1>1. PICK n \in 0 .. MaxPiece : x \in [1 .. n -> Bytes \cup {0}]
  BY DEF Buf!SeqOf
<1>2. Bytes \cup {0} \subseteq Nat
  BY UseAssumption DEF Buf!BufferAssumption
<1>3. n \in Nat /\ x \in [1 .. n -> Nat]
  BY <1>1, <1>2
<1> QED BY <1>3

LEMMA SparseInvStep == ASSUME SparseInv, [Buf!ChunkStep]_<<sparse, put>> PROVE SparseInv'
<1> USE DEF SparseInv
<1>1. /\ sparse \in SparseBuffer /\ sparse.bufSize = Len(sparse.chunks) * k /\ put \in Seq(Nat)
      /\ sparse.bufSize \in Nat
  BY DEF Keeps, InChunks, SparseBuffer
<1>2. CASE UNCHANGED <<sparse, put>>
  BY <1>2
<1>3. CASE Buf!AllocAndClear
  <2>1. PICK size \in 0 .. MaxAlloc, enough \in BOOLEAN :
          sparse' = Buf!allocAndClear(sparse, size, enough) /\ put' = <<>>
    BY <1>3 DEF Buf!AllocAndClear
  <2>2. size \in Nat
    BY <2>1
  <2>3. Keeps(Buf!allocAndClear(sparse, size, enough), <<>>)
    BY <1>1, <2>2, AllocKeeps
  <2> QED BY <2>1, <2>3
<1>4. ASSUME NEW bytes \in Buf!SeqOf(Bytes \cup {0}, MaxPiece), Buf!WritePiece(bytes) PROVE SparseInv'
  <2> DEFINE r == Buf!FillPiece([buf |-> sparse, bytes |-> bytes])
  <2>1. bytes \in Seq(Nat)
    BY AnyPiece
  <2>2. sparse' = r.buf /\ put' = put \o SubSeq(bytes, 1, Len(bytes) - Len(r.bytes))
    BY <1>4 DEF Buf!WritePiece
  <2>3. r = Buf!FillPiece([buf |-> sparse, bytes |-> bytes])
    OBVIOUS
  <2> HIDE DEF r
  <2>4. Keeps(r.buf, put \o SubSeq(bytes, 1, Len(bytes) - Len(r.bytes)))
    BY <2>1, <2>3, PieceKeeps
  <2> QED BY <2>2, <2>4
<1>5. ASSUME NEW bytes \in Buf!SeqOf(Bytes \cup {0}, MaxPiece), Buf!AppendAtStart(bytes) PROVE SparseInv'
  <2> DEFINE fits == Len(put) + Len(bytes) <= sparse.bufSize
             r == Buf!AppendToChunks(sparse, bytes)
  <2>1. bytes \in Seq(Nat)
    BY AnyPiece
  <2>2. /\ sparse.dataSize % k = 0 /\ (fits => Buf!AppendIsInside(sparse, bytes))
        /\ sparse' = r /\ put' = IF fits THEN put \o bytes ELSE put
    BY <1>5 DEF Buf!AppendAtStart, k
  <2>3. r = Buf!AppendToChunks(sparse, bytes) /\ fits = (Len(put) + Len(bytes) <= sparse.bufSize)
    OBVIOUS
  <2>4. fits \in BOOLEAN
    BY <1>1, <2>1
  <2> HIDE DEF r, fits
  <2>5. Keeps(r, IF fits THEN put \o bytes ELSE put)
    BY <2>1, <2>2, <2>3, <2>4, AppendKeeps
  <2> QED BY <2>2, <2>5
<1>6. CASE Buf!ClearChunks \/ Buf!FreeChunks
  <2>1. CASE Buf!ClearChunks
    <3> DEFINE r == [sparse EXCEPT !.dataSize = 0]
    <3>1. sparse' = r /\ put' = <<>> /\ r = [sparse EXCEPT !.dataSize = 0]
      BY <2>1 DEF Buf!ClearChunks
    <3> HIDE DEF r
    <3>2. Keeps(r, <<>>)
      BY <1>1, <3>1, ClearSparseKeeps
    <3> QED BY <3>1, <3>2
  <2>2. CASE Buf!FreeChunks
    BY <2>2, FreeKeeps DEF Buf!FreeChunks
  <2> QED BY <1>6, <2>1, <2>2
<1> QED BY <1>2, <1>3, <1>4, <1>5, <1>6 DEF Buf!ChunkStep

LEMMA ChunksHeldFrom == SparseInv => Buf!ChunksHeld
<1> SUFFICES ASSUME SparseInv PROVE Buf!ChunksHeld
  OBVIOUS
<1>1. Buf!calculateHash(sparse) = put
  BY HashIs DEF SparseInv
<1>2. Len(put) = sparse.dataSize /\ Len(put) <= sparse.bufSize
  BY DEF SparseInv, Keeps, InChunks
<1> QED BY <1>1, <1>2 DEF Buf!ChunksHeld
-----------------------------------------------------------------------------
\* For texts of any length, chunks of any size and any number of calls: what was
\* put into a DynBuffer or a SparseBuf is in it, whole, in order and with at most
\* one end, and what was not is not.
THEOREM BuffersHoldAlways == MCSpec => []BuffersHold
<1>1. MCInit => TextInv /\ SparseInv
  BY TextInvInit, SparseInvInit DEF MCInit
<1>2. TextInv /\ SparseInv /\ [MCNext]_mcVars => TextInv' /\ SparseInv'
  <2> SUFFICES ASSUME TextInv, SparseInv, [MCNext]_mcVars PROVE TextInv' /\ SparseInv'
    OBVIOUS
  <2>1. [Buf!TextStep]_<<buf, text, ended>> /\ [Buf!ChunkStep]_<<sparse, put>>
    <3>1. CASE TextStep
      BY <3>1 DEF TextStep, Buf!TextStep, Buf!sparseVars
    <3>2. CASE ChunkStep
      BY <3>2 DEF ChunkStep, Buf!ChunkStep, Buf!bufVars
    <3>3. CASE QueueStep \/ AddLine \/ BeginAddLine \/ ClearLog \/ NumberStep
      BY <3>3 DEF QueueStep, AddLine, BeginAddLine, ClearLog, NumberStep, useVars
    <3>4. CASE UNCHANGED mcVars
      BY <3>4 DEF mcVars, useVars
    <3> QED BY <3>1, <3>2, <3>3, <3>4 DEF MCNext
  <2> QED BY <2>1, TextInvStep, SparseInvStep
<1>3. TextInv /\ SparseInv => BuffersHold
  BY TextHeldFrom, ChunksHeldFrom DEF BuffersHold, Buf!Held
<1> QED BY <1>1, <1>2, <1>3, PTL DEF MCSpec
-----------------------------------------------------------------------------
(* Numbers and texts. *)

\* A number or a text is written if and only if all of it fits into the buffer, with
\* its terminating 0, never behind the end, and it reads back as the value
\* (tostring.hpp), for every value, base, precision and format and any buffer.
THEOREM ToStringFitsHolds == MCSpec => []ToStringFits
<1>1. MCInit => ToStringFits
  BY ToStringFitsInit DEF MCInit
<1>2. ToStringFits /\ [MCNext]_mcVars => ToStringFits'
  <2> SUFFICES ASSUME ToStringFits, [MCNext]_mcVars PROVE ToStringFits'
    OBVIOUS
  <2>1. NumberNext \/ UNCHANGED written
    BY Zenon DEF MCNext, mcVars, QueueStep, AddLine, BeginAddLine, ClearLog, TextStep, ChunkStep, NumberStep
  <2> QED BY <2>1, ToStringFitsStep, ToStringFitsStays
<1> QED BY <1>1, <1>2, PTL DEF MCSpec
=============================================================================
