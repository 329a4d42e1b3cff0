------------------------------ MODULE RingQueue ------------------------------
(***************************************************************************)
(* mySystem/ringQueue.hpp: a queue of at most N items in a ring of N cells *)
(* that are constructed and destroyed in place. mStart = mEnd says that    *)
(* the ring is full, mStart = -1 that it is empty. The class has no lock   *)
(* of its own: a step is a whole call.                                     *)
(***************************************************************************)
EXTENDS Integers, Sequences

CONSTANTS N,            \* the number of cells
          Values,       \* the items
          Nothing       \* a cell in which no item lives

ASSUME RingQueueAssumption == N \in Nat \ {0} /\ Nothing \notin Values

VARIABLES cells,        \* mData
          start, end    \* mStart, mEnd

vars == <<cells, start, end>>
Cells == 0 .. N - 1

Empty == start < 0
Full  == start = end
Past(i) == IF i + 1 >= N THEN 0 ELSE i + 1

Init ==
    /\ cells = [i \in Cells |-> Nothing]
    /\ start = -1
    /\ end = 0

EmplaceBack(v) ==
    /\ ~Full
    /\ start' = IF Empty THEN 0 ELSE start
    /\ cells' = [cells EXCEPT ![end] = v]
    /\ end' = Past(end)

AfterPopNoReset(p) == start' = p /\ UNCHANGED end
AfterPop(p) == IF p = end THEN start' = -1 /\ end' = 0
                          ELSE start' = p /\ UNCHANGED end

PopFront ==
    /\ ~Empty
    /\ cells' = [cells EXCEPT ![start] = Nothing]
    /\ AfterPop(Past(start))

\* The cells that iterate() visits: from mStart to mEnd, or to the end of the
\* ring and on from its beginning.
Visited ==
    {i \in Cells : /\ ~Empty
                   /\ IF start < end THEN start <= i /\ i < end
                                     ELSE start <= i \/ i < end}

\* clear() destroys what iterate() visits.
Clear ==
    /\ cells' = [i \in Cells |-> IF i \in Visited THEN Nothing ELSE cells[i]]
    /\ start' = -1
    /\ end' = 0

Next == PopFront \/ Clear \/ \E v \in Values : EmplaceBack(v)

Spec == Init /\ [][Next]_vars
-----------------------------------------------------------------------------
\* size()
Size == IF Empty THEN 0 ELSE IF start < end THEN end - start ELSE end - start + N

\* The items in the order of iterate().
At(k) == IF start + k - 1 < N THEN start + k - 1 ELSE start + k - 1 - N
Items == [k \in 1 .. Size |-> cells[At(k)]]

\* Every variable has its type.
TypeOK ==
    /\ cells \in [Cells -> Values \cup {Nothing}]
    /\ start \in Cells \cup {-1}
    /\ end \in Cells

\* An item lives in exactly the cells that iterate() visits: none is destroyed
\* twice, leaked, or looked at when it is gone. An empty queue has mEnd = 0,
\* which emplaceBack() asserts (ringQueue.hpp:42).
LivesWhereVisited ==
    /\ \A i \in Cells : cells[i] # Nothing <=> i \in Visited
    /\ Empty => end = 0

\* The ring is a queue of at most N items, and size(), full() and empty() tell
\* how many of them there are.
Queue == INSTANCE BoundedQueue WITH items <- Items
ImplementsQueue == Queue!Spec
=============================================================================
