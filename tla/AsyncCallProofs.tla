--------------------------- MODULE AsyncCallProofs ---------------------------
(***************************************************************************)
(* Proofs about AsyncCall for every set of tasks and every number of       *)
(* slots, also when there are fewer slots than tasks: the types, that the  *)
(* slots are exclusive, and that no caller returns before its function has *)
(* been run.                                                               *)
(***************************************************************************)
EXTENDS AsyncCall, WellFoundedInduction, TLAPS

\* A task is blocked only where the code waits, for its own slot's flag when
\* it waits for its function; and until that was run the flag is down.
Waits ==
    \A t \in Tasks :
        /\ IsBlocked(t) => pc[t] \in {"woken", "waiting"}
        /\ pc[t] = "waiting" /\ IsBlocked(t) => blocked[t] = Request({slot[t]}, FALSE, FALSE)
        /\ InCall(t) /\ ~called[t] => slot[t] \notin bits

IInv == TypeOK /\ SlotsExclusive /\ Waits /\ ReturnsAfterCall
-----------------------------------------------------------------------------
\* A set of natural numbers that is not empty has a least one.
LEMMA Least ==
  ASSUME NEW S \in SUBSET Nat, S # {}
  PROVE  \E n \in S : \A m \in S : n <= m
<1> DEFINE R == {ss \in Nat \X Nat : ss[1] < ss[2]}
<1>1. IsWellFoundedOn(R, Nat)
  BY NatLessThanWellFounded DEF OpToRel
<1>2. PICK n \in S : \A m \in S : ~(<<m, n>> \in R)
  BY <1>1, WFMin
<1>3. n \in Nat /\ \A m \in S : m \in Nat /\ ~(m < n)
  BY <1>2
<1> QED BY <1>3

\* The search of allocSlot finds a free slot when there is one.
LEMMA FirstFreeIsFree ==
  ASSUME TypeOK, Slots \ slots # {}
  PROVE  FirstFree \in Slots \ slots
<1> USE AsyncCallAssumption
<1>1. \A s \in Slots : From(s) \in Nat
  BY DEF From, Slots, TypeOK
<1> DEFINE S == {From(s) : s \in Slots \ slots}
<1>2. S \in SUBSET Nat /\ S # {}
  BY <1>1
<1> HIDE DEF S
<1>3. PICK n \in S : \A k \in S : n <= k
  BY <1>2, Least
<1>4. \E s \in Slots \ slots : \A u \in Slots \ slots : From(s) <= From(u)
  BY <1>3 DEF S
<1> QED BY <1>4 DEF FirstFree

\* A signal wakes only those whose flag is up, and raises no other flag.
LEMMA SetBitsEffect ==
  ASSUME EventTypeOK(Slots), NEW f \in SUBSET Slots, SetBits(f)
  PROVE  /\ EventTypeOK(Slots)'
         /\ bits' \subseteq bits \cup f
         /\ \A t \in Tasks : /\ blocked'[t] = blocked[t] \/ blocked'[t] = NoWait
                             /\ IsBlocked(t) /\ blocked[t].for \cap (bits \cup f) = {}
                                  /\ ~blocked[t].all => blocked'[t] = blocked[t]
<1> DEFINE now == bits \cup f
           woken == {t \in Tasks : IsBlocked(t) /\ Met(now, blocked[t])}
           spent == UNION {blocked[t].for : t \in {u \in woken : blocked[u].reset}}
<1>1. bits' = now \ spent
  BY DEF SetBits, SetBitsOver
<1>2. ret' = [t \in Tasks |-> IF t \in woken THEN now ELSE ret[t]]
  BY DEF SetBits, SetBitsOver
<1>3. blocked' = [t \in Tasks |-> IF t \in woken THEN NoWait ELSE blocked[t]]
  BY DEF SetBits, SetBitsOver
<1>4. EventTypeOK(Slots)'
  BY <1>1, <1>2, <1>3 DEF EventTypeOK, NoWait, Request
<1>5. ASSUME NEW t \in Tasks
      PROVE  /\ blocked'[t] = blocked[t] \/ blocked'[t] = NoWait
             /\ IsBlocked(t) /\ blocked[t].for \cap now = {}
                  /\ ~blocked[t].all => blocked'[t] = blocked[t]
  BY <1>3 DEF Met
<1> QED BY <1>1, <1>4, <1>5

\* A wait that may block takes the flags that it found, or blocks on what it asked for.
LEMMA WaitBitsEffect ==
  ASSUME EventTypeOK(Slots), NEW t \in Tasks, NEW f \in SUBSET Slots, NEW r \in BOOLEAN,
         WaitBits(t, Request(f, FALSE, r), TRUE)
  PROVE  /\ EventTypeOK(Slots)'
         /\ bits' \subseteq bits
         /\ \/ f \cap bits # {} /\ UNCHANGED blocked
            \/ f \cap bits = {} /\ blocked' = [blocked EXCEPT ![t] = Request(f, FALSE, r)]
<1> DEFINE q == Request(f, FALSE, r)
<1>1. /\ q.for = f /\ q.reset = r /\ ~q.all
      /\ q \in [for : SUBSET Slots, all : BOOLEAN, reset : BOOLEAN]
  BY DEF Request
<1>2. WaitBits(t, q, TRUE)
  OBVIOUS
<1> HIDE DEF q
<1>3. CASE Met(bits, q)
  <2>1. /\ ret' = [ret EXCEPT ![t] = bits]
        /\ bits' = IF r THEN bits \ f ELSE bits
        /\ blocked' = blocked
    BY <1>1, <1>2, <1>3 DEF WaitBits
  <2>2. f \cap bits # {}
    BY <1>1, <1>3 DEF Met
  <2> QED BY <2>1, <2>2 DEF EventTypeOK
<1>4. CASE ~Met(bits, q)
  <2>1. bits' = bits /\ ret' = ret /\ blocked' = [blocked EXCEPT ![t] = q]
    BY <1>2, <1>4 DEF WaitBits
  <2>2. f \cap bits = {}
    BY <1>1, <1>4 DEF Met
  <2> QED BY <1>1, <2>1, <2>2 DEF EventTypeOK, q
<1> QED BY <1>3, <1>4
-----------------------------------------------------------------------------
\* The invariant holds initially.
LEMMA InitIInv == Init => IInv
  BY AsyncCallAssumption
  DEF Init, IInv, TypeOK, EventInit, EventTypeOK, NoWait, Request, SlotsExclusive, Waits,
      ReturnsAfterCall, InCall, IsBlocked, Slots

\* A step that touches neither the flags nor the slots, of a task outside a call.
LEMMA QuietStep ==
  ASSUME IInv, NEW t \in Tasks, ~InCall(t), ~IsBlocked(t),
         NEW where \in {"idle", "alloc", "full", "woken"}, Go(t, where),
         UNCHANGED <<bits, blocked, slots, lastSlot, slot, called>>,
         ret' \in [Tasks -> SUBSET Slots]
  PROVE  IInv'
<1>1. pc' = [pc EXCEPT ![t] = where]
  BY DEF Go
<1>2. /\ bits' = bits /\ blocked' = blocked /\ slots' = slots /\ lastSlot' = lastSlot
      /\ slot' = slot /\ called' = called
  OBVIOUS
<1>3. TypeOK'
  BY <1>1, <1>2 DEF IInv, TypeOK, EventTypeOK
<1>4. \A u \in Tasks : InCall(u)' = InCall(u) /\ IsBlocked(u)' = IsBlocked(u)
  BY <1>1, <1>2 DEF IInv, TypeOK, InCall, IsBlocked
<1>5. \A u \in Tasks : pc'[u] = "waiting" <=> pc[u] = "waiting"
  BY <1>1 DEF IInv, TypeOK, InCall
<1>6. SlotsExclusive'
  BY <1>2, <1>4 DEF IInv, SlotsExclusive
<1>7. Waits'
  <2>1. \A u \in Tasks : IsBlocked(u) => pc'[u] \in {"woken", "waiting"}
    BY <1>1 DEF IInv, TypeOK, Waits
  <2> QED BY <1>2, <1>4, <1>5, <2>1 DEF IInv, Waits
<1>8. ReturnsAfterCall'
  BY <1>2, <1>4, <1>5 DEF IInv, ReturnsAfterCall
<1> QED BY <1>3, <1>6, <1>7, <1>8 DEF IInv

\* A slot is taken: it is free, and its flag is down afterwards.
LEMMA AllocSlotStep == ASSUME IInv, NEW t \in Tasks, AllocSlot(t) PROVE IInv'
<1> DEFINE s == FirstFree
<1>1. s \in Slots /\ s \notin slots
  BY FirstFreeIsFree DEF AllocSlot, IInv
<1> HIDE DEF s
<1>2. /\ pc[t] = "alloc" /\ pc' = [pc EXCEPT ![t] = "started"]
      /\ slot' = [slot EXCEPT ![t] = s]
      /\ slots' = slots \cup {s}
      /\ lastSlot' = s
      /\ bits' = bits \ {s}
      /\ called' = [called EXCEPT ![t] = FALSE]
      /\ UNCHANGED <<blocked, ret>>
  BY DEF AllocSlot, ClearStale, ClearBits, Go, s
<1>3. TypeOK'
  BY <1>1, <1>2 DEF IInv, TypeOK, EventTypeOK
<1>4. SlotsExclusive'
  BY <1>1, <1>2 DEF IInv, TypeOK, SlotsExclusive, InCall
<1>5. Waits'
  BY <1>1, <1>2 DEF IInv, TypeOK, EventTypeOK, Waits, InCall, IsBlocked
<1>6. ReturnsAfterCall'
  BY <1>2 DEF IInv, TypeOK, ReturnsAfterCall, IsBlocked
<1> QED BY <1>3, <1>4, <1>5, <1>6 DEF IInv

\* A task that found every slot taken waits for kEvtCallSlotFreed.
LEMMA WaitForSlotStep == ASSUME IInv, NEW t \in Tasks, WaitForSlot(t) PROVE IInv'
<1>1. {SlotFreed} \in SUBSET Slots
  BY AsyncCallAssumption DEF SlotFreed, Slots
<1>2. /\ pc[t] = "full" /\ pc' = [pc EXCEPT ![t] = "woken"]
      /\ UNCHANGED <<slots, lastSlot, slot, called>>
      /\ WaitBits(t, Request({SlotFreed}, FALSE, TRUE), TRUE)
  BY DEF WaitForSlot, Go
<1>3. /\ EventTypeOK(Slots)'
      /\ bits' \subseteq bits
      /\ \A u \in Tasks : u # t => blocked'[u] = blocked[u]
  <2>1. EventTypeOK(Slots) /\ TRUE \in BOOLEAN
    BY DEF IInv, TypeOK
  <2>2. /\ EventTypeOK(Slots)'
        /\ bits' \subseteq bits
        /\ \/ {SlotFreed} \cap bits # {} /\ UNCHANGED blocked
           \/ /\ {SlotFreed} \cap bits = {}
              /\ blocked' = [blocked EXCEPT ![t] = Request({SlotFreed}, FALSE, TRUE)]
    BY <1>1, <1>2, <2>1, WaitBitsEffect, Zenon
  <2> QED BY <2>1, <2>2 DEF EventTypeOK
<1>4. TypeOK' /\ SlotsExclusive'
  BY <1>2, <1>3 DEF IInv, TypeOK, SlotsExclusive, InCall
<1>5. Waits' /\ ReturnsAfterCall'
  BY <1>2, <1>3 DEF IInv, TypeOK, Waits, ReturnsAfterCall, InCall, IsBlocked
<1> QED BY <1>4, <1>5 DEF IInv

\* The function of one call has been run: the flag that goes up is no other's.
LEMMA OnTimerStep == ASSUME IInv, NEW t \in Tasks, OnTimer(t) PROVE IInv'
<1>1. /\ InCall(t) /\ ~called[t]
      /\ called' = [called EXCEPT ![t] = TRUE]
      /\ SetBits({slot[t]})
      /\ UNCHANGED <<slots, lastSlot, pc, slot>>
  BY DEF OnTimer, InCall
<1>2. {slot[t]} \in SUBSET Slots
  BY DEF IInv, TypeOK
<1>3. /\ EventTypeOK(Slots)'
      /\ bits' \subseteq bits \cup {slot[t]}
      /\ \A u \in Tasks : /\ blocked'[u] = blocked[u] \/ blocked'[u] = NoWait
                          /\ IsBlocked(u) /\ blocked[u].for \cap (bits \cup {slot[t]}) = {}
                               /\ ~blocked[u].all => blocked'[u] = blocked[u]
  BY <1>1, <1>2, SetBitsEffect DEF IInv, TypeOK
<1>4. TypeOK' /\ SlotsExclusive'
  BY <1>1, <1>3 DEF IInv, TypeOK, SlotsExclusive, InCall
<1>5. \A u \in Tasks : InCall(u) /\ u # t => slot[u] # slot[t]
  BY <1>1 DEF IInv, SlotsExclusive
<1>6. Waits'
  <2> SUFFICES ASSUME NEW u \in Tasks
               PROVE  /\ IsBlocked(u)' => pc[u] \in {"woken", "waiting"}
                      /\ pc[u] = "waiting" /\ IsBlocked(u)'
                           => blocked'[u] = Request({slot[u]}, FALSE, FALSE)
                      /\ InCall(u) /\ ~called'[u] => slot[u] \notin bits'
    BY <1>1 DEF Waits, InCall
  <2>1. ~called'[u] => u # t /\ ~called[u]
    BY <1>1 DEF IInv, TypeOK
  <2>2. InCall(u) /\ ~called'[u] => slot[u] \notin bits'
    BY <2>1, <1>3, <1>5 DEF IInv, Waits
  <2>3. IsBlocked(u)' => IsBlocked(u) /\ blocked'[u] = blocked[u]
    BY <1>3 DEF IsBlocked, NoWait, Request
  <2> QED BY <2>2, <2>3 DEF IInv, Waits
<1>7. ReturnsAfterCall'
  <2> SUFFICES ASSUME NEW u \in Tasks, pc[u] = "waiting", ~called'[u] PROVE IsBlocked(u)'
    BY <1>1 DEF ReturnsAfterCall
  <2>1. u # t /\ ~called[u] /\ InCall(u)
    BY <1>1 DEF IInv, TypeOK, InCall
  <2>2. IsBlocked(u) /\ blocked[u] = Request({slot[u]}, FALSE, FALSE) /\ slot[u] \notin bits
    BY <2>1 DEF IInv, ReturnsAfterCall, Waits
  <2>3. blocked'[u] = blocked[u]
    BY <2>1, <2>2, <1>3, <1>5 DEF Request
  <2> QED BY <2>2, <2>3 DEF IsBlocked
<1> QED BY <1>4, <1>6, <1>7 DEF IInv

\* A caller waits for its function: it passes only when that has been run.
LEMMA WaitForCallStep == ASSUME IInv, NEW t \in Tasks, WaitForCall(t) PROVE IInv'
<1>1. /\ pc[t] = "started" /\ pc' = [pc EXCEPT ![t] = "waiting"]
      /\ UNCHANGED <<slots, lastSlot, slot, called>>
      /\ WaitBits(t, Request({slot[t]}, FALSE, FALSE), TRUE)
  BY DEF WaitForCall, Go
<1>2. {slot[t]} \in SUBSET Slots
  BY DEF IInv, TypeOK
<1>3. /\ EventTypeOK(Slots)'
      /\ bits' \subseteq bits
      /\ \/ slot[t] \in bits /\ UNCHANGED blocked
         \/ slot[t] \notin bits /\ blocked' = [blocked EXCEPT ![t] = Request({slot[t]}, FALSE, FALSE)]
  <2>1. EventTypeOK(Slots) /\ FALSE \in BOOLEAN
    BY DEF IInv, TypeOK
  <2>2. /\ EventTypeOK(Slots)'
        /\ bits' \subseteq bits
        /\ \/ {slot[t]} \cap bits # {} /\ UNCHANGED blocked
           \/ /\ {slot[t]} \cap bits = {}
              /\ blocked' = [blocked EXCEPT ![t] = Request({slot[t]}, FALSE, FALSE)]
    BY <1>1, <1>2, <2>1, WaitBitsEffect, Zenon
  <2> QED BY <2>2
<1>4. TypeOK' /\ SlotsExclusive'
  BY <1>1, <1>3 DEF IInv, TypeOK, SlotsExclusive, InCall
<1>5. ~IsBlocked(t)
  BY <1>1 DEF IInv, Waits
<1>6. CASE slot[t] \in bits /\ UNCHANGED blocked
  <2>1. called[t]
    BY <1>1, <1>6 DEF IInv, Waits, InCall
  <2> QED BY <1>1, <1>3, <1>4, <1>5, <1>6, <2>1
          DEF IInv, TypeOK, Waits, ReturnsAfterCall, InCall, IsBlocked
<1>7. CASE slot[t] \notin bits /\ blocked' = [blocked EXCEPT ![t] = Request({slot[t]}, FALSE, FALSE)]
  <2>1. /\ blocked'[t] = Request({slot[t]}, FALSE, FALSE) /\ blocked'[t].for = {slot[t]}
        /\ \A u \in Tasks : u # t => blocked'[u] = blocked[u]
    BY <1>7 DEF IInv, TypeOK, EventTypeOK, Request
  <2> QED BY <1>1, <1>3, <1>4, <1>7, <2>1
          DEF IInv, TypeOK, Waits, ReturnsAfterCall, InCall, IsBlocked
<1> QED BY <1>3, <1>6, <1>7

\* A call ends and gives its slot back.
LEMMA ReturnStep == ASSUME IInv, NEW t \in Tasks, Return(t) PROVE IInv'
<1>1. /\ pc[t] = "waiting" /\ ~IsBlocked(t) /\ pc' = [pc EXCEPT ![t] = "idle"]
      /\ slots' = slots \ {slot[t]}
      /\ ret' = [ret EXCEPT ![t] = {}]
      /\ UNCHANGED <<bits, blocked, lastSlot, slot, called>>
  BY DEF Return, Forget, Go
<1>2. TypeOK'
  BY <1>1 DEF IInv, TypeOK, EventTypeOK
<1>3. SlotsExclusive'
  BY <1>1 DEF IInv, TypeOK, SlotsExclusive, InCall
<1>4. Waits' /\ ReturnsAfterCall'
  BY <1>1 DEF IInv, TypeOK, Waits, ReturnsAfterCall, InCall, IsBlocked
<1> QED BY <1>2, <1>3, <1>4 DEF IInv

\* Every step keeps the invariant.
LEMMA NextIInv == IInv /\ [Next]_vars => IInv'
<1> SUFFICES ASSUME IInv, [Next]_vars PROVE IInv'
  OBVIOUS
<1>1. CASE UNCHANGED vars
  <2>1. UNCHANGED <<bits, blocked, ret, slots, lastSlot, pc, slot, called>>
    BY <1>1 DEF vars, egVars
  <2>2. TypeOK' /\ SlotsExclusive'
    BY <2>1 DEF IInv, TypeOK, EventTypeOK, SlotsExclusive, InCall
  <2>3. Waits' /\ ReturnsAfterCall'
    BY <2>1 DEF IInv, Waits, ReturnsAfterCall, InCall, IsBlocked
  <2> QED BY <2>2, <2>3 DEF IInv
<1>2. ASSUME NEW t \in Tasks, Call(t) \/ NoSlot(t) PROVE IInv'
  <2>1. pc[t] \in {"idle", "alloc"}
    BY <1>2 DEF Call, NoSlot
  <2>2. ~InCall(t) /\ ~IsBlocked(t) /\ ret \in [Tasks -> SUBSET Slots]
    BY <2>1 DEF IInv, TypeOK, EventTypeOK, Waits, InCall
  <2> QED BY <1>2, <2>2, QuietStep DEF Call, NoSlot, egVars
<1>3. ASSUME NEW t \in Tasks, TryAgain(t) PROVE IInv'
  <2>1. ~InCall(t) /\ ret' \in [Tasks -> SUBSET Slots]
    BY <1>3 DEF TryAgain, Forget, IInv, TypeOK, EventTypeOK, InCall
  <2> QED BY <1>3, <2>1, QuietStep DEF TryAgain, Forget
<1> QED BY <1>1, <1>2, <1>3, AllocSlotStep, WaitForSlotStep, OnTimerStep, WaitForCallStep, ReturnStep
        DEF Next, TaskStep

\* The invariant always holds.
LEMMA Invariance == Spec => []IInv
  BY InitIInv, NextIInv, PTL DEF Spec

\* Every variable always has its type: allocSlot hands out real slots only.
THEOREM TypeCorrect == Spec => []TypeOK
  BY Invariance, PTL DEF IInv

\* No two calls in progress ever share a slot.
THEOREM SlotsHold == Spec => []SlotsExclusive
  BY Invariance, PTL DEF IInv

\* No caller reads its result before its function has been run.
THEOREM ReturnsHolds == Spec => []ReturnsAfterCall
  BY Invariance, PTL DEF IInv
=============================================================================
