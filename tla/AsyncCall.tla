------------------------------ MODULE AsyncCall ------------------------------
(***************************************************************************)
(* asyncCallWait() of mySystem/asyncCall.hpp: a task has a function run by *)
(* the timer service and waits until that is done. Each call takes a slot, *)
(* a flag of one shared event group, on which its end is signalled; the    *)
(* last slot doubles as kEvtCallSlotFreed, the flag on which a task waits  *)
(* when all slots are taken. Slots are numbered from 0.                    *)
(***************************************************************************)
EXTENDS Integers, FiniteSets

CONSTANTS Tasks, NumSlots     \* kNumSlots

ASSUME AsyncCallAssumption == NumSlots \in Nat \ {0} /\ IsFiniteSet(Tasks)

VARIABLES bits, blocked, ret, \* BlockingAsyncCtx::mEvents, see EventGroup
          slots,              \* mSlots, the slots that are taken
          lastSlot,           \* mLastSlot
          pc, slot,           \* per task: where it is, and BlockingCall::mSlot
          called              \* per task: its function has been run

INSTANCE EventGroup WITH NeverReset <- {}

egVars == <<bits, blocked, ret>>
vars == <<egVars, slots, lastSlot, pc, slot, called>>

Slots == 0 .. NumSlots - 1
SlotFreed == NumSlots - 1     \* kEvtCallSlotFreed

Init ==
    /\ EventInit({})
    /\ slots = {}
    /\ lastSlot = 0
    /\ pc = [t \in Tasks |-> "idle"]
    /\ slot = [t \in Tasks |-> 0]
    /\ called = [t \in Tasks |-> FALSE]

Go(t, where) == pc' = [pc EXCEPT ![t] = where]

Call(t) ==
    /\ pc[t] = "idle"
    /\ Go(t, "alloc")
    /\ UNCHANGED <<egVars, slots, lastSlot, slot, called>>

\* The first free slot at or after the one that was taken last.
From(s) == (s - lastSlot) % NumSlots
FirstFreeUnchecked == lastSlot
FirstFree == CHOOSE s \in Slots \ slots : \A u \in Slots \ slots : From(s) <= From(u)

\* The end of an earlier call in the slot is forgotten.
ClearNothing(s) == UNCHANGED egVars
ClearEverything(s) == ClearBits(Slots)
ClearStale(s) == ClearBits({s})

\* allocSlot, under the mutex; the timer is started as soon as it returns.
AllocSlot(t) ==
    /\ pc[t] = "alloc"
    /\ Slots \ slots # {}
    /\ slot' = [slot EXCEPT ![t] = FirstFree]
    /\ slots' = slots \cup {FirstFree}
    /\ lastSlot' = FirstFree
    /\ ClearStale(FirstFree)
    /\ called' = [called EXCEPT ![t] = FALSE]
    /\ Go(t, "started")

NoSlot(t) ==
    /\ pc[t] = "alloc"
    /\ Slots \ slots = {}
    /\ Go(t, "full")
    /\ UNCHANGED <<egVars, slots, lastSlot, slot, called>>

WaitForSlot(t) ==
    /\ pc[t] = "full"
    /\ WaitBits(t, Request({SlotFreed}, FALSE, TRUE), TRUE)
    /\ Go(t, "woken")
    /\ UNCHANGED <<slots, lastSlot, slot, called>>

TryAgain(t) ==
    /\ pc[t] = "woken"
    /\ ~IsBlocked(t)
    /\ Forget(t)
    /\ Go(t, "alloc")
    /\ UNCHANGED <<slots, lastSlot, slot, called>>

\* BlockingCall::onTimer, in the timer service
OnTimer(t) ==
    /\ pc[t] \in {"started", "waiting"}
    /\ ~called[t]
    /\ called' = [called EXCEPT ![t] = TRUE]
    /\ SetBits({slot[t]})
    /\ UNCHANGED <<slots, lastSlot, pc, slot>>

WaitForCall(t) ==
    /\ pc[t] = "started"
    /\ WaitBits(t, Request({slot[t]}, FALSE, FALSE), TRUE)
    /\ Go(t, "waiting")
    /\ UNCHANGED <<slots, lastSlot, slot, called>>

\* ~BlockingCall, with releaseSlot: no event is set.
Return(t) ==
    /\ pc[t] = "waiting"
    /\ ~IsBlocked(t)
    /\ Forget(t)
    /\ slots' = slots \ {slot[t]}
    /\ Go(t, "idle")
    /\ UNCHANGED <<lastSlot, slot, called>>

TaskStep(t) ==
    AllocSlot(t) \/ NoSlot(t) \/ WaitForSlot(t) \/ TryAgain(t) \/ WaitForCall(t) \/ Return(t)

Next == \E t \in Tasks : Call(t) \/ TaskStep(t) \/ OnTimer(t)

Spec == Init /\ [][Next]_vars

\* Tasks inside a call run, and the timer service runs what was started.
Fairness == \A t \in Tasks : WF_vars(TaskStep(t)) /\ WF_vars(OnTimer(t))
FairSpec == Spec /\ Fairness
-----------------------------------------------------------------------------
\* Every variable has its type: no slot is beyond the last.
TypeOK ==
    /\ EventTypeOK(Slots)
    /\ slots \subseteq Slots
    /\ lastSlot \in Slots
    /\ pc \in [Tasks -> {"idle", "alloc", "full", "woken", "started", "waiting"}]
    /\ slot \in [Tasks -> Slots]
    /\ called \in [Tasks -> BOOLEAN]

InCall(t) == pc[t] \in {"started", "waiting"}

\* Each call in progress has a slot of its own, and no other slot is taken: a
\* signal meant for one caller cannot end another's wait.
SlotsExclusive ==
    /\ slots = {slot[t] : t \in {u \in Tasks : InCall(u)}}
    /\ \A t, u \in Tasks : InCall(t) /\ InCall(u) /\ t # u => slot[t] # slot[u]

\* asyncCallWait() does not return, and read the result, before the function
\* has been run for this call: the flag that an earlier call left set in the
\* same slot does not count.
ReturnsAfterCall == \A t \in Tasks : pc[t] = "waiting" /\ ~IsBlocked(t) => called[t]

\* Every call that got a slot other than the last ends.
CallsReturn ==
    \A t \in Tasks : (pc[t] = "started" /\ slot[t] # SlotFreed) ~> pc[t] = "idle"

\* asyncCall.hpp:58, allocSlot "finds an empty slot in the event group": a task
\* that waits for a slot while there is one does not wait for ever.
FindsEmptySlot == \A t \in Tasks : (pc[t] = "woken" /\ [](slots # Slots)) ~> pc[t] # "woken"
=============================================================================
