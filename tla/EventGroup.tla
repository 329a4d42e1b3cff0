------------------------------ MODULE EventGroup ------------------------------
(***************************************************************************)
(* An event group: a set of flags that tasks set, clear and wait on.       *)
(*                                                                         *)
(* The primitive operations are FreeRTOS's (each call is atomic, because   *)
(* the kernel suspends the scheduler while it runs); on top of them this   *)
(* module has the two things mySystem/eventGroup.hpp and                   *)
(* mySystem/waitable.hpp add: the flags that an auto-resetting wait puts   *)
(* back, in a SECOND call, after the kernel cleared them, and the          *)
(* three-valued answer of a wait.                                          *)
(*                                                                         *)
(* The module declares no Next: the modules that own an event group build  *)
(* their actions from these.                                               *)
(***************************************************************************)
CONSTANTS Tasks,        \* the tasks that may wait
          NeverReset    \* EventGroup::mNeverResetBits

VARIABLES bits,         \* the flags that are set
          blocked,      \* per task: what it is blocked on, or NoWait
          ret           \* per task: the flags its last wait returned

\* A request of xEventGroupWaitBits. A task with an empty "for" is not waiting.
Request(flags, all, reset) == [for |-> flags, all |-> all, reset |-> reset]
NoWait == Request({}, FALSE, FALSE)

EventInit(set) ==
    /\ bits = set
    /\ blocked = [t \in Tasks |-> NoWait]
    /\ ret = [t \in Tasks |-> {}]

IsBlocked(t) == blocked[t].for # {}

Met(have, req) == IF req.all THEN req.for \subseteq have
                             ELSE req.for \cap have # {}

-----------------------------------------------------------------------------
\* Setting flags wakes every task whose request they meet; each of them gets
\* the flags as they were at that moment, and only then are the flags cleared
\* that some woken task had asked to reset. base is what ret holds otherwise.
SetBitsOver(flags, base) ==
    LET now   == bits \cup flags
        woken == {t \in Tasks : IsBlocked(t) /\ Met(now, blocked[t])}
        spent == UNION {blocked[t].for : t \in {u \in woken : blocked[u].reset}}
    IN  /\ bits' = now \ spent
        /\ ret' = [t \in Tasks |-> IF t \in woken THEN now ELSE base[t]]
        /\ blocked' = [t \in Tasks |-> IF t \in woken THEN NoWait ELSE blocked[t]]

SetBits(flags) == SetBitsOver(flags, ret)

ClearBits(flags) ==
    /\ bits' = bits \ flags
    /\ UNCHANGED <<blocked, ret>>

\* A wait that is met returns at once; another blocks, or, with a timeout of
\* zero, returns at once with the flags that happen to be set.
WaitBits(t, req, mayBlock) ==
    \/ /\ Met(bits, req)
       /\ ret' = [ret EXCEPT ![t] = bits]
       /\ bits' = IF req.reset THEN bits \ req.for ELSE bits
       /\ UNCHANGED blocked
    \/ /\ ~Met(bits, req)
       /\ mayBlock
       /\ blocked' = [blocked EXCEPT ![t] = req]
       /\ UNCHANGED <<bits, ret>>
    \/ /\ ~Met(bits, req)
       /\ ~mayBlock
       /\ ret' = [ret EXCEPT ![t] = bits]
       /\ UNCHANGED <<bits, blocked>>

\* The timeout of a blocked task: it leaves with the flags that are set.
Expire(t) ==
    /\ IsBlocked(t)
    /\ ret' = [ret EXCEPT ![t] = bits]
    /\ blocked' = [blocked EXCEPT ![t] = NoWait]
    /\ UNCHANGED bits

-----------------------------------------------------------------------------
\* The wait has been dealt with; what it returned is forgotten.
Forget(t) ==
    /\ ret' = [ret EXCEPT ![t] = {}]
    /\ UNCHANGED <<bits, blocked>>

\* EventGroup::wait, after an auto-resetting call of the kernel returned: it
\* puts the never-reset flags that it was given back.
Restore(t) == SetBitsOver(ret[t] \cap NeverReset, [ret EXCEPT ![t] = {}])

\* Waitable::waitFor and waitAndReset: stopped, timed out, or the event.
Answer(t, flags) ==
    IF "Stop" \in ret[t]          THEN "stopped"
    ELSE IF ret[t] \cap flags = {} THEN "timeout"
    ELSE "event"

EventTypeOK(flags) ==
    /\ bits \subseteq flags
    /\ blocked \in [Tasks -> [for : SUBSET flags, all : BOOLEAN, reset : BOOLEAN]]
    /\ ret \in [Tasks -> SUBSET flags]
=============================================================================
