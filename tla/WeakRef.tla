------------------------------- MODULE WeakRef -------------------------------
(***************************************************************************)
(* mySystem/weakRef.hpp: an object, the handles to it that others hold,    *)
(* and the data they share, which say where the object is and how many     *)
(* handles there are. Threads copy and destroy their handles at any time.  *)
(* A handle made without arguments, which cannot be destroyed, and one     *)
(* that was assigned to, which is not counted, are not made here.          *)
(***************************************************************************)
EXTENDS Naturals

CONSTANT Handles    \* the handles that others may hold at the same time

VARIABLES
    mPtr,           \* the object is there
    mRefCount,
    held,           \* the handles that exist; the object's mWeakRefHandle is "own"
    falling,        \* those being destroyed, and the count that each was left with
    deletes         \* how often the shared data were deleted

weakVars == <<mPtr, mRefCount, held, falling, deletes>>

Init ==
    /\ mPtr = TRUE /\ mRefCount = 1
    /\ held = {"own"} /\ falling = [handle \in {} |-> 0] /\ deletes = 0

\* weakHandle() and the copy constructor: who copies has a handle.
Copy(handle) ==
    /\ handle \notin held \cup DOMAIN falling
    /\ held # {}
    /\ held' = held \cup {handle}
    /\ mRefCount' = mRefCount + 1
    /\ UNCHANGED <<mPtr, falling, deletes>>

\* ~WeakReferenceable, after which its own handle is destroyed.
DestroyObject ==
    /\ mPtr
    /\ mPtr' = FALSE
    /\ UNCHANGED <<mRefCount, held, falling, deletes>>

\* ~WeakRefHandle decrements the atomic counter ...
Destroy(handle) ==
    /\ handle \in held /\ (handle = "own" => ~mPtr)
    /\ held' = held \ {handle}
    /\ mRefCount' = mRefCount - 1
    /\ falling' = [h \in DOMAIN falling \cup {handle} |-> IF h = handle THEN mRefCount - 1 ELSE falling[h]]
    /\ UNCHANGED <<mPtr, deletes>>

\* ... and deletes the data if that left nothing.
CountGot(handle) == falling[handle]
CountNow(handle) == mRefCount
CountSeen(handle) == CountGot(handle)

Delete(handle) ==
    /\ handle \in DOMAIN falling
    /\ deletes' = deletes + (IF CountSeen(handle) <= 0 THEN 1 ELSE 0)
    /\ falling' = [h \in DOMAIN falling \ {handle} |-> falling[h]]
    /\ UNCHANGED <<mPtr, mRefCount, held>>

Next ==
    \/ DestroyObject
    \/ \E handle \in Handles : Copy(handle)
    \/ \E handle \in Handles \cup {"own"} : Destroy(handle) \/ Delete(handle)
-----------------------------------------------------------------------------
\* Handles may be destroyed by several threads at once, the object's own among
\* them (weakRef.hpp:36-41, 74-78): the shared data stay as long as there is a
\* handle that could be asked, and are deleted once and only once.
DeletedOnce ==
    /\ deletes <= 1
    /\ held # {} => deletes = 0
    /\ held = {} /\ DOMAIN falling = {} => deletes = 1
=============================================================================
