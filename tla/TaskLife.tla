------------------------------- MODULE TaskLife -------------------------------
(***************************************************************************)
(* The Task object of mySystem/task.hpp: one owner creates tasks with it,  *)
(* one after the other, and destroys it; each task cleans up when its      *)
(* function has returned, on another core or in between any two steps of   *)
(* the owner. A stack in PSRAM is freed by a timer, some time after the    *)
(* task has deleted itself. Stacks and tasks are numbered; 0 is null.      *)
(***************************************************************************)
EXTENDS Integers

CONSTANT MaxTasks

VARIABLES mHandle, mPsramCtx,
          owner,     \* what the owner does with the object
          task,      \* where each task is
          stack,     \* the PSRAM stack each task was given
          cleanups,  \* the stacks that a cleanup timer holds
          freed      \* the stacks that were freed
taskVars == <<mHandle, mPsramCtx, owner, task, stack, cleanups, freed>>

TaskIds == 1 .. MaxTasks
UsesObject == {"running", "cleanup", "forget", "clear"}
UsesStack == UsesObject \cup {"deleting"}
Last == CHOOSE t \in 0 .. MaxTasks : \A u \in TaskIds : task[u] # "none" <=> u <= t

TaskInit ==
    /\ mHandle = 0 /\ mPsramCtx = 0
    /\ owner = "idle"
    /\ task = [t \in TaskIds |-> "none"]
    /\ stack = [t \in TaskIds |-> 0]
    /\ cleanups = {} /\ freed = {}

-----------------------------------------------------------------------------
\* createTask and doCreate. A context that is still there is used again. The
\* handle of a static task is stored when the task may already be running.
CreateInPsram ==
    /\ owner = "idle" /\ mHandle = 0 /\ Last < MaxTasks
    /\ mPsramCtx' = IF mPsramCtx = 0 THEN Last + 1 ELSE mPsramCtx
    /\ stack' = [stack EXCEPT ![Last + 1] = mPsramCtx']
    /\ task' = [task EXCEPT ![Last + 1] = "running"]
    /\ owner' = "storing"
    /\ UNCHANGED <<mHandle, cleanups, freed>>

StoreHandle ==
    /\ owner = "storing"
    /\ mHandle' = Last
    /\ owner' = "asserting"
    /\ UNCHANGED <<mPsramCtx, task, stack, cleanups, freed>>

\* xTaskCreate stores the handle before the task can run.
CreateInternal ==
    /\ owner = "idle" /\ mHandle = 0 /\ Last < MaxTasks
    /\ mHandle' = Last + 1
    /\ task' = [task EXCEPT ![Last + 1] = "running"]
    /\ owner' = "asserting"
    /\ UNCHANGED <<mPsramCtx, stack, cleanups, freed>>

AssertHandle ==
    /\ owner = "asserting"
    /\ owner' = IF mHandle = 0 THEN "aborted" ELSE "idle"
    /\ UNCHANGED <<mHandle, mPsramCtx, task, stack, cleanups, freed>>

\* The destructor polls until the handle is null.
EndWait ==
    /\ owner = "idle" /\ mHandle = 0
    /\ owner' = "destroyed"
    /\ UNCHANGED <<mHandle, mPsramCtx, task, stack, cleanups, freed>>
-----------------------------------------------------------------------------
Goes(t, from, to) == task[t] = from /\ task' = [task EXCEPT ![t] = to]

FunctionReturns(t) ==
    /\ Goes(t, "running", "cleanup")
    /\ UNCHANGED <<mHandle, mPsramCtx, owner, stack, cleanups, freed>>

\* cleanupBeforeExit: create the timer for the context, forget the context and
\* start the timer, clear the handle, delete the task.
CreateTimer(t) ==
    /\ IF mPsramCtx # 0
       THEN Goes(t, "cleanup", "forget") /\ cleanups' = cleanups \cup {mPsramCtx}
       ELSE Goes(t, "cleanup", "clear") /\ UNCHANGED cleanups
    /\ UNCHANGED <<mHandle, mPsramCtx, owner, stack, freed>>

KeepCtx(t) == mPsramCtx' = mPsramCtx
DropCtx(t) == mPsramCtx' = 0
ForgetCtx(t) ==
    /\ Goes(t, "forget", "clear")
    /\ DropCtx(t)
    /\ UNCHANGED <<mHandle, owner, stack, cleanups, freed>>

ClearHandle(t) ==
    /\ Goes(t, "clear", "deleting")
    /\ mHandle' = 0
    /\ UNCHANGED <<mPsramCtx, owner, stack, cleanups, freed>>

\* The idle task removes a deleted task, in less than the timer's 4 seconds.
Reap(t) ==
    /\ Goes(t, "deleting", "gone")
    /\ UNCHANGED <<mHandle, mPsramCtx, owner, stack, cleanups, freed>>

FreeStack(t) ==
    /\ task[t] = "gone" /\ stack[t] \in cleanups
    /\ cleanups' = cleanups \ {stack[t]}
    /\ freed' = freed \cup {stack[t]}
    /\ UNCHANGED <<mHandle, mPsramCtx, owner, task, stack>>

TaskNext ==
    \/ CreateInPsram
    \/ StoreHandle
    \/ CreateInternal
    \/ AssertHandle
    \/ EndWait
    \/ \E t \in TaskIds :
        \/ FunctionReturns(t)
        \/ CreateTimer(t)
        \/ ForgetCtx(t)
        \/ ClearHandle(t)
        \/ Reap(t)
        \/ FreeStack(t)
-----------------------------------------------------------------------------
\* A task never runs on a stack that was freed or that another task runs on,
\* nor touches the object after its destructor: what the order of the steps of
\* cleanupBeforeExit is for, even if the function returns before createTask.
StackAndObjectHeld ==
    /\ \A t \in TaskIds : task[t] \in UsesStack /\ stack[t] # 0 =>
        /\ stack[t] \notin freed
        /\ \A u \in TaskIds \ {t} : task[u] \in UsesStack => stack[u] # stack[t]
    /\ owner = "destroyed" => \A t \in TaskIds : task[t] \notin UsesObject
=============================================================================
