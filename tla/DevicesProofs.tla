---------------------------- MODULE DevicesProofs ----------------------------
(***************************************************************************)
(* What holds of the parts composed in MCDevices for all values of their   *)
(* constants: any number of handles, of tasks that a Task object creates   *)
(* one after the other, and of attempts to connect; a display, a FIFO and  *)
(* DMA buffers of any size; a frame of any size, and any calls that draw   *)
(* on it. Each part has its own inductive invariant; they share no         *)
(* variable.                                                               *)
(***************************************************************************)
EXTENDS MCDevices, FiniteSetTheorems, SequenceTheorems, WellFoundedInduction, TLAPS

\* A step of the composition is a step of each part, or leaves it alone.
LEMMA StepOfEach ==
  ASSUME [MCNext]_allVars
  PROVE  /\ [Client!Next]_wifiVars /\ [Stack!Next]_btVars /\ [Weak!Next]_weakVars
         /\ [Task!TaskNext]_taskVars /\ [Dog!WatchdogNext]_dogVars /\ [Lcd!Next]_spiVars
         /\ [Frame!FrameNext]_frameVars
<1>1. CASE UNCHANGED allVars
  BY <1>1 DEF allVars, wifiVars, btVars, weakVars, taskVars, dogVars, spiVars, frameVars
<1>2. CASE MCNext
  BY <1>2 DEF MCNext, Only, AsyncStep, WifiStep, BluetoothStep, WeakStep, TaskLifeStep,
              WatchdogStep, SpiStep, FrameStep
<1> QED BY <1>1, <1>2
-----------------------------------------------------------------------------
(* WeakRef. *)

\* The count is that of the handles that exist. While there is one nobody was
\* left with nothing, and once there is none exactly one was, or has deleted.
WeakInv ==
    /\ IsFiniteSet(held) /\ mRefCount = Cardinality(held)
    /\ falling \in [DOMAIN falling -> Nat] /\ held \cap DOMAIN falling = {}
    /\ held # {} => deletes = 0 /\ \A h \in DOMAIN falling : falling[h] > 0
    /\ held = {} => \/ deletes = 1 /\ \A h \in DOMAIN falling : falling[h] > 0
                    \/ /\ deletes = 0
                       /\ \E h \in DOMAIN falling :
                            falling[h] = 0 /\ \A g \in DOMAIN falling \ {h} : falling[g] > 0

LEMMA CopyKeeps == ASSUME WeakInv, NEW h, Weak!Copy(h) PROVE WeakInv'
<1>1. /\ h \notin held \cup DOMAIN falling /\ held # {} /\ held' = held \cup {h}
      /\ mRefCount' = mRefCount + 1 /\ UNCHANGED <<falling, deletes>>
  BY DEF Weak!Copy
<1>2. IsFiniteSet(held') /\ Cardinality(held') = Cardinality(held) + 1
  BY <1>1, FS_AddElement DEF WeakInv
<1> QED BY <1>1, <1>2 DEF WeakInv

LEMMA DestroyKeeps == ASSUME WeakInv, NEW h, Weak!Destroy(h) PROVE WeakInv'
<1>1. /\ h \in held /\ held' = held \ {h} /\ mRefCount' = mRefCount - 1 /\ deletes' = deletes
      /\ falling' = [g \in DOMAIN falling \cup {h} |-> IF g = h THEN mRefCount - 1 ELSE falling[g]]
  BY DEF Weak!Destroy
<1>2. IsFiniteSet(held') /\ Cardinality(held') = Cardinality(held) - 1 /\ mRefCount' = Cardinality(held')
  BY <1>1, FS_RemoveElement DEF WeakInv
<1>3. Cardinality(held') \in Nat /\ (Cardinality(held') = 0 <=> held' = {})
  BY <1>2, FS_CardinalityType, FS_EmptySet
<1>4. DOMAIN falling' = DOMAIN falling \cup {h} /\ falling'[h] = Cardinality(held')
      /\ \A g \in DOMAIN falling : falling'[g] = falling[g]
  BY <1>1, <1>2 DEF WeakInv
<1>5. falling' \in [DOMAIN falling' -> Nat] /\ held' \cap DOMAIN falling' = {}
  BY <1>1, <1>2, <1>3, <1>4 DEF WeakInv
<1>6. deletes' = 0 /\ \A g \in DOMAIN falling' \ {h} : falling'[g] > 0
  BY <1>1, <1>4 DEF WeakInv
<1>7. CASE held' = {}
  <2>1. h \in DOMAIN falling' /\ falling'[h] = 0
    BY <1>3, <1>4, <1>7
  <2> QED BY <1>2, <1>5, <1>6, <1>7, <2>1 DEF WeakInv
<1>8. CASE held' # {}
  <2>1. falling'[h] > 0
    BY <1>3, <1>4, <1>8
  <2> QED BY <1>2, <1>4, <1>5, <1>6, <1>8, <2>1 DEF WeakInv
<1> QED BY <1>7, <1>8

LEMMA DeleteKeeps == ASSUME WeakInv, NEW h, Weak!Delete(h) PROVE WeakInv'
<1>1. /\ h \in DOMAIN falling /\ UNCHANGED <<mRefCount, held>>
      /\ deletes' = deletes + (IF falling[h] <= 0 THEN 1 ELSE 0)
      /\ falling' = [g \in DOMAIN falling \ {h} |-> falling[g]]
  BY DEF Weak!Delete, Weak!CountSeen, Weak!CountGot
<1>2. /\ DOMAIN falling' = DOMAIN falling \ {h} /\ \A g \in DOMAIN falling' : falling'[g] = falling[g]
      /\ falling' \in [DOMAIN falling' -> Nat] /\ falling[h] \in Nat
  BY <1>1 DEF WeakInv
<1>3. CASE falling[h] = 0
  <2>1. held = {} /\ deletes = 0 /\ \A g \in DOMAIN falling \ {h} : falling[g] > 0
    BY <1>1, <1>3 DEF WeakInv
  <2> QED BY <1>1, <1>2, <1>3, <2>1 DEF WeakInv
<1>4. CASE falling[h] > 0
  <2>1. deletes' = deletes
    BY <1>1, <1>4 DEF WeakInv
  <2> QED BY <1>1, <1>2, <1>4, <2>1 DEF WeakInv
<1> QED BY <1>2, <1>3, <1>4

LEMMA WeakInvHolds == MCSpec => []WeakInv
<1>1. MCInit => WeakInv
  <2> SUFFICES ASSUME Weak!Init PROVE WeakInv
    BY DEF MCInit
  <2>1. held = {"own"} /\ IsFiniteSet(held) /\ Cardinality(held) = 1
    BY FS_Singleton DEF Weak!Init
  <2>2. DOMAIN falling = {} /\ falling \in [DOMAIN falling -> Nat] /\ deletes = 0 /\ mRefCount = 1
    BY DEF Weak!Init
  <2> QED BY <2>1, <2>2 DEF WeakInv
<1>2. WeakInv /\ [MCNext]_allVars => WeakInv'
  <2> SUFFICES ASSUME WeakInv, [Weak!Next]_weakVars PROVE WeakInv'
    BY StepOfEach
  <2>1. CASE UNCHANGED weakVars \/ Weak!DestroyObject
    BY <2>1 DEF weakVars, Weak!DestroyObject, WeakInv
  <2> QED BY <2>1, CopyKeeps, DestroyKeeps, DeleteKeeps DEF Weak!Next
<1> QED BY <1>1, <1>2, PTL DEF MCSpec

\* However handles are copied and destroyed, the data they share are deleted
\* once, by the one that was left with nothing, and not while there is a handle.
THEOREM DeletedOnceHolds == MCSpec => []DeletedOnce
<1>1. WeakInv => DeletedOnce
  BY DEF WeakInv, DeletedOnce, Weak!DeletedOnce
<1> QED BY <1>1, WeakInvHolds, PTL
-----------------------------------------------------------------------------
(* TaskLife. *)

TaskType ==
    /\ mHandle \in 0 .. MaxTasks /\ mPsramCtx \in 0 .. MaxTasks
    /\ owner \in {"idle", "storing", "asserting", "aborted", "destroyed"}
    /\ task \in [Task!TaskIds -> {"none", "running", "cleanup", "forget", "clear", "deleting", "gone"}]
    /\ stack \in [Task!TaskIds -> 0 .. MaxTasks]
    /\ cleanups \subseteq Task!TaskIds /\ freed \subseteq Task!TaskIds

\* The tasks that were created are the first ones, n of them.
Created(n) == \A t \in Task!TaskIds : task[t] # "none" <=> t <= n

\* Only the task created last may use the object, which is there and has its
\* handle, or is about to have it; and the context is that task's.
LastUsesObject ==
    /\ Task!Last \in 0 .. MaxTasks /\ Created(Task!Last)
    /\ \A t \in Task!TaskIds : task[t] \in Task!UsesObject =>
        t = Task!Last /\ owner # "destroyed" /\ (owner = "storing" \/ mHandle = t)
    /\ \A t \in Task!TaskIds : task[t] \in {"running", "cleanup", "forget"} => stack[t] = mPsramCtx
    /\ mPsramCtx # 0 => task[mPsramCtx] \in {"running", "cleanup", "forget"}

\* Each stack is of one task only, and is freed after that one is gone.
StackOfOne ==
    /\ \A t \in Task!TaskIds : stack[t] \in {0, t} /\ (task[t] = "none" => stack[t] = 0)
    /\ \A t \in freed : task[t] = "gone"

TaskInv == TaskType /\ LastUsesObject /\ StackOfOne

\* A number up to which the tasks were created is Last, before a step ...
LEMMA LastIs == ASSUME NEW n \in 0 .. MaxTasks, Created(n) PROVE Task!Last = n
<1> USE DevicesAssumption DEF Task!TaskIds
<1>1. Task!Last \in 0 .. MaxTasks /\ Created(Task!Last)
  BY DEF Task!Last, Created
<1>2. ASSUME NEW a \in 0 .. MaxTasks, NEW b \in 0 .. MaxTasks, Created(a), Created(b), a < b PROVE FALSE
  <2>1. b \in Task!TaskIds /\ b <= b /\ ~(b <= a)
    BY <1>2
  <2> QED BY <1>2, <2>1 DEF Created
<1>3. ~(Task!Last < n) /\ ~(n < Task!Last)
  BY <1>1, <1>2
<1> QED BY <1>1, <1>3

\* ... and after it.
LEMMA LastIsNext == ASSUME NEW n \in 0 .. MaxTasks, Created(n)' PROVE Task!Last' = n
<1> USE DevicesAssumption DEF Task!TaskIds
<1>1. Task!Last' \in 0 .. MaxTasks /\ \A t \in 1 .. MaxTasks : task'[t] # "none" <=> t <= Task!Last'
  BY DEF Task!Last, Created
<1>2. \A t \in 1 .. MaxTasks : task'[t] # "none" <=> t <= n
  BY DEF Created
<1> DEFINE m == Task!Last'
<1> HIDE DEF m
<1>3. m \in 0 .. MaxTasks /\ \A t \in 1 .. MaxTasks : task'[t] # "none" <=> t <= m
  BY <1>1 DEF m
<1>4. ~(m < n) /\ ~(n < m)
  BY <1>2, <1>3
<1> QED BY <1>3, <1>4 DEF m

\* A step of task t itself, from one place to the next.
LEMMA GoesKeeps ==
  ASSUME TaskInv, NEW t \in Task!TaskIds, NEW from, NEW to, Task!Goes(t, from, to),
         from # "none",
         to \in {"cleanup", "forget", "clear", "deleting", "gone"}
  PROVE  /\ task[t] = from /\ task' = [task EXCEPT ![t] = to]
         /\ task' \in [Task!TaskIds ->
                {"none", "running", "cleanup", "forget", "clear", "deleting", "gone"}]
         /\ Task!Last' = Task!Last /\ Task!Last \in 0 .. MaxTasks /\ Created(Task!Last)'
<1>1. PICK n \in 0 .. MaxTasks : Task!Last = n /\ Created(n)
  BY DEF TaskInv, LastUsesObject
<1>2. /\ task[t] = from /\ task' = [task EXCEPT ![t] = to]
      /\ task \in [Task!TaskIds ->
            {"none", "running", "cleanup", "forget", "clear", "deleting", "gone"}]
  BY DEF Task!Goes, TaskInv, TaskType
<1>3. \A u \in Task!TaskIds : task'[u] # "none" <=> task[u] # "none"
  BY <1>2
<1>4. Created(n)'
  BY <1>1, <1>3 DEF Created
<1>5. Task!Last' = n
  BY <1>4, LastIsNext
<1>6. Created(Task!Last)'
  BY <1>4, <1>5 DEF Created
<1> QED BY <1>1, <1>2, <1>5, <1>6

\* A task is created, with the context or with a stack of FreeRTOS's: there is
\* no other that uses the object, whose handle is null.
LEMMA CreateKeeps == ASSUME TaskInv, Task!CreateInPsram \/ Task!CreateInternal PROVE TaskInv'
<1> USE DevicesAssumption DEF Task!TaskIds, Task!UsesObject
<1>1. PICK n \in 0 .. MaxTasks : Task!Last = n /\ Created(n)
  BY DEF TaskInv, LastUsesObject
<1>2. /\ owner = "idle" /\ mHandle = 0 /\ n < MaxTasks /\ UNCHANGED <<cleanups, freed>>
      /\ task' = [task EXCEPT ![n + 1] = "running"]
  BY <1>1 DEF Task!CreateInPsram, Task!CreateInternal
<1>3. n + 1 \in 1 .. MaxTasks /\ Created(n + 1)'
  BY <1>1, <1>2 DEF Created, TaskInv, TaskType
<1>4. Task!Last' = n + 1 /\ Created(Task!Last)'
  <2>1. Task!Last' = n + 1
    BY <1>3, LastIsNext
  <2> QED BY <1>3, <2>1 DEF Created
<1>5. \A t \in 1 .. MaxTasks : task[t] \notin Task!UsesObject
  BY <1>2 DEF TaskInv, LastUsesObject
<1>6. mPsramCtx = 0
  BY <1>5 DEF TaskInv, TaskType, LastUsesObject
<1>7. /\ task[n + 1] = "none" /\ task'[n + 1] = "running"
      /\ \A t \in 1 .. MaxTasks : t # n + 1 => task'[t] = task[t]
  BY <1>1, <1>2, <1>3 DEF Created, TaskInv, TaskType
<1>8. CASE Task!CreateInPsram
  <2>1. /\ mPsramCtx' = n + 1 /\ stack' = [stack EXCEPT ![n + 1] = n + 1]
        /\ owner' = "storing" /\ mHandle' = mHandle
    BY <1>1, <1>6, <1>8 DEF Task!CreateInPsram
  <2>2. TaskType'
    BY <1>2, <1>3, <2>1 DEF TaskInv, TaskType
  <2>3. LastUsesObject'
    BY <1>3, <1>4, <1>5, <1>7, <2>1 DEF TaskInv, TaskType, LastUsesObject
  <2>4. StackOfOne'
    BY <1>2, <1>3, <1>7, <2>1 DEF TaskInv, TaskType, StackOfOne
  <2> QED BY <2>2, <2>3, <2>4 DEF TaskInv
<1>9. CASE Task!CreateInternal
  <2>1. mPsramCtx' = 0 /\ stack' = stack /\ owner' = "asserting" /\ mHandle' = n + 1
    BY <1>1, <1>6, <1>9 DEF Task!CreateInternal
  <2>2. TaskType'
    BY <1>2, <1>3, <2>1 DEF TaskInv, TaskType
  <2>3. StackOfOne'
    BY <1>2, <1>3, <1>7, <2>1 DEF TaskInv, TaskType, StackOfOne
  <2>4. stack[n + 1] = 0
    BY <1>3, <1>7 DEF TaskInv, StackOfOne
  <2>5. LastUsesObject'
    BY <1>3, <1>4, <1>5, <1>7, <2>1, <2>4 DEF TaskInv, TaskType, LastUsesObject
  <2> QED BY <2>2, <2>3, <2>5 DEF TaskInv
<1> QED BY <1>8, <1>9

\* What the owner does besides.
LEMMA OwnerKeeps ==
  ASSUME TaskInv, Task!StoreHandle \/ Task!AssertHandle \/ Task!EndWait
  PROVE  TaskInv'
<1> USE DevicesAssumption DEF Task!TaskIds, Task!UsesObject
<1>1. UNCHANGED <<mPsramCtx, task, stack, cleanups, freed>>
  BY DEF Task!StoreHandle, Task!AssertHandle, Task!EndWait
<1>2. Task!Last' = Task!Last /\ Created(Task!Last)'
  BY <1>1 DEF TaskInv, LastUsesObject, Task!Last, Created
<1>3. \/ mHandle' = Task!Last /\ owner' = "asserting"
      \/ mHandle' = mHandle /\ owner = "asserting" /\ owner' \in {"aborted", "idle"}
      \/ mHandle' = 0 /\ mHandle = 0 /\ owner = "idle" /\ owner' = "destroyed"
  BY DEF Task!StoreHandle, Task!AssertHandle, Task!EndWait
<1>4. TaskType'
  BY <1>1, <1>3 DEF TaskInv, TaskType, LastUsesObject
<1>5. StackOfOne'
  BY <1>1 DEF TaskInv, StackOfOne
<1>6. LastUsesObject'
  BY <1>1, <1>2, <1>3 DEF TaskInv, TaskType, LastUsesObject
<1> QED BY <1>4, <1>5, <1>6 DEF TaskInv

\* cleanupBeforeExit, and what the system does to the task afterwards.
LEMMA TaskKeeps ==
  ASSUME TaskInv, NEW t \in Task!TaskIds,
         \/ Task!FunctionReturns(t) \/ Task!CreateTimer(t) \/ Task!ForgetCtx(t)
         \/ Task!ClearHandle(t) \/ Task!Reap(t) \/ Task!FreeStack(t)
  PROVE  TaskInv'
<1> USE DevicesAssumption DEF Task!TaskIds, Task!UsesObject
<1>1. CASE Task!FunctionReturns(t) \/ Task!Reap(t)
  <2>1. PICK from \in {"running", "deleting"}, to \in {"cleanup", "gone"} :
            Task!Goes(t, from, to) /\ (from = "running" <=> to = "cleanup")
    BY <1>1 DEF Task!FunctionReturns, Task!Reap
  <2>2. UNCHANGED <<mHandle, mPsramCtx, owner, stack, cleanups, freed>>
    BY <1>1 DEF Task!FunctionReturns, Task!Reap
  <2>3. /\ task[t] = from /\ task' = [task EXCEPT ![t] = to] /\ TaskType'
        /\ Task!Last' = Task!Last /\ Task!Last' \in 0 .. MaxTasks /\ Created(Task!Last)'
    BY <2>1, <2>2, GoesKeeps DEF TaskInv, TaskType
  <2>4. LastUsesObject'
    BY <2>1, <2>2, <2>3 DEF TaskInv, TaskType, LastUsesObject
  <2>5. StackOfOne'
    BY <2>1, <2>2, <2>3 DEF TaskInv, TaskType, StackOfOne
  <2> QED BY <2>3, <2>4, <2>5 DEF TaskInv
<1>2. CASE Task!CreateTimer(t)
  <2>1. PICK to \in {"forget", "clear"} :
            /\ Task!Goes(t, "cleanup", to) /\ (to = "forget" <=> mPsramCtx # 0)
            /\ cleanups' = IF mPsramCtx # 0 THEN cleanups \cup {mPsramCtx} ELSE cleanups
    BY <1>2 DEF Task!CreateTimer
  <2>2. UNCHANGED <<mHandle, mPsramCtx, owner, stack, freed>>
    BY <1>2 DEF Task!CreateTimer
  <2>3. /\ task[t] = "cleanup" /\ task' = [task EXCEPT ![t] = to] /\ TaskType'
        /\ Task!Last' = Task!Last /\ Task!Last' \in 0 .. MaxTasks /\ Created(Task!Last)'
    BY <2>1, <2>2, GoesKeeps DEF TaskInv, TaskType
  <2>4. LastUsesObject'
    BY <2>1, <2>2, <2>3 DEF TaskInv, TaskType, LastUsesObject
  <2>5. StackOfOne'
    BY <2>1, <2>2, <2>3 DEF TaskInv, TaskType, StackOfOne
  <2> QED BY <2>3, <2>4, <2>5 DEF TaskInv
<1>3. CASE Task!ForgetCtx(t)
  <2>1. /\ Task!Goes(t, "forget", "clear") /\ mPsramCtx' = 0
        /\ UNCHANGED <<mHandle, owner, stack, cleanups, freed>>
    BY <1>3 DEF Task!ForgetCtx, Task!DropCtx
  <2>2. /\ task[t] = "forget" /\ task' = [task EXCEPT ![t] = "clear"] /\ TaskType'
        /\ Task!Last' = Task!Last /\ Task!Last' \in 0 .. MaxTasks /\ Created(Task!Last)'
    BY <2>1, GoesKeeps DEF TaskInv, TaskType
  <2>3. \A u \in 1 .. MaxTasks : task'[u] \in {"running", "cleanup", "forget"} => u = t /\ u # t
    BY <2>2 DEF TaskInv, TaskType, LastUsesObject
  <2>4. LastUsesObject'
    BY <2>1, <2>2, <2>3 DEF TaskInv, TaskType, LastUsesObject
  <2>5. StackOfOne'
    BY <2>1, <2>2 DEF TaskInv, TaskType, StackOfOne
  <2> QED BY <2>2, <2>4, <2>5 DEF TaskInv
<1>4. CASE Task!ClearHandle(t)
  <2>1. /\ Task!Goes(t, "clear", "deleting") /\ mHandle' = 0
        /\ UNCHANGED <<mPsramCtx, owner, stack, cleanups, freed>>
    BY <1>4 DEF Task!ClearHandle
  <2>2. /\ task[t] = "clear" /\ task' = [task EXCEPT ![t] = "deleting"] /\ TaskType'
        /\ Task!Last' = Task!Last /\ Task!Last' \in 0 .. MaxTasks /\ Created(Task!Last)'
    BY <2>1, GoesKeeps DEF TaskInv, TaskType
  <2>3. \A u \in 1 .. MaxTasks : task'[u] \notin Task!UsesObject
    BY <2>2 DEF TaskInv, TaskType, LastUsesObject
  <2>4. LastUsesObject'
    BY <2>1, <2>2, <2>3 DEF TaskInv, TaskType, LastUsesObject
  <2>5. StackOfOne'
    BY <2>1, <2>2 DEF TaskInv, TaskType, StackOfOne
  <2> QED BY <2>2, <2>4, <2>5 DEF TaskInv
<1>5. CASE Task!FreeStack(t)
  <2>1. /\ task[t] = "gone" /\ stack[t] \in cleanups /\ cleanups' = cleanups \ {stack[t]}
        /\ freed' = freed \cup {stack[t]} /\ UNCHANGED <<mHandle, mPsramCtx, owner, task, stack>>
    BY <1>5 DEF Task!FreeStack
  <2>2. stack[t] = t
    BY <2>1 DEF TaskInv, TaskType, StackOfOne
  <2>3. TaskType' /\ StackOfOne'
    BY <2>1, <2>2 DEF TaskInv, TaskType, StackOfOne
  <2>4. LastUsesObject'
    BY <2>1 DEF TaskInv, LastUsesObject, Created, Task!Last
  <2> QED BY <2>3, <2>4 DEF TaskInv
<1> QED BY <1>1, <1>2, <1>3, <1>4, <1>5

LEMMA TaskInvHolds == MCSpec => []TaskInv
<1> USE DevicesAssumption DEF Task!TaskIds, Task!UsesObject
<1>1. MCInit => TaskInv
  <2> SUFFICES ASSUME Task!TaskInit PROVE TaskInv
    BY DEF MCInit
  <2>1. Created(0)
    BY DEF Task!TaskInit, Created
  <2>2. Task!Last = 0
    BY <2>1, LastIs
  <2> QED BY <2>1, <2>2 DEF Task!TaskInit, TaskInv, TaskType, LastUsesObject, StackOfOne
<1>2. TaskInv /\ [MCNext]_allVars => TaskInv'
  <2> SUFFICES ASSUME TaskInv, [Task!TaskNext]_taskVars PROVE TaskInv'
    BY StepOfEach
  <2>1. CASE UNCHANGED taskVars
    <3>1. UNCHANGED <<mHandle, mPsramCtx, owner, task, stack, cleanups, freed>>
      BY <2>1 DEF taskVars
    <3>2. TaskType' /\ StackOfOne'
      BY <3>1 DEF TaskInv, TaskType, StackOfOne
    <3>3. LastUsesObject'
      BY <3>1 DEF TaskInv, LastUsesObject, Created, Task!Last
    <3> QED BY <3>2, <3>3 DEF TaskInv
  <2> QED BY <2>1, CreateKeeps, OwnerKeeps, TaskKeeps DEF Task!TaskNext
<1> QED BY <1>1, <1>2, PTL DEF MCSpec

\* However late a task cleans up, on whatever core, and however many tasks the
\* object creates one after the other: no stack is freed or given to another task
\* while a task uses it, and no task uses an object that was destroyed.
THEOREM StackAndObjectHeldHolds == MCSpec => []StackAndObjectHeld
<1>1. TaskInv => StackAndObjectHeld
  BY DEF TaskInv, TaskType, LastUsesObject, StackOfOne, StackAndObjectHeld, Task!StackAndObjectHeld,
         Task!UsesStack, Task!UsesObject
<1> QED BY <1>1, TaskInvHolds, PTL
-----------------------------------------------------------------------------
(* Watchdog. *)

\* The watchdog is as it should be, and who waits for an answer has had none.
DogInv ==
    /\ mState \in {Idle, kPingTimer, kPongTimer}
    /\ armed \subseteq {kPingTimer, kPongTimer}
    /\ firing \in {Idle, kPingTimer, kPongTimer}
    /\ answered \in BOOLEAN
    /\ WatchdogSound
    /\ mState = kPongTimer => ~answered

LEMMA DogInvHolds == MCSpec => []DogInv
<1> USE DevicesAssumption DEF Dog!WatchdogSound, WatchdogSound
<1>1. MCInit => DogInv
  BY DEF MCInit, Dog!WatchdogInit, DogInv
<1>2. DogInv /\ [MCNext]_allVars => DogInv'
  <2> SUFFICES ASSUME DogInv, [Dog!WatchdogNext]_dogVars PROVE DogInv'
    BY StepOfEach
  <2>1. CASE UNCHANGED dogVars
    BY <2>1 DEF dogVars, DogInv
  <2>2. CASE Dog!start
    BY <2>2 DEF Dog!start, Dog!Start, Dog!Stop, Dog!Watch, Dog!Become, DogInv
  <2>3. CASE Dog!stop
    BY <2>3 DEF Dog!stop, Dog!Stop, Dog!Watch, Dog!Become, DogInv
  <2>4. CASE Dog!pong
    BY <2>4 DEF Dog!pong, Dog!Pong, Dog!Watch, Dog!Become, DogInv
  <2>5. CASE \E timer \in {kPingTimer, kPongTimer} : Dog!Fire(timer)
    BY <2>5 DEF Dog!Fire, DogInv
  <2>6. \A w \in Dog!Called : w.armed \subseteq {kPingTimer, kPongTimer}
    BY DEF Dog!Called, Dog!Start, Dog!Stop, Dog!Pong, Dog!Watch, DogInv
  <2>7. CASE Dog!onPingTimer
    <3>1. firing = kPingTimer /\ firing' = Idle /\ accused' = accused
      BY <2>7 DEF Dog!onPingTimer
    <3>2. CASE mState = kPingTimer
      <4>1. PICK w \in Dog!Called :
                mState' = kPongTimer /\ armed' = w.armed \cup {kPongTimer} /\ answered' = FALSE
        BY <2>7, <3>2 DEF Dog!onPingTimer, Dog!Become, Dog!IsPing
      <4> QED BY <2>6, <3>1, <4>1 DEF DogInv
    <3>3. CASE mState # kPingTimer
      <4>1. UNCHANGED <<mState, armed, answered>>
        BY <2>7, <3>3 DEF Dog!onPingTimer, Dog!IsPing
      <4> QED BY <3>1, <3>3, <4>1 DEF DogInv
    <3> QED BY <3>2, <3>3
  <2>8. CASE Dog!onPongTimer
    BY <2>6, <2>8 DEF Dog!onPongTimer, Dog!Become, Dog!PongIsDue, Dog!IsPong, DogInv
  <2> QED BY <2>1, <2>2, <2>3, <2>4, <2>5, <2>7, <2>8 DEF Dog!WatchdogNext
<1> QED BY <1>1, <1>2, PTL DEF MCSpec

\* The watchdog goes on watching, and accuses nobody who has answered, also when
\* a timer's callback gets the mutex after another task has changed the state.
THEOREM WatchdogSoundHolds == MCSpec => []WatchdogSound
<1>1. DogInv => WatchdogSound
  BY DEF DogInv
<1> QED BY <1>1, DogInvHolds, PTL
-----------------------------------------------------------------------------
(* Wifi. *)

\* What may wait for the handlers in each state of the radio: the order of the
\* events, and that Connected is set only by a GOT_IP that a DISCONNECTED follows
\* if the radio has lost the connection.
WifiInv ==
    /\ mEvents \subseteq {"Connected", "Aborted"} /\ handlers \in BOOLEAN
    /\ ~handlers => link \in {"new", "off"}
    /\ link = "new" => loop = <<>> /\ ~handlers /\ mEvents = {}
    /\ handlers =>
        \/ link = "up" /\ loop \in {<<>>, <<"GOT_IP">>}
        \/ link = "idle" /\ loop \in {<<"DISCONNECTED">>, <<"GOT_IP", "DISCONNECTED">>}
        \/ link = "idle" /\ loop \in {<<>>, <<"STA_START">>} /\ "Connected" \notin mEvents
        \/ link \in {"joining", "off"} /\ loop = <<>> /\ "Connected" \notin mEvents

\* A sequence of two is that of one with another appended.
LEMMA AppendSecond == ASSUME NEW a, NEW b PROVE Append(<<a>>, b) = <<a, b>>
<1> DEFINE s == Append(<<a>>, b)
           u == <<a, b>>
<1>1. <<a>> \in Seq({a, b}) /\ Len(<<a>>) = 1 /\ <<a>>[1] = a
  OBVIOUS
<1>2. s \in Seq({a, b}) /\ Len(s) = 2 /\ s[1] = a /\ s[2] = b
  BY <1>1
<1>3. u \in Seq({a, b}) /\ Len(u) = 2 /\ u[1] = a /\ u[2] = b
  OBVIOUS
<1> HIDE DEF s, u
<1>4. \A i \in 1 .. Len(s) : s[i] = u[i]
  BY <1>2, <1>3
<1>5. s = u
  BY <1>2, <1>3, <1>4, SeqEqual
<1> QED BY <1>5 DEF s, u

\* What is in the queue after each event, and when the first is taken.
LEMMA EventOrder ==
  /\ \A e : Append(<<>>, e) = <<e>> /\ Head(<<e>>) = e /\ Tail(<<e>>) = <<>>
  /\ Append(<<"GOT_IP">>, "DISCONNECTED") = <<"GOT_IP", "DISCONNECTED">>
  /\ Head(<<"GOT_IP", "DISCONNECTED">>) = "GOT_IP"
  /\ Tail(<<"GOT_IP", "DISCONNECTED">>) = <<"DISCONNECTED">>
  BY AppendSecond

LEMMA WifiInvHolds == MCSpec => []WifiInv
<1>1. MCInit => WifiInv
  BY DEF MCInit, Client!Init, WifiInv
<1>2. WifiInv /\ [MCNext]_allVars => WifiInv'
  <2> SUFFICES ASSUME WifiInv, [Client!Next]_wifiVars PROVE WifiInv'
    BY StepOfEach
  <2>1. CASE UNCHANGED wifiVars \/ Client!WaitForConnect \/ Client!TimeOut
    <3>1. UNCHANGED <<link, loop, handlers, mEvents>>
      BY <2>1 DEF wifiVars, Client!WaitForConnect, Client!TimeOut
    <3> QED BY <3>1 DEF WifiInv
  <2>2. CASE Client!RadioStep \/ Client!Lose
    <3>1. UNCHANGED <<handlers, mEvents>>
      BY <2>2 DEF Client!RadioStep, Client!Join, Client!JoinFails, Client!Lose, Client!RadioGoes
    <3>2. \/ link = "joining" /\ link' = "up" /\ loop' = Append(loop, "GOT_IP")
          \/ link \in {"joining", "up"} /\ link' = "idle" /\ loop' = Append(loop, "DISCONNECTED")
      BY <2>2 DEF Client!RadioStep, Client!Join, Client!JoinFails, Client!Lose, Client!RadioGoes
    <3>3. handlers /\ (link = "joining" => loop = <<>>) /\ (link = "up" => loop \in {<<>>, <<"GOT_IP">>})
      BY <3>2 DEF WifiInv
    <3>4. \/ link' = "up" /\ loop' = <<"GOT_IP">>
          \/ link' = "idle" /\ loop' \in {<<"DISCONNECTED">>, <<"GOT_IP", "DISCONNECTED">>}
      BY <3>2, <3>3, EventOrder
    <3> QED BY <3>1, <3>3, <3>4 DEF WifiInv
  <2>3. CASE Client!Start \/ Client!Stop
    BY <2>3 DEF Client!Start, Client!Register, Client!Stop, WifiInv
  <2>4. CASE Client!OnStart
    BY <2>4 DEF Client!OnStart, Client!Handle, Client!Connect, WifiInv
  <2>5. CASE Client!OnDisconnected
    <3>1. /\ loop # <<>> /\ Head(loop) = "DISCONNECTED" /\ loop' = Tail(loop)
          /\ handlers /\ handlers' /\ link' = "joining" /\ mEvents' = mEvents \ {"Connected"}
      BY <2>5 DEF Client!OnDisconnected, Client!Handle, Client!Connect, Client!Signal, Client!Lost
    <3>2. loop' = <<>>
      BY <3>1, EventOrder DEF WifiInv
    <3> QED BY <3>1, <3>2 DEF WifiInv
  <2>6. CASE Client!OnLastDisconnected
    BY <2>6 DEF Client!OnLastDisconnected, Client!Handle, Client!Signal, Client!Lost, Client!GiveUp, WifiInv
  <2>7. CASE Client!OnGotIp
    <3>1. /\ loop # <<>> /\ Head(loop) = "GOT_IP" /\ loop' = Tail(loop)
          /\ handlers /\ handlers' /\ link' = link /\ mEvents' = mEvents \cup {"Connected"}
      BY <2>7 DEF Client!OnGotIp, Client!Handle, Client!Signal
    <3>2. \/ link = "up" /\ loop' = <<>>
          \/ link = "idle" /\ loop' = <<"DISCONNECTED">>
      BY <3>1, EventOrder DEF WifiInv
    <3> QED BY <3>1, <3>2 DEF WifiInv
  <2>8. CASE Client!Drop
    BY <2>8 DEF Client!Drop, WifiInv
  <2> QED BY <2>1, <2>2, <2>3, <2>4, <2>5, <2>6, <2>7, <2>8 DEF Client!Next, Client!LoopStep
<1> QED BY <1>1, <1>2, PTL DEF MCSpec

\* However often the connection is lost and made again, and however late the
\* handlers run: who is told that there is a connection is told nothing older
\* than the events that still wait.
THEOREM ConnectedIsRecentHolds == MCSpec => []ConnectedIsRecent
<1>1. WifiInv => ConnectedIsRecent
  BY DEF WifiInv, ConnectedIsRecent, Client!ConnectedIsRecent
<1> QED BY <1>1, WifiInvHolds, PTL
-----------------------------------------------------------------------------
(* Bluetooth. *)

\* Wherever the start fails, and after a shutdown, all the layers are down again.
THEOREM UpOrDownHolds == MCSpec => []Stack!UpOrDown
<1> USE DEF Stack!UpOrDown, Stack!Layers
<1>1. \A n \in 0 .. 4 : Stack!Shut(n) = 0
  BY DEF Stack!Shut, Stack!Down
<1>2. MCInit => Stack!UpOrDown
  BY DEF MCInit, Stack!Init
<1>3. Stack!UpOrDown /\ [MCNext]_allVars => Stack!UpOrDown'
  <2> SUFFICES ASSUME Stack!UpOrDown, [Stack!Next]_btVars PROVE Stack!UpOrDown'
    BY StepOfEach
  <2>1. CASE UNCHANGED btVars \/ Stack!StopDiscovery \/ Stack!OnEvent
    BY <2>1 DEF btVars, Stack!StopDiscovery, Stack!OnEvent, Stack!OnDevice, Stack!OnStopped,
                Stack!OnRequest, Stack!Callback
  <2>2. ASSUME NEW mode, Stack!Start(mode) PROVE Stack!UpOrDown'
    BY <1>1, <2>2 DEF Stack!Start
  <2>3. CASE Stack!Shutdown
    BY <1>1, <2>3 DEF Stack!Shutdown
  <2>4. ASSUME NEW x, Stack!Discover(x) \/ Stack!StartScan(x) \/ Stack!ScanEnds(x) \/ Stack!Find(x) \/ Stack!Ask(x)
        PROVE  Stack!UpOrDown'
    BY <2>4 DEF Stack!Discover, Stack!StartScan, Stack!ScanEnds, Stack!Find, Stack!Ask
  <2> QED BY <2>1, <2>2, <2>3, <2>4 DEF Stack!Next
<1> QED BY <1>2, <1>3, PTL DEF MCSpec
-----------------------------------------------------------------------------
(* Spi. *)

\* The display, and the whole hardware between two steps of the driver: on is 1
\* when a transaction may still run, and the display is then as it will be.
Shown(cols, rows, cmd, args, at, mem) ==
    [cols |-> cols, rows |-> rows, cmd |-> cmd, args |-> args, at |-> at, mem |-> mem]
Hardware(f, level, chain, d, on) ==
    [fifo |-> f, dc |-> level, descs |-> chain, display |-> d, on |-> on]

ByteAt(data, i) == IF i < Len(data) THEN data[i + 1] ELSE 0

\* The display gets n of the data, and what becomes of it.
Sends(d, level, data, from, n, e) ==
    \E s : /\ s[0] = d /\ s[n] = e
           /\ \A i \in 0 .. n - 1 : s[i + 1] = Lcd!Receive(s[i], level, ByteAt(data, from + i))

\* A step of the driver. Nothing but to wait is done while a transaction may run.
Does(o, a, b) ==
    \/ o.op = "wait" /\ b = Hardware(a.fifo, a.dc, a.descs, a.display, 0)
    \/ a.on = 0 /\ o.op = "fifo" /\ b = Hardware(o.arg, a.dc, a.descs, a.display, 0)
    \/ a.on = 0 /\ o.op = "dc" /\ b = Hardware(a.fifo, o.arg, a.descs, a.display, 0)
    \/ a.on = 0 /\ o.op = "descs" /\ b = Hardware(a.fifo, a.dc, o.arg, a.display, 0)
    \/ /\ a.on = 0 /\ o.op \in {"send", "dma"} /\ o.arg \in Nat
       /\ \E d : /\ b = Hardware(a.fifo, a.dc, a.descs, d, 1)
                 /\ Sends(a.display, a.dc, IF o.op = "send" THEN a.fifo ELSE Lcd!FlattenSeq(a.descs), 0, o.arg, d)

Ops == [op : {"wait", "fifo", "dc", "descs", "send", "dma"}, arg : Nat \cup Seq(Nat) \cup Seq(Seq(Nat))]

\* The steps of the driver take the hardware from a to b.
Runs(steps, a, b) ==
    /\ steps \in Seq(Ops)
    /\ \E t : /\ t[0] = a /\ t[Len(steps)] = b
              /\ \A i \in 1 .. Len(steps) : Does(steps[i], t[i - 1], t[i])

LEMMA RunsNothing == \A a, b : Runs(<<>>, a, b) <=> a = b
<1>1. ASSUME NEW a, NEW b, Runs(<<>>, a, b) PROVE a = b
  <2>1. PICK t : t[0] = a /\ t[Len(<<>>)] = b
    BY <1>1 DEF Runs
  <2> QED BY <2>1
<1>2. ASSUME NEW a PROVE Runs(<<>>, a, a)
  <2> DEFINE t == [i \in {0} |-> a]
  <2>1. t[0] = a /\ t[Len(<<>>)] = a /\ \A i \in 1 .. Len(<<>>) : Does(<<>>[i], t[i - 1], t[i])
    OBVIOUS
  <2>2. <<>> \in Seq(Ops)
    OBVIOUS
  <2> HIDE DEF t
  <2> QED BY <2>1, <2>2 DEF Runs
<1> QED BY <1>1, <1>2

LEMMA RunsOne == ASSUME NEW o \in Ops, NEW a, NEW b, Does(o, a, b) PROVE Runs(<<o>>, a, b)
<1> DEFINE t == [i \in 0 .. 1 |-> IF i = 0 THEN a ELSE b]
<1>1. t[0] = a /\ t[1] = b
  OBVIOUS
<1> HIDE DEF t
<1>2. <<o>> \in Seq(Ops) /\ Len(<<o>>) = 1 /\ <<o>>[1] = o
  OBVIOUS
<1>3. \A i \in 1 .. Len(<<o>>) : Does(<<o>>[i], t[i - 1], t[i])
  <2> SUFFICES ASSUME NEW i \in 1 .. Len(<<o>>) PROVE Does(<<o>>[i], t[i - 1], t[i])
    OBVIOUS
  <2>1. i = 1 /\ i - 1 = 0
    BY <1>2
  <2> QED BY <1>1, <1>2, <2>1
<1>4. t[Len(<<o>>)] = b
  BY <1>1, <1>2
<1> QED BY <1>1, <1>2, <1>3, <1>4 DEF Runs

LEMMA RunsThen ==
  ASSUME NEW p, NEW q, NEW a, NEW b, NEW c, Runs(p, a, b), Runs(q, b, c)
  PROVE  Runs(p \o q, a, c)
<1>1. p \in Seq(Ops) /\ q \in Seq(Ops)
  BY DEF Runs
<1>2. PICK t : t[0] = a /\ t[Len(p)] = b /\ \A i \in 1 .. Len(p) : Does(p[i], t[i - 1], t[i])
  BY DEF Runs
<1>3. PICK u : u[0] = b /\ u[Len(q)] = c /\ \A i \in 1 .. Len(q) : Does(q[i], u[i - 1], u[i])
  BY DEF Runs
<1> DEFINE n == Len(p)
           m == Len(q)
           v == [i \in 0 .. n + m |-> IF i <= n THEN t[i] ELSE u[i - n]]
<1>4. n \in Nat /\ m \in Nat
  BY <1>1
<1>5. /\ p \o q \in Seq(Ops) /\ Len(p \o q) = n + m
      /\ \A i \in 1 .. n + m : (p \o q)[i] = IF i <= n THEN p[i] ELSE q[i - n]
  BY <1>1, ConcatProperties
<1> HIDE DEF n, m
<1>6. (\A i \in 0 .. n : v[i] = t[i]) /\ \A i \in n .. n + m : v[i] = u[i - n]
  BY <1>2, <1>3, <1>4 DEF n
<1> HIDE DEF v
<1>7. ASSUME NEW i \in 1 .. n + m PROVE Does((p \o q)[i], v[i - 1], v[i])
  <2>1. CASE i <= n
    <3>1. i \in 1 .. n /\ i - 1 \in 0 .. n /\ i \in 0 .. n
      BY <1>4, <2>1
    <3>2. Does(p[i], t[i - 1], t[i])
      BY <1>2, <3>1 DEF n
    <3> QED BY <1>5, <1>6, <2>1, <3>1, <3>2
  <2>2. CASE ~(i <= n)
    <3>1. i - n \in 1 .. m /\ i - 1 \in n .. n + m /\ i \in n .. n + m /\ (i - 1) - n = (i - n) - 1
      BY <1>4, <2>2
    <3>2. Does(q[i - n], u[(i - n) - 1], u[i - n])
      BY <1>3, <3>1 DEF m
    <3>3. v[i - 1] = u[(i - n) - 1] /\ v[i] = u[i - n]
      BY <1>6, <3>1
    <3> QED BY <1>5, <2>2, <3>2, <3>3
  <2> QED BY <2>1, <2>2
<1>8. v[0] = a /\ v[n + m] = c
  <2>1. 0 \in 0 .. n /\ n + m \in n .. n + m /\ (n + m) - n = m
    BY <1>4
  <2>2. v[0] = t[0] /\ v[n + m] = u[m]
    BY <1>6, <2>1
  <2> QED BY <1>2, <1>3, <2>2 DEF m
<1> QED BY <1>5, <1>7, <1>8 DEF Runs

LEMMA RunsHead ==
  ASSUME NEW p, NEW a, NEW c, Runs(p, a, c), p # <<>>
  PROVE  \E b : Does(Head(p), a, b) /\ Runs(Tail(p), b, c)
<1>1. p \in Seq(Ops)
  BY DEF Runs
<1>2. PICK t : t[0] = a /\ t[Len(p)] = c /\ \A i \in 1 .. Len(p) : Does(p[i], t[i - 1], t[i])
  BY DEF Runs
<1>3. /\ Len(p) \in Nat \ {0} /\ Head(p) = p[1] /\ Tail(p) \in Seq(Ops) /\ Len(Tail(p)) = Len(p) - 1
      /\ \A i \in 1 .. Len(Tail(p)) : Tail(p)[i] = p[i + 1]
  BY <1>1, HeadTailProperties, EmptySeq
<1> DEFINE n == Len(p)
           r == Tail(p)
           u == [i \in 0 .. n - 1 |-> t[i + 1]]
<1>4. n \in Nat \ {0} /\ Len(r) = n - 1 /\ \A i \in 1 .. n - 1 : r[i] = p[i + 1]
  BY <1>3
<1>5. Does(Head(p), a, t[1])
  <2>1. Does(p[1], t[1 - 1], t[1])
    BY <1>2, <1>4
  <2> QED BY <1>2, <1>3, <2>1
<1> HIDE DEF n, r
<1>6. u[0] = t[1] /\ u[n - 1] = c /\ \A i \in 0 .. n - 1 : u[i] = t[i + 1]
  BY <1>2, <1>4 DEF n
<1> HIDE DEF u
<1>7. ASSUME NEW i \in 1 .. n - 1 PROVE Does(r[i], u[i - 1], u[i])
  <2>1. i + 1 \in 1 .. n /\ (i + 1) - 1 = i /\ i - 1 \in 0 .. n - 1 /\ i \in 0 .. n - 1 /\ (i - 1) + 1 = i
    BY <1>4
  <2>2. Does(p[i + 1], t[i], t[i + 1])
    BY <1>2, <2>1 DEF n
  <2>3. u[i - 1] = t[i] /\ u[i] = t[i + 1]
    BY <1>6, <2>1
  <2> QED BY <1>4, <2>2, <2>3
<1>8. Runs(r, t[1], c)
  <2>1. r \in Seq(Ops)
    BY <1>3 DEF r
  <2> QED BY <1>4, <1>6, <1>7, <2>1 DEF Runs
<1> QED BY <1>5, <1>8 DEF r

\* The display can be drawn on, and the chain is one of buffers of bytes.
Usable(m) ==
    /\ m.descs \in Seq(Seq(Nat))
    /\ \E cols, rows, cmd, args, at, mem :
        m.display = Shown(cols, rows, cmd, args, at, mem) /\ mem = [cell \in Lcd!Cells |-> mem[cell]]

DataOf(place, f, chain) == IF place = "fifo" THEN f ELSE Lcd!FlattenSeq(chain)

\* Once the running transaction has sent the bytes that are left the hardware is as
\* in a; the steps that are left are made from there, and only to wait while it
\* runs; and in the end, in b, the display shows what was asked for.
Shows(mem, wanted) == \A cell \in Lcd!Cells : wanted[cell] # Lcd!Unclaimed => mem[cell] = wanted[cell]
LeadsTo(a, b) ==
    /\ Runs(todo, a, b) /\ Usable(b) /\ Shows(b.display.mem, screen)
    /\ a.fifo = fifo /\ a.dc = dc /\ a.descs = descs /\ (left > 0 => a.on = 1)
    /\ Sends(display, dc, DataOf(source[1], fifo, descs), source[2], left, a.display)

SpiInv ==
    /\ left \in Nat /\ (left > 0 => source \in {"fifo", "dma"} \X Nat)
    /\ \E a, b : LeadsTo(a, b)

LEMMA SendsNone == \A d, level, data, from, e : Sends(d, level, data, from, 0, e) <=> d = e
<1>1. ASSUME NEW d, NEW level, NEW data, NEW from PROVE Sends(d, level, data, from, 0, d)
  <2> DEFINE s == [i \in {0} |-> d]
  <2>1. s[0] = d
    OBVIOUS
  <2>2. \A i \in 0 .. 0 - 1 : s[i + 1] = Lcd!Receive(s[i], level, ByteAt(data, from + i))
    OBVIOUS
  <2> HIDE DEF s
  <2> QED BY <2>1, <2>2 DEF Sends
<1>2. ASSUME NEW d, NEW level, NEW data, NEW from, NEW e, Sends(d, level, data, from, 0, e) PROVE d = e
  BY <1>2 DEF Sends
<1> QED BY <1>1, <1>2

LEMMA SendsFirst ==
  ASSUME NEW d, NEW level, NEW data, NEW from \in Nat, NEW n \in Nat \ {0}, NEW e,
         Sends(d, level, data, from, n, e)
  PROVE  Sends(Lcd!Receive(d, level, ByteAt(data, from)), level, data, from + 1, n - 1, e)
<1>1. PICK s : /\ s[0] = d /\ s[n] = e
               /\ \A i \in 0 .. n - 1 : s[i + 1] = Lcd!Receive(s[i], level, ByteAt(data, from + i))
  BY DEF Sends
<1> DEFINE u == [i \in 0 .. n - 1 |-> s[i + 1]]
<1>2. u[n - 1] = e /\ \A i \in 0 .. n - 1 : u[i] = s[i + 1]
  BY <1>1
<1>3. u[0] = Lcd!Receive(d, level, ByteAt(data, from))
  <2>1. s[0 + 1] = Lcd!Receive(s[0], level, ByteAt(data, from + 0)) /\ from + 0 = from
    BY <1>1
  <2> QED BY <1>1, <1>2, <2>1
<1> HIDE DEF u
<1>4. ASSUME NEW i \in 0 .. (n - 1) - 1 PROVE u[i + 1] = Lcd!Receive(u[i], level, ByteAt(data, (from + 1) + i))
  <2>1. i + 1 \in 0 .. n - 1 /\ i \in 0 .. n - 1 /\ (from + 1) + i = from + (i + 1)
    OBVIOUS
  <2>2. s[(i + 1) + 1] = Lcd!Receive(s[i + 1], level, ByteAt(data, from + (i + 1)))
    BY <1>1, <2>1
  <2>3. u[i + 1] = s[(i + 1) + 1] /\ u[i] = s[i + 1]
    BY <1>2, <2>1
  <2> QED BY <2>1, <2>2, <2>3
<1> QED BY <1>2, <1>3, <1>4 DEF Sends

LEMMA StepKeeps == ASSUME SpiInv, Lcd!Step PROVE SpiInv'
<1> DEFINE o == Head(todo)
<1>1. PICK a, b : LeadsTo(a, b)
  BY DEF SpiInv
<1>2. todo # <<>> /\ todo' = Tail(todo) /\ UNCHANGED <<display, screen>>
  BY DEF Lcd!Step
<1>3. PICK m : Does(o, a, m) /\ Runs(todo', m, b)
  BY <1>1, <1>2, RunsHead DEF LeadsTo
<1>4. left \in Nat /\ (left > 0 => a.on = 1 /\ source \in {"fifo", "dma"} \X Nat)
  BY <1>1 DEF SpiInv, LeadsTo
<1>5. left = 0 => display = a.display
  BY <1>1, SendsNone DEF LeadsTo
<1>6. /\ o.op = "wait" => left = 0
      /\ fifo' = IF o.op = "fifo" THEN o.arg ELSE fifo
      /\ dc' = IF o.op = "dc" THEN o.arg ELSE dc
      /\ descs' = IF o.op = "descs" THEN o.arg ELSE descs
      /\ o.op = "send" => left' = o.arg /\ source' = <<"fifo", 0>>
      /\ o.op = "dma" => left' = o.arg /\ source' = <<"dma", 0>>
      /\ o.op \notin {"send", "dma"} => left' = left /\ source' = source
  <2>1. o.op = "wait" => ~(left > 0)
    BY DEF Lcd!Step, Lcd!busy
  <2>2. \A x : x \notin {"send", "dma"} => x # "send" /\ x # "dma"
    OBVIOUS
  <2>3. "send" # "dma"
    OBVIOUS
  <2>4. /\ fifo' = IF o.op = "fifo" THEN o.arg ELSE fifo
        /\ dc' = IF o.op = "dc" THEN o.arg ELSE dc
        /\ descs' = IF o.op = "descs" THEN o.arg ELSE descs
    BY DEF Lcd!Step
  <2>5. /\ o.op = "send" => left' = o.arg /\ source' = <<"fifo", 0>>
        /\ o.op = "dma" => left' = o.arg /\ source' = <<"dma", 0>>
        /\ o.op \notin {"send", "dma"} => left' = left /\ source' = source
    BY <2>2, <2>3, Zenon DEF Lcd!Step
  <2> QED BY <1>4, <2>1, <2>4, <2>5
<1> HIDE DEF o
<1>7. left = 0 /\ display' = a.display
  BY <1>2, <1>3, <1>4, <1>5, <1>6 DEF Does
<1>8. CASE o.op \notin {"send", "dma"}
  <2>1. left' = 0 /\ m.fifo = fifo' /\ m.dc = dc' /\ m.descs = descs' /\ m.display = display'
    BY <1>1, <1>3, <1>6, <1>7, <1>8 DEF Does, Hardware, LeadsTo
  <2>2. LeadsTo(m, b)'
    BY <1>1, <1>2, <1>3, <2>1, SendsNone DEF LeadsTo
  <2> QED BY <2>1, <2>2 DEF SpiInv
<1>9. CASE o.op \in {"send", "dma"}
  <2>1. PICK d : /\ o.arg \in Nat /\ m = Hardware(a.fifo, a.dc, a.descs, d, 1)
                 /\ Sends(a.display, a.dc, IF o.op = "send" THEN a.fifo ELSE Lcd!FlattenSeq(a.descs), 0, o.arg, d)
    BY <1>3, <1>9 DEF Does
  <2>2. /\ m.fifo = fifo' /\ m.dc = dc' /\ m.descs = descs' /\ m.display = d /\ m.on = 1
        /\ left' = o.arg /\ source'[2] = 0 /\ source'[1] = (IF o.op = "send" THEN "fifo" ELSE "dma")
        /\ source' \in {"fifo", "dma"} \X Nat
    BY <1>1, <1>6, <1>9, <2>1 DEF Hardware, LeadsTo
  <2>3. DataOf(source'[1], fifo', descs') = IF o.op = "send" THEN a.fifo ELSE Lcd!FlattenSeq(a.descs)
    BY <1>1, <1>6, <1>9, <2>2 DEF DataOf, LeadsTo
  <2>4. Sends(display', dc', DataOf(source'[1], fifo', descs'), source'[2], left', m.display)
    BY <1>1, <1>6, <1>7, <1>9, <2>1, <2>2, <2>3 DEF LeadsTo
  <2>5. LeadsTo(m, b)'
    BY <1>1, <1>2, <1>3, <2>2, <2>4 DEF LeadsTo
  <2> QED BY <2>1, <2>2, <2>5 DEF SpiInv
<1> QED BY <1>8, <1>9

LEMMA ShiftKeeps == ASSUME SpiInv, Lcd!Shift PROVE SpiInv'
<1>1. PICK a, b : LeadsTo(a, b)
  BY DEF SpiInv
<1> DEFINE data == DataOf(source[1], fifo, descs)
<1>2. left \in Nat \ {0} /\ source \in {"fifo", "dma"} \X Nat /\ source[2] \in Nat
  BY DEF SpiInv, Lcd!Shift, Lcd!busy
<1>3. /\ display' = Lcd!Receive(display, dc, ByteAt(data, source[2])) /\ left' = left - 1
      /\ UNCHANGED <<todo, fifo, dc, descs, screen>>
  BY DEF Lcd!Shift, DataOf, ByteAt
<1>4. source' \in {"fifo", "dma"} \X Nat /\ source'[1] = source[1] /\ source'[2] = source[2] + 1
  BY <1>2 DEF Lcd!Shift
<1>5. Sends(display', dc, data, source[2] + 1, left - 1, a.display)
  <2>1. Sends(display, dc, data, source[2], left, a.display)
    BY <1>1 DEF LeadsTo
  <2> HIDE DEF data
  <2> QED BY <1>2, <1>3, <2>1, SendsFirst
<1>6. LeadsTo(a, b)'
  BY <1>1, <1>2, <1>3, <1>4, <1>5 DEF LeadsTo
<1> QED BY <1>2, <1>3, <1>4, <1>6 DEF SpiInv

LEMMA WaitRuns == \A a : Runs(Lcd!waitDone, a, Hardware(a.fifo, a.dc, a.descs, a.display, 0))
<1> SUFFICES ASSUME NEW a PROVE Runs(Lcd!waitDone, a, Hardware(a.fifo, a.dc, a.descs, a.display, 0))
  OBVIOUS
<1> DEFINE o == Lcd!Do("wait", 0)
<1>1. o \in Ops /\ o.op = "wait"
  BY DEF Lcd!Do, Ops
<1> HIDE DEF o
<1>2. Runs(<<o>>, a, Hardware(a.fifo, a.dc, a.descs, a.display, 0))
  BY <1>1, RunsOne DEF Does
<1> QED BY <1>2 DEF Lcd!waitDone, o

LEMMA HardwareHas ==
  \A f, l, c, d, on : LET m == Hardware(f, l, c, d, on)
                      IN  m.fifo = f /\ m.dc = l /\ m.descs = c /\ m.display = d /\ m.on = on
  BY DEF Hardware

\* What is set while nothing runs.
LEMMA SetRuns ==
  ASSUME NEW f, NEW l, NEW c, NEW d
  PROVE  /\ \A x \in Seq(Nat) : Runs(<<Lcd!Do("fifo", x)>>, Hardware(f, l, c, d, 0), Hardware(x, l, c, d, 0))
         /\ \A x \in Nat : Runs(Lcd!setDcPin(x), Hardware(f, l, c, d, 0), Hardware(f, x, c, d, 0))
         /\ \A x \in Seq(Seq(Nat)) :
               Runs(<<Lcd!Do("descs", x)>>, Hardware(f, l, c, d, 0), Hardware(f, l, x, d, 0))
<1>1. ASSUME NEW x \in Seq(Nat)
      PROVE  Runs(<<Lcd!Do("fifo", x)>>, Hardware(f, l, c, d, 0), Hardware(x, l, c, d, 0))
  <2> DEFINE o == Lcd!Do("fifo", x)
  <2>1. o \in Ops /\ o.op = "fifo" /\ o.arg = x
    BY DEF Lcd!Do, Ops
  <2> HIDE DEF o
  <2>2. Does(o, Hardware(f, l, c, d, 0), Hardware(x, l, c, d, 0))
    BY <2>1, HardwareHas DEF Does
  <2>3. Runs(<<o>>, Hardware(f, l, c, d, 0), Hardware(x, l, c, d, 0))
    BY <2>1, <2>2, RunsOne
  <2> QED BY <2>3 DEF o
<1>2. ASSUME NEW x \in Nat
      PROVE  Runs(<<Lcd!Do("dc", x)>>, Hardware(f, l, c, d, 0), Hardware(f, x, c, d, 0))
  <2> DEFINE o == Lcd!Do("dc", x)
  <2>1. o \in Ops /\ o.op = "dc" /\ o.arg = x
    BY DEF Lcd!Do, Ops
  <2> HIDE DEF o
  <2>2. Does(o, Hardware(f, l, c, d, 0), Hardware(f, x, c, d, 0))
    BY <2>1, HardwareHas DEF Does
  <2>3. Runs(<<o>>, Hardware(f, l, c, d, 0), Hardware(f, x, c, d, 0))
    BY <2>1, <2>2, RunsOne
  <2> QED BY <2>3 DEF o
<1>3. ASSUME NEW x \in Seq(Seq(Nat))
      PROVE  Runs(<<Lcd!Do("descs", x)>>, Hardware(f, l, c, d, 0), Hardware(f, l, x, d, 0))
  <2> DEFINE o == Lcd!Do("descs", x)
  <2>1. o \in Ops /\ o.op = "descs" /\ o.arg = x
    BY DEF Lcd!Do, Ops
  <2> HIDE DEF o
  <2>2. Does(o, Hardware(f, l, c, d, 0), Hardware(f, l, x, d, 0))
    BY <2>1, HardwareHas DEF Does
  <2>3. Runs(<<o>>, Hardware(f, l, c, d, 0), Hardware(f, l, x, d, 0))
    BY <2>1, <2>2, RunsOne
  <2> QED BY <2>3 DEF o
<1> QED BY <1>1, <1>2, <1>3 DEF Lcd!setDcPin

\* A transaction, from the FIFO and from the chain.
LEMMA SendRuns ==
  ASSUME NEW a, NEW n \in Nat, NEW e, Sends(a.display, a.dc, a.fifo, 0, n, e)
  PROVE  Runs(Lcd!fifoSend(n), a, Hardware(a.fifo, a.dc, a.descs, e, 1))
<1> DEFINE o == Lcd!Do("send", n)
           m == Hardware(a.fifo, a.dc, a.descs, a.display, 0)
           b == Hardware(a.fifo, a.dc, a.descs, e, 1)
<1>1. o \in Ops /\ o.op = "send" /\ o.arg = n
  BY DEF Lcd!Do, Ops
<1>2. m.fifo = a.fifo /\ m.dc = a.dc /\ m.descs = a.descs /\ m.display = a.display /\ m.on = 0
  BY HardwareHas
<1>3. Runs(Lcd!waitDone, a, m)
  BY WaitRuns
<1>4. b = Hardware(m.fifo, m.dc, m.descs, e, 1)
  BY <1>2
<1> HIDE DEF o, m, b
<1>5. Does(o, m, b)
  BY <1>1, <1>2, <1>4 DEF Does
<1>6. Runs(<<o>>, m, b)
  BY <1>1, <1>5, RunsOne
<1>7. Runs(Lcd!waitDone \o <<o>>, a, b)
  BY <1>3, <1>6, RunsThen
<1> QED BY <1>7 DEF o, b, Lcd!fifoSend

LEMMA DmaRuns ==
  ASSUME NEW a, a.on = 0, NEW n \in Nat, NEW e, Sends(a.display, a.dc, Lcd!FlattenSeq(a.descs), 0, n, e)
  PROVE  Runs(Lcd!dmaResend(n), a, Hardware(a.fifo, a.dc, a.descs, e, 1))
<1> DEFINE o == Lcd!Do("dma", n)
           b == Hardware(a.fifo, a.dc, a.descs, e, 1)
<1>1. o \in Ops /\ o.op = "dma" /\ o.arg = n
  BY DEF Lcd!Do, Ops
<1> HIDE DEF o
<1>2. Does(o, a, b)
  <2>1. (IF o.op = "send" THEN a.fifo ELSE Lcd!FlattenSeq(a.descs)) = Lcd!FlattenSeq(a.descs)
    BY <1>1
  <2> QED BY <1>1, <2>1 DEF Does
<1>3. Runs(<<o>>, a, b)
  BY <1>1, <1>2, RunsOne
<1> QED BY <1>3 DEF o, Lcd!dmaResend

\* A value of a few bytes.
LEMMA ValRuns ==
  ASSUME NEW f, NEW l, NEW c, NEW d, NEW bytes \in Seq(Nat), NEW e, Sends(d, l, bytes, 0, Len(bytes), e)
  PROVE  /\ Runs(Lcd!spiSendVal(FALSE, bytes), Hardware(f, l, c, d, 0), Hardware(bytes, l, c, e, 1))
         /\ \A on : Runs(Lcd!spiSendVal(TRUE, bytes), Hardware(f, l, c, d, on), Hardware(bytes, l, c, e, 1))
<1> DEFINE a == Hardware(f, l, c, d, 0)
           m == Hardware(bytes, l, c, d, 0)
           b == Hardware(bytes, l, c, e, 1)
           set == <<Lcd!Do("fifo", bytes)>>
           send == Lcd!fifoSend(Len(bytes))
<1>1. Runs(set, a, m)
  BY SetRuns
<1>2. Runs(send, m, b)
  <2>1. m.fifo = bytes /\ m.dc = l /\ m.descs = c /\ m.display = d
    BY HardwareHas
  <2>2. Len(bytes) \in Nat
    OBVIOUS
  <2> HIDE DEF m
  <2>3. Runs(send, m, Hardware(m.fifo, m.dc, m.descs, e, 1))
    BY <2>1, <2>2, SendRuns
  <2> QED BY <2>1, <2>3
<1>3. ASSUME NEW on PROVE Runs(Lcd!waitDone, Hardware(f, l, c, d, on), a)
  BY WaitRuns, HardwareHas
<1>4. Runs(<<>>, a, a)
  BY RunsNothing
<1>5. /\ Lcd!spiSendVal(FALSE, bytes) = (<<>> \o set) \o send
      /\ Lcd!spiSendVal(TRUE, bytes) = (Lcd!waitDone \o set) \o send
  BY DEF Lcd!spiSendVal
<1> HIDE DEF a, m, b, set, send
<1>6. Runs((<<>> \o set) \o send, a, b)
  BY <1>1, <1>2, <1>4, RunsThen
<1>7. ASSUME NEW on PROVE Runs((Lcd!waitDone \o set) \o send, Hardware(f, l, c, d, on), b)
  BY <1>1, <1>2, <1>3, RunsThen
<1> QED BY <1>5, <1>6, <1>7 DEF a, b
-----------------------------------------------------------------------------
\* Sequences of up to four bytes.
LEMMA Appended ==
  ASSUME NEW x \in Nat, NEW y \in Nat, NEW z \in Nat
  PROVE  /\ Append(<<>>, x) = <<x>> /\ Append(<<x>>, y) = <<x, y>>
         /\ Append(<<x, y>>, z) = <<x, y, z>>
<1>1. ASSUME NEW s \in Seq(Nat)
      PROVE  /\ Len(s) = 2 /\ s[1] = x /\ s[2] = y => s = <<x, y>>
             /\ Len(s) = 3 /\ s[1] = x /\ s[2] = y /\ s[3] = z => s = <<x, y, z>>
  OBVIOUS
<1>2. ASSUME NEW s \in Seq(Nat), NEW v \in Nat
      PROVE  \E t \in Seq(Nat) : /\ t = Append(s, v) /\ Len(t) = Len(s) + 1
                                 /\ (\A i \in 1 .. Len(s) : t[i] = s[i]) /\ t[Len(s) + 1] = v
  BY AppendProperties, Zenon
<1>3. Append(<<>>, x) = <<x>>
  OBVIOUS
<1>4. Append(<<x>>, y) = <<x, y>>
  <2>1. <<x>> \in Seq(Nat) /\ Len(<<x>>) = 1 /\ <<x>>[1] = x
    OBVIOUS
  <2>2. PICK s \in Seq(Nat) : s = <<x>> /\ Len(s) = 1 /\ s[1] = x
    BY <2>1, Zenon
  <2>3. PICK t \in Seq(Nat) : /\ t = Append(s, y) /\ Len(t) = Len(s) + 1
                             /\ (\A i \in 1 .. Len(s) : t[i] = s[i]) /\ t[Len(s) + 1] = y
    BY <1>2, Zenon
  <2>4. Len(t) = 2 /\ t[1] = x /\ t[2] = y
    BY <2>2, <2>3
  <2>5. t = <<x, y>>
    BY <1>1, <2>4
  <2> QED BY <2>2, <2>3, <2>5, Zenon
<1>5. Append(<<x, y>>, z) = <<x, y, z>>
  <2>1. <<x, y>> \in Seq(Nat) /\ Len(<<x, y>>) = 2 /\ <<x, y>>[1] = x /\ <<x, y>>[2] = y
    OBVIOUS
  <2>2. PICK s \in Seq(Nat) : s = <<x, y>> /\ Len(s) = 2 /\ s[1] = x /\ s[2] = y
    BY <2>1, Zenon
  <2>3. PICK t \in Seq(Nat) : /\ t = Append(s, z) /\ Len(t) = Len(s) + 1
                             /\ (\A i \in 1 .. Len(s) : t[i] = s[i]) /\ t[Len(s) + 1] = z
    BY <1>2, Zenon
  <2>4. Len(t) = 3 /\ t[1] = x /\ t[2] = y /\ t[3] = z
    BY <2>2, <2>3
  <2>5. t = <<x, y, z>>
    BY <1>1, <2>4
  <2> QED BY <2>2, <2>3, <2>5, Zenon
<1> QED BY <1>3, <1>4, <1>5

LEMMA PairsJoined ==
  ASSUME NEW x \in Nat, NEW y \in Nat, NEW z \in Nat, NEW w \in Nat
  PROVE  <<x, y>> \o <<z, w>> = <<x, y, z, w>>
<1>1. <<x, y>> \in Seq(Nat) /\ Len(<<x, y>>) = 2 /\ <<x, y>>[1] = x /\ <<x, y>>[2] = y
  OBVIOUS
<1>2. PICK s \in Seq(Nat) : s = <<x, y>> /\ Len(s) = 2 /\ s[1] = x /\ s[2] = y
  BY <1>1, Zenon
<1>3. <<z, w>> \in Seq(Nat) /\ Len(<<z, w>>) = 2 /\ <<z, w>>[1] = z /\ <<z, w>>[2] = w
  OBVIOUS
<1>4. PICK u \in Seq(Nat) : u = <<z, w>> /\ Len(u) = 2 /\ u[1] = z /\ u[2] = w
  BY <1>3, Zenon
<1>5. /\ s \o u \in Seq(Nat) /\ Len(s \o u) = Len(s) + Len(u)
      /\ \A i \in 1 .. Len(s) + Len(u) : (s \o u)[i] = IF i <= Len(s) THEN s[i] ELSE u[i - Len(s)]
  BY ConcatProperties
<1>6. PICK t \in Seq(Nat) : /\ t = s \o u /\ Len(t) = Len(s) + Len(u)
                           /\ \A i \in 1 .. Len(s) + Len(u) : t[i] = IF i <= Len(s) THEN s[i] ELSE u[i - Len(s)]
  BY <1>5, Zenon
<1>7. Len(t) = 4 /\ t[1] = x /\ t[2] = y /\ t[3] = z /\ t[4] = w
  BY <1>2, <1>4, <1>6
<1>8. t = <<x, y, z, w>>
  BY <1>7
<1> QED BY <1>2, <1>4, <1>6, <1>8, Zenon

LEMMA AppendFourth ==
  ASSUME NEW x \in Nat, NEW y \in Nat, NEW z \in Nat, NEW w \in Nat
  PROVE  Append(<<x, y, z>>, w) = <<x, y, z, w>>
<1>1. <<x, y, z>> \in Seq(Nat) /\ Len(<<x, y, z>>) = 3 /\ <<x, y, z>>[1] = x /\ <<x, y, z>>[2] = y /\ <<x, y, z>>[3] = z
  OBVIOUS
<1>2. PICK s \in Seq(Nat) : s = <<x, y, z>> /\ Len(s) = 3 /\ s[1] = x /\ s[2] = y /\ s[3] = z
  BY <1>1, Zenon
<1>3. PICK t \in Seq(Nat) : /\ t = Append(s, w) /\ Len(t) = Len(s) + 1
                           /\ (\A i \in 1 .. Len(s) : t[i] = s[i]) /\ t[Len(s) + 1] = w
  <2>1. ASSUME NEW r \in Seq(Nat), NEW v \in Nat
        PROVE  \E t \in Seq(Nat) : /\ t = Append(r, v) /\ Len(t) = Len(r) + 1
                                   /\ (\A i \in 1 .. Len(r) : t[i] = r[i]) /\ t[Len(r) + 1] = v
    BY AppendProperties, Zenon
  <2> QED BY <2>1, Zenon
<1>4. Len(t) = 4 /\ t[1] = x /\ t[2] = y /\ t[3] = z /\ t[4] = w
  BY <1>2, <1>3
<1>5. t = <<x, y, z, w>>
  BY <1>4
<1> QED BY <1>2, <1>3, <1>5, Zenon
LEMMA FieldExcept ==
  /\ \A cols, rows, cmd, args, at, mem, x :
        [Shown(cols, rows, cmd, args, at, mem) EXCEPT !.cols = x] = Shown(x, rows, cmd, args, at, mem)
  /\ \A cols, rows, cmd, args, at, mem, x :
        [Shown(cols, rows, cmd, args, at, mem) EXCEPT !.rows = x] = Shown(cols, x, cmd, args, at, mem)
  /\ \A cols, rows, cmd, args, at, mem, x :
        [Shown(cols, rows, cmd, args, at, mem) EXCEPT !.cmd = x] = Shown(cols, rows, x, args, at, mem)
  /\ \A cols, rows, cmd, args, at, mem, x :
        [Shown(cols, rows, cmd, args, at, mem) EXCEPT !.args = x] = Shown(cols, rows, cmd, x, at, mem)
  /\ \A cols, rows, cmd, args, at, mem, x :
        [Shown(cols, rows, cmd, args, at, mem) EXCEPT !.at = x] = Shown(cols, rows, cmd, args, x, mem)
  /\ \A cols, rows, cmd, args, at, mem, x :
        [Shown(cols, rows, cmd, args, at, mem) EXCEPT !.mem = x] = Shown(cols, rows, cmd, args, at, x)
<1>1. \A cols, rows, cmd, args, at, mem, x :
        [Shown(cols, rows, cmd, args, at, mem) EXCEPT !.cols = x] = Shown(x, rows, cmd, args, at, mem)
  BY DEF Shown
<1>2. \A cols, rows, cmd, args, at, mem, x :
        [Shown(cols, rows, cmd, args, at, mem) EXCEPT !.rows = x] = Shown(cols, x, cmd, args, at, mem)
  BY DEF Shown
<1>3. \A cols, rows, cmd, args, at, mem, x :
        [Shown(cols, rows, cmd, args, at, mem) EXCEPT !.cmd = x] = Shown(cols, rows, x, args, at, mem)
  BY DEF Shown
<1>4. \A cols, rows, cmd, args, at, mem, x :
        [Shown(cols, rows, cmd, args, at, mem) EXCEPT !.args = x] = Shown(cols, rows, cmd, x, at, mem)
  BY DEF Shown
<1>5. \A cols, rows, cmd, args, at, mem, x :
        [Shown(cols, rows, cmd, args, at, mem) EXCEPT !.at = x] = Shown(cols, rows, cmd, args, x, mem)
  BY DEF Shown
<1>6. \A cols, rows, cmd, args, at, mem, x :
        [Shown(cols, rows, cmd, args, at, mem) EXCEPT !.mem = x] = Shown(cols, rows, cmd, args, at, x)
  BY DEF Shown
<1> QED BY <1>1, <1>2, <1>3, <1>4, <1>5, <1>6, Zenon

\* The arguments up to now, none, and with one more; and whether these are all.
NoArgs == <<>>
With(args, b) == Append(args, b)
Complete(cmd, args) ==
    \/ cmd \in {Lcd!CASET, Lcd!RASET} /\ Len(args) = 4
    \/ cmd = Lcd!RAMWR /\ Len(args) = 2
Coordinates(args) == <<256 * args[1] + args[2], 256 * args[3] + args[4]>>

LEMMA CommandTaken ==
  ASSUME NEW cols, NEW rows, NEW cmd, NEW args, NEW at, NEW mem, NEW b
  PROVE  Lcd!Receive(Shown(cols, rows, cmd, args, at, mem), 0, b) = Shown(cols, rows, b, NoArgs, 0, mem)
<1> DEFINE d == Shown(cols, rows, cmd, args, at, mem)
<1>1. d = Shown(cols, rows, cmd, args, at, mem) /\ 0 # 1
  OBVIOUS
<1> HIDE DEF d
<1>2. Lcd!Receive(d, 0, b) = [d EXCEPT !.cmd = b, !.args = NoArgs, !.at = 0]
  BY <1>1, Zenon DEF Lcd!Receive, NoArgs
<1>3. ASSUME NEW y, NEW z
      PROVE  [d EXCEPT !.cmd = b, !.args = y, !.at = z] = Shown(cols, rows, b, y, z, mem)
  <2> DEFINE e == Shown(cols, rows, b, args, at, mem)
             f == Shown(cols, rows, b, y, at, mem)
             g == Shown(cols, rows, b, y, z, mem)
  <2>1. e = [d EXCEPT !.cmd = b]
    BY <1>1, FieldExcept
  <2>2. f = [e EXCEPT !.args = y]
    BY <1>1, FieldExcept
  <2>3. g = [f EXCEPT !.at = z]
    BY <1>1, FieldExcept
  <2> HIDE DEF e, f, g
  <2>4. g = [d EXCEPT !.cmd = b, !.args = y, !.at = z]
    BY <2>1, <2>2, <2>3, Zenon
  <2> QED BY <2>4 DEF g
<1> QED BY <1>1, <1>2, <1>3, Zenon

\* The arguments of a command up to now, with one more.
LEMMA ArgumentTaken ==
  ASSUME NEW cols, NEW rows, NEW cmd, NEW args, NEW at, NEW mem, NEW b, NEW t, t = With(args, b), ~Complete(cmd, t)
  PROVE  Lcd!Receive(Shown(cols, rows, cmd, args, at, mem), 1, b) = Shown(cols, rows, cmd, t, at, mem)
<1> DEFINE d == Shown(cols, rows, cmd, args, at, mem)
<1>1. d = Shown(cols, rows, cmd, args, at, mem)
  OBVIOUS
<1>2. 1 # 0 /\ d.cmd = cmd /\ d.args = args
  BY DEF Shown
<1> HIDE DEF d
<1>3. Lcd!Receive(d, 1, b) = [d EXCEPT !.args = t]
  BY <1>2, Zenon DEF Lcd!Receive, With, Complete
<1>4. ASSUME NEW y PROVE [d EXCEPT !.args = y] = Shown(cols, rows, cmd, y, at, mem)
  BY <1>1, FieldExcept
<1> QED BY <1>1, <1>3, <1>4, Zenon

LEMMA ColumnsTaken ==
  ASSUME NEW cols, NEW rows, NEW args, NEW at, NEW mem, NEW b, NEW t, t = With(args, b),
         Complete(Lcd!CASET, t)
  PROVE  Lcd!Receive(Shown(cols, rows, Lcd!CASET, args, at, mem), 1, b)
         = Shown(Coordinates(t), rows, Lcd!CASET, NoArgs, at, mem)
<1> DEFINE d == Shown(cols, rows, Lcd!CASET, args, at, mem)
<1>1. d = Shown(cols, rows, Lcd!CASET, args, at, mem)
  OBVIOUS
<1>2. d.cmd = Lcd!CASET /\ d.args = args
  BY DEF Shown
<1>3. Len(t) = 4 /\ Append(args, b) = t
  BY DEF Complete, With, Lcd!CASET, Lcd!RASET, Lcd!RAMWR
<1>4. 1 # 0 /\ Lcd!CASET # Lcd!RASET /\ Lcd!CASET # Lcd!RAMWR
  BY DEF Lcd!CASET, Lcd!RASET, Lcd!RAMWR
<1> HIDE DEF d
<1>5. Lcd!Receive(d, 1, b) = Lcd!SetColumns(d, t)
  BY <1>2, <1>3, <1>4, Zenon DEF Lcd!Receive
<1>6. Lcd!SetColumns(d, t) = [d EXCEPT !.cols = Coordinates(t), !.args = NoArgs]
  BY Zenon DEF Lcd!SetColumns, Coordinates, NoArgs
<1>7. ASSUME NEW c, NEW u
      PROVE  [d EXCEPT !.cols = c, !.args = u] = Shown(c, rows, Lcd!CASET, u, at, mem)
  <2> DEFINE e == Shown(c, rows, Lcd!CASET, args, at, mem)
             f == Shown(c, rows, Lcd!CASET, u, at, mem)
  <2>1. e = [d EXCEPT !.cols = c]
    BY <1>1, FieldExcept
  <2>2. f = [e EXCEPT !.args = u]
    BY <1>1, FieldExcept
  <2> HIDE DEF e, f
  <2>3. f = [d EXCEPT !.cols = c, !.args = u]
    BY <2>1, <2>2, Zenon
  <2> QED BY <2>3 DEF f
<1> QED BY <1>1, <1>5, <1>6, <1>7, Zenon

LEMMA RowsTaken ==
  ASSUME NEW cols, NEW rows, NEW args, NEW at, NEW mem, NEW b, NEW t, t = With(args, b),
         Complete(Lcd!RASET, t)
  PROVE  Lcd!Receive(Shown(cols, rows, Lcd!RASET, args, at, mem), 1, b)
         = Shown(cols, Coordinates(t), Lcd!RASET, NoArgs, at, mem)
<1> DEFINE d == Shown(cols, rows, Lcd!RASET, args, at, mem)
<1>1. d = Shown(cols, rows, Lcd!RASET, args, at, mem)
  OBVIOUS
<1>2. d.cmd = Lcd!RASET /\ d.args = args
  BY DEF Shown
<1>3. Len(t) = 4 /\ Append(args, b) = t
  BY DEF Complete, With, Lcd!CASET, Lcd!RASET, Lcd!RAMWR
<1>4. 1 # 0 /\ Lcd!CASET # Lcd!RASET /\ Lcd!RASET # Lcd!RAMWR
  BY DEF Lcd!CASET, Lcd!RASET, Lcd!RAMWR
<1> HIDE DEF d
<1>5. Lcd!Receive(d, 1, b) = Lcd!SetRows(d, t)
  BY <1>2, <1>3, <1>4, Zenon DEF Lcd!Receive
<1>6. Lcd!SetRows(d, t) = [d EXCEPT !.rows = Coordinates(t), !.args = NoArgs]
  BY Zenon DEF Lcd!SetRows, Coordinates, NoArgs
<1>7. ASSUME NEW r, NEW u
      PROVE  [d EXCEPT !.rows = r, !.args = u] = Shown(cols, r, Lcd!RASET, u, at, mem)
  <2> DEFINE e == Shown(cols, r, Lcd!RASET, args, at, mem)
             f == Shown(cols, r, Lcd!RASET, u, at, mem)
  <2>1. e = [d EXCEPT !.rows = r]
    BY <1>1, FieldExcept
  <2>2. f = [e EXCEPT !.args = u]
    BY <1>1, FieldExcept
  <2> HIDE DEF e, f
  <2>3. f = [d EXCEPT !.rows = r, !.args = u]
    BY <2>1, <2>2, Zenon
  <2> QED BY <2>3 DEF f
<1> QED BY <1>1, <1>5, <1>6, <1>7, Zenon

\* The display takes the second byte of a pixel.
LEMMA PixelTaken ==
  ASSUME NEW c1, NEW c2, NEW r1, NEW r2, NEW at, NEW mem,
         NEW args, NEW b, NEW t, t = With(args, b), Complete(Lcd!RAMWR, t),
         NEW w, w = c2 - c1 + 1, NEW cell, cell = <<c1 + (at % w), r1 + (at \div w) - mYoffs>>, cell \in Lcd!Cells
  PROVE  Lcd!Receive(Shown(<<c1, c2>>, <<r1, r2>>, Lcd!RAMWR, args, at, mem), 1, b)
         = Shown(<<c1, c2>>, <<r1, r2>>, Lcd!RAMWR, NoArgs, at + 1, [mem EXCEPT ![cell] = t[1]])
<1> DEFINE d == Shown(<<c1, c2>>, <<r1, r2>>, Lcd!RAMWR, args, at, mem)
<1>1. d = Shown(<<c1, c2>>, <<r1, r2>>, Lcd!RAMWR, args, at, mem)
  OBVIOUS
<1>2. /\ d.cmd = Lcd!RAMWR /\ d.args = args /\ d.at = at /\ d.mem = mem
      /\ d.cols = <<c1, c2>> /\ d.rows = <<r1, r2>>
  BY DEF Shown
<1>3. d.cols[1] = c1 /\ d.cols[2] = c2 /\ d.rows[1] = r1
  BY <1>2
<1>4. Len(t) = 2 /\ Append(args, b) = t
  BY DEF Complete, With, Lcd!CASET, Lcd!RASET, Lcd!RAMWR
<1>5. 1 # 0 /\ Lcd!CASET # Lcd!RAMWR /\ Lcd!RASET # Lcd!RAMWR
  BY DEF Lcd!CASET, Lcd!RASET, Lcd!RAMWR
<1> HIDE DEF d
<1>6. Lcd!Receive(d, 1, b) = Lcd!Paint(d, t)
  BY <1>2, <1>4, <1>5, Zenon DEF Lcd!Receive
<1>7. Lcd!Paint(d, t) = [d EXCEPT !.at = at + 1, !.args = NoArgs, !.mem = [mem EXCEPT ![cell] = t[1]]]
  BY <1>2, <1>3, <1>4, Zenon DEF Lcd!Paint, NoArgs
<1> DEFINE next == at + 1
           none == NoArgs
           after == [mem EXCEPT ![cell] = t[1]]
<1>8. Lcd!Receive(d, 1, b) = [d EXCEPT !.at = next, !.args = none, !.mem = after]
  BY <1>6, <1>7, Zenon
<1> HIDE DEF next, none, after
<1>9. [d EXCEPT !.at = next, !.args = none, !.mem = after]
      = Shown(<<c1, c2>>, <<r1, r2>>, Lcd!RAMWR, none, next, after)
  <2> DEFINE e == Shown(<<c1, c2>>, <<r1, r2>>, Lcd!RAMWR, args, next, mem)
             f == Shown(<<c1, c2>>, <<r1, r2>>, Lcd!RAMWR, none, next, mem)
             g == Shown(<<c1, c2>>, <<r1, r2>>, Lcd!RAMWR, none, next, after)
  <2>1. e = [d EXCEPT !.at = next]
    BY <1>1, FieldExcept
  <2>2. f = [e EXCEPT !.args = none]
    BY <1>1, FieldExcept
  <2>3. g = [f EXCEPT !.mem = after]
    BY <1>1, FieldExcept
  <2> HIDE DEF e, f, g
  <2>4. g = [d EXCEPT !.at = next, !.args = none, !.mem = after]
    BY <2>1, <2>2, <2>3, Zenon
  <2> QED BY <2>4 DEF g
<1> QED BY <1>1, <1>8, <1>9 DEF next, none, after
-----------------------------------------------------------------------------
\* What becomes of the display, byte after byte.
LEMMA SendsAll ==
  ASSUME NEW level, NEW data \in Seq(Nat), NEW n \in Nat, Len(data) >= n, NEW s,
         \A i \in 0 .. n - 1 : s[i + 1] = Lcd!Receive(s[i], level, data[i + 1])
  PROVE  Sends(s[0], level, data, 0, n, s[n])
<1>1. ASSUME NEW i \in 0 .. n - 1 PROVE s[i + 1] = Lcd!Receive(s[i], level, ByteAt(data, 0 + i))
  <2>1. i < Len(data) /\ 0 + i = i
    OBVIOUS
  <2>2. ByteAt(data, 0 + i) = data[i + 1]
    BY <2>1 DEF ByteAt
  <2> QED BY <2>2
<1> QED BY <1>1 DEF Sends

LEMMA SendsOne ==
  ASSUME NEW d, NEW level, NEW b \in Nat
  PROVE  Sends(d, level, <<b>>, 0, 1, Lcd!Receive(d, level, b))
<1> DEFINE s == [i \in 0 .. 1 |-> IF i = 0 THEN d ELSE Lcd!Receive(d, level, b)]
<1>1. PICK data \in Seq(Nat) : data = <<b>> /\ Len(data) = 1 /\ data[1] = b
  <2>1. <<b>> \in Seq(Nat) /\ Len(<<b>>) = 1 /\ <<b>>[1] = b
    OBVIOUS
  <2> QED BY <2>1, Zenon
<1>2. s[0] = d /\ s[1] = Lcd!Receive(d, level, b)
  OBVIOUS
<1> HIDE DEF s
<1>3. \A i \in 0 .. 1 - 1 : s[i + 1] = Lcd!Receive(s[i], level, data[i + 1])
  <2> SUFFICES ASSUME NEW i \in 0 .. 1 - 1 PROVE s[i + 1] = Lcd!Receive(s[i], level, data[i + 1])
    OBVIOUS
  <2>1. i = 0 /\ i + 1 = 1
    OBVIOUS
  <2> QED BY <1>1, <1>2, <2>1, Zenon
<1>4. 1 \in Nat /\ Len(data) >= 1
  BY <1>1
<1>5. Sends(s[0], level, data, 0, 1, s[1])
  BY <1>3, <1>4, SendsAll
<1> QED BY <1>1, <1>2, <1>5

\* The four bytes of a window's coordinates; f is the display after so many.
LEMMA SendsFour ==
  ASSUME NEW x \in Nat, NEW y \in Nat, NEW z \in Nat, NEW w \in Nat,
         NEW f, f[1] = Lcd!Receive(f[0], 1, x), f[2] = Lcd!Receive(f[1], 1, y),
         f[3] = Lcd!Receive(f[2], 1, z), f[4] = Lcd!Receive(f[3], 1, w)
  PROVE  Sends(f[0], 1, <<x, y, z, w>>, 0, 4, f[4])
<1>1. PICK data \in Seq(Nat) :
         data = <<x, y, z, w>> /\ Len(data) = 4 /\ data[1] = x /\ data[2] = y /\ data[3] = z /\ data[4] = w
  <2> DEFINE t == <<x, y, z, w>>
  <2>1. t \in Seq(Nat) /\ Len(t) = 4 /\ t[1] = x /\ t[2] = y /\ t[3] = z /\ t[4] = w
    OBVIOUS
  <2> QED BY <2>1, Zenon
<1>2. \A i \in 0 .. 4 - 1 : f[i + 1] = Lcd!Receive(f[i], 1, data[i + 1])
  <2> SUFFICES ASSUME NEW i \in 0 .. 4 - 1 PROVE f[i + 1] = Lcd!Receive(f[i], 1, data[i + 1])
    OBVIOUS
  <2>1. \/ i = 0 /\ i + 1 = 1
        \/ i = 1 /\ i + 1 = 2
        \/ i = 2 /\ i + 1 = 3
        \/ i = 3 /\ i + 1 = 4
    OBVIOUS
  <2> QED BY <1>1, <2>1, Zenon
<1>3. 4 \in Nat /\ Len(data) >= 4
  BY <1>1
<1>4. Sends(f[0], 1, data, 0, 4, f[4])
  BY <1>2, <1>3, SendsAll
<1> QED BY <1>1, <1>4

LEMMA CoordinatesTaken ==
  ASSUME NEW cols, NEW rows, NEW at, NEW mem, NEW x \in Nat, NEW y \in Nat, NEW z \in Nat, NEW w \in Nat
  PROVE  /\ Sends(Shown(cols, rows, Lcd!CASET, NoArgs, at, mem), 1, <<x, y, z, w>>, 0, 4,
                  Shown(<<256 * x + y, 256 * z + w>>, rows, Lcd!CASET, NoArgs, at, mem))
         /\ Sends(Shown(cols, rows, Lcd!RASET, NoArgs, at, mem), 1, <<x, y, z, w>>, 0, 4,
                  Shown(cols, <<256 * x + y, 256 * z + w>>, Lcd!RASET, NoArgs, at, mem))
<1> DEFINE one == <<x>>
           two == <<x, y>>
           three == <<x, y, z>>
           four == <<x, y, z, w>>
<1>1. one = With(NoArgs, x) /\ two = With(one, y) /\ three = With(two, z) /\ four = With(three, w)
  <2>1. Append(<<>>, x) = <<x>>
    BY Appended
  <2>2. Append(<<x>>, y) = <<x, y>>
    BY Appended, Zenon
  <2>3. Append(<<x, y>>, z) = <<x, y, z>>
    BY Appended, Zenon
  <2>4. Append(<<x, y, z>>, w) = <<x, y, z, w>>
    BY AppendFourth, Zenon
  <2> QED BY <2>1, <2>2, <2>3, <2>4, Zenon DEF NoArgs, With
<1>2. ASSUME NEW cmd \in {Lcd!CASET, Lcd!RASET}
      PROVE  ~Complete(cmd, one) /\ ~Complete(cmd, two) /\ ~Complete(cmd, three) /\ Complete(cmd, four)
  BY DEF Complete, Lcd!CASET, Lcd!RASET, Lcd!RAMWR
<1>3. Coordinates(four) = <<256 * x + y, 256 * z + w>>
  BY DEF Coordinates
<1> HIDE DEF one, two, three, four
<1> DEFINE At(cmd, args) == Shown(cols, rows, cmd, args, at, mem)
<1>4. ASSUME NEW cmd \in {Lcd!CASET, Lcd!RASET}, NEW e, Lcd!Receive(At(cmd, three), 1, w) = e
      PROVE  Sends(At(cmd, NoArgs), 1, <<x, y, z, w>>, 0, 4, e)
  <2>1. ASSUME NEW s, NEW b, NEW t, t = With(s, b), ~Complete(cmd, t)
        PROVE  Lcd!Receive(At(cmd, s), 1, b) = At(cmd, t)
    BY <2>1, ArgumentTaken
  <2>2. /\ Lcd!Receive(At(cmd, NoArgs), 1, x) = At(cmd, one) /\ Lcd!Receive(At(cmd, one), 1, y) = At(cmd, two)
        /\ Lcd!Receive(At(cmd, two), 1, z) = At(cmd, three)
    BY <1>1, <1>2, <2>1
  <2> DEFINE s0 == At(cmd, NoArgs)
             s1 == At(cmd, one)
             s2 == At(cmd, two)
             s3 == At(cmd, three)
             f == [i \in 0 .. 4 |-> IF i = 0 THEN s0 ELSE IF i = 1 THEN s1 ELSE IF i = 2 THEN s2
                                    ELSE IF i = 3 THEN s3 ELSE e]
  <2> HIDE DEF s0, s1, s2, s3
  <2>3. f[0] = s0 /\ f[1] = s1 /\ f[2] = s2 /\ f[3] = s3 /\ f[4] = e
    OBVIOUS
  <2> HIDE DEF f
  <2>4. /\ f[1] = Lcd!Receive(f[0], 1, x) /\ f[2] = Lcd!Receive(f[1], 1, y)
        /\ f[3] = Lcd!Receive(f[2], 1, z) /\ f[4] = Lcd!Receive(f[3], 1, w)
    BY <1>4, <2>2, <2>3, Zenon DEF s0, s1, s2, s3
  <2>5. Sends(f[0], 1, <<x, y, z, w>>, 0, 4, f[4])
    BY <2>4, SendsFour
  <2> QED BY <2>3, <2>5, Zenon DEF s0
<1>5. /\ Lcd!Receive(At(Lcd!CASET, three), 1, w) = Shown(Coordinates(four), rows, Lcd!CASET, NoArgs, at, mem)
      /\ Lcd!Receive(At(Lcd!RASET, three), 1, w) = Shown(cols, Coordinates(four), Lcd!RASET, NoArgs, at, mem)
  BY <1>1, <1>2, ColumnsTaken, RowsTaken
<1>6. /\ Sends(At(Lcd!CASET, NoArgs), 1, <<x, y, z, w>>, 0, 4,
               Shown(Coordinates(four), rows, Lcd!CASET, NoArgs, at, mem))
      /\ Sends(At(Lcd!RASET, NoArgs), 1, <<x, y, z, w>>, 0, 4,
               Shown(cols, Coordinates(four), Lcd!RASET, NoArgs, at, mem))
  BY <1>4, <1>5, Zenon
<1> QED BY <1>3, <1>6, Zenon

LEMMA RunsTwice ==
  ASSUME NEW p, NEW q, NEW r, NEW a, NEW b, NEW c, NEW d, Runs(p, a, b), Runs(q, b, c), Runs(r, c, d)
  PROVE  Runs((p \o q) \o r, a, d)
<1>1. Runs(p \o q, a, c)
  BY RunsThen
<1> QED BY <1>1, RunsThen

\* A command, and its data.
LEMMA CmdRuns ==
  ASSUME NEW a, NEW cols, NEW rows, NEW cmd, NEW args, NEW at, NEW mem,
         a.display = Shown(cols, rows, cmd, args, at, mem), NEW op \in Nat
  PROVE  Runs(Lcd!sendCmd(op), a, Hardware(<<op>>, 0, a.descs, Shown(cols, rows, op, NoArgs, 0, mem), 1))
<1> DEFINE d == Shown(cols, rows, cmd, args, at, mem)
           e == Shown(cols, rows, op, NoArgs, 0, mem)
           m == Hardware(a.fifo, a.dc, a.descs, d, 0)
           n == Hardware(a.fifo, 0, a.descs, d, 0)
           bytes == <<op>>
           b == Hardware(bytes, 0, a.descs, e, 1)
<1>1. Runs(Lcd!waitDone, a, m)
  BY WaitRuns
<1>2. Runs(Lcd!setDcPin(0), m, n)
  BY SetRuns
<1>3. Runs(Lcd!spiSendVal(FALSE, bytes), n, b)
  <2>1. Sends(d, 0, bytes, 0, 1, Lcd!Receive(d, 0, op))
    BY SendsOne
  <2>2. Lcd!Receive(d, 0, op) = e
    BY CommandTaken
  <2>3. bytes \in Seq(Nat) /\ Len(bytes) = 1
    OBVIOUS
  <2> HIDE DEF d, e, bytes
  <2> QED BY <2>1, <2>2, <2>3, ValRuns
<1> HIDE DEF m, n, b, bytes
<1>4. Runs((Lcd!waitDone \o Lcd!setDcPin(0)) \o Lcd!spiSendVal(FALSE, bytes), a, b)
  BY <1>1, <1>2, <1>3, RunsTwice
<1> QED BY <1>4 DEF Lcd!sendCmd, Lcd!CmdWait, b, bytes

LEMMA DataRuns ==
  ASSUME NEW a, NEW bytes \in Seq(Nat), NEW e, Sends(a.display, 1, bytes, 0, Len(bytes), e)
  PROVE  Runs(Lcd!sendData(bytes), a, Hardware(bytes, 1, a.descs, e, 1))
<1> DEFINE d == a.display
           m == Hardware(a.fifo, a.dc, a.descs, d, 0)
           n == Hardware(a.fifo, 1, a.descs, d, 0)
           b == Hardware(bytes, 1, a.descs, e, 1)
<1>1. Runs(Lcd!waitDone, a, m)
  BY WaitRuns
<1>2. Runs(Lcd!setDcPin(1), m, n)
  BY SetRuns
<1>3. Runs(Lcd!spiSendVal(TRUE, bytes), n, b)
  BY ValRuns
<1> HIDE DEF m, n, b, d
<1>4. Runs((Lcd!waitDone \o Lcd!setDcPin(1)) \o Lcd!spiSendVal(TRUE, bytes), a, b)
  BY <1>1, <1>2, <1>3, RunsTwice
<1> QED BY <1>4 DEF Lcd!sendData, b

LEMMA CmdDataRuns ==
  ASSUME NEW a, NEW cols, NEW rows, NEW cmd, NEW args, NEW at, NEW mem,
         a.display = Shown(cols, rows, cmd, args, at, mem), NEW op \in Nat,
         NEW bytes \in Seq(Nat), NEW e,
         Sends(Shown(cols, rows, op, NoArgs, 0, mem), 1, bytes, 0, Len(bytes), e)
  PROVE  Runs(Lcd!sendCmdData(op, bytes), a, Hardware(bytes, 1, a.descs, e, 1))
<1> DEFINE d == Shown(cols, rows, op, NoArgs, 0, mem)
           h == Hardware(a.fifo, a.dc, a.descs, a.display, 0)
           m == Hardware(<<op>>, 0, a.descs, d, 1)
           b == Hardware(bytes, 1, a.descs, e, 1)
<1>1. Runs(Lcd!waitDone, a, h)
  BY WaitRuns
<1>2. Runs(Lcd!sendCmd(op), h, m)
  <2>1. h.display = Shown(cols, rows, cmd, args, at, mem) /\ h.descs = a.descs
    BY HardwareHas
  <2> HIDE DEF h
  <2> QED BY <2>1, CmdRuns
<1>3. m.display = d /\ m.descs = a.descs
  BY HardwareHas
<1> HIDE DEF h, m, d
<1>4. Runs(Lcd!sendData(bytes), m, Hardware(bytes, 1, m.descs, e, 1))
  BY <1>3, DataRuns DEF d
<1>5. Runs((Lcd!waitDone \o Lcd!sendCmd(op)) \o Lcd!sendData(bytes), a, b)
  BY <1>1, <1>2, <1>3, <1>4, RunsTwice
<1> QED BY <1>5 DEF Lcd!sendCmdData, b

\* Commands that have one byte of data, which the display ignores.
LEMMA OneByteRuns ==
  ASSUME NEW a, NEW cols, NEW rows, NEW cmd, NEW args, NEW at, NEW mem,
         a.display = Shown(cols, rows, cmd, args, at, mem),
         NEW op \in Nat, op \notin {Lcd!CASET, Lcd!RASET, Lcd!RAMWR}, NEW byte \in Nat
  PROVE  Runs(Lcd!sendCmdData(op, <<byte>>), a,
              Hardware(<<byte>>, 1, a.descs, Shown(cols, rows, op, <<byte>>, 0, mem), 1))
<1> DEFINE bytes == <<byte>>
<1>1. bytes = With(NoArgs, byte) /\ ~Complete(op, bytes)
  <2>1. bytes = With(NoArgs, byte)
    BY Appended DEF With, NoArgs
  <2> QED BY <2>1, Zenon DEF Complete
<1>2. Sends(Shown(cols, rows, op, NoArgs, 0, mem), 1, bytes, 0, 1,
            Lcd!Receive(Shown(cols, rows, op, NoArgs, 0, mem), 1, byte))
  BY SendsOne
<1>3. bytes \in Seq(Nat) /\ Len(bytes) = 1
  OBVIOUS
<1> HIDE DEF bytes
<1>4. Lcd!Receive(Shown(cols, rows, op, NoArgs, 0, mem), 1, byte) = Shown(cols, rows, op, bytes, 0, mem)
  BY <1>1, ArgumentTaken
<1>5. Runs(Lcd!sendCmdData(op, bytes), a, Hardware(bytes, 1, a.descs, Shown(cols, rows, op, bytes, 0, mem), 1))
  BY <1>2, <1>3, <1>4, CmdDataRuns
<1> QED BY <1>5 DEF bytes
-----------------------------------------------------------------------------
\* A number below 65536 is its two bytes.
Words == {n \in Nat : n <= 65535}
High(n) == (n \div 256) % 256
Low(n) == n % 256

LEMMA WordBytes ==
  ASSUME NEW n \in Words
  PROVE  \E h \in Nat, l \in Nat : Lcd!BigEndian(n) = <<h, l>> /\ 256 * h + l = n
<1>1. High(n) \in Nat /\ Low(n) \in Nat /\ 256 * High(n) + Low(n) = n
  <2> DEFINE q == n \div 256
             r == n % 256
  <2>1. n \in Int /\ 0 <= n /\ n <= 65535
    BY SMT DEF Words
  <2>2. q \in Int /\ r \in 0 .. 255 /\ n = 256 * q + r
    BY <2>1, SMT
  <2>3. High(n) = q % 256 /\ Low(n) = r
    BY SMT DEF High, Low
  <2> HIDE DEF q, r
  <2>4. 0 <= q /\ q <= 255
    BY <2>1, <2>2, SMT
  <2>5. q % 256 = q
    BY <2>2, <2>4, SMT
  <2> QED BY <2>2, <2>3, <2>4, <2>5, SMT
<1>2. Lcd!BigEndian(n) = <<High(n), Low(n)>>
  BY DEF High, Low, Lcd!BigEndian
<1> QED BY <1>1, <1>2, Zenon

LEMMA WindowBytes ==
  ASSUME NEW n \in Words, NEW m \in Words, NEW cols, NEW rows, NEW at, NEW mem
  PROVE  \E bytes \in Seq(Nat) :
            /\ bytes = Lcd!BigEndian(n) \o Lcd!BigEndian(m) /\ Len(bytes) = 4
            /\ Sends(Shown(cols, rows, Lcd!CASET, NoArgs, at, mem), 1, bytes, 0, 4,
                     Shown(<<n, m>>, rows, Lcd!CASET, NoArgs, at, mem))
            /\ Sends(Shown(cols, rows, Lcd!RASET, NoArgs, at, mem), 1, bytes, 0, 4,
                     Shown(cols, <<n, m>>, Lcd!RASET, NoArgs, at, mem))
<1>1. PICK x \in Nat, y \in Nat : Lcd!BigEndian(n) = <<x, y>> /\ 256 * x + y = n
  BY WordBytes, Zenon
<1>2. PICK z \in Nat, w \in Nat : Lcd!BigEndian(m) = <<z, w>> /\ 256 * z + w = m
  BY WordBytes, Zenon
<1>0. <<x, y>> \o <<z, w>> = <<x, y, z, w>>
  <2>1. x \in Nat /\ y \in Nat /\ z \in Nat /\ w \in Nat
    BY <1>1, <1>2
  <2> QED BY <2>1, PairsJoined
<1> DEFINE bytes == <<x, y, z, w>>
<1>3. bytes \in Seq(Nat) /\ Len(bytes) = 4
  OBVIOUS
<1>4. bytes = Lcd!BigEndian(n) \o Lcd!BigEndian(m)
  BY <1>0, <1>1, <1>2, Zenon
<1>5. /\ Sends(Shown(cols, rows, Lcd!CASET, NoArgs, at, mem), 1, bytes, 0, 4,
               Shown(<<256 * x + y, 256 * z + w>>, rows, Lcd!CASET, NoArgs, at, mem))
      /\ Sends(Shown(cols, rows, Lcd!RASET, NoArgs, at, mem), 1, bytes, 0, 4,
               Shown(cols, <<256 * x + y, 256 * z + w>>, Lcd!RASET, NoArgs, at, mem))
  BY CoordinatesTaken
<1> HIDE DEF bytes
<1>6. /\ Sends(Shown(cols, rows, Lcd!CASET, NoArgs, at, mem), 1, bytes, 0, 4,
               Shown(<<n, m>>, rows, Lcd!CASET, NoArgs, at, mem))
      /\ Sends(Shown(cols, rows, Lcd!RASET, NoArgs, at, mem), 1, bytes, 0, 4,
               Shown(cols, <<n, m>>, Lcd!RASET, NoArgs, at, mem))
  BY <1>1, <1>2, <1>5, Zenon
<1> QED BY <1>3, <1>4, <1>6, Zenon

\* The display after a window is set: the next pixel is the window's first.
Window(x1, y1, x2, y2, mem) ==
    Shown(<<x1, x2>>, <<y1 + mYoffs, y2 + mYoffs>>, Lcd!RAMWR, NoArgs, 0, mem)

LEMMA WindowRuns ==
  ASSUME NEW a, NEW cols, NEW rows, NEW cmd, NEW args, NEW at, NEW mem,
         a.display = Shown(cols, rows, cmd, args, at, mem),
         NEW x1 \in Words, NEW x2 \in Words, NEW y1, NEW y2,
         y1 + mYoffs \in Words, y2 + mYoffs \in Words
  PROVE  \E f : Runs(Lcd!setWriteWindowCoords(x1, y1, x2, y2), a,
                     Hardware(f, 0, a.descs, Window(x1, y1, x2, y2, mem), 1))
<1> DEFINE nc == <<x1, x2>>
           nr == <<y1 + mYoffs, y2 + mYoffs>>
           d1 == Shown(nc, rows, Lcd!CASET, NoArgs, 0, mem)
           d2 == Shown(nc, nr, Lcd!RASET, NoArgs, 0, mem)
           d3 == Shown(nc, nr, Lcd!RAMWR, NoArgs, 0, mem)
<1>1. PICK xs \in Seq(Nat) :
         /\ xs = Lcd!BigEndian(x1) \o Lcd!BigEndian(x2) /\ Len(xs) = 4
         /\ Sends(Shown(cols, rows, Lcd!CASET, NoArgs, 0, mem), 1, xs, 0, 4, d1)
  BY WindowBytes
<1>2. PICK ys \in Seq(Nat) :
         /\ ys = Lcd!BigEndian(y1 + mYoffs) \o Lcd!BigEndian(y2 + mYoffs) /\ Len(ys) = 4
         /\ Sends(Shown(nc, rows, Lcd!RASET, NoArgs, 0, mem), 1, ys, 0, 4, d2)
  BY WindowBytes
<1>3. Lcd!CASET \in Nat /\ Lcd!RASET \in Nat /\ Lcd!RAMWR \in Nat
  BY DEF Lcd!CASET, Lcd!RASET, Lcd!RAMWR
<1> HIDE DEF nc, nr
<1> DEFINE b == Hardware(xs, 1, a.descs, d1, 1)
           c == Hardware(ys, 1, a.descs, d2, 1)
           f == <<Lcd!RAMWR>>
           e == Hardware(f, 0, a.descs, d3, 1)
<1>4. Runs(Lcd!sendCmdData(Lcd!CASET, xs), a, b)
  BY <1>1, <1>3, CmdDataRuns
<1>5. b.display = d1 /\ b.descs = a.descs /\ c.display = d2 /\ c.descs = a.descs
  BY HardwareHas
<1> HIDE DEF b
<1>6. Runs(Lcd!sendCmdData(Lcd!RASET, ys), b, c)
  BY <1>2, <1>3, <1>5, CmdDataRuns
<1> HIDE DEF c
<1>7. Runs(Lcd!sendCmd(Lcd!RAMWR), c, e)
  BY <1>3, <1>5, CmdRuns
<1> HIDE DEF e
<1>8. Runs((Lcd!sendCmdData(Lcd!CASET, xs) \o Lcd!sendCmdData(Lcd!RASET, ys)) \o Lcd!sendCmd(Lcd!RAMWR), a, e)
  BY <1>4, <1>6, <1>7, RunsTwice
<1>9. Lcd!setWriteWindowCoords(x1, y1, x2, y2)
      = (Lcd!sendCmdData(Lcd!CASET, xs) \o Lcd!sendCmdData(Lcd!RASET, ys)) \o Lcd!sendCmd(Lcd!RAMWR)
  BY <1>1, <1>2, Zenon DEF Lcd!setWriteWindowCoords
<1>10. e = Hardware(f, 0, a.descs, Window(x1, y1, x2, y2, mem), 1)
  BY DEF e, Window, nc, nr
<1> HIDE DEF f
<1> QED BY <1>8, <1>9, <1>10, Zenon
-----------------------------------------------------------------------------
\* Quotient and remainder.
LEMMA Quotient ==
  ASSUME NEW x \in Int, NEW m \in Nat \ {0}
  PROVE  x \div m \in Int /\ x % m \in 0 .. m - 1 /\ x = m * (x \div m) + (x % m)
<1>1. x \div m \in Int
  OBVIOUS
<1>2. x % m \in 0 .. m - 1
  OBVIOUS
<1>3. x = m * (x \div m) + (x % m)
  OBVIOUS
<1> QED BY <1>1, <1>2, <1>3

LEMMA Grows == ASSUME NEW m \in Nat, NEW p \in Int, NEW q \in Int, q >= p PROVE m * q >= m * p
<1>1. \A d \in Nat : m * d >= 0
  OBVIOUS
<1>2. m * (q - p) >= 0
  BY <1>1
<1>3. m * (q - p) = m * q - m * p
  OBVIOUS
<1> QED BY <1>2, <1>3

\* There is one quotient and one remainder.
LEMMA OneQuotient ==
  ASSUME NEW m \in Nat \ {0}, NEW q \in Int, NEW p \in Int,
         NEW r \in 0 .. m - 1, NEW s \in 0 .. m - 1, m * q + r = m * p + s
  PROVE  q = p /\ r = s
<1>1. q >= p + 1 => m * q >= m * (p + 1)
  BY Grows
<1>2. p >= q + 1 => m * p >= m * (q + 1)
  BY Grows
<1>3. m * (p + 1) = m * p + m /\ m * (q + 1) = m * q + m
  OBVIOUS
<1>4. ~(q >= p + 1) /\ ~(p >= q + 1)
  BY <1>1, <1>2, <1>3
<1> QED BY <1>4

\* The place of the area's pixels.
PlaceOf(a, k) == <<a.x + (k % a.w), a.y + (k \div a.w)>>
Size(a) == a.w * a.h

LEMMA AreaHas ==
  ASSUME NEW a, Lcd!OnScreen(a)
  PROVE  /\ a.x \in Nat /\ a.y \in Nat /\ a.w \in Nat \ {0} /\ a.h \in Nat \ {0}
         /\ a.x + a.w <= mWidth /\ a.y + a.h <= mHeight
         /\ Size(a) \in Nat \ {0}
<1>1. /\ a.x \in Nat /\ a.y \in Nat /\ a.w \in Nat \ {0} /\ a.h \in Nat \ {0}
      /\ a.x + a.w <= mWidth /\ a.y + a.h <= mHeight
  BY DEF Lcd!OnScreen
<1>2. a.w * a.h >= a.w * 1
  BY <1>1, Grows
<1>3. Size(a) \in Nat \ {0}
  BY <1>1, <1>2 DEF Size
<1> QED BY <1>1, <1>3

LEMMA ScreenSize ==
  /\ mWidth \in Nat \ {0} /\ mHeight \in Nat \ {0} /\ mYoffs \in Nat
  /\ kMaxTransferLen \in Nat \ {0} /\ kDmaMaxBufSize \in Nat \ {0} /\ kMaxTransferLen % 4 = 0
  /\ mWidth <= 65536 /\ mHeight + mYoffs <= 65536 /\ Black \in Nat /\ Colors \subseteq Nat
  BY LcdAssumption, SMT DEF Lcd!SpiAssumption

LEMMA PlaceIsOne ==
  ASSUME NEW a, Lcd!OnScreen(a), NEW k \in 0 .. Size(a) - 1
  PROVE  /\ PlaceOf(a, k) \in Lcd!Cells /\ PlaceOf(a, k) \in Lcd!CellsOf(a) /\ Lcd!Nth(a, PlaceOf(a, k)) = k
         /\ \A c \in Lcd!CellsOf(a) : Lcd!Nth(a, c) = k => c = PlaceOf(a, k)
<1> DEFINE x == a.x
           y == a.y
           w == a.w
           h == a.h
           q == k \div w
           r == k % w
<1>1. x \in Nat /\ y \in Nat /\ w \in Nat \ {0} /\ h \in Nat \ {0} /\ x + w <= mWidth /\ y + h <= mHeight
  BY AreaHas
<1>2. k \in Nat /\ k <= w * h - 1 /\ Size(a) \in Nat
  BY AreaHas DEF Size
<1>3. q \in Int /\ r \in 0 .. w - 1 /\ k = w * q + r
  <2>1. k \in Int /\ w \in Nat \ {0}
    BY <1>1, <1>2
  <2> HIDE DEF w
  <2> QED BY <2>1, Quotient
<1>4. PlaceOf(a, k) = <<x + r, y + q>>
  BY DEF PlaceOf
<1>5. Lcd!CellsOf(a) = (x .. x + w - 1) \X (y .. y + h - 1)
  BY DEF Lcd!CellsOf, Lcd!EndOf
<1>6. \A c : Lcd!Nth(a, c) = c[1] - x + w * (c[2] - y)
  BY DEF Lcd!Nth
<1> HIDE DEF x, y, w, h, q, r
<1>7. q >= 0
  <2>1. CASE q <= -1
    <3>1. w * (-1) >= w * q
      BY <1>1, <1>3, <2>1, Grows
    <3>2. w * (-1) = -w
      BY <1>1
    <3> QED BY <1>1, <1>2, <1>3, <3>1, <3>2
  <2> QED BY <1>3, <2>1
<1>8. q <= h - 1
  <2>1. CASE q >= h
    <3>1. w * q >= w * h
      BY <1>1, <1>3, <2>1, Grows
    <3> QED BY <1>1, <1>2, <1>3, <3>1
  <2> QED BY <1>1, <1>3, <2>1
<1>9. x + r \in x .. x + w - 1 /\ y + q \in y .. y + h - 1 /\ x + r \in 0 .. mWidth - 1 /\ y + q \in 0 .. mHeight - 1
  BY <1>1, <1>3, <1>7, <1>8, ScreenSize
<1>10. PlaceOf(a, k) \in Lcd!Cells /\ PlaceOf(a, k) \in Lcd!CellsOf(a)
  BY <1>4, <1>5, <1>9 DEF Lcd!Cells
<1>11. Lcd!Nth(a, PlaceOf(a, k)) = k
  <2>1. Lcd!Nth(a, PlaceOf(a, k)) = (x + r) - x + w * ((y + q) - y)
    BY <1>4, <1>6
  <2>2. (x + r) - x = r /\ (y + q) - y = q
    BY <1>1, <1>3
  <2>3. r + w * q = k
    BY <1>1, <1>3
  <2> QED BY <2>1, <2>2, <2>3
<1>12. ASSUME NEW c \in Lcd!CellsOf(a), Lcd!Nth(a, c) = k PROVE c = PlaceOf(a, k)
  <2>1. PICK i \in x .. x + w - 1, j \in y .. y + h - 1 : c = <<i, j>>
    BY <1>5
  <2>2. i - x \in 0 .. w - 1 /\ j - y \in Int
    BY <1>1, <2>1
  <2>3. k = i - x + w * (j - y)
    BY <1>6, <1>12, <2>1
  <2>4. w * (j - y) + (i - x) = w * q + r
    BY <1>1, <1>3, <2>2, <2>3
  <2>5. j - y = q /\ i - x = r
    BY <1>1, <1>3, <2>2, <2>4, OneQuotient
  <2> QED BY <1>1, <1>3, <1>4, <2>1, <2>5
<1> QED BY <1>10, <1>11, <1>12

\* The memory after the area's first k pixels.
Painted(mem, a, px, k) ==
    [cell \in Lcd!Cells |-> IF cell \in Lcd!CellsOf(a) /\ Lcd!Nth(a, cell) < k
                            THEN px[2 * Lcd!Nth(a, cell) + 1] ELSE mem[cell]]

LEMMA NthIsPixel ==
  ASSUME NEW a, Lcd!OnScreen(a), NEW c \in Lcd!CellsOf(a)
  PROVE  Lcd!Nth(a, c) \in 0 .. Size(a) - 1
<1> DEFINE x == a.x
           y == a.y
           w == a.w
           h == a.h
<1>1. x \in Nat /\ y \in Nat /\ w \in Nat \ {0} /\ h \in Nat \ {0}
  BY AreaHas
<1>2. Lcd!CellsOf(a) = (x .. x + w - 1) \X (y .. y + h - 1) /\ Lcd!Nth(a, c) = c[1] - x + w * (c[2] - y)
  BY DEF Lcd!CellsOf, Lcd!EndOf, Lcd!Nth
<1>3. Size(a) = w * h
  BY DEF Size
<1> HIDE DEF x, y, w, h
<1>4. PICK i \in x .. x + w - 1, j \in y .. y + h - 1 : c = <<i, j>>
  BY <1>2
<1> DEFINE r == i - x
           q == j - y
<1>5. r \in 0 .. w - 1 /\ q \in 0 .. h - 1 /\ Lcd!Nth(a, c) = r + w * q
  BY <1>1, <1>2, <1>4
<1> HIDE DEF r, q
<1>6. w * q >= w * 0 /\ w * (h - 1) >= w * q
  BY <1>1, <1>5, Grows
<1>7. w * (h - 1) = w * h - w /\ w * 0 = 0
  BY <1>1
<1>8. w * q \in Int /\ w * h \in Int
  BY <1>1, <1>5
<1> QED BY <1>1, <1>3, <1>5, <1>6, <1>7, <1>8

LEMMA PaintedAll ==
  ASSUME NEW a, Lcd!OnScreen(a), NEW mem, NEW px
  PROVE  Painted(mem, a, px, Size(a)) = Lcd!Drawn(mem, a, [n \in Lcd!Pixels(a) |-> px[2 * n + 1]])
<1>1. ASSUME NEW c \in Lcd!CellsOf(a)
      PROVE  Lcd!Nth(a, c) < Size(a) /\ [n \in Lcd!Pixels(a) |-> px[2 * n + 1]][Lcd!Nth(a, c)] = px[2 * Lcd!Nth(a, c) + 1]
  <2>1. Lcd!Nth(a, c) \in 0 .. Size(a) - 1 /\ Size(a) \in Nat
    BY NthIsPixel, AreaHas
  <2>2. Lcd!Nth(a, c) \in Lcd!Pixels(a)
    BY <2>1 DEF Lcd!Pixels, Size
  <2> QED BY <2>1, <2>2
<1> QED BY <1>1, Zenon DEF Painted, Lcd!Drawn

LEMMA PaintedNone ==
  ASSUME NEW a, Lcd!OnScreen(a), NEW mem, NEW px, mem = [cell \in Lcd!Cells |-> mem[cell]]
  PROVE  Painted(mem, a, px, 0) = mem
<1>1. ASSUME NEW c \in Lcd!CellsOf(a) PROVE ~(Lcd!Nth(a, c) < 0)
  <2>1. Lcd!Nth(a, c) \in 0 .. Size(a) - 1 /\ Size(a) \in Nat
    BY NthIsPixel, AreaHas
  <2> QED BY <2>1
<1> QED BY <1>1, Zenon DEF Painted

LEMMA PaintedNext ==
  ASSUME NEW a, Lcd!OnScreen(a), NEW mem, NEW px, NEW k \in 0 .. Size(a) - 1
  PROVE  Painted(mem, a, px, k + 1) = [Painted(mem, a, px, k) EXCEPT ![PlaceOf(a, k)] = px[2 * k + 1]]
<1> DEFINE p == PlaceOf(a, k)
           Seen(cell) == cell \in Lcd!CellsOf(a)
           N(cell) == Lcd!Nth(a, cell)
           earlier == Painted(mem, a, px, k)
           after == Painted(mem, a, px, k + 1)
           v == px[2 * k + 1]
<1>1. p \in Lcd!Cells /\ Seen(p) /\ N(p) = k /\ \A c \in Lcd!CellsOf(a) : N(c) = k => c = p
  BY PlaceIsOne
<1>2. k \in Nat
  BY AreaHas
<1>3. /\ earlier = [cell \in Lcd!Cells |-> earlier[cell]] /\ after = [cell \in Lcd!Cells |-> after[cell]]
      /\ \A c \in Lcd!Cells : earlier[c] = IF Seen(c) /\ N(c) < k THEN px[2 * N(c) + 1] ELSE mem[c]
      /\ \A c \in Lcd!Cells : after[c] = IF Seen(c) /\ N(c) < k + 1 THEN px[2 * N(c) + 1] ELSE mem[c]
  BY DEF Painted
<1>4. after[p] = v
  <2>1. k < k + 1
    BY <1>2
  <2> QED BY <1>1, <1>3, <2>1
<1>5. ASSUME NEW c \in Lcd!Cells, c # p PROVE after[c] = earlier[c]
  <2>1. CASE Seen(c)
    <3>1. N(c) \in Nat /\ N(c) # k
      BY <1>1, <1>5, <2>1, NthIsPixel, AreaHas
    <3>2. N(c) < k + 1 <=> N(c) < k
      BY <1>2, <3>1
    <3> QED BY <1>3, <3>2
  <2>2. CASE ~Seen(c)
    BY <1>3, <2>2
  <2> QED BY <2>1, <2>2
<1> HIDE DEF p, earlier, after, v
<1>6. after = [earlier EXCEPT ![p] = v]
  <2>1. [earlier EXCEPT ![p] = v] = [c \in Lcd!Cells |-> IF c = p THEN v ELSE earlier[c]]
    BY <1>1, <1>3
  <2>2. after = [c \in Lcd!Cells |-> IF c = p THEN v ELSE earlier[c]]
    BY <1>3, <1>4, <1>5, Zenon
  <2> QED BY <2>1, <2>2
<1> QED BY <1>6 DEF p, earlier, after, v
-----------------------------------------------------------------------------
\* The display after so many of the area's bytes: k pixels, perhaps with the first
\* byte of the next one.
Between(mem, a, px, args, k) ==
    Shown(<<a.x, Lcd!EndOf(a.x, a.w)>>, <<a.y + mYoffs, Lcd!EndOf(a.y, a.h) + mYoffs>>, Lcd!RAMWR,
          args, k, Painted(mem, a, px, k))
Half(mem, a, px, j) == Between(mem, a, px, IF j % 2 = 0 THEN NoArgs ELSE <<px[j]>>, j \div 2)

\* The bytes are so many pixels.
AreBytes(px, n) == \A i \in 1 .. n : px[i] \in Nat

LEMMA HalfWhole ==
  ASSUME NEW mem, NEW a, NEW px, NEW k \in Nat
  PROVE  /\ Half(mem, a, px, 2 * k) = Between(mem, a, px, NoArgs, k)
         /\ Half(mem, a, px, 2 * k + 1) = Between(mem, a, px, <<px[2 * k + 1]>>, k)
<1>1. (2 * k) % 2 = 0 /\ (2 * k) \div 2 = k /\ (2 * k + 1) % 2 = 1 /\ (2 * k + 1) \div 2 = k
  OBVIOUS
<1> DEFINE i == 2 * k
           j == 2 * k + 1
<1>2. i % 2 = 0 /\ i \div 2 = k /\ j % 2 # 0 /\ j \div 2 = k
  BY <1>1
<1> HIDE DEF i, j
<1>3. Half(mem, a, px, i) = Between(mem, a, px, NoArgs, k) /\ Half(mem, a, px, j) = Between(mem, a, px, <<px[j]>>, k)
  BY <1>2, Zenon DEF Half
<1> QED BY <1>3 DEF i, j

LEMMA FirstHalf ==
  ASSUME NEW mem, NEW a, NEW px, NEW k, NEW b \in Nat
  PROVE  Lcd!Receive(Between(mem, a, px, NoArgs, k), 1, b) = Between(mem, a, px, <<b>>, k)
<1> DEFINE bytes == <<b>>
<1>1. bytes = With(NoArgs, b)
  BY Appended DEF With, NoArgs
<1>2. ~Complete(Lcd!RAMWR, bytes)
  BY DEF Complete, Lcd!CASET, Lcd!RASET, Lcd!RAMWR
<1> HIDE DEF bytes
<1> DEFINE cols == <<a.x, Lcd!EndOf(a.x, a.w)>>
           rows == <<a.y + mYoffs, Lcd!EndOf(a.y, a.h) + mYoffs>>
           now == Painted(mem, a, px, k)
<1> HIDE DEF cols, rows, now
<1>3. Lcd!Receive(Shown(cols, rows, Lcd!RAMWR, NoArgs, k, now), 1, b) = Shown(cols, rows, Lcd!RAMWR, bytes, k, now)
  BY <1>1, <1>2, ArgumentTaken
<1> QED BY <1>3, Zenon DEF Between, cols, rows, now, bytes

LEMMA SecondHalf ==
  ASSUME NEW mem, NEW a, Lcd!OnScreen(a), NEW px, NEW k \in 0 .. Size(a) - 1,
         NEW b \in Nat, px[2 * k + 1] \in Nat
  PROVE  Lcd!Receive(Between(mem, a, px, <<px[2 * k + 1]>>, k), 1, b) = Between(mem, a, px, NoArgs, k + 1)
<1> DEFINE v == px[2 * k + 1]
           x == a.x
           y == a.y
           w == a.w
           x2 == Lcd!EndOf(a.x, a.w)
           y1 == a.y + mYoffs
           y2 == Lcd!EndOf(a.y, a.h) + mYoffs
           first == <<v>>
           both == <<v, b>>
           cell == PlaceOf(a, k)
           now == Painted(mem, a, px, k)
           next == Painted(mem, a, px, k + 1)
<1>1. both = With(first, b) /\ both[1] = v
  BY Appended DEF With
<1>2. Complete(Lcd!RAMWR, both)
  BY DEF Complete
<1>3. w = x2 - x + 1
  BY AreaHas DEF Lcd!EndOf
<1>4. cell = <<x + (k % w), y1 + (k \div w) - mYoffs>>
  <2>1. k \in Int /\ w \in Nat \ {0} /\ y \in Nat /\ mYoffs \in Nat
    BY AreaHas, ScreenSize
  <2> DEFINE q == k \div w
  <2>2. q \in Int
    <3> HIDE DEF w
    <3> QED BY <2>1, Quotient
  <2> HIDE DEF q
  <2>3. y + q = (y + mYoffs) + q - mYoffs
    BY <2>1, <2>2
  <2> QED BY <2>3 DEF PlaceOf, q
<1>5. cell \in Lcd!Cells
  BY PlaceIsOne
<1>6. next = [now EXCEPT ![cell] = v]
  BY PaintedNext
<1> HIDE DEF v, x, y, w, x2, y1, y2, first, both, cell, now, next
<1>7. Lcd!Receive(Shown(<<x, x2>>, <<y1, y2>>, Lcd!RAMWR, first, k, now), 1, b)
      = Shown(<<x, x2>>, <<y1, y2>>, Lcd!RAMWR, NoArgs, k + 1, [now EXCEPT ![cell] = both[1]])
  BY <1>1, <1>2, <1>3, <1>4, <1>5, PixelTaken
<1>8. Lcd!Receive(Shown(<<x, x2>>, <<y1, y2>>, Lcd!RAMWR, first, k, now), 1, b)
      = Shown(<<x, x2>>, <<y1, y2>>, Lcd!RAMWR, NoArgs, k + 1, next)
  BY <1>1, <1>6, <1>7
<1> QED BY <1>8, Zenon DEF Between, v, x, x2, y1, y2, first, now, next

\* The display takes the next of the area's bytes.
LEMMA ByteTaken ==
  ASSUME NEW mem, NEW a, Lcd!OnScreen(a), NEW px, AreBytes(px, 2 * Size(a)), NEW j \in 0 .. 2 * Size(a) - 1
  PROVE  Lcd!Receive(Half(mem, a, px, j), 1, px[j + 1]) = Half(mem, a, px, j + 1)
<1> DEFINE k == j \div 2
           n == Size(a)
<1>1. n \in Nat \ {0} /\ \A i \in 1 .. 2 * n : px[i] \in Nat
  BY AreaHas DEF AreBytes
<1> HIDE DEF n
<1>2. k \in 0 .. n - 1 /\ (j = 2 * k \/ j = 2 * k + 1)
  BY <1>1 DEF n
<1> HIDE DEF k
<1>3. px[2 * k + 1] \in Nat /\ px[2 * k + 2] \in Nat /\ k \in Nat /\ k + 1 \in Nat
  BY <1>1, <1>2
<1>4. /\ Half(mem, a, px, 2 * k) = Between(mem, a, px, NoArgs, k)
      /\ Half(mem, a, px, 2 * k + 1) = Between(mem, a, px, <<px[2 * k + 1]>>, k)
  BY <1>3, HalfWhole
<1>5. Half(mem, a, px, 2 * k + 2) = Between(mem, a, px, NoArgs, k + 1)
  <2>1. 2 * k + 2 = 2 * (k + 1)
    BY <1>3
  <2> DEFINE m == k + 1
  <2>2. m \in Nat
    BY <1>3
  <2> HIDE DEF m
  <2>3. Half(mem, a, px, 2 * m) = Between(mem, a, px, NoArgs, m)
    BY <2>2, HalfWhole
  <2> QED BY <2>1, <2>3 DEF m
<1>6. CASE j = 2 * k
  <2>1. Lcd!Receive(Between(mem, a, px, NoArgs, k), 1, px[2 * k + 1]) = Between(mem, a, px, <<px[2 * k + 1]>>, k)
    BY <1>3, FirstHalf
  <2> QED BY <1>4, <1>6, <2>1
<1>7. CASE j = 2 * k + 1
  <2>1. Lcd!Receive(Between(mem, a, px, <<px[2 * k + 1]>>, k), 1, px[2 * k + 2]) = Between(mem, a, px, NoArgs, k + 1)
    BY <1>2, <1>3, SecondHalf DEF n
  <2>2. j + 1 = 2 * k + 2
    BY <1>3, <1>7
  <2> QED BY <1>4, <1>5, <1>7, <2>1, <2>2
<1> QED BY <1>2, <1>6, <1>7

\* A transaction that sends n of the area's bytes, from the given one on.
LEMMA PortionSent ==
  ASSUME NEW mem, NEW a, Lcd!OnScreen(a), NEW px, AreBytes(px, 2 * Size(a)),
         NEW from \in Nat, NEW n \in Nat, from + n <= 2 * Size(a),
         NEW data \in Seq(Nat), n <= Len(data), \A i \in 1 .. n : data[i] = px[from + i]
  PROVE  Sends(Half(mem, a, px, from), 1, data, 0, n, Half(mem, a, px, from + n))
<1> DEFINE s == [i \in 0 .. n |-> Half(mem, a, px, from + i)]
<1>1. \A i \in 0 .. n : s[i] = Half(mem, a, px, from + i)
  OBVIOUS
<1> HIDE DEF s
<1>2. ASSUME NEW i \in 0 .. n - 1 PROVE s[i + 1] = Lcd!Receive(s[i], 1, data[i + 1])
  <2> DEFINE j == from + i
  <2>1. j \in 0 .. 2 * Size(a) - 1 /\ j + 1 = from + (i + 1)
    BY AreaHas
  <2>2. data[i + 1] = px[j + 1]
    <3>1. i + 1 \in 1 .. n
      OBVIOUS
    <3> HIDE DEF j
    <3>2. data[i + 1] = px[from + (i + 1)]
      BY <3>1
    <3> QED BY <2>1, <3>2
  <2>3. i \in 0 .. n /\ i + 1 \in 0 .. n
    OBVIOUS
  <2> HIDE DEF j
  <2>4. Lcd!Receive(Half(mem, a, px, j), 1, px[j + 1]) = Half(mem, a, px, j + 1)
    BY <2>1, ByteTaken
  <2>5. s[i] = Half(mem, a, px, j) /\ s[i + 1] = Half(mem, a, px, j + 1)
    BY <1>1, <2>1, <2>3 DEF j
  <2> QED BY <2>2, <2>4, <2>5
<1>3. Sends(s[0], 1, data, 0, n, s[n])
  BY <1>2, SendsAll
<1>4. s[0] = Half(mem, a, px, from) /\ s[n] = Half(mem, a, px, from + n)
  <2>1. 0 \in 0 .. n /\ n \in 0 .. n /\ from + 0 = from
    OBVIOUS
  <2> QED BY <1>1, <2>1
<1> QED BY <1>3, <1>4
-----------------------------------------------------------------------------
\* What holds of 0, and of the next number if of one, holds up to n.
LEMMA UpTo ==
  ASSUME NEW n \in Nat, NEW S, 0 \in S, \A k \in 0 .. n - 1 : k \in S => k + 1 \in S
  PROVE  \A k \in 0 .. n : k \in S
<1> DEFINE R == {ss \in Nat \X Nat : ss[1] < ss[2]}
           Bad == {k \in 0 .. n : k \notin S}
<1>1. IsWellFoundedOn(R, Nat)
  BY NatLessThanWellFounded DEF OpToRel
<1>2. CASE Bad = {}
  BY <1>2
<1>3. CASE Bad # {}
  <2>1. PICK k \in Bad : \A m \in Bad : ~(<<m, k>> \in R)
    BY <1>1, <1>3, WFMin
  <2>2. k \in Nat /\ k # 0 /\ k <= n /\ k \notin S
    BY <2>1
  <2>3. k - 1 \in 0 .. n - 1 /\ k - 1 < k /\ k - 1 \in Nat
    BY <2>2
  <2>4. k - 1 \notin Bad
    BY <2>1, <2>2, <2>3
  <2>5. (k - 1) + 1 \in S
    BY <2>3, <2>4
  <2> QED BY <2>2, <2>5
<1> QED BY <1>2, <1>3

\* The sequences up to each place, one after the other.
Joined(T, q) == T = [i \in 1 .. Len(q) |-> IF i = 1 THEN q[i] ELSE T[i - 1] \o q[i]]

LEMMA JoinedExists == ASSUME NEW R, NEW q \in Seq(R), Len(q) > 0 PROVE \E T : Joined(T, q)
<1> DEFINE Upto(T, n) == T = [i \in 1 .. n + 1 |-> IF i = 1 THEN q[i] ELSE T[i - 1] \o q[i]]
           S == {n \in 0 .. Len(q) - 1 : \E T : Upto(T, n)}
<1>1. 0 \in S
  <2> DEFINE T == [i \in 1 .. 0 + 1 |-> q[1]]
  <2>1. T = [i \in 1 .. 0 + 1 |-> IF i = 1 THEN q[i] ELSE T[i - 1] \o q[i]]
    OBVIOUS
  <2>2. Upto(T, 0)
    BY <2>1
  <2>3. 0 \in 0 .. Len(q) - 1
    OBVIOUS
  <2> HIDE DEF T
  <2> QED BY <2>2, <2>3
<1>2. ASSUME NEW n \in 0 .. (Len(q) - 1) - 1, n \in S PROVE n + 1 \in S
  <2>1. PICK T : Upto(T, n)
    BY <1>2
  <2> DEFINE k == n + 1
             v == T[k] \o q[k + 1]
             U == [i \in 1 .. k + 1 |-> IF i = k + 1 THEN v ELSE T[i]]
  <2>2. T = [i \in 1 .. k |-> IF i = 1 THEN q[i] ELSE T[i - 1] \o q[i]]
    BY <2>1
  <2>3. k \in Nat \ {0}
    OBVIOUS
  <2> HIDE DEF k, v
  <2>4. U[k + 1] = v /\ \A i \in 1 .. k : U[i] = T[i]
    BY <2>3
  <2>5. ASSUME NEW i \in 1 .. k + 1
        PROVE  U[i] = IF i = 1 THEN q[i] ELSE U[i - 1] \o q[i]
    <3>1. CASE i = k + 1
      <4>1. i # 1 /\ i - 1 = k /\ k \in 1 .. k
        BY <2>3, <3>1
      <4>2. U[i - 1] = T[k]
        BY <2>4, <4>1
      <4> QED BY <2>4, <3>1, <4>1, <4>2 DEF v
    <3>2. CASE i # k + 1
      <4>1. i \in 1 .. k /\ U[i] = T[i]
        BY <2>3, <2>4, <3>2
      <4>2. i # 1 => U[i - 1] = T[i - 1]
        BY <2>3, <2>4, <4>1
      <4>3. T[i] = IF i = 1 THEN q[i] ELSE T[i - 1] \o q[i]
        BY <2>2, <4>1
      <4> QED BY <4>1, <4>2, <4>3
    <3> QED BY <3>1, <3>2
  <2>6. U = [i \in 1 .. k + 1 |-> IF i = 1 THEN q[i] ELSE U[i - 1] \o q[i]]
    BY <2>5, Zenon
  <2>7. Upto(U, n + 1)
    BY <2>6 DEF k
  <2>8. n + 1 \in 0 .. Len(q) - 1
    OBVIOUS
  <2> HIDE DEF U, Upto
  <2> QED BY <2>7, <2>8
<1>3. Len(q) - 1 \in S
  <2>1. Len(q) - 1 \in Nat
    OBVIOUS
  <2> HIDE DEF S
  <2>2. \A k \in 0 .. Len(q) - 1 : k \in S
    BY <1>1, <1>2, <2>1, UpTo
  <2> QED BY <2>1, <2>2
<1>4. PICK T : Upto(T, Len(q) - 1)
  BY <1>3
<1>5. (Len(q) - 1) + 1 = Len(q)
  OBVIOUS
<1> QED BY <1>4, <1>5 DEF Joined

LEMMA FlattenIs ==
  ASSUME NEW R, NEW q \in Seq(R), NEW n \in Nat \ {0}, Len(q) = n
  PROVE  \E T : /\ T[1] = q[1] /\ Lcd!FlattenSeq(q) = T[n]
                /\ \A i \in 2 .. n : T[i] = T[i - 1] \o q[i]
<1> DEFINE F == CHOOSE T : Joined(T, q)
<1>1. Joined(F, q)
  BY JoinedExists
<1>2. Lcd!FlattenSeq(q) = F[n]
  BY DEF Lcd!FlattenSeq, Joined
<1>3. F = [i \in 1 .. n |-> IF i = 1 THEN q[i] ELSE F[i - 1] \o q[i]]
  BY <1>1 DEF Joined
<1> HIDE DEF F
<1>4. F[1] = q[1] /\ \A i \in 2 .. n : F[i] = F[i - 1] \o q[i]
  <2>1. F[1] = q[1]
    BY <1>3
  <2>2. ASSUME NEW i \in 2 .. n PROVE F[i] = F[i - 1] \o q[i]
    <3>1. i \in 1 .. n /\ i # 1
      OBVIOUS
    <3>2. F[i] = IF i = 1 THEN q[i] ELSE F[i - 1] \o q[i]
      BY <1>3, <3>1
    <3> QED BY <3>1, <3>2
  <2> QED BY <2>1, <2>2
<1> QED BY <1>2, <1>4

\* Programs one after the other.
LEMMA FlattenRuns ==
  ASSUME NEW n \in Nat \ {0}, NEW q, q = [i \in 1 .. n |-> q[i]], NEW t,
         \A i \in 1 .. n : Runs(q[i], t[i - 1], t[i])
  PROVE  Runs(Lcd!FlattenSeq(q), t[0], t[n])
<1>1. \A i \in 1 .. n : q[i] \in Seq(Ops)
  BY DEF Runs
<1>2. q \in Seq(Seq(Ops)) /\ Len(q) = n
  BY <1>1
<1>3. PICK T : /\ T[1] = q[1] /\ Lcd!FlattenSeq(q) = T[n]
               /\ \A i \in 2 .. n : T[i] = T[i - 1] \o q[i]
  BY <1>2, FlattenIs
<1> DEFINE S == {k \in 0 .. n - 1 : Runs(T[k + 1], t[0], t[k + 1])}
<1>4. 0 \in S
  <2>1. 1 \in 1 .. n /\ 1 - 1 = 0 /\ 0 + 1 = 1 /\ 0 \in 0 .. n - 1
    OBVIOUS
  <2>2. Runs(q[1], t[0], t[1])
    BY <2>1
  <2> QED BY <1>3, <2>1, <2>2
<1>5. ASSUME NEW k \in 0 .. (n - 1) - 1, k \in S PROVE k + 1 \in S
  <2> DEFINE i == k + 2
  <2>1. i \in 2 .. n /\ i \in 1 .. n /\ i - 1 = k + 1 /\ i = (k + 1) + 1 /\ k + 1 \in 0 .. n - 1
    OBVIOUS
  <2>2. Runs(T[k + 1], t[0], t[k + 1])
    BY <1>5
  <2> HIDE DEF i
  <2>3. T[i] = T[k + 1] \o q[i] /\ Runs(q[i], t[k + 1], t[i])
    BY <1>3, <2>1
  <2>4. Runs(T[i], t[0], t[i])
    BY <2>2, <2>3, RunsThen
  <2> QED BY <2>1, <2>4
<1>6. n - 1 \in S
  <2>1. n - 1 \in Nat
    OBVIOUS
  <2> HIDE DEF S
  <2>2. \A k \in 0 .. n - 1 : k \in S
    BY <1>4, <1>5, <2>1, UpTo
  <2> QED BY <2>1, <2>2
<1>7. (n - 1) + 1 = n
  OBVIOUS
<1> QED BY <1>3, <1>6, <1>7

LEMMA MinIs == ASSUME NEW x \in Int, NEW y \in Int PROVE Lcd!Min({x, y}) = IF x <= y THEN x ELSE y
<1> DEFINE m == IF x <= y THEN x ELSE y
<1>1. m \in {x, y} /\ \A z \in {x, y} : m <= z
  OBVIOUS
<1>2. \A k \in {x, y} : (\A z \in {x, y} : k <= z) => k = m
  OBVIOUS
<1> HIDE DEF m
<1>3. Lcd!Min({x, y}) = m
  BY <1>1, <1>2 DEF Lcd!Min
<1> QED BY <1>3 DEF m

\* Where a piece of the data ends.
EndAt(len, size, i) == Lcd!Min({i * size, len})

LEMMA PiecesAre ==
  ASSUME NEW len \in Nat \ {0}, NEW size \in Nat \ {0}, NEW n, n = Lcd!Pieces(len, size)
  PROVE  /\ n \in Nat \ {0} /\ EndAt(len, size, 0) = 0 /\ EndAt(len, size, n) = len
         /\ \A i \in 1 .. n : /\ EndAt(len, size, i - 1) = (i - 1) * size /\ (i - 1) * size \in Nat
                              /\ EndAt(len, size, i) \in Nat /\ EndAt(len, size, i) <= len
                              /\ EndAt(len, size, i - 1) < EndAt(len, size, i)
                              /\ EndAt(len, size, i) <= EndAt(len, size, i - 1) + size
<1> DEFINE total == len + size - 1
           q == total \div size
           r == total % size
<1>1. total \in Nat /\ total = len + size - 1
  OBVIOUS
<1>2. n = q
  BY DEF Lcd!Pieces
<1>3. q \in Int /\ r \in 0 .. size - 1 /\ total = size * q + r
  <2>1. total \in Int /\ size \in Nat \ {0}
    BY <1>1
  <2> HIDE DEF total
  <2> QED BY <2>1, Quotient
<1> HIDE DEF total, q, r
<1>4. size * q >= len /\ size * q <= len + size - 1
  <2>1. size * q \in Int
    BY <1>3
  <2> QED BY <1>1, <1>3, <2>1
<1>5. q >= 1
  <2>1. CASE q <= 0
    <3>1. size * 0 >= size * q /\ size * 0 = 0
      BY <1>3, <2>1, Grows
    <3>2. size * q \in Int
      BY <1>3
    <3> QED BY <1>4, <3>1, <3>2
  <2> QED BY <1>3, <2>1
<1>6. size * (q - 1) <= len - 1
  <2>1. size * (q - 1) = size * q - size /\ size * q \in Int
    BY <1>3
  <2> QED BY <1>4, <2>1
<1>7. \A i \in Int : i * size = size * i /\ i * size \in Int
  OBVIOUS
<1>8. \A i \in Int : EndAt(len, size, i) = IF i * size <= len THEN i * size ELSE len
  BY <1>7, MinIs DEF EndAt
<1>9. EndAt(len, size, 0) = 0
  BY <1>8
<1>10. EndAt(len, size, n) = len
  <2>1. n * size >= len /\ n \in Int
    BY <1>2, <1>3, <1>4, <1>7
  <2>2. n * size \in Int
    BY <1>7, <2>1
  <2>3. EndAt(len, size, n) = IF n * size <= len THEN n * size ELSE len
    BY <1>8, <2>1
  <2> DEFINE m == n * size
  <2> HIDE DEF m
  <2>4. m >= len /\ m \in Int /\ EndAt(len, size, n) = IF m <= len THEN m ELSE len
    BY <2>1, <2>2, <2>3 DEF m
  <2> QED BY <2>4
<1>11. ASSUME NEW i \in 1 .. n
       PROVE  /\ EndAt(len, size, i - 1) = (i - 1) * size /\ (i - 1) * size \in Nat
              /\ EndAt(len, size, i) \in Nat /\ EndAt(len, size, i) <= len
              /\ EndAt(len, size, i - 1) < EndAt(len, size, i)
              /\ EndAt(len, size, i) <= EndAt(len, size, i - 1) + size
  <2> DEFINE b == (i - 1) * size
             e == i * size
  <2>1. i \in Int /\ i - 1 \in Int /\ i >= 1 /\ q - 1 >= i - 1
    BY <1>2, <1>3
  <2>2. b \in Int /\ e \in Int /\ b = size * (i - 1) /\ e = b + size
    BY <2>1, <1>7
  <2>3. b <= len - 1
    <3>1. size * (q - 1) >= size * (i - 1)
      BY <1>3, <2>1, Grows
    <3>2. size * (q - 1) \in Int
      BY <1>3
    <3> QED BY <1>6, <2>2, <3>1, <3>2
  <2>4. b >= 0
    <3>1. size * (i - 1) >= size * 0 /\ size * 0 = 0
      BY <2>1, Grows
    <3> QED BY <2>2, <3>1
  <2>5. EndAt(len, size, i - 1) = (IF b <= len THEN b ELSE len) /\ EndAt(len, size, i) = IF e <= len THEN e ELSE len
    BY <1>8, <2>1
  <2>6. (i - 1) * size = b
    OBVIOUS
  <2> HIDE DEF b, e
  <2>7. EndAt(len, size, i - 1) = b
    BY <2>2, <2>3, <2>5
  <2> QED BY <2>2, <2>3, <2>4, <2>5, <2>6, <2>7
<1>12. n \in Nat \ {0}
  BY <1>2, <1>3, <1>5
<1> QED BY <1>9, <1>10, <1>11, <1>12

LEMMA PartIs ==
  ASSUME NEW data \in Seq(Nat), NEW from \in Nat, NEW to \in Nat, from < to, to <= Len(data)
  PROVE  \E bytes \in Seq(Nat) : /\ bytes = SubSeq(data, from + 1, to) /\ Len(bytes) = to - from
                                 /\ \A j \in 1 .. to - from : bytes[j] = data[from + j]
<1> DEFINE f == from + 1
           bytes == SubSeq(data, f, to)
<1>1. f \in Int /\ to \in Int /\ f <= to /\ to - f + 1 = to - from /\ \A j \in Nat : f + j - 1 = from + j
  OBVIOUS
<1>2. \A j \in f .. to : data[j] \in Nat
  OBVIOUS
<1> HIDE DEF f
<1>3. /\ bytes \in Seq(Nat) /\ Len(bytes) = IF f <= to THEN to - f + 1 ELSE 0
      /\ \A j \in 1 .. to - f + 1 : bytes[j] = data[f + j - 1]
  BY <1>1, <1>2, SubSeqProperties
<1> HIDE DEF bytes
<1>4. Len(bytes) = to - from /\ \A j \in 1 .. to - from : bytes[j] = data[from + j]
  <2>1. Len(bytes) = to - from
    BY <1>1, <1>3
  <2>2. ASSUME NEW j \in 1 .. to - from PROVE bytes[j] = data[from + j]
    <3>1. j \in Nat /\ j \in 1 .. to - f + 1
      BY <1>1
    <3>2. bytes[j] = data[f + j - 1] /\ f + j - 1 = from + j
      BY <1>1, <1>3, <3>1
    <3> QED BY <3>2
  <2> QED BY <2>1, <2>2
<1>5. bytes = SubSeq(data, from + 1, to)
  BY DEF bytes, f
<1> QED BY <1>3, <1>4, <1>5

\* A piece is a part of the data.
LEMMA PieceIs ==
  ASSUME NEW data \in Seq(Nat), NEW len \in Nat \ {0}, Len(data) = len, NEW size \in Nat \ {0},
         NEW n, n = Lcd!Pieces(len, size), NEW i \in 1 .. n
  PROVE  \E bytes \in Seq(Nat) :
            /\ bytes = Lcd!Piece(data, size, i) /\ Len(bytes) = EndAt(len, size, i) - EndAt(len, size, i - 1)
            /\ \A j \in 1 .. EndAt(len, size, i) - EndAt(len, size, i - 1) :
                  bytes[j] = data[EndAt(len, size, i - 1) + j]
<1> DEFINE from == EndAt(len, size, i - 1)
           to == EndAt(len, size, i)
<1>1. \A k \in 1 .. n : /\ EndAt(len, size, k - 1) = (k - 1) * size /\ (k - 1) * size \in Nat
                        /\ EndAt(len, size, k) \in Nat /\ EndAt(len, size, k) <= len
                        /\ EndAt(len, size, k - 1) < EndAt(len, size, k)
  BY PiecesAre
<1>2. from \in Nat /\ to \in Nat /\ from < to /\ to <= Len(data) /\ from = (i - 1) * size
  BY <1>1
<1>3. Lcd!Piece(data, size, i) = SubSeq(data, from + 1, to)
  BY <1>2 DEF Lcd!Piece, EndAt
<1> HIDE DEF from, to
<1>4. \E bytes \in Seq(Nat) : /\ bytes = SubSeq(data, from + 1, to) /\ Len(bytes) = to - from
                              /\ \A j \in 1 .. to - from : bytes[j] = data[from + j]
  BY <1>2, PartIs
<1> QED BY <1>3, <1>4, Zenon DEF from, to

\* The chain holds the data.
LEMMA ChainHolds ==
  ASSUME NEW data \in Seq(Nat), Len(data) > 0
  PROVE  Lcd!Chain(data) \in Seq(Seq(Nat)) /\ Lcd!FlattenSeq(Lcd!Chain(data)) = data
<1> DEFINE len == Len(data)
           size == kDmaMaxBufSize
           n == Lcd!Pieces(len, size)
           q == Lcd!Chain(data)
           E(i) == EndAt(len, size, i)
<1>1. len \in Nat \ {0} /\ size \in Nat \ {0} /\ Len(data) = len
  BY ScreenSize
<1>2. q = [i \in 1 .. n |-> Lcd!Piece(data, size, i)]
  BY DEF Lcd!Chain
<1> HIDE DEF len, size, q
<1>3. /\ n \in Nat \ {0} /\ E(0) = 0 /\ E(n) = len
      /\ \A i \in 1 .. n : E(i) \in Nat /\ E(i - 1) \in Nat /\ E(i) <= len /\ E(i - 1) < E(i)
  <2>1. n = Lcd!Pieces(len, size)
    OBVIOUS
  <2> HIDE DEF n
  <2>2. /\ n \in Nat \ {0} /\ EndAt(len, size, 0) = 0 /\ EndAt(len, size, n) = len
        /\ \A i \in 1 .. n : /\ EndAt(len, size, i - 1) = (i - 1) * size /\ (i - 1) * size \in Nat
                             /\ EndAt(len, size, i) \in Nat /\ EndAt(len, size, i) <= len
                             /\ EndAt(len, size, i - 1) < EndAt(len, size, i)
    BY <1>1, <2>1, PiecesAre
  <2> QED BY <2>2
<1>4. ASSUME NEW i \in 1 .. n
      PROVE  \E bytes \in Seq(Nat) : /\ bytes = q[i] /\ Len(bytes) = E(i) - E(i - 1)
                                     /\ \A j \in 1 .. E(i) - E(i - 1) : bytes[j] = data[E(i - 1) + j]
  <2>1. n = Lcd!Pieces(len, size) /\ q[i] = Lcd!Piece(data, size, i)
    BY <1>2
  <2> HIDE DEF n
  <2> QED BY <1>1, <2>1, PieceIs
<1> HIDE DEF n, E
<1>5. q \in Seq(Seq(Nat)) /\ Len(q) = n
  <2>1. \A i \in 1 .. n : q[i] \in Seq(Nat)
    BY <1>4
  <2>2. q = [i \in 1 .. n |-> q[i]] /\ n \in Nat
    BY <1>2, <1>3
  <2>3. q \in [1 .. n -> Seq(Nat)]
    BY <2>1, <2>2
  <2> QED BY <2>2, <2>3
<1>6. PICK T : /\ T[1] = q[1] /\ Lcd!FlattenSeq(q) = T[n]
               /\ \A i \in 2 .. n : T[i] = T[i - 1] \o q[i]
  BY <1>3, <1>5, FlattenIs
\* Up to a piece, what there is of the data.
<1> DEFINE Upto(s, e) == s \in Seq(Nat) /\ Len(s) = e /\ \A j \in 1 .. e : s[j] = data[j]
           S == {k \in 0 .. n - 1 : Upto(T[k + 1], E(k + 1))}
<1>7. 0 \in S
  <2>1. 1 \in 1 .. n /\ 1 - 1 = 0 /\ 0 + 1 = 1 /\ 0 \in 0 .. n - 1
    BY <1>3
  <2>2. PICK bytes \in Seq(Nat) : /\ bytes = q[1] /\ Len(bytes) = E(1) - E(0)
                                  /\ \A j \in 1 .. E(1) - E(0) : bytes[j] = data[E(0) + j]
    BY <1>4, <2>1
  <2>3. E(1) \in Nat /\ E(1) - E(0) = E(1) /\ \A j \in Nat : E(0) + j = j
    BY <1>3, <2>1
  <2>4. Upto(bytes, E(1))
    BY <2>2, <2>3
  <2>5. Upto(T[0 + 1], E(0 + 1))
    BY <1>6, <2>1, <2>2, <2>4
  <2> QED BY <2>1, <2>5
<1>8. ASSUME NEW k \in 0 .. (n - 1) - 1, k \in S PROVE k + 1 \in S
  <2> DEFINE i == k + 2
  <2>1. i \in 2 .. n /\ i \in 1 .. n /\ i - 1 = k + 1 /\ i = (k + 1) + 1 /\ k + 1 \in 0 .. n - 1
    BY <1>3
  <2>2. Upto(T[k + 1], E(k + 1))
    BY <1>8
  <2> HIDE DEF i
  <2>3. PICK s \in Seq(Nat) : s = T[k + 1] /\ Len(s) = E(k + 1) /\ \A j \in 1 .. E(k + 1) : s[j] = data[j]
    BY <2>2
  <2>4. PICK bytes \in Seq(Nat) : /\ bytes = q[i] /\ Len(bytes) = E(i) - E(i - 1)
                                  /\ \A j \in 1 .. E(i) - E(i - 1) : bytes[j] = data[E(i - 1) + j]
    BY <1>4, <2>1
  <2>5. E(i) \in Nat /\ E(k + 1) \in Nat /\ E(i - 1) = E(k + 1) /\ E(k + 1) < E(i)
    BY <1>3, <2>1
  <2>6. T[i] = s \o bytes
    BY <1>6, <2>1, <2>3, <2>4
  <2>7. /\ s \o bytes \in Seq(Nat) /\ Len(s \o bytes) = Len(s) + Len(bytes)
        /\ \A j \in 1 .. Len(s) + Len(bytes) : (s \o bytes)[j] = IF j <= Len(s) THEN s[j] ELSE bytes[j - Len(s)]
    BY ConcatProperties
  <2> DEFINE u == s \o bytes
             a == E(k + 1)
             b == E(i)
  <2>8. u \in Seq(Nat) /\ Len(u) = b /\ \A j \in 1 .. b : u[j] = IF j <= a THEN s[j] ELSE bytes[j - a]
    <3>1. Len(s) = a /\ Len(bytes) = b - a /\ a + (b - a) = b
      BY <2>3, <2>4, <2>5
    <3> HIDE DEF a, b
    <3> QED BY <2>7, <3>1
  <2> HIDE DEF u, a, b
  <2>9. \A j \in 1 .. b : u[j] = data[j]
    <3> SUFFICES ASSUME NEW j \in 1 .. b PROVE u[j] = data[j]
      OBVIOUS
    <3>1. CASE j <= a
      <4>1. j \in 1 .. a
        BY <2>5, <3>1 DEF a, b
      <4>2. s[j] = data[j]
        BY <2>3, <4>1 DEF a
      <4> QED BY <2>8, <3>1, <4>2
    <3>2. CASE ~(j <= a)
      <4>1. j - a \in 1 .. b - a /\ a + (j - a) = j
        BY <2>5, <3>2 DEF a, b
      <4>2. bytes[j - a] = data[a + (j - a)]
        BY <2>4, <2>5, <4>1 DEF a, b
      <4> QED BY <2>8, <3>2, <4>1, <4>2
    <3> QED BY <3>1, <3>2
  <2>10. Upto(T[(k + 1) + 1], E((k + 1) + 1))
    BY <2>1, <2>6, <2>8, <2>9 DEF u, b
  <2> QED BY <2>1, <2>10
<1>9. n - 1 \in S
  <2>1. n - 1 \in Nat
    BY <1>3
  <2> HIDE DEF S
  <2>2. \A k \in 0 .. n - 1 : k \in S
    BY <1>7, <1>8, <2>1, UpTo
  <2> QED BY <2>1, <2>2
<1>10. (n - 1) + 1 = n
  BY <1>3
<1>11. Upto(T[n], len)
  BY <1>3, <1>9, <1>10
<1>12. T[n] = data
  <2>1. PICK s \in Seq(Nat) : s = T[n] /\ Len(s) = len /\ \A j \in 1 .. len : s[j] = data[j]
    BY <1>11
  <2>2. s = data
    BY <1>1, <2>1
  <2> QED BY <2>1, <2>2
<1> QED BY <1>5, <1>6, <1>12 DEF q
-----------------------------------------------------------------------------
\* The portions of an area's bytes, of which the i-th ends at e[i].
Portions(e, n, len) ==
    /\ n \in Nat \ {0} /\ e[0] = 0 /\ e[n] = len
    /\ \A i \in 1 .. n : e[i - 1] \in Nat /\ e[i] \in Nat /\ e[i - 1] < e[i] /\ e[i] <= len

LEMMA PortionRuns ==
  ASSUME NEW mem, NEW r, Lcd!OnScreen(r), NEW px, AreBytes(px, 2 * Size(r)),
         NEW from \in Nat, NEW to \in Nat, from < to, to <= 2 * Size(r),
         NEW data \in Seq(Nat), to - from <= Len(data), \A j \in 1 .. to - from : data[j] = px[from + j]
  PROVE  Sends(Half(mem, r, px, from), 1, data, 0, to - from, Half(mem, r, px, to))
<1>0. \A i \in Nat, j \in Nat : i < j => j - i \in Nat /\ i + (j - i) = j
  OBVIOUS
<1> DEFINE n == to - from
<1>1. n \in Nat /\ from + n = to
  BY <1>0, Zenon
<1> HIDE DEF n
<1>2. Sends(Half(mem, r, px, from), 1, data, 0, n, Half(mem, r, px, from + n))
  BY <1>1, PortionSent DEF n
<1> QED BY <1>1, <1>2 DEF n

\* From the FIFO, which holds what every portion needs.
LEMMA FromFifo ==
  ASSUME NEW mem, NEW r, Lcd!OnScreen(r), NEW px, AreBytes(px, 2 * Size(r)),
         NEW n, NEW e, Portions(e, n, 2 * Size(r)), NEW data \in Seq(Nat),
         \A i \in 1 .. n : /\ e[i] - e[i - 1] <= Len(data)
                           /\ \A j \in 1 .. e[i] - e[i - 1] : data[j] = px[e[i - 1] + j],
         NEW chain, NEW on
  PROVE  Runs(Lcd!FlattenSeq([i \in 1 .. n |-> Lcd!fifoSend(e[i] - e[i - 1])]),
              Hardware(data, 1, chain, Half(mem, r, px, 0), on),
              Hardware(data, 1, chain, Half(mem, r, px, 2 * Size(r)), 1))
<1> DEFINE q == [i \in 1 .. n |-> Lcd!fifoSend(e[i] - e[i - 1])]
           H(i) == Half(mem, r, px, e[i])
           t == [i \in 0 .. n |-> Hardware(data, 1, chain, H(i), IF i = 0 THEN on ELSE 1)]
<1>1. /\ n \in Nat \ {0} /\ e[0] = 0 /\ e[n] = 2 * Size(r)
      /\ \A i \in 1 .. n : e[i - 1] \in Nat /\ e[i] \in Nat /\ e[i - 1] < e[i] /\ e[i] <= 2 * Size(r)
  BY DEF Portions
<1>2. ASSUME NEW i \in 1 .. n
      PROVE  Sends(H(i - 1), 1, data, 0, e[i] - e[i - 1], H(i)) /\ e[i] - e[i - 1] \in Nat
  <2>1. /\ e[i - 1] \in Nat /\ e[i] \in Nat /\ e[i - 1] < e[i] /\ e[i] <= 2 * Size(r)
        /\ e[i] - e[i - 1] <= Len(data) /\ \A j \in 1 .. e[i] - e[i - 1] : data[j] = px[e[i - 1] + j]
    BY <1>1
  <2>2. Sends(H(i - 1), 1, data, 0, e[i] - e[i - 1], H(i))
    BY <2>1, PortionRuns
  <2> QED BY <2>1, <2>2
<1> HIDE DEF H
<1>3. q = [i \in 1 .. n |-> q[i]] /\ \A i \in 1 .. n : q[i] = Lcd!fifoSend(e[i] - e[i - 1])
  OBVIOUS
<1>4. /\ \A i \in 0 .. n : \E k : t[i] = Hardware(data, 1, chain, H(i), k)
      /\ \A i \in 1 .. n : t[i] = Hardware(data, 1, chain, H(i), 1)
      /\ t[0] = Hardware(data, 1, chain, H(0), on)
  <2>1. \A i \in 0 .. n : t[i] = Hardware(data, 1, chain, H(i), IF i = 0 THEN on ELSE 1)
    OBVIOUS
  <2>2. 0 \in 0 .. n /\ \A i \in 1 .. n : i \in 0 .. n /\ i # 0
    BY <1>1
  <2> HIDE DEF t
  <2> QED BY <2>1, <2>2, Zenon
<1> HIDE DEF q, t
<1>5. ASSUME NEW i \in 1 .. n PROVE Runs(q[i], t[i - 1], t[i])
  <2> DEFINE a == t[i - 1]
             k == e[i] - e[i - 1]
  <2>1. i - 1 \in 0 .. n
    BY <1>1
  <2>2. a.fifo = data /\ a.dc = 1 /\ a.descs = chain /\ a.display = H(i - 1)
    BY <1>4, <2>1, HardwareHas
  <2>3. Sends(H(i - 1), 1, data, 0, k, H(i)) /\ k \in Nat
    BY <1>2
  <2> HIDE DEF a, k
  <2>4. Runs(Lcd!fifoSend(k), a, Hardware(data, 1, chain, H(i), 1))
    BY <2>2, <2>3, SendRuns
  <2> QED BY <1>3, <1>4, <2>4 DEF a, k
<1>6. Runs(Lcd!FlattenSeq(q), t[0], t[n])
  BY <1>1, <1>3, <1>5, FlattenRuns
<1>7. t[n] = Hardware(data, 1, chain, H(n), 1)
  BY <1>1, <1>4
<1> QED BY <1>1, <1>4, <1>6, <1>7 DEF q, H

\* As values that are put into the FIFO one after the other.
AreValues(v, e, n, px) ==
    \A i \in 1 .. n : /\ v[i] \in Seq(Nat) /\ Len(v[i]) = e[i] - e[i - 1]
                      /\ \A j \in 1 .. e[i] - e[i - 1] : v[i][j] = px[e[i - 1] + j]

LEMMA FromValues ==
  ASSUME NEW mem, NEW r, Lcd!OnScreen(r), NEW px, AreBytes(px, 2 * Size(r)),
         NEW n, NEW e, Portions(e, n, 2 * Size(r)), NEW v, AreValues(v, e, n, px), NEW f, NEW chain, NEW on
  PROVE  \E g : Runs(Lcd!FlattenSeq([i \in 1 .. n |-> Lcd!spiSendVal(TRUE, v[i])]),
                     Hardware(f, 1, chain, Half(mem, r, px, 0), on),
                     Hardware(g, 1, chain, Half(mem, r, px, 2 * Size(r)), 1))
<1> DEFINE q == [i \in 1 .. n |-> Lcd!spiSendVal(TRUE, v[i])]
           H(i) == Half(mem, r, px, e[i])
           t == [i \in 0 .. n |-> Hardware(IF i = 0 THEN f ELSE v[i], 1, chain, H(i), IF i = 0 THEN on ELSE 1)]
<1>1. /\ n \in Nat \ {0} /\ e[0] = 0 /\ e[n] = 2 * Size(r)
      /\ \A i \in 1 .. n : e[i - 1] \in Nat /\ e[i] \in Nat /\ e[i - 1] < e[i] /\ e[i] <= 2 * Size(r)
  BY DEF Portions
<1>2. ASSUME NEW i \in 1 .. n PROVE Sends(H(i - 1), 1, v[i], 0, Len(v[i]), H(i)) /\ v[i] \in Seq(Nat)
  <2>1. PICK s \in Seq(Nat) : /\ s = v[i] /\ Len(s) = e[i] - e[i - 1]
                              /\ \A j \in 1 .. e[i] - e[i - 1] : s[j] = px[e[i - 1] + j]
    BY DEF AreValues
  <2>2. e[i] - e[i - 1] <= Len(s)
    BY <1>1, <2>1
  <2>3. Sends(H(i - 1), 1, s, 0, e[i] - e[i - 1], H(i))
    BY <1>1, <2>1, <2>2, PortionRuns
  <2> QED BY <2>1, <2>3
<1> HIDE DEF H
<1>3. q = [i \in 1 .. n |-> q[i]] /\ \A i \in 1 .. n : q[i] = Lcd!spiSendVal(TRUE, v[i])
  OBVIOUS
<1>4. /\ \A i \in 0 .. n : \E g, k : t[i] = Hardware(g, 1, chain, H(i), k)
      /\ \A i \in 1 .. n : t[i] = Hardware(v[i], 1, chain, H(i), 1)
      /\ t[0] = Hardware(f, 1, chain, H(0), on)
  BY <1>1
<1> HIDE DEF q, t
<1>5. ASSUME NEW i \in 1 .. n PROVE Runs(q[i], t[i - 1], t[i])
  <2> DEFINE s == v[i]
             d == H(i - 1)
             h == H(i)
  <2>1. i - 1 \in 0 .. n
    BY <1>1
  <2>2. PICK g, k : t[i - 1] = Hardware(g, 1, chain, d, k)
    BY <1>4, <2>1
  <2>3. Sends(d, 1, s, 0, Len(s), h) /\ s \in Seq(Nat)
    BY <1>2
  <2> HIDE DEF s, d, h
  <2>4. Runs(Lcd!spiSendVal(TRUE, s), Hardware(g, 1, chain, d, k), Hardware(s, 1, chain, h, 1))
    BY <2>3, ValRuns
  <2> QED BY <1>3, <1>4, <2>2, <2>4 DEF s, h
<1>6. Runs(Lcd!FlattenSeq(q), t[0], t[n])
  BY <1>1, <1>3, <1>5, FlattenRuns
<1>7. t[n] = Hardware(v[n], 1, chain, H(n), 1)
  BY <1>1, <1>4
<1> QED BY <1>1, <1>4, <1>6, <1>7 DEF q, H

\* The pieces of the area's bytes are such portions.
LEMMA PiecesArePortions ==
  ASSUME NEW len \in Nat \ {0}, NEW size \in Nat \ {0}, NEW n, n = Lcd!Pieces(len, size)
  PROVE  \E e : /\ Portions(e, n, len) /\ e = [i \in 0 .. n |-> EndAt(len, size, i)]
                /\ \A i \in 1 .. n : e[i - 1] = (i - 1) * size /\ e[i] <= e[i - 1] + size
<1> DEFINE e == [i \in 0 .. n |-> EndAt(len, size, i)]
<1>1. /\ n \in Nat \ {0} /\ EndAt(len, size, 0) = 0 /\ EndAt(len, size, n) = len
      /\ \A i \in 1 .. n : /\ EndAt(len, size, i - 1) = (i - 1) * size /\ (i - 1) * size \in Nat
                           /\ EndAt(len, size, i) \in Nat /\ EndAt(len, size, i) <= len
                           /\ EndAt(len, size, i - 1) < EndAt(len, size, i)
                           /\ EndAt(len, size, i) <= EndAt(len, size, i - 1) + size
  BY PiecesAre
<1>2. e[0] = 0 /\ e[n] = len /\ \A i \in 1 .. n : e[i] = EndAt(len, size, i) /\ e[i - 1] = EndAt(len, size, i - 1)
  BY <1>1
<1>3. e = [i \in 0 .. n |-> EndAt(len, size, i)]
  OBVIOUS
<1> HIDE DEF e
<1>4. \A i \in 1 .. n : e[i - 1] = (i - 1) * size /\ e[i] <= e[i - 1] + size
  BY <1>1, <1>2
<1>5. Portions(e, n, len)
  BY <1>1, <1>2 DEF Portions
<1> QED BY <1>3, <1>4, <1>5
-----------------------------------------------------------------------------
\* The steps can be made, and the display then shows this.
Ends(steps, a, mem) == \E b : Runs(steps, a, b) /\ Usable(b) /\ b.display.mem = mem

LEMMA EndsThen ==
  ASSUME NEW p, NEW q, NEW a, NEW m, NEW n, Ends(p, a, m),
         \A b : Usable(b) /\ b.display.mem = m => Ends(q, b, n)
  PROVE  Ends(p \o q, a, n)
<1>1. PICK b : Runs(p, a, b) /\ Usable(b) /\ b.display.mem = m
  BY DEF Ends
<1>2. PICK c : Runs(q, b, c) /\ Usable(c) /\ c.display.mem = n
  BY <1>1 DEF Ends
<1>3. Runs(p \o q, a, c)
  BY <1>1, <1>2, RunsThen
<1> QED BY <1>2, <1>3 DEF Ends

LEMMA ShownHas ==
  \A cols, rows, cmd, args, at, mem : Shown(cols, rows, cmd, args, at, mem).mem = mem
  BY DEF Shown

LEMMA ShownUsable ==
  ASSUME NEW f, NEW l, NEW c \in Seq(Seq(Nat)), NEW on, NEW cols, NEW rows, NEW cmd, NEW args, NEW at, NEW mem,
         mem = [cell \in Lcd!Cells |-> mem[cell]],
         NEW b, b = Hardware(f, l, c, Shown(cols, rows, cmd, args, at, mem), on)
  PROVE  Usable(b) /\ b.display.mem = mem
<1>1. b.descs = c /\ b.display = Shown(cols, rows, cmd, args, at, mem)
  BY HardwareHas
<1>2. b.display.mem = mem
  BY <1>1, ShownHas
<1>3. b.descs \in Seq(Seq(Nat))
  BY <1>1
<1>4. \E cs, rs, op, as, k, m : b.display = Shown(cs, rs, op, as, k, m) /\ m = [cell \in Lcd!Cells |-> m[cell]]
  <2> WITNESS cols, rows, cmd, args, at, mem
  <2> QED BY <1>1
<1> QED BY <1>2, <1>3, <1>4 DEF Usable

\* Both ends of what is on the screen are sent as two bytes.
LEMMA SizesInWords ==
  /\ mWidth \in Nat /\ mHeight \in Nat /\ mYoffs \in Nat
  /\ mWidth - 1 \in Words /\ mHeight + mYoffs - 1 \in Words
<1>1. /\ mWidth \in Nat \ {0} /\ mHeight \in Nat \ {0} /\ mYoffs \in Nat
      /\ mWidth <= 65536 /\ mHeight + mYoffs <= 65536
  BY LcdAssumption, SMT DEF Lcd!SpiAssumption
<1>2. /\ mWidth \in Nat /\ mHeight \in Nat /\ mYoffs \in Nat
      /\ mWidth - 1 \in Words /\ mHeight + mYoffs - 1 \in Words
  BY <1>1, SMT DEF Words
<1> QED BY <1>2

LEMMA EndsInWords ==
  ASSUME NEW x \in Nat, NEW w \in Nat \ {0}, NEW m \in Nat, NEW z \in Nat, x + w <= m, m + z - 1 \in Words
  PROVE  x + z \in Words /\ x + w - 1 + z \in Words
<1>1. m + z - 1 <= 65535
  BY SMT DEF Words
<1>2. x + z \in Int /\ x + z >= 0 /\ x + z <= 65535
  BY <1>1, SMT
<1>3. x + w - 1 + z \in Int /\ x + w - 1 + z >= 0
  BY SMT
<1>4. x + w - 1 + z <= 65535
  BY <1>1, SMT
<1>5. x + z \in Words
  BY <1>2, SMT DEF Words
<1>6. x + w - 1 + z \in Words
  BY <1>3, <1>4, SMT DEF Words
<1> QED BY <1>5, <1>6

\* The window of an area is opened.
LEMMA WindowOpens ==
  ASSUME NEW a, Usable(a), NEW r, Lcd!OnScreen(r), NEW px
  PROVE  \E f : Runs(Lcd!setWriteWindow(r.x, r.y, r.w, r.h), a,
                     Hardware(f, 0, a.descs, Half(a.display.mem, r, px, 0), 1))
<1>1. PICK cols, rows, cmd, args, at, mem :
         a.display = Shown(cols, rows, cmd, args, at, mem) /\ mem = [cell \in Lcd!Cells |-> mem[cell]]
  BY DEF Usable
<1>2. a.display.mem = mem
  BY <1>1, ShownHas
<1> DEFINE x1 == r.x
           y1 == r.y
           x2 == Lcd!EndOf(r.x, r.w)
           y2 == Lcd!EndOf(r.y, r.h)
<1>3. x1 \in Words /\ x2 \in Words /\ y1 + mYoffs \in Words /\ y2 + mYoffs \in Words
  <2> DEFINE w == r.w
             h == r.h
  <2>1. x1 \in Nat /\ w \in Nat \ {0} /\ y1 \in Nat /\ h \in Nat \ {0} /\ x1 + w <= mWidth /\ y1 + h <= mHeight
    BY AreaHas
  <2>2. x2 \in Int /\ x2 = x1 + w - 1 /\ y2 \in Int /\ y2 = y1 + h - 1
    BY <2>1 DEF Lcd!EndOf
  <2> DEFINE z == 0
  <2>3. z \in Nat /\ mWidth + z - 1 = mWidth - 1 /\ x1 + z = x1 /\ x1 + w - 1 + z = x2
    BY <2>1, <2>2, SizesInWords
  <2> HIDE DEF x1, y1, x2, y2, w, h, z
  <2>4. x1 + z \in Words /\ x1 + w - 1 + z \in Words
    BY <2>1, <2>3, SizesInWords, EndsInWords
  <2>5. y1 + mYoffs \in Words /\ y1 + h - 1 + mYoffs \in Words
    BY <2>1, SizesInWords, EndsInWords
  <2> QED BY <2>2, <2>3, <2>4, <2>5
<1>4. Half(mem, r, px, 0) = Window(x1, y1, x2, y2, mem)
  <2>1. Painted(mem, r, px, 0) = mem
    BY <1>1, PaintedNone
  <2> DEFINE z == 0
  <2>2. Half(mem, r, px, 2 * z) = Between(mem, r, px, NoArgs, z)
    <3>1. z \in Nat
      OBVIOUS
    <3> HIDE DEF z
    <3> QED BY <3>1, HalfWhole
  <2>3. Half(mem, r, px, 0) = Between(mem, r, px, NoArgs, 0)
    <3>1. 2 * z = z
      OBVIOUS
    <3>2. Half(mem, r, px, z) = Between(mem, r, px, NoArgs, z)
      BY <2>2, <3>1
    <3> QED BY <3>2
  <2> QED BY <2>1, <2>3, Zenon DEF Between, Window
<1>5. Lcd!setWriteWindow(r.x, r.y, r.w, r.h) = Lcd!setWriteWindowCoords(x1, y1, x2, y2)
  BY DEF Lcd!setWriteWindow
<1> HIDE DEF x1, y1, x2, y2
<1>6. \E f : Runs(Lcd!setWriteWindowCoords(x1, y1, x2, y2), a,
                  Hardware(f, 0, a.descs, Window(x1, y1, x2, y2, mem), 1))
  BY <1>1, <1>3, WindowRuns
<1> QED BY <1>2, <1>4, <1>5, <1>6

\* All of the area's bytes are drawn.
LEMMA AllDrawn ==
  ASSUME NEW r, Lcd!OnScreen(r), NEW px, NEW mem, NEW f, NEW l, NEW c \in Seq(Seq(Nat)), NEW on, NEW b,
         b = Hardware(f, l, c, Half(mem, r, px, 2 * Size(r)), on)
  PROVE  Usable(b) /\ b.display.mem = Lcd!Drawn(mem, r, [n \in Lcd!Pixels(r) |-> px[2 * n + 1]])
<1> DEFINE k == Size(r)
           m == Painted(mem, r, px, k)
           cols == <<r.x, Lcd!EndOf(r.x, r.w)>>
           rows == <<r.y + mYoffs, Lcd!EndOf(r.y, r.h) + mYoffs>>
<1>1. m = Lcd!Drawn(mem, r, [n \in Lcd!Pixels(r) |-> px[2 * n + 1]])
  BY PaintedAll
<1>2. m = [cell \in Lcd!Cells |-> m[cell]]
  BY DEF Painted
<1>3. k \in Nat
  BY AreaHas
<1>4. Between(mem, r, px, NoArgs, k) = Shown(cols, rows, Lcd!RAMWR, NoArgs, k, m)
  BY DEF Between
<1> HIDE DEF k, m, cols, rows
<1>5. Half(mem, r, px, 2 * k) = Between(mem, r, px, NoArgs, k)
  BY <1>3, HalfWhole
<1>6. b = Hardware(f, l, c, Shown(cols, rows, Lcd!RAMWR, NoArgs, k, m), on)
  BY <1>4, <1>5 DEF k
<1>7. Usable(b) /\ b.display.mem = m
  BY <1>2, <1>6, ShownUsable
<1> QED BY <1>1, <1>7

\* The bytes that alternate between a colour and one more.
Plain(c, n) == [i \in 1 .. n |-> IF i % 2 = 1 THEN c ELSE Black]

LEMMA PlainIs ==
  ASSUME NEW c \in Nat, NEW n \in Nat
  PROVE  /\ Plain(c, n) \in Seq(Nat) /\ Len(Plain(c, n)) = n
         /\ \A i \in 1 .. n : Plain(c, n)[i] = IF i % 2 = 1 THEN c ELSE Black
<1>1. Black \in Nat
  BY ScreenSize
<1> QED BY <1>1 DEF Plain

LEMMA PlainColors ==
  ASSUME NEW c \in Nat, NEW r, Lcd!OnScreen(r)
  PROVE  [k \in Lcd!Pixels(r) |-> Plain(c, 2 * Size(r))[2 * k + 1]] = Lcd!Plain(r, c)
<1> DEFINE n == Size(r)
<1>1. n \in Nat /\ Lcd!Pixels(r) = 0 .. n - 1
  BY AreaHas DEF Size, Lcd!Pixels
<1> HIDE DEF n
<1>2. ASSUME NEW k \in 0 .. n - 1 PROVE Plain(c, 2 * n)[2 * k + 1] = c
  <2> DEFINE i == 2 * k + 1
  <2>1. i \in 1 .. 2 * n /\ i % 2 = 1 /\ 2 * n \in Nat
    BY <1>1
  <2> HIDE DEF i
  <2> QED BY <2>1, PlainIs DEF i
<1> QED BY <1>1, <1>2, Zenon DEF n, Lcd!Plain
-----------------------------------------------------------------------------
\* What is sent by the driver's functions that draw, after the window is opened.
LEMMA PinRuns ==
  ASSUME NEW f, NEW l, NEW c, NEW d, NEW on
  PROVE  Runs(Lcd!waitDone \o Lcd!setDcPin(1), Hardware(f, l, c, d, on), Hardware(f, 1, c, d, 0))
<1>1. Runs(Lcd!waitDone, Hardware(f, l, c, d, on), Hardware(f, l, c, d, 0))
  BY WaitRuns, HardwareHas
<1>2. Runs(Lcd!setDcPin(1), Hardware(f, l, c, d, 0), Hardware(f, 1, c, d, 0))
  BY SetRuns
<1> QED BY <1>1, <1>2, RunsThen

LEMMA Same == \A m \in Nat, j \in Nat : (2 * m + j) % 2 = j % 2
  OBVIOUS

\* A rectangle of one colour: the FIFO is filled once.
LEMMA FillEnds ==
  ASSUME NEW a, Usable(a), NEW r, Lcd!OnScreen(r), NEW c \in Nat
  PROVE  Ends(Lcd!fillRect(r.x, r.y, r.w, r.h, <<c, Black>>), a, Lcd!Drawn(a.display.mem, r, Lcd!Plain(r, c)))
<1> DEFINE num == 2 * Size(r)
           size == Lcd!Min({num, kMaxTransferLen})
           words == (size + 3) \div 4
           data == Plain(c, 4 * words)
           px == Plain(c, num)
           n == Lcd!Pieces(num, size)
           mem == a.display.mem
           open == Lcd!setWriteWindow(r.x, r.y, r.w, r.h)
           set == <<Lcd!Do("fifo", data)>>
           send == Lcd!SendFifo(num, size)
           first == Half(mem, r, px, 0)
           last == Half(mem, r, px, num)
<1>1. num \in Nat \ {0} /\ num % 2 = 0
  BY AreaHas
<1>2. size \in Nat \ {0} /\ size % 2 = 0 /\ size <= num
  <2>1. kMaxTransferLen \in Nat \ {0} /\ kMaxTransferLen % 2 = 0
    BY ScreenSize
  <2> HIDE DEF num
  <2>2. size = IF num <= kMaxTransferLen THEN num ELSE kMaxTransferLen
    BY <1>1, <2>1, MinIs
  <2> QED BY <1>1, <2>1, <2>2
<1> HIDE DEF num, size
<1>3. words \in Nat /\ 4 * words >= size
  BY <1>2
<1> HIDE DEF words
<1>4. /\ data \in Seq(Nat) /\ Len(data) = 4 * words
      /\ \A i \in 1 .. 4 * words : data[i] = IF i % 2 = 1 THEN c ELSE Black
      /\ px \in Seq(Nat) /\ \A i \in 1 .. num : px[i] = IF i % 2 = 1 THEN c ELSE Black
  <2> DEFINE k == 4 * words
  <2>1. k \in Nat /\ num \in Nat
    BY <1>1, <1>3
  <2> HIDE DEF k
  <2>2. Plain(c, k) \in Seq(Nat) /\ Len(Plain(c, k)) = k /\ \A i \in 1 .. k : Plain(c, k)[i] = IF i % 2 = 1 THEN c ELSE Black
    BY <2>1, PlainIs
  <2>3. px \in Seq(Nat) /\ \A i \in 1 .. num : px[i] = IF i % 2 = 1 THEN c ELSE Black
    BY <2>1, PlainIs
  <2> QED BY <2>2, <2>3 DEF k
<1>5. AreBytes(px, num)
  BY <1>4, ScreenSize DEF AreBytes
<1>6. Lcd!fifoMemset(<<c, Black>>, words) = set
  <2>1. ASSUME NEW i \in 1 .. 4 * words
        PROVE  <<c, Black>>[((i + 1) % 2) + 1] = IF i % 2 = 1 THEN c ELSE Black
    <3>1. \/ i % 2 = 1 /\ ((i + 1) % 2) + 1 = 1
          \/ i % 2 = 0 /\ ((i + 1) % 2) + 1 = 2
      BY <1>3
    <3> QED BY <3>1
  <2>2. [i \in 1 .. 4 * words |-> <<c, Black>>[((i + 1) % 2) + 1]] = data
    BY <2>1, Zenon DEF Plain
  <2> QED BY <2>2, Zenon DEF Lcd!fifoMemset
<1> HIDE DEF data, px
<1>7. PICK e : /\ Portions(e, n, num) /\ e = [i \in 0 .. n |-> EndAt(num, size, i)]
               /\ \A i \in 1 .. n : e[i - 1] = (i - 1) * size /\ e[i] <= e[i - 1] + size
  <2>1. n = Lcd!Pieces(num, size)
    OBVIOUS
  <2> HIDE DEF n
  <2> QED BY <1>1, <1>2, <2>1, PiecesArePortions
<1>8. ASSUME NEW i \in 1 .. n
      PROVE  /\ e[i - 1] \in Nat /\ e[i] \in Nat /\ e[i - 1] < e[i] /\ e[i] <= num /\ e[i] - e[i - 1] <= size
             /\ e[i - 1] % 2 = 0
  <2>1. e[i - 1] \in Nat /\ e[i] \in Nat /\ e[i - 1] < e[i] /\ e[i] <= num /\ e[i] <= e[i - 1] + size
    BY <1>7 DEF Portions
  <2>2. e[i - 1] % 2 = 0
    <3>1. e[i - 1] = (i - 1) * size /\ n \in Nat
      BY <1>7 DEF Portions
    <3> DEFINE h == size \div 2
               k == i - 1
    <3>2. h \in Int /\ size = 2 * h
      BY <1>2
    <3>3. k \in Int
      BY <3>1
    <3> HIDE DEF h, k
    <3>4. k * size = 2 * (k * h) /\ k * h \in Int
      BY <3>2, <3>3
    <3> DEFINE m == k * h
    <3>5. e[i - 1] = 2 * m /\ m \in Int
      BY <3>1, <3>4 DEF k
    <3> HIDE DEF m
    <3> QED BY <3>5
  <2> QED BY <1>2, <2>1, <2>2
<1> HIDE DEF n
<1>9. ASSUME NEW i \in 1 .. n
      PROVE  /\ e[i] - e[i - 1] <= Len(data)
             /\ \A j \in 1 .. e[i] - e[i - 1] : data[j] = px[e[i - 1] + j]
  <2> DEFINE from == e[i - 1]
             to == e[i]
  <2>1. from \in Nat /\ to \in Nat /\ from < to /\ to <= num /\ to - from <= size /\ from % 2 = 0
    BY <1>8
  <2> HIDE DEF from, to
  <2>2. to - from <= Len(data)
    BY <1>2, <1>3, <1>4, <2>1
  <2>3. ASSUME NEW j \in 1 .. to - from PROVE data[j] = px[from + j]
    <3>1. j \in 1 .. 4 * words /\ from + j \in 1 .. num /\ (from + j) % 2 = j % 2
      BY <1>1, <1>2, <1>3, <2>1
    <3> QED BY <1>4, <3>1
  <2> QED BY <2>2, <2>3 DEF from, to
<1>10. send = Lcd!FlattenSeq([i \in 1 .. n |-> Lcd!fifoSend(e[i] - e[i - 1])])
  <2>1. ASSUME NEW i \in 1 .. n PROVE Lcd!Min({num - (i - 1) * size, size}) = e[i] - e[i - 1]
    <3> DEFINE b == (i - 1) * size
    <3>1. n \in Nat /\ e[i - 1] = b /\ i \in 0 .. n /\ i - 1 \in Int
      <4>1. n \in Nat /\ \A k \in 1 .. n : e[k - 1] = (k - 1) * size
        BY <1>7 DEF Portions
      <4>2. e[i - 1] = b
        BY <4>1
      <4> HIDE DEF b
      <4> QED BY <4>1, <4>2
    <3>2. e[i] = EndAt(num, size, i)
      BY <1>7, <3>1
    <3>3. b \in Int /\ i * size = b + size
      BY <1>2, <3>1
    <3>4. EndAt(num, size, i) = Lcd!Min({b + size, num})
      BY <3>3 DEF EndAt
    <3> HIDE DEF b
    <3>5. num - b \in Int /\ b + size \in Int /\ num \in Int /\ size \in Int
      BY <1>1, <1>2, <3>3
    <3>6. Lcd!Min({b + size, num}) = IF b + size <= num THEN b + size ELSE num
      BY <3>5, MinIs
    <3>7. Lcd!Min({num - b, size}) = IF num - b <= size THEN num - b ELSE size
      BY <3>5, MinIs
    <3>8. Lcd!Min({num - b, size}) = e[i] - b
      BY <3>2, <3>3, <3>4, <3>5, <3>6, <3>7
    <3> QED BY <3>1, <3>8 DEF b
  <2> QED BY <2>1, Zenon DEF Lcd!SendFifo, n
<1>11. PICK f : Runs(open, a, Hardware(f, 0, a.descs, first, 1))
  BY WindowOpens
<1> HIDE DEF first, last
<1> DEFINE m0 == Hardware(f, 0, a.descs, first, 1)
           m1 == Hardware(f, 0, a.descs, first, 0)
           m2 == Hardware(data, 0, a.descs, first, 0)
           m3 == Hardware(data, 1, a.descs, first, 0)
           b == Hardware(data, 1, a.descs, last, 1)
<1>12. Runs(Lcd!waitDone, m0, m1)
  BY WaitRuns, HardwareHas
<1>13. Runs(set, m1, m2) /\ Runs(Lcd!setDcPin(1), m2, m3)
  BY <1>4, SetRuns
<1>14. Runs(send, m3, b)
  <2> HIDE DEF mem, send
  <2>1. AreBytes(px, 2 * Size(r)) /\ Portions(e, n, 2 * Size(r)) /\ data \in Seq(Nat)
    BY <1>4, <1>5, <1>7 DEF num
  <2>2. Runs(Lcd!FlattenSeq([i \in 1 .. n |-> Lcd!fifoSend(e[i] - e[i - 1])]),
             Hardware(data, 1, a.descs, Half(mem, r, px, 0), 0),
             Hardware(data, 1, a.descs, Half(mem, r, px, 2 * Size(r)), 1))
    BY <1>9, <2>1, FromFifo
  <2> QED BY <1>10, <2>2 DEF first, last, num
<1>15. Usable(b) /\ mem = a.display.mem
       /\ b.display.mem = Lcd!Drawn(mem, r, [k \in Lcd!Pixels(r) |-> px[2 * k + 1]])
  <2>1. a.descs \in Seq(Seq(Nat))
    BY DEF Usable
  <2> HIDE DEF mem
  <2>2. b = Hardware(data, 1, a.descs, Half(mem, r, px, 2 * Size(r)), 1)
    BY DEF b, last, num
  <2> HIDE DEF b
  <2>3. Usable(b) /\ b.display.mem = Lcd!Drawn(mem, r, [k \in Lcd!Pixels(r) |-> px[2 * k + 1]])
    BY <2>1, <2>2, AllDrawn
  <2> QED BY <2>3 DEF mem
<1>16. b.display.mem = Lcd!Drawn(mem, r, Lcd!Plain(r, c))
  BY <1>15, PlainColors DEF px, num
<1> HIDE DEF m0, m1, m2, m3, b, open, set, send
<1>17. Runs((((open \o Lcd!waitDone) \o set) \o Lcd!setDcPin(1)) \o send, a, b)
  <2>1. Runs((open \o Lcd!waitDone) \o set, a, m2)
    BY <1>11, <1>12, <1>13, RunsTwice DEF m0
  <2> QED BY <1>13, <1>14, <2>1, RunsTwice
<1>18. Lcd!fillRect(r.x, r.y, r.w, r.h, <<c, Black>>)
       = (((open \o Lcd!waitDone) \o set) \o Lcd!setDcPin(1)) \o send
  <2>1. num = 2 * (r.w * r.h)
    BY DEF num, Size
  <2> QED BY <1>6, <2>1, Zenon DEF Lcd!fillRect, size, words, open, send
<1> QED BY <1>15, <1>16, <1>17, <1>18 DEF Ends
-----------------------------------------------------------------------------
\* The bytes of an image.
LEMMA ImageIs ==
  ASSUME NEW r, Lcd!OnScreen(r), NEW c \in Nat
  PROVE  \E px \in Seq(Nat) : /\ px = Lcd!Image(r, c) /\ Len(px) = 2 * Size(r) /\ AreBytes(px, 2 * Size(r))
                              /\ [k \in Lcd!Pixels(r) |-> px[2 * k + 1]] = Lcd!Alternating(r, c)
<1> DEFINE n == Size(r)
           px == Lcd!Image(r, c)
           colors == Lcd!Alternating(r, c)
<1>1. n \in Nat \ {0} /\ Lcd!Pixels(r) = 0 .. n - 1 /\ Black \in Nat
  BY AreaHas, ScreenSize DEF Size, Lcd!Pixels
<1>2. colors = [k \in Lcd!Pixels(r) |-> colors[k]] /\ \A k \in Lcd!Pixels(r) : colors[k] \in Nat
  BY <1>1 DEF Lcd!Alternating
<1>3. px = [i \in 1 .. 2 * n |-> IF i % 2 = 1 THEN colors[(i - 1) \div 2] ELSE Black]
  BY DEF Lcd!Image, Size
<1> HIDE DEF n, px, colors
<1>4. ASSUME NEW i \in 1 .. 2 * n PROVE px[i] \in Nat
  <2>1. i % 2 = 1 => (i - 1) \div 2 \in 0 .. n - 1
    BY <1>1
  <2> QED BY <1>1, <1>2, <1>3, <2>1
<1>5. px \in Seq(Nat) /\ Len(px) = 2 * n /\ AreBytes(px, 2 * n)
  <2>1. px = [i \in 1 .. 2 * n |-> px[i]] /\ 2 * n \in Nat
    BY <1>1, <1>3
  <2>2. px \in [1 .. 2 * n -> Nat]
    BY <1>4, <2>1
  <2>3. AreBytes(px, 2 * n)
    BY <1>4 DEF AreBytes
  <2> QED BY <2>1, <2>2, <2>3
<1>6. ASSUME NEW k \in 0 .. n - 1 PROVE px[2 * k + 1] = colors[k]
  <2> DEFINE i == 2 * k + 1
  <2>1. i \in 1 .. 2 * n /\ i % 2 = 1 /\ (i - 1) \div 2 = k
    BY <1>1
  <2> HIDE DEF i
  <2>2. px[i] = colors[k]
    BY <1>3, <2>1
  <2> QED BY <2>2 DEF i
<1>7. [k \in Lcd!Pixels(r) |-> px[2 * k + 1]] = colors
  <2>1. \A k \in Lcd!Pixels(r) : px[2 * k + 1] = colors[k]
    BY <1>1, <1>6
  <2> QED BY <1>2, <2>1, Zenon
<1> QED BY <1>5, <1>7 DEF px, n, colors

\* Steps that send all of an area's bytes, after its window is opened, draw it.
LEMMA SendingDraws ==
  ASSUME NEW a, Usable(a), NEW r, Lcd!OnScreen(r), NEW px, NEW send, NEW chain \in Seq(Seq(Nat)),
         \A f : \E g, on : Runs(send, Hardware(f, 1, a.descs, Half(a.display.mem, r, px, 0), 0),
                                Hardware(g, 1, chain, Half(a.display.mem, r, px, 2 * Size(r)), on)),
         NEW colors, colors = [k \in Lcd!Pixels(r) |-> px[2 * k + 1]]
  PROVE  /\ Ends((Lcd!setWriteWindow(r.x, r.y, r.w, r.h) \o Lcd!prepareSendPixels) \o send, a,
                 Lcd!Drawn(a.display.mem, r, colors))
         /\ Ends(Lcd!setWriteWindow(r.x, r.y, r.w, r.h) \o (Lcd!prepareSendPixels \o send), a,
                 Lcd!Drawn(a.display.mem, r, colors))
<1> DEFINE open == Lcd!setWriteWindow(r.x, r.y, r.w, r.h)
           pin == Lcd!prepareSendPixels
           mem == a.display.mem
           first == Half(mem, r, px, 0)
<1>1. PICK f : Runs(open, a, Hardware(f, 0, a.descs, first, 1))
  BY WindowOpens
<1>2. PICK g, on : Runs(send, Hardware(f, 1, a.descs, first, 0),
                        Hardware(g, 1, chain, Half(mem, r, px, 2 * Size(r)), on))
  OBVIOUS
<1> DEFINE b == Hardware(g, 1, chain, Half(mem, r, px, 2 * Size(r)), on)
<1>3. Usable(b) /\ b.display.mem = Lcd!Drawn(mem, r, colors)
  <2>1. b = Hardware(g, 1, chain, Half(mem, r, px, 2 * Size(r)), on)
    OBVIOUS
  <2> HIDE DEF mem, b
  <2> QED BY <2>1, AllDrawn
<1> HIDE DEF first, b
<1>4. Runs(pin, Hardware(f, 0, a.descs, first, 1), Hardware(f, 1, a.descs, first, 0))
  BY PinRuns DEF Lcd!prepareSendPixels, Lcd!PixelsWait
<1>5. Runs(send, Hardware(f, 1, a.descs, first, 0), b)
  BY <1>2 DEF b
<1> HIDE DEF open, pin
<1>6. Runs((open \o pin) \o send, a, b)
  BY <1>1, <1>4, <1>5, RunsTwice
<1>7. Runs(pin \o send, Hardware(f, 0, a.descs, first, 1), b)
  BY <1>4, <1>5, RunsThen
<1>8. Runs(open \o (pin \o send), a, b)
  BY <1>1, <1>7, RunsThen
<1> QED BY <1>3, <1>6, <1>8 DEF Ends, open, pin

LEMMA UsableChain == \A a : Usable(a) => a.descs \in Seq(Seq(Nat))
  BY DEF Usable

\* An image through the chain of DMA buffers.
LEMMA BlitEnds ==
  ASSUME NEW a, Usable(a), NEW r, Lcd!OnScreen(r), NEW c \in Nat
  PROVE  Ends(Lcd!dmaBlit(r.x, r.y, r.w, r.h, Lcd!Image(r, c)), a,
              Lcd!Drawn(a.display.mem, r, Lcd!Alternating(r, c)))
<1> DEFINE n == 2 * Size(r)
           mem == a.display.mem
<1>1. n \in Nat \ {0}
  BY AreaHas
<1>2. PICK px \in Seq(Nat) : /\ px = Lcd!Image(r, c) /\ Len(px) = n /\ AreBytes(px, n)
                             /\ [k \in Lcd!Pixels(r) |-> px[2 * k + 1]] = Lcd!Alternating(r, c)
  BY ImageIs
<1> DEFINE chain == Lcd!Chain(px)
           first == Half(mem, r, px, 0)
           last == Half(mem, r, px, n)
           load == <<Lcd!Do("descs", chain)>>
<1>3. chain \in Seq(Seq(Nat)) /\ Lcd!FlattenSeq(chain) = px
  BY <1>1, <1>2, ChainHolds
<1> HIDE DEF chain
<1>4. Sends(first, 1, px, 0, n, last)
  <2> DEFINE from == 0
             to == n
  <2>1. /\ from \in Nat /\ to \in Nat /\ from < to /\ to <= 2 * Size(r) /\ to - from <= Len(px) /\ to - from = n
        /\ \A j \in 1 .. to - from : px[j] = px[from + j]
    BY <1>1, <1>2
  <2>2. AreBytes(px, 2 * Size(r))
    BY <1>2
  <2> HIDE DEF from, to, mem, n
  <2>3. Sends(Half(mem, r, px, from), 1, px, 0, to - from, Half(mem, r, px, to))
    BY <2>1, <2>2, PortionRuns
  <2> QED BY <2>1, <2>3 DEF from, to
<1> HIDE DEF n, first, last
<1>5. ASSUME NEW f
      PROVE  Runs((Lcd!waitDone \o load) \o Lcd!dmaResend(n), Hardware(f, 1, a.descs, first, 0),
                  Hardware(f, 1, chain, last, 1))
  <2> DEFINE m0 == Hardware(f, 1, a.descs, first, 0)
             m == Hardware(f, 1, chain, first, 0)
             b == Hardware(f, 1, chain, last, 1)
  <2>1. Runs(Lcd!waitDone, m0, m0)
    BY WaitRuns, HardwareHas
  <2>2. Runs(load, m0, m)
    BY <1>3, SetRuns
  <2>3. Runs(Lcd!dmaResend(n), m, b)
    <3>1. m.fifo = f /\ m.dc = 1 /\ m.descs = chain /\ m.display = first /\ m.on = 0
      BY HardwareHas
    <3>2. n \in Nat
      BY <1>1
    <3> HIDE DEF m
    <3>3. Runs(Lcd!dmaResend(n), m, Hardware(m.fifo, m.dc, m.descs, last, 1))
      BY <1>3, <1>4, <3>1, <3>2, DmaRuns
    <3> QED BY <3>1, <3>3
  <2> HIDE DEF m0, m, b, load
  <2>4. Runs((Lcd!waitDone \o load) \o Lcd!dmaResend(n), m0, b)
    BY <2>1, <2>2, <2>3, RunsTwice
  <2> QED BY <2>4 DEF m0, b
<1>6. Lcd!dmaSend(px) = (Lcd!waitDone \o load) \o Lcd!dmaResend(n)
  BY <1>2, Zenon DEF Lcd!dmaSend, Lcd!dmaMountBuffer, Lcd!MountWait, chain
<1> DEFINE send == Lcd!dmaSend(px)
           colors == Lcd!Alternating(r, c)
<1>7. \A f : \E g, on : Runs(send, Hardware(f, 1, a.descs, Half(a.display.mem, r, px, 0), 0),
                             Hardware(g, 1, chain, Half(a.display.mem, r, px, 2 * Size(r)), on))
  BY <1>5, <1>6, Zenon DEF first, last, n
<1>8. colors = [k \in Lcd!Pixels(r) |-> px[2 * k + 1]]
  BY <1>2
<1> HIDE DEF send, colors
<1>9. Ends((Lcd!setWriteWindow(r.x, r.y, r.w, r.h) \o Lcd!prepareSendPixels) \o send, a,
           Lcd!Drawn(a.display.mem, r, colors))
  BY <1>3, <1>7, <1>8, SendingDraws
<1> QED BY <1>2, <1>9, Zenon DEF Lcd!dmaBlit, send, colors

\* The data of the chain are bytes.
LEMMA FlattenBytes ==
  ASSUME NEW q \in Seq(Seq(Nat)) PROVE Len(q) = 0 \/ Lcd!FlattenSeq(q) \in Seq(Nat)
<1> DEFINE n == Len(q)
<1>1. CASE n > 0
  <2>1. n \in Nat \ {0} /\ Len(q) = n
    BY <1>1
  <2> HIDE DEF n
  <2>2. PICK T : /\ T[1] = q[1] /\ Lcd!FlattenSeq(q) = T[n]
                 /\ \A i \in 2 .. n : T[i] = T[i - 1] \o q[i]
    BY <2>1, FlattenIs
  <2>3. \A i \in 1 .. n : q[i] \in Seq(Nat)
    BY <2>1
  <2> DEFINE S == {k \in 0 .. n - 1 : T[k + 1] \in Seq(Nat)}
  <2>4. 0 \in S
    BY <2>1, <2>2, <2>3
  <2>5. ASSUME NEW k \in 0 .. (n - 1) - 1, k \in S PROVE k + 1 \in S
    <3> DEFINE i == k + 2
    <3>1. i \in 2 .. n /\ i \in 1 .. n /\ i - 1 = k + 1 /\ i = (k + 1) + 1 /\ k + 1 \in 0 .. n - 1
      BY <2>1
    <3>2. T[k + 1] \in Seq(Nat)
      BY <2>5
    <3> HIDE DEF i
    <3>3. T[i] = T[k + 1] \o q[i] /\ q[i] \in Seq(Nat)
      BY <2>2, <2>3, <3>1
    <3>4. T[i] \in Seq(Nat)
      BY <3>2, <3>3
    <3> QED BY <3>1, <3>4
  <2>6. n - 1 \in S
    <3>1. n - 1 \in Nat
      BY <2>1
    <3> HIDE DEF S
    <3>2. \A k \in 0 .. n - 1 : k \in S
      BY <2>4, <2>5, <3>1, UpTo
    <3> QED BY <3>1, <3>2
  <2>7. (n - 1) + 1 = n
    BY <2>1
  <2> QED BY <2>2, <2>6, <2>7
<1>2. n \in Nat
  OBVIOUS
<1> QED BY <1>1, <1>2

\* The same chain is sent once more, into a window no larger than its data.
LEMMA BlitAgainEnds ==
  ASSUME NEW a, Usable(a), NEW r, Lcd!OnScreen(r), NEW px, px = Lcd!FlattenSeq(a.descs), Len(px) >= 2 * Size(r)
  PROVE  Ends(Lcd!dmaBlitAgain(r.x, r.y, r.w, r.h), a,
              Lcd!Drawn(a.display.mem, r, [k \in Lcd!Pixels(r) |-> px[2 * k + 1]]))
<1> DEFINE n == 2 * Size(r)
           mem == a.display.mem
           first == Half(mem, r, px, 0)
           last == Half(mem, r, px, n)
<1>1. n \in Nat \ {0}
  BY AreaHas
<1>2. a.descs \in Seq(Seq(Nat))
  BY UsableChain
<1>3. px \in Seq(Nat)
  <2>1. CASE Len(a.descs) = 0
    <3>1. px = a.descs
      BY <2>1 DEF Lcd!FlattenSeq
    <3> QED BY <1>1, <2>1, <3>1
  <2>2. CASE Len(a.descs) # 0
    BY <1>2, <2>2, FlattenBytes
  <2> QED BY <2>1, <2>2
<1>4. n <= Len(px)
  OBVIOUS
<1>5. AreBytes(px, n)
  <2>1. PICK s \in Seq(Nat) : s = px
    BY <1>3
  <2>2. \A i \in 1 .. n : s[i] \in Nat
    BY <1>1, <1>4, <2>1
  <2> QED BY <2>1, <2>2 DEF AreBytes
<1>6. Sends(first, 1, px, 0, n, last)
  <2> DEFINE from == 0
             to == n
  <2>1. /\ from \in Nat /\ to \in Nat /\ from < to /\ to <= 2 * Size(r) /\ to - from <= Len(px) /\ to - from = n
        /\ \A j \in 1 .. to - from : px[j] = px[from + j]
    BY <1>1, <1>4
  <2>2. AreBytes(px, 2 * Size(r))
    BY <1>5
  <2> HIDE DEF from, to, mem, n
  <2>3. Sends(Half(mem, r, px, from), 1, px, 0, to - from, Half(mem, r, px, to))
    BY <1>3, <2>1, <2>2, PortionRuns
  <2> QED BY <2>1, <2>3 DEF from, to
<1> HIDE DEF n, first, last
<1>7. ASSUME NEW f
      PROVE  Runs(Lcd!dmaResend(n), Hardware(f, 1, a.descs, first, 0), Hardware(f, 1, a.descs, last, 1))
  <2> DEFINE m == Hardware(f, 1, a.descs, first, 0)
  <2>1. m.fifo = f /\ m.dc = 1 /\ m.descs = a.descs /\ m.display = first /\ m.on = 0
    BY HardwareHas
  <2>2. n \in Nat
    BY <1>1
  <2> HIDE DEF m
  <2>3. Runs(Lcd!dmaResend(n), m, Hardware(m.fifo, m.dc, m.descs, last, 1))
    BY <1>6, <2>1, <2>2, DmaRuns
  <2> QED BY <2>1, <2>3 DEF m
<1> DEFINE send == Lcd!dmaResend(n)
           colors == [k \in Lcd!Pixels(r) |-> px[2 * k + 1]]
<1>8. \A f : \E g, on : Runs(send, Hardware(f, 1, a.descs, Half(a.display.mem, r, px, 0), 0),
                             Hardware(g, 1, a.descs, Half(a.display.mem, r, px, 2 * Size(r)), on))
  BY <1>7, Zenon DEF first, last, n
<1>9. colors = [k \in Lcd!Pixels(r) |-> px[2 * k + 1]] /\ n = 2 * (r.w * r.h)
  BY DEF n, Size
<1> HIDE DEF send, colors
<1>10. Ends((Lcd!setWriteWindow(r.x, r.y, r.w, r.h) \o Lcd!prepareSendPixels) \o send, a,
            Lcd!Drawn(a.display.mem, r, colors))
  BY <1>2, <1>8, <1>9, SendingDraws
<1> QED BY <1>9, <1>10, Zenon DEF Lcd!dmaBlitAgain, send, colors

\* What spiSend sends of some data: in every portion what the first one has.
Resent(data, size) == [k \in 1 .. Len(data) |-> data[((k - 1) % size) + 1]]

LEMMA ResentIs ==
  ASSUME NEW data \in Seq(Nat), NEW size \in Nat \ {0}
  PROVE  /\ AreBytes(Resent(data, size), Len(data))
         /\ \A k \in 1 .. Len(data) : k <= size => Resent(data, size)[k] = data[k]
         /\ \A i \in Nat, j \in 1 .. size :
               i * size + j \in 1 .. Len(data) => Resent(data, size)[i * size + j] = data[j]
<1>1. ASSUME NEW i \in Nat, NEW j \in 1 .. size PROVE ((i * size + j) - 1) % size = j - 1
  <2> DEFINE k == (i * size + j) - 1
             q == k \div size
             p == k % size
             rest == j - 1
  <2>1. i * size \in Int /\ size * i = i * size
    OBVIOUS
  <2>2. k \in Int /\ k = size * i + rest /\ rest \in 0 .. size - 1
    BY <2>1
  <2> HIDE DEF k, rest
  <2>3. q \in Int /\ p \in 0 .. size - 1 /\ k = size * q + p
    BY <2>2, Quotient
  <2> HIDE DEF q, p
  <2>4. size * q + p = size * i + rest
    BY <2>2, <2>3
  <2>5. i \in Int /\ q \in Int
    BY <2>3
  <2>6. ASSUME NEW x \in 0 .. size - 1, NEW y \in 0 .. size - 1, size * q + x = size * i + y
        PROVE  x = y
    BY <2>5, <2>6, OneQuotient
  <2>7. p = rest
    BY <2>2, <2>3, <2>4, <2>6, Zenon
  <2> QED BY <2>7 DEF p, k, rest
<1>2. ASSUME NEW k \in 1 .. Len(data), k <= size PROVE (k - 1) % size = k - 1
  <2>1. k \in 1 .. size /\ 0 \in Nat
    BY <1>2
  <2>2. ((0 * size + k) - 1) % size = k - 1
    BY <1>1, <2>1
  <2>3. (0 * size + k) - 1 = k - 1
    BY <2>1
  <2> QED BY <2>2, <2>3
<1>3. ASSUME NEW k \in 1 .. Len(data) PROVE ((k - 1) % size) + 1 \in 1 .. Len(data)
  <2> DEFINE p == (k - 1) % size
  <2>1. k - 1 \in Int /\ Len(data) \in Nat
    OBVIOUS
  <2>2. p \in 0 .. size - 1
    BY <2>1, Quotient
  <2>3. k <= size => p = k - 1
    BY <1>2
  <2> HIDE DEF p
  <2>4. p + 1 \in 1 .. Len(data)
    BY <2>1, <2>2, <2>3
  <2> QED BY <2>4 DEF p
<1>4. \A k \in 1 .. Len(data) : Resent(data, size)[k] = data[((k - 1) % size) + 1]
  BY DEF Resent
<1>5. AreBytes(Resent(data, size), Len(data))
  <2>1. \A k \in 1 .. Len(data) : data[k] \in Nat
    OBVIOUS
  <2> QED BY <1>3, <1>4, <2>1 DEF AreBytes
<1>6. ASSUME NEW k \in 1 .. Len(data), k <= size PROVE Resent(data, size)[k] = data[k]
  <2> DEFINE p == (k - 1) % size
  <2>2. p = k - 1
    BY <1>2, <1>6
  <2> HIDE DEF p
  <2>3. p + 1 = k
    BY <2>2
  <2>1. ((k - 1) % size) + 1 = k
    BY <2>3 DEF p
  <2> QED BY <1>4, <2>1
<1>7. ASSUME NEW i \in Nat, NEW j \in 1 .. size, i * size + j \in 1 .. Len(data)
      PROVE  Resent(data, size)[i * size + j] = data[j]
  <2>1. (((i * size + j) - 1) % size) + 1 = j
    BY <1>1
  <2> QED BY <1>4, <1>7, <2>1
<1> QED BY <1>5, <1>6, <1>7

\* An image through the FIFO, portion by portion. What is claimed of it is shown.
Resends(r, c) == [k \in Lcd!Pixels(r) |-> Resent(Lcd!Image(r, c), kMaxTransferLen)[2 * k + 1]]

LEMMA ImageEnds ==
  ASSUME NEW a, Usable(a), NEW r, Lcd!OnScreen(r), NEW c \in Nat
  PROVE  /\ Ends(Lcd!setWriteWindow(r.x, r.y, r.w, r.h) \o Lcd!sendBuffer(Lcd!Image(r, c)), a,
                 Lcd!Drawn(a.display.mem, r, Resends(r, c)))
         /\ \A k \in Lcd!Pixels(r) : \/ Lcd!FirstPortion(r, c)[k] = Lcd!Unclaimed
                                     \/ Lcd!FirstPortion(r, c)[k] = Resends(r, c)[k]
<1> DEFINE len == 2 * Size(r)
           mem == a.display.mem
           size == kMaxTransferLen
           n == Lcd!Pieces(len, size)
<1>1. len \in Nat \ {0} /\ size \in Nat \ {0}
  BY AreaHas, ScreenSize
<1>2. PICK px \in Seq(Nat) : /\ px = Lcd!Image(r, c) /\ Len(px) = len /\ AreBytes(px, len)
                             /\ [k \in Lcd!Pixels(r) |-> px[2 * k + 1]] = Lcd!Alternating(r, c)
  BY ImageIs
<1>3. n = Lcd!Pieces(len, size)
  OBVIOUS
<1>0. n = Lcd!Pieces(Len(px), kMaxTransferLen) /\ size = kMaxTransferLen
  BY <1>2
<1> HIDE DEF n, len, size
<1>4. PICK e : /\ Portions(e, n, len) /\ e = [i \in 0 .. n |-> EndAt(len, size, i)]
               /\ \A i \in 1 .. n : e[i - 1] = (i - 1) * size /\ e[i] <= e[i - 1] + size
  BY <1>1, <1>3, PiecesArePortions
<1> DEFINE v == [i \in 1 .. n |-> Lcd!Portion(px, i)]
           send == Lcd!spiSend(px)
           re == Resent(px, size)
           colors == Resends(r, c)
<1>5. \A i \in 1 .. n : v[i] = Lcd!Portion(px, i)
  OBVIOUS
<1>e. /\ AreBytes(re, len)
      /\ \A k \in 1 .. len : k <= size => re[k] = px[k]
      /\ \A i \in Nat, j \in 1 .. size : i * size + j \in 1 .. len => re[i * size + j] = px[j]
  <2> HIDE DEF v, send, colors, re
  <2>1. /\ AreBytes(Resent(px, size), Len(px))
        /\ \A k \in 1 .. Len(px) : k <= size => Resent(px, size)[k] = px[k]
        /\ \A i \in Nat, j \in 1 .. size :
              i * size + j \in 1 .. Len(px) => Resent(px, size)[i * size + j] = px[j]
    BY <1>1, ResentIs, Zenon
  <2>2. re = Resent(px, size) /\ Len(px) = len
    BY <1>2 DEF re
  <2> QED BY <2>1, <2>2, Zenon
<1> HIDE DEF re
<1>6. ASSUME NEW i \in 1 .. n
      PROVE  /\ v[i] \in Seq(Nat) /\ Len(v[i]) = e[i] - e[i - 1]
             /\ \A j \in 1 .. e[i] - e[i - 1] : v[i][j] = re[e[i - 1] + j]
  <2> HIDE DEF v
  <2>1. \E bytes \in Seq(Nat) :
            /\ bytes = Lcd!Piece(px, size, i) /\ Len(bytes) = EndAt(len, size, i) - EndAt(len, size, i - 1)
            /\ \A j \in 1 .. EndAt(len, size, i) - EndAt(len, size, i - 1) :
                  bytes[j] = px[EndAt(len, size, i - 1) + j]
    BY <1>1, <1>2, <1>3, PieceIs
  <2>2. e[i] = EndAt(len, size, i) /\ e[i - 1] = EndAt(len, size, i - 1)
    BY <1>4 DEF Portions
  <2> DEFINE d == e[i] - e[i - 1]
  <2>3. v[i] = SubSeq(px, 1, d)
    <3>1. Len(Lcd!Piece(px, size, i)) = d
      BY <2>1, <2>2
    <3> QED BY <1>0, <1>5, <3>1 DEF Lcd!Portion
  <2>4. d \in Nat /\ 0 < d /\ d <= size /\ d <= len /\ e[i - 1] = (i - 1) * size /\ i - 1 \in Nat
        /\ e[i - 1] \in Nat /\ e[i - 1] + d <= len
    <3>1. /\ e[i - 1] = (i - 1) * size /\ e[i] <= e[i - 1] + size /\ n \in Nat
          /\ e[i - 1] \in Nat /\ e[i] \in Nat /\ e[i - 1] < e[i] /\ e[i] <= len
      BY <1>4, Zenon DEF Portions
    <3> DEFINE start == e[i - 1]
               end == e[i]
    <3>2. start \in Nat /\ end \in Nat /\ start < end /\ end <= len /\ end <= start + size /\ n \in Nat
      BY <3>1
    <3> HIDE DEF start, end
    <3>3. end - start \in Nat /\ 0 < end - start /\ end - start <= size /\ end - start <= len
          /\ start + (end - start) <= len
      BY <1>1, <3>2
    <3>4. i - 1 \in Nat
      BY <3>2
    <3> QED BY <3>1, <3>3, <3>4, Zenon DEF start, end
  <2> HIDE DEF d
  <2>5. v[i] \in Seq(Nat) /\ Len(v[i]) = d /\ \A j \in 1 .. d : v[i][j] = px[j]
    <3> DEFINE from == 0
    <3>1. from \in Nat /\ d \in Nat /\ from < d /\ d <= Len(px) /\ from + 1 = 1 /\ d - from = d
          /\ \A j \in 1 .. d : from + j = j
      BY <1>2, <2>4
    <3> HIDE DEF from
    <3>2. \E bytes \in Seq(Nat) : /\ bytes = SubSeq(px, from + 1, d) /\ Len(bytes) = d - from
                                  /\ \A j \in 1 .. d - from : bytes[j] = px[from + j]
      BY <3>1, PartIs
    <3> QED BY <2>3, <3>1, <3>2
  <2>6. ASSUME NEW j \in 1 .. d PROVE re[e[i - 1] + j] = px[j]
    <3> DEFINE m == i - 1
               at == m * size
    <3>1. m \in Nat /\ e[i - 1] = at
      BY <2>4
    <3>2. j \in 1 .. size /\ at + j \in 1 .. len
      BY <1>1, <2>4
    <3> HIDE DEF m
    <3>3. re[at + j] = px[j]
      BY <1>e, <3>1, <3>2
    <3> QED BY <3>1, <3>3
  <2> QED BY <2>5, <2>6 DEF d
<1>7. send = Lcd!FlattenSeq([i \in 1 .. n |-> Lcd!spiSendVal(TRUE, v[i])])
  <2>1. ASSUME NEW bytes
        PROVE  Lcd!spiSendVal(TRUE, bytes) = (Lcd!waitDone \o <<Lcd!Do("fifo", bytes)>>) \o Lcd!fifoSend(Len(bytes))
    BY DEF Lcd!spiSendVal
  <2>2. send = Lcd!FlattenSeq([i \in 1 .. n |->
            (Lcd!waitDone \o <<Lcd!Do("fifo", Lcd!Portion(px, i))>>) \o Lcd!fifoSend(Len(Lcd!Portion(px, i)))])
    BY <1>0, Zenon DEF Lcd!spiSend
  <2> HIDE DEF v, send
  <2>3. \A i \in 1 .. n : (Lcd!waitDone \o <<Lcd!Do("fifo", Lcd!Portion(px, i))>>)
                          \o Lcd!fifoSend(Len(Lcd!Portion(px, i))) = Lcd!spiSendVal(TRUE, v[i])
    BY <1>5, <2>1, Zenon
  <2>4. [i \in 1 .. n |-> (Lcd!waitDone \o <<Lcd!Do("fifo", Lcd!Portion(px, i))>>)
                          \o Lcd!fifoSend(Len(Lcd!Portion(px, i)))] = [i \in 1 .. n |-> Lcd!spiSendVal(TRUE, v[i])]
    BY <2>3, Zenon
  <2> QED BY <2>2, <2>4, Zenon
<1> HIDE DEF v, send
<1>8. ASSUME NEW f
      PROVE  \E g : Runs(send, Hardware(f, 1, a.descs, Half(mem, r, re, 0), 0),
                         Hardware(g, 1, a.descs, Half(mem, r, re, 2 * Size(r)), 1))
  <2> HIDE DEF mem
  <2>1. AreBytes(re, 2 * Size(r)) /\ Portions(e, n, 2 * Size(r))
    BY <1>e, <1>4 DEF len
  <2>2. AreValues(v, e, n, re)
    BY <1>6 DEF AreValues
  <2> DEFINE on == 0
             chain == a.descs
  <2> HIDE DEF on, chain
  <2>3. \E g : Runs(Lcd!FlattenSeq([i \in 1 .. n |-> Lcd!spiSendVal(TRUE, v[i])]),
                   Hardware(f, 1, chain, Half(mem, r, re, 0), on),
                   Hardware(g, 1, chain, Half(mem, r, re, 2 * Size(r)), 1))
    BY <2>1, <2>2, FromValues
  <2> QED BY <1>7, <2>3 DEF on, chain
<1>9. \A f : \E g, on : Runs(send, Hardware(f, 1, a.descs, Half(a.display.mem, r, re, 0), 0),
                             Hardware(g, 1, a.descs, Half(a.display.mem, r, re, 2 * Size(r)), on))
  BY <1>8, Zenon
<1>10. colors = [k \in Lcd!Pixels(r) |-> re[2 * k + 1]] /\ a.descs \in Seq(Seq(Nat))
  BY <1>0, <1>2, UsableChain DEF re, Resends
<1>c. ASSUME NEW k \in Lcd!Pixels(r)
      PROVE  Lcd!FirstPortion(r, c)[k] = Lcd!Unclaimed \/ Lcd!FirstPortion(r, c)[k] = colors[k]
  <2> DEFINE plain == Lcd!Alternating(r, c)
             m == 2 * k + 1
  <2>1. Lcd!FirstPortion(r, c)[k] = IF 2 * k < kMaxTransferLen THEN plain[k] ELSE Lcd!Unclaimed
    BY DEF Lcd!FirstPortion
  <2>2. plain[k] = px[m] /\ colors[k] = re[m]
    <3> HIDE DEF colors, plain
    <3> QED BY <1>2, <1>10 DEF plain
  <2>3. m \in 1 .. len /\ (2 * k < kMaxTransferLen => m <= size)
    <3>1. k \in 0 .. Size(r) - 1
      BY DEF Lcd!Pixels, Size
    <3>2. Size(r) \in Nat
      BY AreaHas
    <3> QED BY <1>0, <1>1, <3>1, <3>2 DEF len
  <2> HIDE DEF m, plain, colors
  <2>4. 2 * k < kMaxTransferLen => re[m] = px[m]
    BY <1>e, <2>3
  <2> QED BY <2>1, <2>2, <2>4
<1> HIDE DEF colors
<1>11. Ends(Lcd!setWriteWindow(r.x, r.y, r.w, r.h) \o (Lcd!prepareSendPixels \o send), a,
            Lcd!Drawn(a.display.mem, r, colors))
  BY <1>9, <1>10, SendingDraws
<1> QED BY <1>2, <1>11, <1>c, Zenon DEF Lcd!sendBuffer, Lcd!prepareSendPixels, Lcd!PixelsWait, send, colors

\* The two bytes of a pixel of one colour.
LEMMA PixelBytes ==
  ASSUME NEW c \in Nat
  PROVE  \E s \in Seq(Nat) : s = <<c, Black>> /\ Len(s) = 2 /\ s[1] = c /\ s[2] = Black
<1> DEFINE t == <<c, Black>>
<1>1. t \in Seq(Nat) /\ Len(t) = 2 /\ t[1] = c /\ t[2] = Black
  BY ScreenSize
<1> QED BY <1>1, Zenon

\* Pixel by pixel.
LEMMA PixelsEnd ==
  ASSUME NEW a, Usable(a), NEW r, Lcd!OnScreen(r), NEW c \in Nat
  PROVE  Ends((Lcd!setWriteWindow(r.x, r.y, r.w, r.h) \o Lcd!prepareSendPixels)
              \o Lcd!FlattenSeq([i \in 1 .. r.w * r.h |-> Lcd!sendNextPixel(<<c, Black>>)]), a,
              Lcd!Drawn(a.display.mem, r, Lcd!Plain(r, c)))
<1> DEFINE n == Size(r)
           mem == a.display.mem
           px == Plain(c, 2 * n)
           colors == Lcd!Plain(r, c)
           e == [i \in 0 .. n |-> 2 * i]
<1>1. n \in Nat \ {0} /\ n = r.w * r.h
  BY AreaHas DEF Size
<1>2. colors = [k \in Lcd!Pixels(r) |-> px[2 * k + 1]] /\ a.descs \in Seq(Seq(Nat))
  BY PlainColors, UsableChain
<1>3. PICK s \in Seq(Nat) : s = <<c, Black>> /\ Len(s) = 2 /\ s[1] = c /\ s[2] = Black
  BY PixelBytes
<1> HIDE DEF n
<1>4. px \in Seq(Nat) /\ \A i \in 1 .. 2 * n : px[i] = IF i % 2 = 1 THEN c ELSE Black
  <2>1. 2 * n \in Nat
    BY <1>1
  <2> QED BY <2>1, PlainIs
<1>5. AreBytes(px, 2 * n)
  BY <1>4, ScreenSize DEF AreBytes
<1> HIDE DEF px, colors
<1>6. /\ e[0] = 0 /\ e[n] = 2 * n
      /\ \A i \in 1 .. n : e[i] = 2 * i /\ e[i - 1] = 2 * (i - 1)
  BY <1>1
<1> HIDE DEF e
<1>7. Portions(e, n, 2 * n)
  BY <1>1, <1>6 DEF Portions
<1> DEFINE v == [i \in 1 .. n |-> s]
           send == Lcd!FlattenSeq([i \in 1 .. r.w * r.h |-> Lcd!sendNextPixel(<<c, Black>>)])
<1>8. AreValues(v, e, n, px)
  <2> SUFFICES ASSUME NEW i \in 1 .. n
               PROVE  /\ v[i] \in Seq(Nat) /\ Len(v[i]) = e[i] - e[i - 1]
                      /\ \A j \in 1 .. e[i] - e[i - 1] : v[i][j] = px[e[i - 1] + j]
    BY DEF AreValues
  <2> DEFINE from == e[i - 1]
             to == e[i]
  <2>1. from \in Nat /\ to - from = 2 /\ from % 2 = 0 /\ from + 1 \in 1 .. 2 * n /\ from + 2 \in 1 .. 2 * n
        /\ (from + 1) % 2 = 1 /\ (from + 2) % 2 = 0
    <3> DEFINE k == i - 1
    <3>1. from = 2 * k /\ to = 2 * (k + 1) /\ k \in 0 .. n - 1
      BY <1>1, <1>6
    <3> HIDE DEF from, to, k
    <3>2. from \in Nat /\ from \in 0 .. 2 * n - 2 /\ to - from = 2 /\ from % 2 = 0
      BY <1>1, <3>1
    <3>3. (from + 1) % 2 = 1 /\ (from + 2) % 2 = 0
      BY <3>2
    <3> QED BY <1>1, <3>2, <3>3
  <2>2. v[i] = s
    OBVIOUS
  <2> HIDE DEF from, to, v
  <2>3. px[from + 1] = c /\ px[from + 2] = Black
    BY <1>4, <2>1
  <2>4. \A j \in 1 .. to - from : s[j] = px[from + j]
    <3> SUFFICES ASSUME NEW j \in 1 .. 2 PROVE s[j] = px[from + j]
      BY <2>1
    <3>1. j = 1 \/ j = 2
      OBVIOUS
    <3> QED BY <1>3, <2>3, <3>1
  <2>5. Len(s) = to - from
    BY <1>3, <2>1
  <2> QED BY <2>2, <2>4, <2>5 DEF from, to
<1>9. send = Lcd!FlattenSeq([i \in 1 .. n |-> Lcd!spiSendVal(TRUE, v[i])])
  <2>1. \A i \in 1 .. n : v[i] = <<c, Black>>
    BY <1>3
  <2> HIDE DEF v
  <2>2. \A i \in 1 .. n : Lcd!sendNextPixel(<<c, Black>>) = Lcd!spiSendVal(TRUE, v[i])
    BY <2>1, Zenon DEF Lcd!sendNextPixel
  <2>3. [i \in 1 .. n |-> Lcd!sendNextPixel(<<c, Black>>)] = [i \in 1 .. n |-> Lcd!spiSendVal(TRUE, v[i])]
    BY <2>2, Zenon
  <2> QED BY <1>1, <2>3, Zenon
<1> HIDE DEF v, send
<1>10. ASSUME NEW f
       PROVE  \E g : Runs(send, Hardware(f, 1, a.descs, Half(mem, r, px, 0), 0),
                          Hardware(g, 1, a.descs, Half(mem, r, px, 2 * Size(r)), 1))
  <2> DEFINE on == 0
             chain == a.descs
  <2> HIDE DEF mem, on, chain
  <2>1. AreBytes(px, 2 * Size(r)) /\ Portions(e, n, 2 * Size(r))
    BY <1>5, <1>7 DEF n
  <2>2. \E g : Runs(Lcd!FlattenSeq([i \in 1 .. n |-> Lcd!spiSendVal(TRUE, v[i])]),
                    Hardware(f, 1, chain, Half(mem, r, px, 0), on),
                    Hardware(g, 1, chain, Half(mem, r, px, 2 * Size(r)), 1))
    BY <1>8, <2>1, FromValues
  <2> QED BY <1>9, <2>2 DEF on, chain
<1>11. \A f : \E g, on : Runs(send, Hardware(f, 1, a.descs, Half(a.display.mem, r, px, 0), 0),
                              Hardware(g, 1, a.descs, Half(a.display.mem, r, px, 2 * Size(r)), on))
  BY <1>10, Zenon
<1>12. Ends((Lcd!setWriteWindow(r.x, r.y, r.w, r.h) \o Lcd!prepareSendPixels) \o send, a,
            Lcd!Drawn(a.display.mem, r, colors))
  BY <1>2, <1>11, SendingDraws
<1> QED BY <1>12 DEF send, colors

\* One pixel.
LEMMA PixelEnds ==
  ASSUME NEW a, Usable(a), NEW x \in Nat, NEW y \in Nat, x + 1 <= mWidth, y + 1 <= mHeight, NEW c \in Nat,
         NEW r, r = Lcd!Area(x, y, 1, 1)
  PROVE  Ends(Lcd!setPixel(x, y, <<c, Black>>), a, Lcd!Drawn(a.display.mem, r, Lcd!Plain(r, c)))
<1>1. r.x = x /\ r.y = y /\ r.w = 1 /\ r.h = 1 /\ r \in [x : Nat, y : Nat, w : Nat \ {0}, h : Nat \ {0}]
  BY DEF Lcd!Area
<1>2. Lcd!OnScreen(r)
  BY <1>1 DEF Lcd!OnScreen
<1>3. Size(r) = 1
  BY <1>1 DEF Size
<1> DEFINE mem == a.display.mem
           two == 2 * Size(r)
           px == Plain(c, two)
           open == Lcd!setWriteWindow(r.x, r.y, r.w, r.h)
           colors == Lcd!Plain(r, c)
<1>4. two = 2 /\ two \in Nat
  BY <1>3
<1>5. px \in Seq(Nat) /\ (\A i \in 1 .. two : px[i] = IF i % 2 = 1 THEN c ELSE Black)
      /\ colors = [k \in Lcd!Pixels(r) |-> px[2 * k + 1]]
  <2>1. colors = [k \in Lcd!Pixels(r) |-> px[2 * k + 1]]
    BY <1>2, PlainColors
  <2>2. px \in Seq(Nat) /\ \A i \in 1 .. two : px[i] = IF i % 2 = 1 THEN c ELSE Black
    <3> HIDE DEF two
    <3> QED BY <1>4, PlainIs
  <2> QED BY <2>1, <2>2
<1>6. PICK s \in Seq(Nat) : s = <<c, Black>> /\ Len(s) = 2 /\ s[1] = c /\ s[2] = Black
  BY PixelBytes
<1> HIDE DEF px, colors
<1>7. AreBytes(px, 2 * Size(r))
  BY <1>5, ScreenSize DEF AreBytes
<1> DEFINE first == Half(mem, r, px, 0)
           last == Half(mem, r, px, 2 * Size(r))
<1>8. Sends(first, 1, s, 0, Len(s), last)
  <2> DEFINE from == 0
             to == 2 * Size(r)
  <2>1. /\ from \in Nat /\ to \in Nat /\ from < to /\ to <= 2 * Size(r) /\ to - from <= Len(s) /\ to - from = Len(s)
    BY <1>3, <1>6
  <2>2. \A j \in 1 .. to - from : s[j] = px[from + j]
    <3> SUFFICES ASSUME NEW j \in 1 .. 2 PROVE s[j] = px[0 + j]
      BY <1>3
    <3>1. \/ j = 1 /\ 0 + j = 1 /\ 1 % 2 = 1
          \/ j = 2 /\ 0 + j = 2 /\ 2 % 2 # 1
      OBVIOUS
    <3>2. 1 \in 1 .. two /\ 2 \in 1 .. two
      BY <1>4
    <3> QED BY <1>5, <1>6, <3>1, <3>2
  <2> HIDE DEF from, to, mem
  <2>3. Sends(Half(mem, r, px, from), 1, s, 0, to - from, Half(mem, r, px, to))
    BY <1>2, <1>7, <2>1, <2>2, PortionRuns
  <2> QED BY <2>1, <2>3 DEF from, to
<1>9. PICK f : Runs(open, a, Hardware(f, 0, a.descs, first, 1))
  BY <1>2, WindowOpens
<1> HIDE DEF first, open
<1> DEFINE m == Hardware(f, 0, a.descs, first, 1)
           b == Hardware(s, 1, a.descs, last, 1)
<1>10. Runs(Lcd!sendData(s), m, b)
  <2>1. m.display = first /\ m.descs = a.descs
    BY HardwareHas
  <2> HIDE DEF m, last
  <2>2. Sends(m.display, 1, s, 0, Len(s), last)
    BY <1>8, <2>1
  <2>3. Runs(Lcd!sendData(s), m, Hardware(s, 1, m.descs, last, 1))
    BY <2>2, DataRuns
  <2> QED BY <2>1, <2>3
<1>11. Usable(b) /\ b.display.mem = Lcd!Drawn(mem, r, colors)
  <2> DEFINE chain == a.descs
             on == 1
             shown == [n \in Lcd!Pixels(r) |-> px[2 * n + 1]]
  <2>1. b = Hardware(s, on, chain, Half(mem, r, px, 2 * Size(r)), on) /\ chain \in Seq(Seq(Nat))
    BY UsableChain
  <2>2. colors = shown
    BY <1>5
  <2> HIDE DEF mem, b, chain, on
  <2>3. Usable(b) /\ b.display.mem = Lcd!Drawn(mem, r, shown)
    BY <1>2, <2>1, AllDrawn
  <2> QED BY <2>2, <2>3
<1> HIDE DEF m, b
<1>12. Runs(open \o Lcd!sendData(s), a, b)
  BY <1>9, <1>10, RunsThen DEF m
<1>13. Lcd!setPixel(x, y, <<c, Black>>) = open \o Lcd!sendData(s)
  <2>1. Lcd!EndOf(x, 1) = x /\ Lcd!EndOf(y, 1) = y
    BY DEF Lcd!EndOf
  <2>2. open = Lcd!setWriteWindow(x, y, 1, 1)
    BY <1>1 DEF open
  <2> QED BY <1>6, <2>1, <2>2, Zenon DEF Lcd!setPixel, Lcd!setWriteWindow
<1> QED BY <1>11, <1>12, <1>13 DEF Ends, colors

\* A command, with or without a byte of data, leaves the picture as it is.
LEMMA CmdEnds ==
  ASSUME NEW a, Usable(a), NEW op \in Nat PROVE Ends(Lcd!sendCmd(op), a, a.display.mem)
<1>1. PICK cols, rows, cmd, args, at, mem :
         a.display = Shown(cols, rows, cmd, args, at, mem) /\ mem = [cell \in Lcd!Cells |-> mem[cell]]
  BY DEF Usable
<1> DEFINE f == <<op>>
           b == Hardware(f, 0, a.descs, Shown(cols, rows, op, NoArgs, 0, mem), 1)
<1>2. Runs(Lcd!sendCmd(op), a, b)
  BY <1>1, CmdRuns
<1>3. a.display.mem = mem
  BY <1>1, ShownHas
<1>4. Usable(b) /\ b.display.mem = mem
  <2> DEFINE l == 0
             on == 1
             at0 == 0
             none == NoArgs
  <2>1. b = Hardware(f, l, a.descs, Shown(cols, rows, op, none, at0, mem), on)
    OBVIOUS
  <2>2. a.descs \in Seq(Seq(Nat))
    BY UsableChain
  <2> HIDE DEF f, b, l, on, at0, none
  <2> QED BY <1>1, <2>1, <2>2, ShownUsable
<1> QED BY <1>2, <1>3, <1>4 DEF Ends

LEMMA OneByteEnds ==
  ASSUME NEW a, Usable(a), NEW op \in Nat, op \notin {Lcd!CASET, Lcd!RASET, Lcd!RAMWR}, NEW byte \in Nat
  PROVE  Ends(Lcd!sendCmdData(op, <<byte>>), a, a.display.mem)
<1>1. PICK cols, rows, cmd, args, at, mem :
         a.display = Shown(cols, rows, cmd, args, at, mem) /\ mem = [cell \in Lcd!Cells |-> mem[cell]]
  BY DEF Usable
<1> DEFINE f == <<byte>>
           b == Hardware(f, 1, a.descs, Shown(cols, rows, op, f, 0, mem), 1)
<1>2. Runs(Lcd!sendCmdData(op, f), a, b)
  BY <1>1, OneByteRuns
<1>3. a.display.mem = mem
  BY <1>1, ShownHas
<1>4. Usable(b) /\ b.display.mem = mem
  <2> DEFINE on == 1
             at0 == 0
  <2>1. b = Hardware(f, on, a.descs, Shown(cols, rows, op, f, at0, mem), on)
    OBVIOUS
  <2>2. a.descs \in Seq(Seq(Nat))
    BY UsableChain
  <2> HIDE DEF f, b, on, at0
  <2> QED BY <1>1, <2>1, <2>2, ShownUsable
<1> QED BY <1>2, <1>3, <1>4 DEF Ends
-----------------------------------------------------------------------------
\* One more command.
LEMMA CmdThen ==
  ASSUME NEW p, NEW a, NEW m, Ends(p, a, m), NEW op \in Nat
  PROVE  Ends(p \o Lcd!sendCmd(op), a, m)
<1> DEFINE q == Lcd!sendCmd(op)
<1>1. \A b : Usable(b) /\ b.display.mem = m => Ends(q, b, m)
  BY CmdEnds
<1> HIDE DEF q
<1>2. Ends(p \o q, a, m)
  BY <1>1, EndsThen
<1> QED BY <1>2 DEF q

LEMMA OneByteThen ==
  ASSUME NEW p, NEW a, NEW m, Ends(p, a, m), NEW op \in Nat, op \notin {Lcd!CASET, Lcd!RASET, Lcd!RAMWR},
         NEW byte \in Nat
  PROVE  Ends(p \o Lcd!sendCmdData(op, <<byte>>), a, m)
<1> DEFINE q == Lcd!sendCmdData(op, <<byte>>)
<1>1. \A b : Usable(b) /\ b.display.mem = m => Ends(q, b, m)
  BY OneByteEnds
<1> HIDE DEF q
<1>2. Ends(p \o q, a, m)
  BY <1>1, EndsThen
<1> QED BY <1>2 DEF q

LEMMA WholeOnScreen ==
  Lcd!OnScreen(Lcd!Whole) /\ Lcd!Whole.x = 0 /\ Lcd!Whole.y = 0
  /\ Lcd!Whole.w = mWidth /\ Lcd!Whole.h = mHeight
  BY ScreenSize DEF Lcd!OnScreen, Lcd!Whole, Lcd!Area

\* The display is set up, and all of it is black.
LEMMA ResetEnds ==
  ASSUME NEW a, Usable(a)
  PROVE  Ends(Lcd!displayReset, a, Lcd!Drawn(a.display.mem, Lcd!Whole, Lcd!Plain(Lcd!Whole, Black)))
<1> DEFINE mem == a.display.mem
           n == Lcd!Drawn(mem, Lcd!Whole, Lcd!Plain(Lcd!Whole, Black))
           fill == Lcd!fillRect(0, 0, mWidth, mHeight, <<Black, Black>>)
           p1 == Lcd!sendCmd(Lcd!SLPOUT)
           p2 == p1 \o Lcd!sendCmdData(Lcd!COLMOD, <<85>>)
           p3 == p2 \o Lcd!sendCmdData(Lcd!MADCTL, <<32>>)
           p4 == p3 \o Lcd!sendCmd(Lcd!INVON)
           p5 == p4 \o Lcd!sendCmd(Lcd!NORON)
           p6 == p5 \o fill
           p7 == p6 \o Lcd!sendCmd(Lcd!DISPON)
<1>1. /\ Lcd!SLPOUT \in Nat /\ Lcd!INVON \in Nat /\ Lcd!NORON \in Nat /\ Lcd!DISPON \in Nat
      /\ Lcd!COLMOD \in Nat /\ Lcd!COLMOD \notin {Lcd!CASET, Lcd!RASET, Lcd!RAMWR}
      /\ Lcd!MADCTL \in Nat /\ Lcd!MADCTL \notin {Lcd!CASET, Lcd!RASET, Lcd!RAMWR}
      /\ 85 \in Nat /\ 32 \in Nat
  BY SMT DEF Lcd!SLPOUT, Lcd!INVON, Lcd!NORON, Lcd!DISPON, Lcd!COLMOD, Lcd!MADCTL, Lcd!CASET, Lcd!RASET, Lcd!RAMWR
<1>2. \A b : Usable(b) /\ b.display.mem = mem => Ends(fill, b, n)
  <2> SUFFICES ASSUME NEW b, Usable(b), b.display.mem = mem PROVE Ends(fill, b, n)
    OBVIOUS
  <2> DEFINE r == Lcd!Whole
  <2>1. Lcd!OnScreen(r) /\ r.x = 0 /\ r.y = 0 /\ r.w = mWidth /\ r.h = mHeight /\ Black \in Nat
    BY WholeOnScreen, ScreenSize
  <2>2. n = Lcd!Drawn(mem, r, Lcd!Plain(r, Black))
    OBVIOUS
  <2> HIDE DEF r, n
  <2>3. Ends(Lcd!fillRect(r.x, r.y, r.w, r.h, <<Black, Black>>), b, Lcd!Drawn(b.display.mem, r, Lcd!Plain(r, Black)))
    BY <2>1, FillEnds
  <2> HIDE DEF mem
  <2> QED BY <2>1, <2>2, <2>3
<1> HIDE DEF mem, n, fill
<1>3. Ends(p1, a, mem)
  BY <1>1, CmdEnds DEF mem
<1> HIDE DEF p1
<1>4. Ends(p2, a, mem)
  BY <1>1, <1>3, OneByteThen
<1> HIDE DEF p2
<1>5. Ends(p3, a, mem)
  BY <1>1, <1>4, OneByteThen
<1> HIDE DEF p3
<1>6. Ends(p4, a, mem)
  BY <1>1, <1>5, CmdThen
<1> HIDE DEF p4
<1>7. Ends(p5, a, mem)
  BY <1>1, <1>6, CmdThen
<1> HIDE DEF p5
<1>8. Ends(p6, a, n)
  BY <1>2, <1>7, EndsThen
<1> HIDE DEF p6
<1>9. Ends(p7, a, n)
  BY <1>1, <1>8, CmdThen
<1>10. p7 = Lcd!displayReset
  BY Zenon DEF p7, p6, p5, p4, p3, p2, p1, fill, Lcd!displayReset
<1> QED BY <1>9, <1>10 DEF mem, n

\* The chain of DMA buffers is given back.
LEMMA UnmountEnds ==
  ASSUME NEW a, Usable(a), NEW r, r = Lcd!Area(0, 0, 0, 0), NEW colors
  PROVE  Ends(Lcd!dmaUnmountBuffer, a, Lcd!Drawn(a.display.mem, r, colors))
<1>1. PICK cols, rows, cmd, args, at, mem :
         a.display = Shown(cols, rows, cmd, args, at, mem) /\ mem = [cell \in Lcd!Cells |-> mem[cell]]
  BY DEF Usable
<1>2. a.display.mem = mem
  BY <1>1, ShownHas
<1>3. Lcd!Drawn(mem, r, colors) = mem
  <2>1. r.x = 0 /\ r.y = 0 /\ r.w = 0 /\ r.h = 0
    BY DEF Lcd!Area
  <2>2. Lcd!EndOf(r.x, r.w) = -1
    BY <2>1 DEF Lcd!EndOf
  <2>3. r.x .. Lcd!EndOf(r.x, r.w) = {}
    BY <2>1, <2>2
  <2>4. \A cell : cell \notin Lcd!CellsOf(r)
    BY <2>3, Zenon DEF Lcd!CellsOf
  <2>5. Lcd!Drawn(mem, r, colors) = [cell \in Lcd!Cells |-> mem[cell]]
    BY <2>4, Zenon DEF Lcd!Drawn
  <2> QED BY <1>1, <2>5
<1> DEFINE none == <<>>
           m == Hardware(a.fifo, a.dc, a.descs, a.display, 0)
           b == Hardware(a.fifo, a.dc, none, a.display, 0)
           give == <<Lcd!Do("descs", none)>>
<1>4. none \in Seq(Seq(Nat))
  OBVIOUS
<1>5. Runs(Lcd!waitDone, a, m)
  BY WaitRuns
<1>6. m.on = 0 /\ m.fifo = a.fifo /\ m.dc = a.dc /\ m.display = a.display
  BY HardwareHas
<1>7. Runs(give, m, b)
  <2> DEFINE f == a.fifo
             l == a.dc
             c == a.descs
             d == a.display
  <2>1. m = Hardware(f, l, c, d, 0) /\ b = Hardware(f, l, none, d, 0)
    OBVIOUS
  <2> HIDE DEF none, m, b, f, l, c, d
  <2>2. Runs(<<Lcd!Do("descs", none)>>, Hardware(f, l, c, d, 0), Hardware(f, l, none, d, 0))
    BY <1>4, SetRuns
  <2> QED BY <2>1, <2>2
<1>8. Usable(b) /\ b.display.mem = mem
  <2> DEFINE on == 0
  <2>1. b = Hardware(a.fifo, a.dc, none, Shown(cols, rows, cmd, args, at, mem), on)
    BY <1>1
  <2> HIDE DEF none, b, on
  <2> QED BY <1>1, <1>4, <2>1, ShownUsable
<1> HIDE DEF m, b
<1>9. Runs(Lcd!waitDone \o give, a, b)
  BY <1>5, <1>7, RunsThen
<1>10. Lcd!dmaUnmountBuffer = Lcd!waitDone \o give
  BY Zenon DEF Lcd!dmaUnmountBuffer
<1> HIDE DEF give
<1>11. Runs(Lcd!dmaUnmountBuffer, a, b) /\ Usable(b) /\ b.display.mem = Lcd!Drawn(a.display.mem, r, colors)
  BY <1>2, <1>3, <1>8, <1>9, <1>10
<1> QED BY <1>11 DEF Ends
-----------------------------------------------------------------------------
\* A call whose steps draw what it asks for, as far as it is claimed, from wherever
\* the last one leads to.
LEMMA ClaimKeeps ==
  ASSUME SpiInv, NEW steps, NEW r, NEW colors, NEW claimed, Lcd!Call(steps, r, claimed),
         \A cell \in Lcd!CellsOf(r) : LET n == Lcd!Nth(r, cell) IN claimed[n] = Lcd!Unclaimed \/ claimed[n] = colors[n],
         \A a : Usable(a) /\ a.descs = descs => Ends(steps, a, Lcd!Drawn(a.display.mem, r, colors))
  PROVE  SpiInv'
<1>1. PICK a, b : LeadsTo(a, b)
  BY DEF SpiInv
<1>2. todo = <<>> /\ todo' = steps /\ screen' = Lcd!Drawn(screen, r, claimed)
      /\ UNCHANGED <<fifo, dc, descs, left, source, display>>
  BY DEF Lcd!Call
<1>3. a = b
  <2>1. Runs(<<>>, a, b)
    BY <1>1, <1>2 DEF LeadsTo
  <2> QED BY <2>1, RunsNothing
<1>4. Usable(a) /\ Shows(a.display.mem, screen) /\ a.descs = descs
  BY <1>1, <1>3 DEF LeadsTo
<1>5. PICK c : Runs(steps, a, c) /\ Usable(c) /\ c.display.mem = Lcd!Drawn(a.display.mem, r, colors)
  BY <1>4 DEF Ends
<1>6. Shows(c.display.mem, Lcd!Drawn(screen, r, claimed))
  <2> DEFINE mem == a.display.mem
             new == Lcd!Drawn(mem, r, colors)
             wanted == Lcd!Drawn(screen, r, claimed)
  <2> SUFFICES ASSUME NEW cell \in Lcd!Cells, wanted[cell] # Lcd!Unclaimed PROVE new[cell] = wanted[cell]
    BY <1>5 DEF Shows
  <2>1. /\ new[cell] = IF cell \in Lcd!CellsOf(r) THEN colors[Lcd!Nth(r, cell)] ELSE mem[cell]
        /\ wanted[cell] = IF cell \in Lcd!CellsOf(r) THEN claimed[Lcd!Nth(r, cell)] ELSE screen[cell]
    BY DEF Lcd!Drawn
  <2> HIDE DEF new, wanted
  <2>2. screen[cell] # Lcd!Unclaimed => mem[cell] = screen[cell]
    BY <1>4 DEF Shows
  <2> QED BY <2>1, <2>2
<1>7. LeadsTo(a, c)'
  BY <1>1, <1>2, <1>5, <1>6 DEF LeadsTo
<1> QED BY <1>2, <1>7 DEF SpiInv

LEMMA CallKeeps ==
  ASSUME SpiInv, NEW steps, NEW r, NEW colors, Lcd!Call(steps, r, colors),
         \A a : Usable(a) /\ a.descs = descs => Ends(steps, a, Lcd!Drawn(a.display.mem, r, colors))
  PROVE  SpiInv'
BY ClaimKeeps

\* The areas where the application draws.
LEMMA AreasOnScreen ==
  \A kind \in {"fill", "pixel", "blit", "again", "image", "pixels"} : \A r \in Areas[kind] : Lcd!OnScreen(r)
  BY LcdAssumption, SMT DEF Lcd!SpiAssumption

LEMMA DrawingKeeps ==
  ASSUME SpiInv, NEW c \in Nat, NEW r, Lcd!OnScreen(r)
  PROVE  /\ Lcd!Fill(r, c) => SpiInv'
         /\ Lcd!Pixel(r, c) => SpiInv'
         /\ Lcd!Blit(r, c) => SpiInv'
         /\ Lcd!SendImage(r, c) => SpiInv'
         /\ Lcd!SendPixels(r, c) => SpiInv'
<1>1. ASSUME Lcd!Fill(r, c) PROVE SpiInv'
  <2> DEFINE steps == Lcd!fillRect(r.x, r.y, r.w, r.h, <<c, Black>>)
             colors == Lcd!Plain(r, c)
  <2>1. \A a : Usable(a) /\ a.descs = descs => Ends(steps, a, Lcd!Drawn(a.display.mem, r, colors))
    BY FillEnds
  <2>2. Lcd!Call(steps, r, colors)
    BY <1>1 DEF Lcd!Fill
  <2> HIDE DEF steps, colors
  <2> QED BY <2>1, <2>2, CallKeeps
<1>2. ASSUME Lcd!Pixel(r, c) PROVE SpiInv'
  <2> DEFINE x == r.x
             y == r.y
             one == Lcd!Area(x, y, 1, 1)
             steps == Lcd!setPixel(x, y, <<c, Black>>)
             colors == Lcd!Plain(one, c)
  <2>1. x \in Nat /\ y \in Nat /\ x + 1 <= mWidth /\ y + 1 <= mHeight
    BY AreaHas, ScreenSize
  <2>2. Lcd!Call(steps, one, colors)
    BY <1>2, Zenon DEF Lcd!Pixel
  <2>3. \A a : Usable(a) /\ a.descs = descs => Ends(steps, a, Lcd!Drawn(a.display.mem, one, colors))
    <3> HIDE DEF x, y
    <3> QED BY <2>1, PixelEnds
  <2> HIDE DEF steps, one, colors
  <2> QED BY <2>2, <2>3, CallKeeps
<1>3. ASSUME Lcd!Blit(r, c) PROVE SpiInv'
  <2> DEFINE steps == Lcd!dmaBlit(r.x, r.y, r.w, r.h, Lcd!Image(r, c))
             colors == Lcd!Alternating(r, c)
  <2>1. \A a : Usable(a) /\ a.descs = descs => Ends(steps, a, Lcd!Drawn(a.display.mem, r, colors))
    BY BlitEnds
  <2>2. Lcd!Call(steps, r, colors)
    BY <1>3 DEF Lcd!Blit
  <2> HIDE DEF steps, colors
  <2> QED BY <2>1, <2>2, CallKeeps
<1>4. ASSUME Lcd!SendImage(r, c) PROVE SpiInv'
  <2> DEFINE steps == Lcd!setWriteWindow(r.x, r.y, r.w, r.h) \o Lcd!sendBuffer(Lcd!Image(r, c))
             colors == Resends(r, c)
             claimed == Lcd!FirstPortion(r, c)
  <2>1. \A a : Usable(a) /\ a.descs = descs => Ends(steps, a, Lcd!Drawn(a.display.mem, r, colors))
    BY ImageEnds
  <2>2. Lcd!Call(steps, r, claimed)
    BY <1>4 DEF Lcd!SendImage
  <2>3. ASSUME NEW k \in Lcd!Pixels(r) PROVE claimed[k] = Lcd!Unclaimed \/ claimed[k] = colors[k]
    <3>1. PICK a, b : LeadsTo(a, b)
      BY DEF SpiInv
    <3>2. Usable(b)
      BY <3>1 DEF LeadsTo
    <3> QED BY <3>2, ImageEnds
  <2>4. \A cell \in Lcd!CellsOf(r) : Lcd!Nth(r, cell) \in Lcd!Pixels(r)
    BY NthIsPixel DEF Lcd!Pixels, Size
  <2> HIDE DEF steps, colors, claimed
  <2>5. \A cell \in Lcd!CellsOf(r) :
            LET n == Lcd!Nth(r, cell) IN claimed[n] = Lcd!Unclaimed \/ claimed[n] = colors[n]
    BY <2>3, <2>4
  <2> QED BY <2>1, <2>2, <2>5, ClaimKeeps
<1>5. ASSUME Lcd!SendPixels(r, c) PROVE SpiInv'
  <2> DEFINE steps == (Lcd!setWriteWindow(r.x, r.y, r.w, r.h) \o Lcd!prepareSendPixels)
                      \o Lcd!FlattenSeq([i \in 1 .. r.w * r.h |-> Lcd!sendNextPixel(<<c, Black>>)])
             colors == Lcd!Plain(r, c)
  <2>1. \A a : Usable(a) /\ a.descs = descs => Ends(steps, a, Lcd!Drawn(a.display.mem, r, colors))
    BY PixelsEnd
  <2>2. Lcd!Call(steps, r, colors)
    BY <1>5 DEF Lcd!SendPixels
  <2> HIDE DEF steps, colors
  <2> QED BY <2>1, <2>2, CallKeeps
<1> QED BY <1>1, <1>2, <1>3, <1>4, <1>5

LEMMA AgainKeeps == ASSUME SpiInv, NEW r, Lcd!OnScreen(r), Lcd!BlitAgain(r) PROVE SpiInv'
<1> DEFINE px == Lcd!FlattenSeq(descs)
           steps == Lcd!dmaBlitAgain(r.x, r.y, r.w, r.h)
           colors == [n \in Lcd!Pixels(r) |-> px[2 * n + 1]]
<1>1. Len(px) >= 2 * Size(r) /\ Lcd!Call(steps, r, colors)
  BY Zenon DEF Lcd!BlitAgain, Size
<1>2. ASSUME NEW a, Usable(a), a.descs = descs PROVE Ends(steps, a, Lcd!Drawn(a.display.mem, r, colors))
  <2>1. px = Lcd!FlattenSeq(a.descs)
    BY <1>2
  <2> HIDE DEF px
  <2> QED BY <1>1, <1>2, <2>1, BlitAgainEnds
<1> HIDE DEF steps, colors, px
<1> QED BY <1>1, <1>2, CallKeeps

LEMMA ResetKeeps == ASSUME SpiInv, Lcd!Reset PROVE SpiInv'
<1> DEFINE r == Lcd!Whole
           colors == Lcd!Plain(r, Black)
           steps == Lcd!displayReset
<1>1. Lcd!Call(steps, r, colors)
  BY DEF Lcd!Reset
<1>2. \A a : Usable(a) /\ a.descs = descs => Ends(steps, a, Lcd!Drawn(a.display.mem, r, colors))
  BY ResetEnds
<1> HIDE DEF r, colors, steps
<1> QED BY <1>1, <1>2, CallKeeps

LEMMA UnmountKeeps == ASSUME SpiInv, Lcd!Unmount PROVE SpiInv'
<1> DEFINE r == Lcd!Area(0, 0, 0, 0)
           colors == Lcd!Plain(r, Black)
           steps == Lcd!dmaUnmountBuffer
<1>1. Lcd!Call(steps, r, colors)
  BY Zenon DEF Lcd!Unmount
<1>2. \A a : Usable(a) /\ a.descs = descs => Ends(steps, a, Lcd!Drawn(a.display.mem, r, colors))
  <2> HIDE DEF colors
  <2> QED BY UnmountEnds
<1> HIDE DEF r, colors, steps
<1> QED BY <1>1, <1>2, CallKeeps

LEMMA SpiKeeps == ASSUME SpiInv, [Lcd!Next]_spiVars PROVE SpiInv'
<1>1. CASE UNCHANGED spiVars
  <2>1. PICK a, b : LeadsTo(a, b)
    BY DEF SpiInv
  <2>2. LeadsTo(a, b)'
    BY <1>1, <2>1 DEF LeadsTo, spiVars
  <2> QED BY <1>1, <2>2 DEF SpiInv, spiVars
<1>2. ASSUME NEW c \in Colors,
             \/ \E r \in Areas.fill : Lcd!Fill(r, c)
             \/ \E r \in Areas.pixel : Lcd!Pixel(r, c)
             \/ \E r \in Areas.blit : Lcd!Blit(r, c)
             \/ \E r \in Areas.image : Lcd!SendImage(r, c)
             \/ \E r \in Areas.pixels : Lcd!SendPixels(r, c)
      PROVE  SpiInv'
  <2>1. PICK r : /\ Lcd!OnScreen(r)
                 /\ \/ Lcd!Fill(r, c) \/ Lcd!Pixel(r, c) \/ Lcd!Blit(r, c)
                    \/ Lcd!SendImage(r, c) \/ Lcd!SendPixels(r, c)
    BY <1>2, AreasOnScreen, Zenon
  <2>2. c \in Nat
    BY ScreenSize
  <2> QED BY <2>1, <2>2, DrawingKeeps
<1>3. ASSUME NEW r \in Areas.again, Lcd!BlitAgain(r) PROVE SpiInv'
  <2>1. Lcd!OnScreen(r)
    BY AreasOnScreen, Zenon
  <2> QED BY <1>3, <2>1, AgainKeeps
<1>4. \/ Lcd!Step \/ Lcd!Shift \/ Lcd!Reset \/ Lcd!Unmount
      \/ \E r \in Areas.again : Lcd!BlitAgain(r)
      \/ \E c \in Colors : \/ \E r \in Areas.fill : Lcd!Fill(r, c)
                           \/ \E r \in Areas.pixel : Lcd!Pixel(r, c)
                           \/ \E r \in Areas.blit : Lcd!Blit(r, c)
                           \/ \E r \in Areas.image : Lcd!SendImage(r, c)
                           \/ \E r \in Areas.pixels : Lcd!SendPixels(r, c)
      \/ UNCHANGED spiVars
  BY Zenon DEF Lcd!Next
<1> QED BY <1>1, <1>2, <1>3, <1>4, StepKeeps, ShiftKeeps, ResetKeeps, UnmountKeeps, Zenon

LEMMA SpiBegins == ASSUME Lcd!Init PROVE SpiInv
<1> DEFINE a == Hardware(fifo, dc, descs, display, 0)
           mem == [cell \in Lcd!Cells |-> Black]
           none == NoArgs
<1>1. a.fifo = fifo /\ a.dc = dc /\ a.descs = descs /\ a.display = display
  BY HardwareHas
<1> HIDE DEF a
<1>2. display = Shown(<<0, 0>>, <<0, 0>>, 0, none, 0, mem) /\ screen = mem
  BY Zenon DEF Lcd!Init, Shown, NoArgs
<1>3. mem = [cell \in Lcd!Cells |-> mem[cell]]
  BY Zenon
<1>4. descs \in Seq(Seq(Nat)) /\ left = 0 /\ todo = <<>>
  BY DEF Lcd!Init
<1> HIDE DEF mem, none
<1>5. \E cols, rows, cmd, args, at, m :
         a.display = Shown(cols, rows, cmd, args, at, m) /\ m = [cell \in Lcd!Cells |-> m[cell]]
  <2> DEFINE z == 0
             zz == <<0, 0>>
  <2>1. a.display = Shown(zz, zz, z, none, z, mem)
    BY <1>1, <1>2
  <2> HIDE DEF z, zz
  <2> WITNESS zz, zz, z, none, z, mem
  <2> QED BY <1>3, <2>1
<1>6. Usable(a)
  BY <1>1, <1>4, <1>5 DEF Usable
<1>7. Runs(todo, a, a)
  BY <1>4, RunsNothing
<1>8. Shows(a.display.mem, screen)
  BY <1>1, <1>2, ShownHas DEF Shows
<1>9. Sends(display, dc, DataOf(source[1], fifo, descs), source[2], left, a.display)
  BY <1>1, <1>4, SendsNone
<1>10. ~(left > 0)
  BY <1>4
<1>11. LeadsTo(a, a)
  BY <1>1, <1>6, <1>7, <1>8, <1>9, <1>10 DEF LeadsTo
<1> QED BY <1>4, <1>10, <1>11 DEF SpiInv

LEMMA SpiShows == ASSUME SpiInv PROVE DisplayShowsCalls
<1>1. PICK a, b : LeadsTo(a, b)
  BY DEF SpiInv
<1> SUFFICES ASSUME todo = <<>>, ~(left > 0) PROVE Shows(display.mem, screen)
  BY DEF DisplayShowsCalls, Lcd!DisplayShowsCalls, Lcd!busy, Shows
<1>2. a = b
  <2>1. Runs(<<>>, a, b)
    BY <1>1 DEF LeadsTo
  <2> QED BY <2>1, RunsNothing
<1>3. left = 0
  BY DEF SpiInv
<1>4. display = a.display
  BY <1>1, <1>3, SendsNone DEF LeadsTo
<1> QED BY <1>1, <1>2, <1>4 DEF LeadsTo

\* When the driver has nothing more to do and the bus is silent the display shows what
\* the application has drawn, on a display, with a FIFO and with DMA buffers of any
\* size: no byte of a transaction was replaced, and the D/C pin not switched, before
\* the hardware had sent it, and every window, every DMA chain, every repeated filling
\* and the first portion of what spiSend() sends end up where they belong. Its other
\* portions repeat the first (spi.cpp:159): nothing is claimed of their pixels.
THEOREM DisplayShowsCallsHolds == MCSpec => []DisplayShowsCalls
<1>1. MCInit => SpiInv
  BY SpiBegins DEF MCInit
<1>2. SpiInv /\ [MCNext]_allVars => SpiInv'
  BY StepOfEach, SpiKeeps
<1>3. SpiInv => DisplayShowsCalls
  BY SpiShows
<1> QED BY <1>1, <1>2, <1>3, PTL DEF MCSpec
-----------------------------------------------------------------------------
(* MonoFrame. *)

-----------------------------------------------------------------------------
(* MonoFrame. *)

LEMMA FrameSize ==
  Width \in Nat \ {0} /\ Height \in Nat \ {0} /\ Height % 8 = 0
BY FrameAssumption DEF Frame!MonoFrameAssumption

\* The pixels of w columns from x on and h rows from y on.
Box(x, y, w, h) == (x .. x + w - 1) \X (y .. y + h - 1)

\* The rows lo to hi of a page.
LEMMA PageBitsAre ==
  ASSUME NEW x \in Int, NEW page \in Int, NEW w \in Int, NEW lo \in Int, NEW hi \in Int
  PROVE  Frame!PageBits(x, page, w, lo .. hi) = Box(x, 8 * page + lo, w, hi - lo + 1)
<1> DEFINE lit == Frame!PageBits(x, page, w, lo .. hi)
           box == Box(x, 8 * page + lo, w, hi - lo + 1)
<1>1. ASSUME NEW p \in lit PROVE p \in box
  <2>1. PICK i \in x .. x + w - 1, bit \in lo .. hi : p = <<i, 8 * page + bit>>
    BY DEF Frame!PageBits
  <2>2. 8 * page + bit \in 8 * page + lo .. 8 * page + lo + (hi - lo + 1) - 1
    OBVIOUS
  <2> QED BY <2>1, <2>2 DEF Box
<1>2. ASSUME NEW p \in box PROVE p \in lit
  <2>1. PICK i \in x .. x + w - 1, j \in 8 * page + lo .. 8 * page + lo + (hi - lo + 1) - 1 : p = <<i, j>>
    BY DEF Box
  <2> DEFINE bit == j - 8 * page
  <2>2. bit \in lo .. hi /\ 8 * page + bit = j
    OBVIOUS
  <2> HIDE DEF bit
  <2> QED BY <2>1, <2>2 DEF Frame!PageBits
<1> QED BY <1>1, <1>2

\* Rows over the pages, from one on.
LEMMA LowerPagesAre ==
  ASSUME NEW x \in Int, NEW page \in Int, NEW w \in Int, NEW rows \in Nat \ {0}
  PROVE  Frame!LowerPages(x, page, w, rows) = Box(x, 8 * page, w, rows)
<1> DEFINE last == (rows - 1) \div 8
           Part(k) == Frame!PageBits(x, page + k, w, 0 .. Frame!Smaller(8, rows - 8 * k) - 1)
           size(k) == Frame!Smaller(8, rows - 8 * k)
           box == Box(x, 8 * page, w, rows)
<1>1. last \in Nat /\ 8 * last <= rows - 1 /\ rows - 1 < 8 * (last + 1)
  OBVIOUS
<1>2. ASSUME NEW k \in 0 .. last PROVE /\ size(k) \in 1 .. 8 /\ size(k) <= rows - 8 * k
                                       /\ Part(k) = Box(x, 8 * page + 8 * k, w, size(k))
  <2>1. size(k) \in 1 .. 8 /\ size(k) <= rows - 8 * k
    BY <1>1 DEF Frame!Smaller
  <2> DEFINE n == size(k)
             pg == page + k
  <2>2. n \in 1 .. 8 /\ pg \in Int /\ 8 * pg + 0 = 8 * page + 8 * k /\ (n - 1) - 0 + 1 = n
    BY <2>1
  <2>3. Part(k) = Frame!PageBits(x, pg, w, 0 .. n - 1)
    OBVIOUS
  <2> HIDE DEF n, pg
  <2>4. Frame!PageBits(x, pg, w, 0 .. n - 1) = Box(x, 8 * pg + 0, w, (n - 1) - 0 + 1)
    <3>1. n - 1 \in Int /\ 0 \in Int
      BY <2>2
    <3> QED BY <2>2, <3>1, PageBitsAre
  <2> QED BY <2>1, <2>2, <2>3, <2>4 DEF n
<1>3. Frame!LowerPages(x, page, w, rows) = UNION {Part(k) : k \in 0 .. last}
  BY DEF Frame!LowerPages
<1>4. ASSUME NEW k \in 0 .. last, NEW p \in Part(k) PROVE p \in box
  <2>1. PICK i \in x .. x + w - 1, j \in 8 * page + 8 * k .. 8 * page + 8 * k + size(k) - 1 : p = <<i, j>>
    BY <1>2 DEF Box
  <2>2. j \in 8 * page .. 8 * page + rows - 1
    BY <1>2
  <2> QED BY <2>1, <2>2 DEF Box
<1>5. ASSUME NEW p \in box PROVE \E k \in 0 .. last : p \in Part(k)
  <2>1. PICK i \in x .. x + w - 1, j \in 8 * page .. 8 * page + rows - 1 : p = <<i, j>>
    BY DEF Box
  <2> DEFINE row == j - 8 * page
             k == row \div 8
  <2>2. row \in 0 .. rows - 1
    OBVIOUS
  <2>3. k \in Nat /\ 8 * k <= row /\ row < 8 * (k + 1)
    BY <2>2
  <2>4. k \in 0 .. last
    BY <1>1, <2>2, <2>3
  <2>5. row - 8 * k < size(k)
    BY <2>2, <2>3 DEF Frame!Smaller
  <2>6. j \in 8 * page + 8 * k .. 8 * page + 8 * k + size(k) - 1
    <3>1. size(k) \in 1 .. 8 /\ j = 8 * page + row
      BY <1>2, <2>4
    <3> HIDE DEF size, k
    <3> QED BY <2>2, <2>3, <2>5, <3>1
  <2>7. p \in Part(k)
    BY <1>2, <2>1, <2>4, <2>6 DEF Box
  <2> QED BY <2>4, <2>7
<1> HIDE DEF Part, last, size
<1> QED BY <1>3, <1>4, <1>5

LEMMA ConstrainIs ==
  ASSUME NEW v \in Int, NEW max \in Nat \ {0}
  PROVE  Frame!constrain(v, max) = Frame!Clip(v, max) /\ Frame!Clip(v, max) \in 0 .. max - 1
BY DEF Frame!constrain, Frame!Clip

\* A rectangle that begins on the frame, as far as it is there.
LEMMA RectFrom ==
  ASSUME NEW x \in 0 .. Width - 1, NEW y \in 0 .. Height - 1, NEW w \in Nat, NEW h \in Nat,
         NEW ww, NEW hh, ww = Frame!Smaller(w, Width - x), hh = Frame!Smaller(h, Height - y)
  PROVE  /\ Frame!bitOpRect(x, y, w, h) = Box(x, y, ww, hh)
         /\ Box(x, y, ww, hh) = {p \in Frame!Screen : p[1] \in x .. x + w - 1 /\ p[2] \in y .. y + h - 1}
<1> DEFINE yoffs == y % 8
           first == Frame!Smaller(hh, 8 - yoffs)
           page == y \div 8
           rest == hh - first
<1>1. Frame!constrain(x, Width) = x /\ Frame!constrain(y, Height) = y
  BY FrameSize DEF Frame!constrain
<1>2. ww \in Nat /\ ww <= Width - x /\ ww <= w /\ (ww = w \/ ww = Width - x)
      /\ hh \in Nat /\ hh <= Height - y /\ hh <= h /\ (hh = h \/ hh = Height - y)
  BY FrameSize DEF Frame!Smaller
<1>3. yoffs \in 0 .. 7 /\ page \in Nat /\ 8 * page + yoffs = y
  OBVIOUS
<1>4. first \in Nat /\ first <= hh /\ first <= 8 - yoffs /\ (first = hh \/ first = 8 - yoffs)
  BY <1>2, <1>3 DEF Frame!Smaller
<1>5. Frame!bitOpRect(x, y, w, h)
      = Frame!PageBits(x, page, ww, yoffs .. yoffs + first - 1) \cup
        (IF first >= hh THEN {} ELSE Frame!LowerPages(x, page + 1, ww, rest))
  BY <1>1 DEF Frame!bitOpRect
<1> HIDE DEF yoffs, first, page
<1>6. Frame!PageBits(x, page, ww, yoffs .. yoffs + first - 1) = Box(x, y, ww, first)
  <2>1. Frame!PageBits(x, page, ww, yoffs .. yoffs + first - 1)
        = Box(x, 8 * page + yoffs, ww, (yoffs + first - 1) - yoffs + 1)
    <3> DEFINE hi == yoffs + first - 1
    <3>1. x \in Int /\ page \in Int /\ ww \in Int /\ yoffs \in Int /\ hi \in Int
      BY <1>2, <1>3, <1>4, FrameSize
    <3> HIDE DEF hi
    <3>2. Frame!PageBits(x, page, ww, yoffs .. hi) = Box(x, 8 * page + yoffs, ww, hi - yoffs + 1)
      BY <3>1, PageBitsAre
    <3> QED BY <3>2 DEF hi
  <2>2. (yoffs + first - 1) - yoffs + 1 = first
    BY <1>3, <1>4
  <2> QED BY <1>3, <2>1, <2>2
<1>7. Box(x, y, ww, hh) = {p \in Frame!Screen : p[1] \in x .. x + w - 1 /\ p[2] \in y .. y + h - 1}
  BY <1>2, FrameSize DEF Box, Frame!Screen
<1>8. CASE first >= hh
  <2>1. first = hh
    BY <1>2, <1>4, <1>8
  <2> QED BY <1>5, <1>6, <1>7, <1>8, <2>1
<1>9. CASE ~(first >= hh)
  <2>1. rest \in Nat \ {0} /\ first = 8 - yoffs /\ page + 1 \in Int /\ 8 * (page + 1) = y + first /\ first + rest = hh
    BY <1>2, <1>3, <1>4, <1>9
  <2> DEFINE pg == page + 1
  <2> HIDE DEF rest, pg
  <2>2. Frame!LowerPages(x, pg, ww, rest) = Box(x, 8 * pg, ww, rest)
    <3>1. pg \in Int /\ x \in Int /\ ww \in Int
      BY <1>2, <2>1, FrameSize DEF pg
    <3> QED BY <2>1, <3>1, LowerPagesAre
  <2>3. Box(x, y, ww, first) \cup Box(x, y + first, ww, rest) = Box(x, y, ww, hh)
    BY <1>4, <2>1, FrameSize DEF Box
  <2> QED BY <1>5, <1>6, <1>7, <1>9, <2>1, <2>2, <2>3 DEF pg
<1> QED BY <1>7, <1>8, <1>9

\* Wherever its corner is.
LEMMA RectIs ==
  ASSUME NEW x \in Int, NEW y \in Int, NEW w \in Nat, NEW h \in Nat
  PROVE  Frame!bitOpRect(x, y, w, h)
         = {p \in Frame!Screen : /\ p[1] \in Frame!Clip(x, Width) .. Frame!Clip(x, Width) + w - 1
                                 /\ p[2] \in Frame!Clip(y, Height) .. Frame!Clip(y, Height) + h - 1}
<1> DEFINE cx == Frame!Clip(x, Width)
           cy == Frame!Clip(y, Height)
<1>1. /\ Frame!constrain(x, Width) = cx /\ cx \in 0 .. Width - 1
      /\ Frame!constrain(y, Height) = cy /\ cy \in 0 .. Height - 1
  BY FrameSize, ConstrainIs
<1>2. Frame!constrain(cx, Width) = cx /\ Frame!constrain(cy, Height) = cy
  BY <1>1, FrameSize DEF Frame!constrain
<1> HIDE DEF cx, cy
<1>3. Frame!bitOpRect(x, y, w, h) = Frame!bitOpRect(cx, cy, w, h)
  BY <1>1, <1>2 DEF Frame!bitOpRect
<1>4. Frame!bitOpRect(cx, cy, w, h)
      = {p \in Frame!Screen : p[1] \in cx .. cx + w - 1 /\ p[2] \in cy .. cy + h - 1}
  BY <1>1, RectFrom
<1> QED BY <1>3, <1>4 DEF cx, cy

LEMMA RectDraws == ASSUME Frame!DrawRect PROVE ShapesDrawn'
<1>1. PICK c \in Calls.rect :
        /\ call' = [f |-> "rect", args |-> c] /\ before' = frame
        /\ frame' = LET shape == Frame!bitOpRect(c.x, c.y, c.w, c.h)
                    IN  IF c.op = "invert" THEN Frame!invertRect(frame, shape)
                        ELSE Frame!fillRect(frame, shape, c.op = "set")
  BY DEF Frame!DrawRect, Frame!Draw, Frame!Drawn
<1>2. c.x \in Int /\ c.y \in Int /\ c.w \in Nat /\ c.h \in Nat /\ c.op \in {"set", "clear", "invert"}
  BY FrameAssumption DEF Frame!MonoFrameAssumption, Frame!LegalCalls
<1> DEFINE cut == {p \in Frame!Screen : /\ p[1] \in Frame!Clip(c.x, Width) .. Frame!Clip(c.x, Width) + c.w - 1
                                        /\ p[2] \in Frame!Clip(c.y, Height) .. Frame!Clip(c.y, Height) + c.h - 1}
<1>3. Frame!bitOpRect(c.x, c.y, c.w, c.h) = cut
  BY <1>2, RectIs
<1>4. /\ c.op = "set" => frame' = frame \cup cut
      /\ c.op = "clear" => frame' = frame \ cut
      /\ c.op = "invert" => frame' = (frame \ cut) \cup (cut \ frame)
  BY <1>1, <1>3 DEF Frame!fillRect, Frame!invertRect
<1>5. Frame!RectDrawn(call.args)'
  <2>1. call'.args = c
    BY <1>1
  <2> QED BY <1>1, <1>2, <1>4, <2>1 DEF Frame!RectDrawn
<1>6. call'.f = "rect"
  BY <1>1
<1> QED BY <1>5, <1>6 DEF ShapesDrawn, Frame!ShapesDrawn

\* One row of a page.
LEMMA RowIs ==
  ASSUME NEW x \in Int, NEW y \in 0 .. Height - 1, NEW w \in Int
  PROVE  Frame!PageBits(x, y \div 8, w, {y % 8}) = Box(x, y, w, 1)
<1> DEFINE bit == y % 8
           page == y \div 8
           last == y % 8
<1>1. bit \in Int /\ page \in Int /\ last \in Int /\ 8 * page + bit = y /\ last - bit + 1 = 1
  BY FrameSize
<1>2. {bit} = bit .. last
  BY <1>1
<1> HIDE DEF bit, page, last
<1>3. Frame!PageBits(x, page, w, bit .. last) = Box(x, 8 * page + bit, w, last - bit + 1)
  BY <1>1, PageBitsAre
<1> QED BY <1>1, <1>2, <1>3 DEF bit, page

LEMMA HLineDraws ==
  ASSUME NEW c \in Calls.straight, call' = [f |-> "hLine", args |-> c], before' = frame,
         frame' = Frame!hLine(frame, c.a, c.b, c.at, c.color)
  PROVE  ShapesDrawn'
<1> DEFINE shape == {p \in Frame!Screen : p[1] \in Frame!Between(c.a, c.b, Width) /\ p[2] = c.at}
           x1 == Frame!constrain(c.a, Width)
           x2 == Frame!constrain(c.b, Width)
           from == Frame!Smaller(x1, x2)
           len == x1 + x2 - 2 * from + 1
<1>1. c.a \in Int /\ c.b \in Int /\ c.at \in Int /\ c.color \in BOOLEAN
  BY FrameAssumption DEF Frame!MonoFrameAssumption, Frame!LegalCalls
<1>2. /\ x1 = Frame!Clip(c.a, Width) /\ x1 \in 0 .. Width - 1
      /\ x2 = Frame!Clip(c.b, Width) /\ x2 \in 0 .. Width - 1
  BY <1>1, FrameSize, ConstrainIs
<1>3. frame' = IF c.at \notin 0 .. Height - 1 THEN frame
               ELSE Frame!fillRect(frame, Frame!PageBits(from, c.at \div 8, len, {c.at % 8}), c.color)
  BY DEF Frame!hLine
<1> HIDE DEF x1, x2
<1>4. /\ from \in 0 .. Width - 1 /\ len \in Nat /\ from + len <= Width
      /\ \A v \in 0 .. Width - 1 : v \in from .. from + len - 1 <=>
            (x1 <= v /\ v <= x2) \/ (x2 <= v /\ v <= x1)
  BY <1>2, FrameSize DEF Frame!Smaller
<1> HIDE DEF from, len
<1>5. Frame!Between(c.a, c.b, Width) = from .. from + len - 1
  BY <1>2, <1>4, FrameSize DEF Frame!Between
<1>6. CASE c.at \notin 0 .. Height - 1
  <2>1. shape = {}
    BY <1>1, <1>6, FrameSize DEF Frame!Screen
  <2>2. frame' = frame
    BY <1>3, <1>6
  <2>3. Frame!HLineDrawn(call.args)'
    BY <2>1, <2>2 DEF Frame!HLineDrawn, Frame!Paint
  <2> QED BY <2>3 DEF ShapesDrawn, Frame!ShapesDrawn
<1>7. CASE c.at \in 0 .. Height - 1
  <2>1. Frame!PageBits(from, c.at \div 8, len, {c.at % 8}) = Box(from, c.at, len, 1)
    <3>1. from \in Int /\ len \in Int
      BY <1>4, FrameSize
    <3> QED BY <1>7, <3>1, RowIs
  <2>2. Box(from, c.at, len, 1) = shape
    BY <1>1, <1>4, <1>5, <1>7, FrameSize DEF Box, Frame!Screen
  <2> HIDE DEF shape
  <2>3. frame' = Frame!fillRect(frame, shape, c.color)
    BY <1>3, <1>7, <2>1, <2>2
  <2>4. Frame!HLineDrawn(call.args)'
    BY <1>1, <2>3 DEF Frame!HLineDrawn, Frame!Paint, Frame!fillRect, shape
  <2> QED BY <2>4 DEF ShapesDrawn, Frame!ShapesDrawn
<1> QED BY <1>6, <1>7

LEMMA PixelDraws ==
  ASSUME NEW c \in Calls.straight, call' = [f |-> "pixel", args |-> c], before' = frame,
         frame' = Frame!setPixel(frame, c.at, c.a, c.color)
  PROVE  ShapesDrawn'
<1> DEFINE shape == {p \in Frame!Screen : p = <<c.at, c.a>>}
<1>1. c.a \in Int /\ c.at \in Int /\ c.color \in BOOLEAN
  BY FrameAssumption DEF Frame!MonoFrameAssumption, Frame!LegalCalls
<1>2. CASE c.at \notin 0 .. Width - 1 \/ c.a \notin 0 .. Height - 1
  <2>1. shape = {}
    BY <1>1, <1>2, FrameSize DEF Frame!Screen
  <2>2. frame' = frame
    BY <1>2 DEF Frame!setPixel
  <2>3. Frame!PixelDrawn(call.args)'
    BY <2>1, <2>2 DEF Frame!PixelDrawn, Frame!Paint
  <2> QED BY <2>3 DEF ShapesDrawn, Frame!ShapesDrawn
<1>3. CASE c.at \in 0 .. Width - 1 /\ c.a \in 0 .. Height - 1
  <2>1. Frame!PageBits(c.at, c.a \div 8, 1, {c.a % 8}) = Box(c.at, c.a, 1, 1)
    BY <1>1, <1>3, RowIs
  <2>2. Box(c.at, c.a, 1, 1) = shape
    BY <1>1, <1>3, FrameSize DEF Box, Frame!Screen
  <2>3. frame' = Frame!fillRect(frame, shape, c.color)
    BY <1>3, <2>1, <2>2 DEF Frame!setPixel
  <2> HIDE DEF shape
  <2>4. Frame!PixelDrawn(call.args)'
    BY <1>1, <2>3 DEF Frame!PixelDrawn, Frame!Paint, Frame!fillRect, shape
  <2> QED BY <2>4 DEF ShapesDrawn, Frame!ShapesDrawn
<1> QED BY <1>2, <1>3

\* The parts of a vertical line, from page p1 to page p2.
LEMMA ColumnIs ==
  ASSUME NEW x \in 0 .. Width - 1, NEW y1 \in 0 .. Height - 1, NEW y2 \in 0 .. Height - 1, y1 <= y2,
         NEW p1, p1 = y1 \div 8, NEW p2, p2 = y2 \div 8
  PROVE  /\ p1 = p2 => Frame!PageBits(x, p1, 1, (y1 % 8 .. 7) \cap (0 .. y2 % 8)) = Box(x, y1, 1, y2 - y1 + 1)
         /\ p1 # p2 => Frame!PageBits(x, p1, 1, y1 % 8 .. 7) \cup Frame!PageBits(x, p2, 1, 0 .. y2 % 8)
                       \cup UNION {Frame!PageBits(x, p, 1, 0 .. 7) : p \in p1 + 1 .. p2 - 1}
                       = Box(x, y1, 1, y2 - y1 + 1)
<1> DEFINE b1 == y1 % 8
           b2 == y2 % 8
<1>1. /\ p1 \in Int /\ b1 \in 0 .. 7 /\ y1 = 8 * p1 + b1
      /\ p2 \in Int /\ b2 \in 0 .. 7 /\ y2 = 8 * p2 + b2 /\ p1 <= p2
      /\ y1 \in Int /\ y2 \in Int /\ x \in Int
  BY FrameSize
<1> HIDE DEF b1, b2
<1>2. CASE p1 = p2
  <2>1. (b1 .. 7) \cap (0 .. b2) = b1 .. b2 /\ b2 - b1 + 1 = y2 - y1 + 1
    BY <1>1, <1>2
  <2>2. Frame!PageBits(x, p1, 1, b1 .. b2) = Box(x, 8 * p1 + b1, 1, b2 - b1 + 1)
    BY <1>1, PageBitsAre
  <2>3. Frame!PageBits(x, p1, 1, (b1 .. 7) \cap (0 .. b2)) = Box(x, y1, 1, y2 - y1 + 1)
    BY <1>1, <2>1, <2>2
  <2> QED BY <1>2, <2>3 DEF b1, b2
<1>3. CASE p1 # p2
  <2> DEFINE upper == Frame!PageBits(x, p1, 1, b1 .. 7)
             lower == Frame!PageBits(x, p2, 1, 0 .. b2)
             between == UNION {Frame!PageBits(x, p, 1, 0 .. 7) : p \in p1 + 1 .. p2 - 1}
             all == Box(x, y1, 1, y2 - y1 + 1)
  <2>1. upper = Box(x, y1, 1, 8 - b1)
    <3>1. upper = Box(x, 8 * p1 + b1, 1, 7 - b1 + 1)
      BY <1>1, PageBitsAre
    <3>2. 7 - b1 + 1 = 8 - b1
      BY <1>1
    <3> QED BY <1>1, <3>1, <3>2
  <2>2. lower = Box(x, 8 * p2, 1, b2 + 1)
    <3>1. lower = Box(x, 8 * p2 + 0, 1, b2 - 0 + 1)
      BY <1>1, PageBitsAre
    <3>2. 8 * p2 + 0 = 8 * p2 /\ b2 - 0 + 1 = b2 + 1
      BY <1>1
    <3> QED BY <3>1, <3>2
  <2>3. \A p \in p1 + 1 .. p2 - 1 : Frame!PageBits(x, p, 1, 0 .. 7) = Box(x, 8 * p, 1, 8)
    <3>1. ASSUME NEW p \in p1 + 1 .. p2 - 1 PROVE Frame!PageBits(x, p, 1, 0 .. 7) = Box(x, 8 * p, 1, 8)
      <4> DEFINE lo == 0
                 hi == 7
      <4>1. p \in Int /\ lo \in Int /\ hi \in Int /\ 8 * p + lo = 8 * p /\ hi - lo + 1 = 8
        BY <1>1
      <4> HIDE DEF lo, hi
      <4>2. Frame!PageBits(x, p, 1, lo .. hi) = Box(x, 8 * p + lo, 1, hi - lo + 1)
        BY <1>1, <4>1, PageBitsAre
      <4> QED BY <4>1, <4>2 DEF lo, hi
    <3> QED BY <3>1
  <2>4. between \subseteq all
    <3>1. ASSUME NEW p \in p1 + 1 .. p2 - 1 PROVE Box(x, 8 * p, 1, 8) \subseteq all
      BY <1>1 DEF Box
    <3> HIDE DEF all
    <3> QED BY <2>3, <3>1
  <2>5. ASSUME NEW q \in all PROVE q \in upper \cup lower \cup between
    <3>1. PICK v \in y1 .. y2 : q = <<x, v>>
      BY <1>1 DEF Box
    <3> DEFINE p == v \div 8
    <3>2. p \in p1 .. p2 /\ 8 * p <= v /\ v < 8 * p + 8 /\ v \in Int
      BY <1>1, <3>1
    <3> HIDE DEF p, upper, lower, between
    <3>3. CASE p = p1
      <4>1. q \in Box(x, y1, 1, 8 - b1)
        BY <1>1, <3>1, <3>2, <3>3 DEF Box
      <4> QED BY <2>1, <4>1
    <3>4. CASE p = p2
      <4>1. q \in Box(x, 8 * p2, 1, b2 + 1)
        BY <1>1, <3>1, <3>2, <3>4 DEF Box
      <4> QED BY <2>2, <4>1
    <3>5. CASE p # p1 /\ p # p2
      <4>1. p \in p1 + 1 .. p2 - 1
        BY <1>1, <3>2, <3>5
      <4>2. q \in Box(x, 8 * p, 1, 8)
        BY <1>1, <3>1, <3>2 DEF Box
      <4> QED BY <2>3, <4>1, <4>2 DEF between
    <3> QED BY <3>3, <3>4, <3>5
  <2>6. upper \subseteq all /\ lower \subseteq all
    BY <1>1, <1>3, <2>1, <2>2, SMTT(30) DEF Box
  <2>7. upper \cup lower \cup between = all
    <3> HIDE DEF upper, lower, between, all
    <3> QED BY <2>4, <2>5, <2>6
  <2> QED BY <1>3, <2>7 DEF b1, b2
<1> QED BY <1>2, <1>3

LEMMA VLineDraws ==
  ASSUME NEW c \in Calls.straight, call' = [f |-> "vLine", args |-> c], before' = frame,
         frame' = Frame!vLine(frame, c.a, c.b, c.at, c.color)
  PROVE  ShapesDrawn'
<1> DEFINE shape == {p \in Frame!Screen : p[1] = c.at /\ p[2] \in Frame!Between(c.a, c.b, Height)}
           c1 == Frame!constrain(c.a, Height)
           c2 == Frame!constrain(c.b, Height)
           y1 == Frame!Smaller(c1, c2)
           y2 == c1 + c2 - y1
           p1 == y1 \div 8
           p2 == y2 \div 8
           one == Frame!PageBits(c.at, p1, 1, (y1 % 8 .. 7) \cap (0 .. y2 % 8))
           upper == Frame!PageBits(c.at, p1, 1, y1 % 8 .. 7)
           lower == Frame!PageBits(c.at, p2, 1, 0 .. y2 % 8)
           between == UNION {Frame!PageBits(c.at, p, 1, 0 .. 7) : p \in p1 + 1 .. p2 - 1}
<1>1. c.a \in Int /\ c.b \in Int /\ c.at \in Int /\ c.color \in BOOLEAN
  BY FrameAssumption DEF Frame!MonoFrameAssumption, Frame!LegalCalls
<1>2. /\ c1 = Frame!Clip(c.a, Height) /\ c1 \in 0 .. Height - 1
      /\ c2 = Frame!Clip(c.b, Height) /\ c2 \in 0 .. Height - 1
  BY <1>1, FrameSize, ConstrainIs
<1>3. frame' = IF c.at \notin 0 .. Width - 1 THEN frame
               ELSE IF p1 = p2 THEN Frame!fillRect(frame, one, c.color)
               ELSE IF c.color THEN frame \cup upper \cup lower \cup between
                    ELSE frame \ between
  BY DEF Frame!vLine
<1> HIDE DEF c1, c2
<1>4. /\ y1 \in 0 .. Height - 1 /\ y2 \in 0 .. Height - 1 /\ y1 <= y2
      /\ {y1, y2} = {c1, c2}
      /\ \A v \in 0 .. Height - 1 : v \in y1 .. y2 <=> (c1 <= v /\ v <= c2) \/ (c2 <= v /\ v <= c1)
  BY <1>2, FrameSize DEF Frame!Smaller
<1>5. p1 = p2 <=> Frame!Clip(c.a, Height) \div 8 = Frame!Clip(c.b, Height) \div 8
  BY <1>2, <1>4
<1> HIDE DEF y1, y2
<1>6. Frame!Between(c.a, c.b, Height) = y1 .. y2
  BY <1>2, <1>4, FrameSize DEF Frame!Between
<1>7. call'.f = "vLine" /\ call'.args = c
  OBVIOUS
<1>8. Frame!VLineDrawn(c)' => ShapesDrawn'
  BY <1>7 DEF ShapesDrawn, Frame!ShapesDrawn
<1>9. CASE c.at \notin 0 .. Width - 1
  <2>1. shape = {}
    BY <1>1, <1>9, FrameSize DEF Frame!Screen
  <2>2. frame' = frame
    BY <1>3, <1>9
  <2>3. Frame!VLineDrawn(c)'
    BY <2>1, <2>2 DEF Frame!VLineDrawn, Frame!Paint
  <2> QED BY <1>8, <2>3
<1>10. CASE c.at \in 0 .. Width - 1
  <2>1. Box(c.at, y1, 1, y2 - y1 + 1) = shape
    BY <1>1, <1>4, <1>6, <1>10, FrameSize DEF Box, Frame!Screen
  <2>2. /\ p1 = p2 => one = shape
        /\ p1 # p2 => upper \cup lower \cup between = shape
    <3>1. p1 = y1 \div 8 /\ p2 = y2 \div 8
      OBVIOUS
    <3> HIDE DEF shape, p1, p2
    <3> QED BY <1>4, <1>10, <2>1, <3>1, ColumnIs
  <2> HIDE DEF shape, one, upper, lower, between, p1, p2
  <2>3. c.color \/ p1 = p2 => frame' = IF c.color THEN frame \cup shape ELSE frame \ shape
    BY <1>1, <1>3, <1>10, <2>2 DEF Frame!fillRect
  <2>4. Frame!VLineDrawn(c)'
    BY <1>1, <1>5, <2>3 DEF Frame!VLineDrawn, Frame!Paint, shape
  <2> QED BY <1>8, <2>4
<1> QED BY <1>9, <1>10

LEMMA StraightDraws == ASSUME Frame!DrawStraight PROVE ShapesDrawn'
<1>1. PICK c \in Calls.straight :
        \/ c.f = "hLine" /\ Frame!Draw("hLine", c, Frame!hLine(frame, c.a, c.b, c.at, c.color))
        \/ c.f = "vLine" /\ Frame!Draw("vLine", c, Frame!vLine(frame, c.a, c.b, c.at, c.color))
        \/ c.f = "pixel" /\ Frame!Draw("pixel", c, Frame!setPixel(frame, c.at, c.a, c.color))
  BY DEF Frame!DrawStraight
<1>2. CASE Frame!Draw("hLine", c, Frame!hLine(frame, c.a, c.b, c.at, c.color))
  BY <1>2, HLineDraws DEF Frame!Draw, Frame!Drawn
<1>3. CASE Frame!Draw("vLine", c, Frame!vLine(frame, c.a, c.b, c.at, c.color))
  BY <1>3, VLineDraws DEF Frame!Draw, Frame!Drawn
<1>4. CASE Frame!Draw("pixel", c, Frame!setPixel(frame, c.at, c.a, c.color))
  BY <1>4, PixelDraws DEF Frame!Draw, Frame!Drawn
<1> QED BY <1>1, <1>2, <1>3, <1>4

\* What a step on S does from s0 on, n times.
Iterated(h, n, S, s0, step) ==
    /\ h \in [0 .. n -> S] /\ h[0] = s0
    /\ \A k \in 0 .. n - 1 : h[k + 1] = step[h[k]]

LEMMA IteratedExists ==
  ASSUME NEW S, NEW s0 \in S, NEW step \in [S -> S], NEW n \in Nat
  PROVE  \E h : Iterated(h, n, S, s0, step)
<1> DEFINE Some == {k \in 0 .. n : \E h : Iterated(h, k, S, s0, step)}
<1>1. 0 \in Some
  <2> DEFINE h == [k \in 0 .. 0 |-> s0]
  <2>1. Iterated(h, 0, S, s0, step)
    BY DEF Iterated
  <2> HIDE DEF h
  <2> QED BY <2>1
<1>2. ASSUME NEW k \in 0 .. n - 1, k \in Some PROVE k + 1 \in Some
  <2>1. PICK h : Iterated(h, k, S, s0, step)
    BY <1>2
  <2> DEFINE g == [j \in 0 .. k + 1 |-> IF j = k + 1 THEN step[h[k]] ELSE h[j]]
  <2>2. h \in [0 .. k -> S] /\ h[0] = s0 /\ \A j \in 0 .. k - 1 : h[j + 1] = step[h[j]]
    BY <2>1 DEF Iterated
  <2>3. g \in [0 .. k + 1 -> S] /\ g[k + 1] = step[h[k]] /\ \A j \in 0 .. k : g[j] = h[j]
    BY <2>2
  <2> HIDE DEF g
  <2>4. g[0] = s0 /\ \A j \in 0 .. (k + 1) - 1 : g[j + 1] = step[g[j]]
    <3>1. ASSUME NEW j \in 0 .. (k + 1) - 1 PROVE g[j + 1] = step[g[j]]
      <4>1. CASE j = k
        BY <2>3, <4>1
      <4>2. CASE j # k
        <5>1. j \in 0 .. k - 1 /\ j + 1 \in 0 .. k /\ j \in 0 .. k
          BY <4>2
        <5> QED BY <2>2, <2>3, <5>1
      <4> QED BY <4>1, <4>2
    <3>2. 0 \in 0 .. k
      OBVIOUS
    <3> QED BY <2>2, <2>3, <3>1, <3>2
  <2>5. Iterated(g, k + 1, S, s0, step)
    BY <2>3, <2>4 DEF Iterated
  <2>6. k + 1 \in 0 .. n
    OBVIOUS
  <2> QED BY <2>5, <2>6
<1> HIDE DEF Some
<1>3. \A k \in 0 .. n : k \in Some
  BY <1>1, <1>2, UpTo
<1> QED BY <1>3 DEF Some

LEMMA IteratedSame ==
  ASSUME NEW S, NEW s0 \in S, NEW step \in [S -> S], NEW n \in Nat, NEW m \in Nat, n <= m,
         NEW h, Iterated(h, n, S, s0, step), NEW g, Iterated(g, m, S, s0, step)
  PROVE  \A k \in 0 .. n : h[k] = g[k]
<1> DEFINE Alike == {k \in 0 .. n : h[k] = g[k]}
<1>1. 0 \in Alike
  BY DEF Iterated
<1>2. ASSUME NEW k \in 0 .. n - 1, k \in Alike PROVE k + 1 \in Alike
  <2>1. k \in 0 .. m - 1 /\ k + 1 \in 0 .. n
    OBVIOUS
  <2>2. h[k + 1] = step[h[k]] /\ g[k + 1] = step[g[k]] /\ h[k] = g[k]
    BY <1>2, <2>1 DEF Iterated
  <2> QED BY <2>1, <2>2
<1> HIDE DEF Alike
<1>3. \A k \in 0 .. n : k \in Alike
  BY <1>1, <1>2, UpTo
<1> QED BY <1>3 DEF Alike

LEMMA Iterates ==
  ASSUME NEW S, NEW s0 \in S, NEW step \in [S -> S]
  PROVE  \E f \in [Nat -> S] : f[0] = s0 /\ \A n \in Nat : f[n + 1] = step[f[n]]
<1> DEFINE H(n) == CHOOSE h : Iterated(h, n, S, s0, step)
           f == [n \in Nat |-> H(n)[n]]
<1>1. \A n \in Nat : Iterated(H(n), n, S, s0, step)
  BY IteratedExists
<1> HIDE DEF H
<1>2. ASSUME NEW n \in Nat PROVE H(n)[n] \in S
  BY <1>1 DEF Iterated
<1>3. f[0] = s0
  <2>1. H(0)[0] = s0
    BY <1>1 DEF Iterated
  <2> QED BY <2>1
<1>4. ASSUME NEW n \in Nat PROVE f[n + 1] = step[f[n]]
  <2> DEFINE m == n + 1
  <2>1. m \in Nat /\ n <= m /\ n \in 0 .. m - 1 /\ n \in 0 .. n /\ m = n + 1
    OBVIOUS
  <2> HIDE DEF m
  <2>2. Iterated(H(m), m, S, s0, step) /\ Iterated(H(n), n, S, s0, step)
    BY <1>1, <2>1
  <2>3. H(n)[n] = H(m)[n]
    BY <2>1, <2>2, IteratedSame
  <2>4. H(m)[m] = step[H(m)[n]]
    BY <2>1, <2>2 DEF Iterated
  <2> QED BY <2>1, <2>3, <2>4
<1>5. f \in [Nat -> S]
  BY <1>2
<1> HIDE DEF f
<1> QED BY <1>3, <1>4, <1>5

\* The walk at <<n, v>>: twice the distance, in units of 1 / du, is at most du.
OnWalk(n, v, di, du, dv) ==
    /\ di = 2 * (n * dv - v * du) + 2 * dv - du
    /\ -du <= 2 * (n * dv - v * du) /\ 2 * (n * dv - v * du) <= du

LEMMA WalkGoes ==
  ASSUME NEW n \in Nat, NEW m, m = n + 1, NEW v \in Int, NEW di \in Int, NEW du \in Nat, NEW dv \in Nat,
         dv <= du, OnWalk(n, v, di, du, dv)
  PROVE  /\ di < 0 => OnWalk(m, v, di + 2 * dv, du, dv)
         /\ ~(di < 0) => OnWalk(m, v + 1, di + 2 * dv - 2 * du, du, dv)
<1> DEFINE a == n * dv
           b == v * du
<1>1. m * dv = a + dv /\ (v + 1) * du = b + du /\ a \in Int /\ b \in Int
  OBVIOUS
<1>2. di = 2 * (a - b) + 2 * dv - du /\ -du <= 2 * (a - b) /\ 2 * (a - b) <= du
  BY DEF OnWalk
<1>3. v * du = b
  OBVIOUS
<1> HIDE DEF a, b
<1>4. CASE di < 0
  BY <1>1, <1>2, <1>3, <1>4 DEF OnWalk
<1>5. CASE ~(di < 0)
  BY <1>1, <1>2, <1>5 DEF OnWalk
<1> QED BY <1>4, <1>5

\* The error of the walk, of which di is a form, is never more than half a step.
LEMMA WalkIs ==
  ASSUME NEW du \in Nat \ {0}, NEW dv \in Nat, dv <= du
  PROVE  \A u \in Nat : /\ Frame!Walk(du, dv)[u][1] \in Int
                        /\ -du <= 2 * (u * dv - Frame!Walk(du, dv)[u][1] * du)
                        /\ 2 * (u * dv - Frame!Walk(du, dv)[u][1] * du) <= du
                        /\ u = 0 => Frame!Walk(du, dv)[u][1] = 0
<1> DEFINE S == Int \X Int
           s0 == <<0, Frame!StartError(du, dv)>>
           step == [s \in S |-> IF s[2] < 0 THEN <<s[1], s[2] + 2 * dv>>
                                ELSE <<s[1] + 1, s[2] + 2 * dv - 2 * du>>]
           Is(At) == At = [u \in Nat |->
               IF u = 0 THEN <<0, Frame!StartError(du, dv)>>
               ELSE IF At[u - 1][2] < 0 THEN <<At[u - 1][1], At[u - 1][2] + 2 * dv>>
               ELSE <<At[u - 1][1] + 1, At[u - 1][2] + 2 * dv - 2 * du>>]
           W == Frame!Walk(du, dv)
<1>1. W = CHOOSE At : Is(At)
  BY DEF Frame!Walk
<1>2. \E At : Is(At)
  <2>1. s0 \in S /\ step \in [S -> S]
    BY DEF Frame!StartError, Frame!FirstError
  <2> HIDE DEF s0, step, S
  <2>2. PICK f \in [Nat -> S] : f[0] = s0 /\ \A n \in Nat : f[n + 1] = step[f[n]]
    BY <2>1, Iterates
  <2>3. ASSUME NEW u \in Nat
        PROVE  f[u] = IF u = 0 THEN <<0, Frame!StartError(du, dv)>>
                      ELSE IF f[u - 1][2] < 0 THEN <<f[u - 1][1], f[u - 1][2] + 2 * dv>>
                      ELSE <<f[u - 1][1] + 1, f[u - 1][2] + 2 * dv - 2 * du>>
    <3>1. CASE u = 0
      BY <2>2, <3>1 DEF s0
    <3>2. CASE u # 0
      <4> DEFINE n == u - 1
      <4>1. n \in Nat /\ n + 1 = u
        BY <3>2
      <4> HIDE DEF n
      <4>2. f[n] \in S /\ f[u] = step[f[n]]
        BY <2>2, <4>1
      <4>3. f[u] = IF f[n][2] < 0 THEN <<f[n][1], f[n][2] + 2 * dv>>
                   ELSE <<f[n][1] + 1, f[n][2] + 2 * dv - 2 * du>>
        BY <4>2 DEF step
      <4> QED BY <3>2, <4>3 DEF n
    <3> QED BY <3>1, <3>2
  <2>4. Is(f)
    BY <2>2, <2>3, Zenon
  <2> QED BY <2>4
<1>3. Is(W)
  <2> HIDE DEF Is, W
  <2> QED BY <1>1, <1>2
<1> HIDE DEF W
<1>4. W[0] = <<0, 2 * dv - du>>
  BY <1>3 DEF Frame!StartError, Frame!FirstError
<1>5. ASSUME NEW n \in Nat
      PROVE  W[n + 1] = IF W[n][2] < 0 THEN <<W[n][1], W[n][2] + 2 * dv>>
                        ELSE <<W[n][1] + 1, W[n][2] + 2 * dv - 2 * du>>
  <2> DEFINE u == n + 1
  <2>1. u \in Nat /\ u # 0 /\ u - 1 = n
    OBVIOUS
  <2> HIDE DEF u
  <2>2. W[u] = IF u = 0 THEN <<0, Frame!StartError(du, dv)>>
               ELSE IF W[u - 1][2] < 0 THEN <<W[u - 1][1], W[u - 1][2] + 2 * dv>>
               ELSE <<W[u - 1][1] + 1, W[u - 1][2] + 2 * dv - 2 * du>>
    BY <1>3, <2>1
  <2> QED BY <2>1, <2>2 DEF u
<1> HIDE DEF Is
<1>6. ASSUME NEW u \in Nat PROVE W[u] \in Int \X Int /\ OnWalk(u, W[u][1], W[u][2], du, dv)
  <2> DEFINE T == {k \in 0 .. u : W[k] \in Int \X Int /\ OnWalk(k, W[k][1], W[k][2], du, dv)}
  <2>1. 0 \in T
    <3>1. W[0] \in Int \X Int /\ W[0][1] = 0 /\ W[0][2] = 2 * dv - du
      BY <1>4
    <3>2. OnWalk(0, 0, 2 * dv - du, du, dv)
      BY DEF OnWalk
    <3> QED BY <3>1, <3>2
  <2>2. ASSUME NEW k \in 0 .. u - 1, k \in T PROVE k + 1 \in T
    <3> DEFINE v == W[k][1]
               di == W[k][2]
               m == k + 1
    <3>1. v \in Int /\ di \in Int /\ OnWalk(k, v, di, du, dv)
      BY <2>2
    <3>2. k \in Nat /\ m \in 0 .. u /\ m = k + 1
      OBVIOUS
    <3>3. W[m] = IF di < 0 THEN <<v, di + 2 * dv>> ELSE <<v + 1, di + 2 * dv - 2 * du>>
      BY <1>5, <3>2
    <3> HIDE DEF v, di, m
    <3>4. /\ di < 0 => OnWalk(m, v, di + 2 * dv, du, dv)
          /\ ~(di < 0) => OnWalk(m, v + 1, di + 2 * dv - 2 * du, du, dv)
      BY <3>1, <3>2, WalkGoes
    <3>5. W[m] \in Int \X Int /\ OnWalk(m, W[m][1], W[m][2], du, dv)
      <4>1. CASE di < 0
        BY <3>1, <3>3, <3>4, <4>1
      <4>2. CASE ~(di < 0)
        BY <3>1, <3>3, <3>4, <4>2
      <4> QED BY <4>1, <4>2
    <3> QED BY <3>2, <3>5 DEF m
  <2> HIDE DEF T
  <2>3. \A k \in 0 .. u : k \in T
    BY <2>1, <2>2, UpTo
  <2> QED BY <2>3 DEF T
<1>7. ASSUME NEW u \in Nat
      PROVE  /\ W[u][1] \in Int /\ -du <= 2 * (u * dv - W[u][1] * du) /\ 2 * (u * dv - W[u][1] * du) <= du
             /\ u = 0 => W[u][1] = 0
  <2> DEFINE v == W[u][1]
  <2>1. v \in Int /\ OnWalk(u, v, W[u][2], du, dv)
    BY <1>6
  <2>2. u = 0 => v = 0
    BY <1>4
  <2> HIDE DEF v
  <2>3. -du <= 2 * (u * dv - v * du) /\ 2 * (u * dv - v * du) <= du
    BY <2>1 DEF OnWalk
  <2> QED BY <2>1, <2>2, <2>3 DEF v
<1> QED BY <1>7 DEF W

\* The v for each u, from corner to corner.
WalksTo(at, du, dv) ==
    /\ at \in [Nat -> Int] /\ at[0] = 0 /\ at[du] = dv
    /\ \A u \in 0 .. du : -du <= 2 * (u * dv - at[u] * du) /\ 2 * (u * dv - at[u] * du) <= du

LEMMA StepsAre ==
  ASSUME NEW du \in Nat \ {0}, NEW dv \in Nat, dv <= du
  PROVE  \E at : WalksTo(at, du, dv) /\ Frame!Steps(du, dv) = {<<u, at[u]>> : u \in 0 .. du}
<1> DEFINE W == Frame!Walk(du, dv)
           at == [u \in Nat |-> W[u][1]]
<1>1. \A u \in Nat : /\ W[u][1] \in Int
                     /\ -du <= 2 * (u * dv - W[u][1] * du) /\ 2 * (u * dv - W[u][1] * du) <= du
                     /\ u = 0 => W[u][1] = 0
  BY WalkIs
<1>2. Frame!Steps(du, dv) = {<<u, W[u][1]>> : u \in 0 .. du}
  BY DEF Frame!Steps
<1> HIDE DEF W
<1>3. at \in [Nat -> Int] /\ \A u \in Nat : at[u] = W[u][1]
  BY <1>1
<1> HIDE DEF at
<1>4. {<<u, W[u][1]>> : u \in 0 .. du} = {<<u, at[u]>> : u \in 0 .. du}
  BY <1>3
<1>5. at[0] = 0
  BY <1>1, <1>3
<1>6. at[du] = dv
  <2> DEFINE v == at[du]
             d == dv - v
  <2>1. v \in Int /\ -du <= 2 * (du * dv - v * du) /\ 2 * (du * dv - v * du) <= du
    BY <1>1, <1>3
  <2>2. d \in Int /\ du * dv - v * du = du * d
    BY <2>1
  <2> HIDE DEF v
  <2>3. d >= 1 => du * d >= du
    BY <2>2
  <2>4. d <= -1 => du * d <= -du
    BY <2>2
  <2>5. d = 0
    BY <2>1, <2>2, <2>3, <2>4
  <2> QED BY <2>1, <2>5 DEF v
<1>7. \A u \in 0 .. du : -du <= 2 * (u * dv - at[u] * du) /\ 2 * (u * dv - at[u] * du) <= du
  BY <1>1, <1>3
<1>8. WalksTo(at, du, dv)
  BY <1>3, <1>5, <1>6, <1>7 DEF WalksTo
<1> QED BY <1>2, <1>4, <1>8

\* How far a point of the line is from the exact one, whichever way the line goes.
Cross(a, b, dx, dy) == a * dy - b * dx
SameWay(a, dx, u, du) == (a = u /\ dx = du) \/ (a = -u /\ dx = -du)

LEMMA CrossOf ==
  ASSUME NEW u \in Int, NEW v \in Int, NEW du \in Int, NEW dv \in Int,
         NEW a, NEW b, NEW dx, NEW dy, SameWay(a, dx, u, du), SameWay(b, dy, v, dv)
  PROVE  Frame!Abs(Cross(a, b, dx, dy)) = Frame!Abs(Cross(u, v, du, dv))
<1> DEFINE e == u * dv
           f == v * du
<1>1. e \in Int /\ f \in Int
  OBVIOUS
<1>2. \/ a * dy = e /\ b * dx = f
      \/ a * dy = -e /\ b * dx = -f
  BY DEF SameWay
<1> DEFINE m == a * dy
           n == b * dx
<1>3. Cross(a, b, dx, dy) = m - n /\ Cross(u, v, du, dv) = e - f
  BY DEF Cross
<1>4. (m = e /\ n = f) \/ (m = -e /\ n = -f)
  BY <1>2
<1> HIDE DEF e, f, m, n
<1> QED BY <1>1, <1>3, <1>4 DEF Frame!Abs

LEMMA AbsOf ==
  ASSUME NEW s \in {1, -1}, NEW u \in Nat
  PROVE  Frame!Abs(s * u) = u
BY DEF Frame!Abs

\* A line that is more flat than steep, and one that is more steep than flat.
FlatPoints(x1, y1, sx, sy, at, du) == {<<x1 + sx * u, y1 + sy * at[u]>> : u \in 0 .. du}
SteepPoints(x1, y1, sx, sy, at, du) == {<<x1 + sx * at[u], y1 + sy * u>> : u \in 0 .. du}

LEMMA FlatIs ==
  ASSUME NEW x1 \in Int, NEW y1 \in Int, NEW sx \in {1, -1}, NEW sy \in {1, -1},
         NEW du \in Nat \ {0}, NEW dv \in Nat \ {0}, dv <= du,
         NEW x2, x2 = x1 + sx * du, NEW y2, y2 = y1 + sy * dv,
         NEW at, WalksTo(at, du, dv)
  PROVE  Frame!Sloped(FlatPoints(x1, y1, sx, sy, at, du), x1, y1, x2, y2)
<1> DEFINE points == FlatPoints(x1, y1, sx, sy, at, du)
<1>. points = {<<x1 + sx * u, y1 + sy * at[u]>> : u \in 0 .. du}
  BY DEF FlatPoints
<1> HIDE DEF points
<1>0. /\ at \in [Nat -> Int] /\ at[0] = 0 /\ at[du] = dv
      /\ \A u \in 0 .. du : -du <= 2 * (u * dv - at[u] * du) /\ 2 * (u * dv - at[u] * du) <= du
  BY DEF WalksTo
<1>1. Frame!Abs(x2 - x1) = du /\ Frame!Abs(y2 - y1) = dv /\ x2 - x1 = sx * du /\ y2 - y1 = sy * dv
      /\ Frame!Abs(x2 - x1) >= Frame!Abs(y2 - y1)
  <2>1. x2 - x1 = sx * du /\ y2 - y1 = sy * dv
    OBVIOUS
  <2>2. Frame!Abs(sx * du) = du /\ Frame!Abs(sy * dv) = dv
    BY AbsOf
  <2>3. Frame!Abs(x2 - x1) = du /\ Frame!Abs(y2 - y1) = dv
    BY <2>1, <2>2
  <2> QED BY <2>1, <2>3
<1>2. \A p \in points : \E u \in 0 .. du : p = <<x1 + sx * u, y1 + sy * at[u]>>
  OBVIOUS
<1>3. ASSUME NEW u \in 0 .. du, NEW p, p = <<x1 + sx * u, y1 + sy * at[u]>>
      PROVE  /\ Frame!Abs(p[1] - x1) = u /\ p \in points
             /\ 2 * Frame!Abs((p[1] - x1) * (y2 - y1) - (p[2] - y1) * (x2 - x1)) <= du
  <2> DEFINE v == at[u]
             a == p[1] - x1
             b == p[2] - y1
             dx == x2 - x1
             dy == y2 - y1
  <2>1. u \in Nat /\ v \in Int /\ du \in Int /\ dv \in Int /\ u \in Int
    BY <1>0
  <2>2. -du <= 2 * (u * dv - v * du) /\ 2 * (u * dv - v * du) <= du
    BY <1>0
  <2>3. a = sx * u /\ b = sy * v /\ dx = sx * du /\ dy = sy * dv
    BY <1>3, <2>1
  <2> HIDE DEF v, a, b, dx, dy
  <2>4. Frame!Abs(Cross(a, b, dx, dy)) = Frame!Abs(Cross(u, v, du, dv))
    <3>1. SameWay(a, dx, u, du)
      BY <2>1, <2>3 DEF SameWay
    <3>2. SameWay(b, dy, v, dv)
      BY <2>1, <2>3 DEF SameWay
    <3> QED BY <2>1, <3>1, <3>2, CrossOf
  <2>5. 2 * Frame!Abs(Cross(u, v, du, dv)) <= du
    <3> DEFINE e == u * dv - v * du
    <3>1. e \in Int /\ -du <= 2 * e /\ 2 * e <= du /\ Cross(u, v, du, dv) = e
      BY <2>1, <2>2 DEF Cross
    <3> HIDE DEF e
    <3> QED BY <3>1 DEF Frame!Abs
  <2>6. Frame!Abs(p[1] - x1) = u
    BY <2>1, <2>3, AbsOf DEF a
  <2>7. p \in points
    BY <1>3
  <2>8. 2 * Frame!Abs((p[1] - x1) * (y2 - y1) - (p[2] - y1) * (x2 - x1)) <= du
    BY <2>4, <2>5 DEF Cross, a, b, dx, dy
  <2> QED BY <2>6, <2>7, <2>8
<1>4. <<x1, y1>> \in points
  <2> DEFINE z == at[0]
  <2>1. z = 0 /\ 0 \in 0 .. du
    BY <1>0
  <2> HIDE DEF z
  <2>2. <<x1 + sx * 0, y1 + sy * z>> = <<x1, y1>>
    BY <2>1
  <2> QED BY <2>1, <2>2 DEF z
<1>5. <<x2, y2>> \in points
  <2>1. <<x1 + sx * du, y1 + sy * at[du]>> = <<x2, y2>> /\ du \in 0 .. du
    BY <1>0
  <2> QED BY <2>1
<1>6. \A p, q \in points : Frame!Abs(p[1] - x1) = Frame!Abs(q[1] - x1) => p = q
  <2>1. ASSUME NEW p \in points, NEW q \in points, Frame!Abs(p[1] - x1) = Frame!Abs(q[1] - x1) PROVE p = q
    <3>1. PICK u \in 0 .. du : p = <<x1 + sx * u, y1 + sy * at[u]>>
      BY <1>2
    <3>2. PICK w \in 0 .. du : q = <<x1 + sx * w, y1 + sy * at[w]>>
      BY <1>2
    <3>3. Frame!Abs(p[1] - x1) = u /\ Frame!Abs(q[1] - x1) = w
      BY <1>3, <3>1, <3>2
    <3> QED BY <2>1, <3>1, <3>2, <3>3
  <2> QED BY <2>1
<1>7. \A u \in 0 .. du : \E p \in points : Frame!Abs(p[1] - x1) = u
  BY <1>3
<1>8. \A p \in points : /\ Frame!Abs(p[1] - x1) \in 0 .. du
                        /\ 2 * Frame!Abs((p[1] - x1) * (y2 - y1) - (p[2] - y1) * (x2 - x1)) <= du
  BY <1>2, <1>3
<1>9. {<<x1, y1>>, <<x2, y2>>} \subseteq points
  BY <1>4, <1>5
<1>10. /\ \A u \in 0 .. Frame!Abs(x2 - x1) : \E p \in points : Frame!Abs(p[1] - x1) = u
       /\ \A p \in points :
            /\ Frame!Abs(p[1] - x1) \in 0 .. Frame!Abs(x2 - x1)
            /\ 2 * Frame!Abs((p[1] - x1) * (y2 - y1) - (p[2] - y1) * (x2 - x1)) <= Frame!Abs(x2 - x1)
  BY <1>1, <1>7, <1>8
<1> QED BY <1>1, <1>6, <1>9, <1>10, Zenon DEF Frame!Sloped, points

LEMMA SteepIs ==
  ASSUME NEW x1 \in Int, NEW y1 \in Int, NEW sx \in {1, -1}, NEW sy \in {1, -1},
         NEW du \in Nat \ {0}, NEW dv \in Nat \ {0}, dv < du,
         NEW x2, x2 = x1 + sx * dv, NEW y2, y2 = y1 + sy * du,
         NEW at, WalksTo(at, du, dv)
  PROVE  Frame!Sloped(SteepPoints(x1, y1, sx, sy, at, du), x1, y1, x2, y2)
<1> DEFINE points == SteepPoints(x1, y1, sx, sy, at, du)
<1>. points = {<<x1 + sx * at[u], y1 + sy * u>> : u \in 0 .. du}
  BY DEF SteepPoints
<1> HIDE DEF points
<1>0. /\ at \in [Nat -> Int] /\ at[0] = 0 /\ at[du] = dv
      /\ \A u \in 0 .. du : -du <= 2 * (u * dv - at[u] * du) /\ 2 * (u * dv - at[u] * du) <= du
  BY DEF WalksTo
<1>1. Frame!Abs(x2 - x1) = dv /\ Frame!Abs(y2 - y1) = du /\ x2 - x1 = sx * dv /\ y2 - y1 = sy * du
      /\ ~(Frame!Abs(x2 - x1) >= Frame!Abs(y2 - y1))
  <2>1. x2 - x1 = sx * dv /\ y2 - y1 = sy * du
    OBVIOUS
  <2>2. Frame!Abs(sx * dv) = dv /\ Frame!Abs(sy * du) = du
    BY AbsOf
  <2>3. Frame!Abs(x2 - x1) = dv /\ Frame!Abs(y2 - y1) = du
    BY <2>1, <2>2
  <2> QED BY <2>1, <2>3
<1>2. \A p \in points : \E u \in 0 .. du : p = <<x1 + sx * at[u], y1 + sy * u>>
  OBVIOUS
<1>3. ASSUME NEW u \in 0 .. du, NEW p, p = <<x1 + sx * at[u], y1 + sy * u>>
      PROVE  /\ Frame!Abs(p[2] - y1) = u /\ p \in points
             /\ 2 * Frame!Abs((p[1] - x1) * (y2 - y1) - (p[2] - y1) * (x2 - x1)) <= du
  <2> DEFINE v == at[u]
             a == p[1] - x1
             b == p[2] - y1
             dx == x2 - x1
             dy == y2 - y1
  <2>1. u \in Nat /\ v \in Int /\ du \in Int /\ dv \in Int /\ u \in Int
    BY <1>0
  <2>2. -du <= 2 * (u * dv - v * du) /\ 2 * (u * dv - v * du) <= du
    BY <1>0
  <2>3. a = sx * v /\ b = sy * u /\ dx = sx * dv /\ dy = sy * du
    BY <1>3, <2>1
  <2> HIDE DEF v, a, b, dx, dy
  <2>4. Frame!Abs(Cross(a, b, dx, dy)) = Frame!Abs(Cross(v, u, dv, du))
    <3>1. SameWay(a, dx, v, dv)
      BY <2>1, <2>3 DEF SameWay
    <3>2. SameWay(b, dy, u, du)
      BY <2>1, <2>3 DEF SameWay
    <3> QED BY <2>1, <3>1, <3>2, CrossOf
  <2>5. 2 * Frame!Abs(Cross(v, u, dv, du)) <= du
    <3> DEFINE e == u * dv - v * du
    <3>1. e \in Int /\ -du <= 2 * e /\ 2 * e <= du /\ Cross(v, u, dv, du) = -e
      BY <2>1, <2>2 DEF Cross
    <3> HIDE DEF e
    <3> QED BY <3>1 DEF Frame!Abs
  <2>6. Frame!Abs(p[2] - y1) = u
    BY <2>1, <2>3, AbsOf DEF b
  <2>7. p \in points
    BY <1>3
  <2>8. 2 * Frame!Abs((p[1] - x1) * (y2 - y1) - (p[2] - y1) * (x2 - x1)) <= du
    BY <2>4, <2>5 DEF Cross, a, b, dx, dy
  <2> QED BY <2>6, <2>7, <2>8
<1>4. <<x1, y1>> \in points
  <2> DEFINE z == at[0]
  <2>1. z = 0 /\ 0 \in 0 .. du
    BY <1>0
  <2> HIDE DEF z
  <2>2. <<x1 + sx * z, y1 + sy * 0>> = <<x1, y1>>
    BY <2>1
  <2> QED BY <2>1, <2>2 DEF z
<1>5. <<x2, y2>> \in points
  <2>1. <<x1 + sx * at[du], y1 + sy * du>> = <<x2, y2>> /\ du \in 0 .. du
    BY <1>0
  <2> QED BY <2>1
<1>6. \A p, q \in points : Frame!Abs(p[2] - y1) = Frame!Abs(q[2] - y1) => p = q
  <2>1. ASSUME NEW p \in points, NEW q \in points, Frame!Abs(p[2] - y1) = Frame!Abs(q[2] - y1) PROVE p = q
    <3>1. PICK u \in 0 .. du : p = <<x1 + sx * at[u], y1 + sy * u>>
      BY <1>2
    <3>2. PICK w \in 0 .. du : q = <<x1 + sx * at[w], y1 + sy * w>>
      BY <1>2
    <3>3. Frame!Abs(p[2] - y1) = u /\ Frame!Abs(q[2] - y1) = w
      BY <1>3, <3>1, <3>2
    <3> QED BY <2>1, <3>1, <3>2, <3>3
  <2> QED BY <2>1
<1>7. \A u \in 0 .. du : \E p \in points : Frame!Abs(p[2] - y1) = u
  BY <1>3
<1>8. \A p \in points : /\ Frame!Abs(p[2] - y1) \in 0 .. du
                        /\ 2 * Frame!Abs((p[1] - x1) * (y2 - y1) - (p[2] - y1) * (x2 - x1)) <= du
  BY <1>2, <1>3
<1>9. {<<x1, y1>>, <<x2, y2>>} \subseteq points
  BY <1>4, <1>5
<1>10. /\ \A u \in 0 .. Frame!Abs(y2 - y1) : \E p \in points : Frame!Abs(p[2] - y1) = u
       /\ \A p \in points :
            /\ Frame!Abs(p[2] - y1) \in 0 .. Frame!Abs(y2 - y1)
            /\ 2 * Frame!Abs((p[1] - x1) * (y2 - y1) - (p[2] - y1) * (x2 - x1)) <= Frame!Abs(y2 - y1)
  BY <1>1, <1>7, <1>8
<1> QED BY <1>1, <1>6, <1>9, <1>10, Zenon DEF Frame!Sloped, points

LEMMA LineIs ==
  ASSUME NEW x1 \in Int, NEW y1 \in Int, NEW x2 \in Int, NEW y2 \in Int, x1 # x2, y1 # y2
  PROVE  Frame!Sloped(Frame!line(x1, y1, x2, y2), x1, y1, x2, y2)
<1> DEFINE sx == IF x2 > x1 THEN 1 ELSE -1
           sy == IF y2 > y1 THEN 1 ELSE -1
           dx == (x2 - x1) * sx
           dy == (y2 - y1) * sy
           points == Frame!line(x1, y1, x2, y2)
<1>1. /\ sx \in {1, -1} /\ sy \in {1, -1} /\ dx \in Nat \ {0} /\ dy \in Nat \ {0}
      /\ x2 = x1 + sx * dx /\ y2 = y1 + sy * dy
  OBVIOUS
<1>2. points = IF dx >= dy THEN {<<x1 + sx * p[1], y1 + sy * p[2]>> : p \in Frame!Steps(dx, dy)}
               ELSE {<<x1 + sx * p[2], y1 + sy * p[1]>> : p \in Frame!Steps(dy, dx)}
  BY DEF Frame!line
<1> HIDE DEF sx, sy, dx, dy, points
<1>3. CASE dx >= dy
  <2>1. dy <= dx
    BY <1>1, <1>3
  <2>2. PICK at : WalksTo(at, dx, dy) /\ Frame!Steps(dx, dy) = {<<u, at[u]>> : u \in 0 .. dx}
    <3>1. dy \in Nat /\ dy <= dx
      BY <1>1, <2>1
    <3> QED BY <1>1, <3>1, StepsAre
  <2>3. points = FlatPoints(x1, y1, sx, sy, at, dx)
    <3> DEFINE line == FlatPoints(x1, y1, sx, sy, at, dx)
    <3>1. points = {<<x1 + sx * p[1], y1 + sy * p[2]>> : p \in Frame!Steps(dx, dy)}
      BY <1>2, <1>3
    <3>2. ASSUME NEW q \in points PROVE q \in line
      <4>1. PICK p \in Frame!Steps(dx, dy) : q = <<x1 + sx * p[1], y1 + sy * p[2]>>
        BY <3>1
      <4>2. PICK u \in 0 .. dx : p = <<u, at[u]>>
        BY <2>2
      <4> QED BY <4>1, <4>2 DEF FlatPoints
    <3>3. ASSUME NEW q \in line PROVE q \in points
      <4>1. PICK u \in 0 .. dx : q = <<x1 + sx * u, y1 + sy * at[u]>>
        BY DEF FlatPoints
      <4>2. <<u, at[u]>> \in Frame!Steps(dx, dy)
        BY <2>2
      <4> DEFINE p == <<u, at[u]>>
      <4>3. p \in Frame!Steps(dx, dy) /\ q = <<x1 + sx * p[1], y1 + sy * p[2]>>
        BY <4>1, <4>2
      <4> HIDE DEF p
      <4> QED BY <3>1, <4>3
    <3> HIDE DEF line
    <3>4. points = line
      BY <3>2, <3>3
    <3> QED BY <3>4 DEF line
  <2>4. Frame!Sloped(points, x1, y1, x2, y2)
    BY <1>1, <2>1, <2>2, <2>3, FlatIs
  <2> QED BY <2>4 DEF points
<1>4. CASE ~(dx >= dy)
  <2>1. dx < dy
    BY <1>1, <1>4
  <2>2. PICK at : WalksTo(at, dy, dx) /\ Frame!Steps(dy, dx) = {<<u, at[u]>> : u \in 0 .. dy}
    <3>1. dx \in Nat /\ dx <= dy
      BY <1>1, <2>1
    <3> QED BY <1>1, <3>1, StepsAre
  <2>3. points = SteepPoints(x1, y1, sx, sy, at, dy)
    <3> DEFINE line == SteepPoints(x1, y1, sx, sy, at, dy)
    <3>1. points = {<<x1 + sx * p[2], y1 + sy * p[1]>> : p \in Frame!Steps(dy, dx)}
      BY <1>2, <1>4
    <3>2. ASSUME NEW q \in points PROVE q \in line
      <4>1. PICK p \in Frame!Steps(dy, dx) : q = <<x1 + sx * p[2], y1 + sy * p[1]>>
        BY <3>1
      <4>2. PICK u \in 0 .. dy : p = <<u, at[u]>>
        BY <2>2
      <4> QED BY <4>1, <4>2 DEF SteepPoints
    <3>3. ASSUME NEW q \in line PROVE q \in points
      <4>1. PICK u \in 0 .. dy : q = <<x1 + sx * at[u], y1 + sy * u>>
        BY DEF SteepPoints
      <4>2. <<u, at[u]>> \in Frame!Steps(dy, dx)
        BY <2>2
      <4> DEFINE p == <<u, at[u]>>
      <4>3. p \in Frame!Steps(dy, dx) /\ q = <<x1 + sx * p[2], y1 + sy * p[1]>>
        BY <4>1, <4>2
      <4> HIDE DEF p
      <4> QED BY <3>1, <4>3
    <3> HIDE DEF line
    <3>4. points = line
      BY <3>2, <3>3
    <3> QED BY <3>4 DEF line
  <2>4. Frame!Sloped(points, x1, y1, x2, y2)
    BY <1>1, <2>1, <2>2, <2>3, SteepIs
  <2> QED BY <2>4 DEF points
<1> QED BY <1>3, <1>4

LEMMA LineDraws == ASSUME Frame!DrawLine PROVE ShapesDrawn'
<1>1. PICK c \in Calls.line : Frame!Draw("line", c, Frame!drawLine(frame, c.x1, c.y1, c.x2, c.y2, c.color))
  BY DEF Frame!DrawLine
<1>2. c.x1 \in Int /\ c.y1 \in Int /\ c.x2 \in Int /\ c.y2 \in Int /\ c.x1 # c.x2 /\ c.y1 # c.y2
      /\ c.color \in BOOLEAN
  <2>1. /\ Calls.line \subseteq [x1 : Frame!Reach, y1 : Frame!Reach, x2 : Frame!Reach, y2 : Frame!Reach, color : BOOLEAN]
        /\ \A d \in Calls.line : d.x1 # d.x2 /\ d.y1 # d.y2
    BY FrameAssumption DEF Frame!MonoFrameAssumption, Frame!LegalCalls
  <2>2. Frame!Reach \subseteq Int
    BY DEF Frame!Reach
  <2> QED BY <2>1, <2>2
<1> DEFINE points == Frame!line(c.x1, c.y1, c.x2, c.y2)
<1>3. Frame!Sloped(points, c.x1, c.y1, c.x2, c.y2)
  BY <1>2, LineIs
<1>4. call' = [f |-> "line", args |-> c] /\ before' = frame
      /\ frame' = Frame!fillRect(frame, points \cap Frame!Screen, c.color)
  BY <1>1 DEF Frame!Draw, Frame!Drawn, Frame!drawLine
<1>5. call'.f = "line" /\ call'.args = c
  BY <1>4
<1>6. frame' = IF c.color THEN before' \cup (points \cap Frame!Screen) ELSE before' \ (points \cap Frame!Screen)
  BY <1>2, <1>4 DEF Frame!fillRect
<1>7. Frame!LineDrawn(c)'
  BY <1>3, <1>6 DEF Frame!LineDrawn, Frame!Paint
<1> QED BY <1>5, <1>7 DEF ShapesDrawn, Frame!ShapesDrawn

\* The rows of a glyph from one up to another, where they belong.
GlyphRows(glyph, x, y, drawW, from, to) ==
    {<<x + q[1], y + q[2]>> : q \in {p \in glyph : p[1] < drawW /\ p[2] \in from .. to - 1}}

IsGlyph(glyph) == glyph \subseteq Nat \X Nat

\* Row n, in the font and in the frame, and where its rows end.
Aligned(n, to, y, r, src, w, dest, rows) ==
    /\ n \in Int /\ to \in Int /\ r \in Int /\ src \in Int /\ w \in Int /\ dest \in Int /\ rows \in Int
    /\ n = 8 * r + src /\ y + n = 8 * w + dest /\ to = n + rows

LEMMA BlitIs ==
  ASSUME NEW glyph, IsGlyph(glyph), NEW x \in Int, NEW y \in Int, NEW drawW \in Int,
         NEW r, NEW src, NEW w, NEW dest, NEW rows, NEW n, NEW to, Aligned(n, to, y, r, src, w, dest, rows)
  PROVE  Frame!Blit(glyph, x, drawW, r, src, w, dest, rows) = GlyphRows(glyph, x, y, drawW, n, to)
<1> DEFINE blit == Frame!Blit(glyph, x, drawW, r, src, w, dest, rows)
           there == GlyphRows(glyph, x, y, drawW, n, to)
<1>1. ASSUME NEW q \in glyph
      PROVE  /\ q[2] - 8 * r \in src .. src + rows - 1 <=> q[2] \in n .. to - 1
             /\ 8 * w + dest + (q[2] - 8 * r - src) = y + q[2]
  <2>1. q[2] \in Int
    BY DEF IsGlyph
  <2> QED BY <2>1 DEF Aligned
<1>2. ASSUME NEW p \in blit PROVE p \in there
  <2>1. PICK q \in {q \in glyph : q[1] < drawW /\ q[2] - 8 * r \in src .. src + rows - 1} :
           p = <<x + q[1], 8 * w + dest + (q[2] - 8 * r - src)>>
    BY DEF Frame!Blit
  <2>2. q \in {d \in glyph : d[1] < drawW /\ d[2] \in n .. to - 1} /\ p = <<x + q[1], y + q[2]>>
    BY <1>1, <2>1
  <2> QED BY <2>2 DEF GlyphRows
<1>3. ASSUME NEW p \in there PROVE p \in blit
  <2>1. PICK q \in {d \in glyph : d[1] < drawW /\ d[2] \in n .. to - 1} : p = <<x + q[1], y + q[2]>>
    BY DEF GlyphRows
  <2>2. /\ q \in {d \in glyph : d[1] < drawW /\ d[2] - 8 * r \in src .. src + rows - 1}
        /\ p = <<x + q[1], 8 * w + dest + (q[2] - 8 * r - src)>>
    BY <1>1, <2>1
  <2> QED BY <2>2 DEF Frame!Blit
<1> HIDE DEF blit, there
<1>4. blit = there
  BY <1>2, <1>3
<1> QED BY <1>4 DEF blit, there

\* In the loop: the pages are those of the last row that was copied.
Pages == [nRows : Int, r : Int, w : Int]
InLoop(s, y, first, totalRows) ==
    /\ s \in Pages /\ s.nRows \in first .. totalRows
    /\ s.nRows < totalRows => s.r = (s.nRows - 1) \div 8 /\ s.w = (y + s.nRows - 1) \div 8

\* The page after the row before n is the page of n.
LEMMA NextPage ==
  ASSUME NEW n \in Nat \ {0}, NEW page, page = (n - 1) \div 8
  PROVE  /\ Frame!Advance(n % 8, page) = n \div 8
         /\ 8 * (n \div 8) + (n % 8) = n /\ n % 8 \in 0 .. 7 /\ n \div 8 \in Nat
         /\ \A m \in 1 .. 8 - (n % 8) : (n + m - 1) \div 8 = n \div 8
<1>1. 8 * (n \div 8) + (n % 8) = n /\ n % 8 \in 0 .. 7 /\ n \div 8 \in Nat
  OBVIOUS
<1>2. Frame!Advance(n % 8, page) = n \div 8
  BY DEF Frame!Advance
<1>3. \A m \in 1 .. 8 - (n % 8) : (n + m - 1) \div 8 = n \div 8
  <2> DEFINE a == n \div 8
             b == n % 8
  <2>1. a \in Nat /\ b \in 0 .. 7 /\ n = 8 * a + b
    BY <1>1
  <2> HIDE DEF a, b
  <2>2. \A m \in 1 .. 8 - b : (n + m - 1) \div 8 = a
    BY <2>1
  <2> QED BY <2>2 DEF a, b
<1> QED BY <1>1, <1>2, <1>3

LEMMA TurnGoes ==
  ASSUME NEW glyph, IsGlyph(glyph), NEW x \in Int, NEW y \in Nat, NEW drawW \in Int,
         NEW first \in Nat, NEW totalRows \in Nat, first >= 1 \/ totalRows = 0,
         NEW s, InLoop(s, y, first, totalRows), NEW t, t = Frame!Turn(s, y, totalRows)
  PROVE  /\ InLoop(t, y, first, totalRows)
         /\ s.nRows <= t.nRows /\ (s.nRows < totalRows => s.nRows < t.nRows)
         /\ Frame!BlitTurn(glyph, x, y, drawW, s, totalRows) = GlyphRows(glyph, x, y, drawW, s.nRows, t.nRows)
<1> DEFINE n == s.nRows
           yn == y + n
           src == n % 8
           dest == yn % 8
           r == Frame!Advance(src, s.r)
           w == Frame!Advance(dest, s.w)
           avail == Frame!Smaller(Frame!Smaller(8 - src, 8 - dest), totalRows - n)
<1>1. n \in first .. totalRows /\ n \in Nat /\ s.r \in Int /\ s.w \in Int /\ yn \in Nat
  BY DEF InLoop, Pages
<1>2. src \in 0 .. 7 /\ dest \in 0 .. 7 /\ r \in Int /\ w \in Int
  <2>1. src \in 0 .. 7 /\ dest \in 0 .. 7
    BY <1>1
  <2> HIDE DEF src, dest
  <2> QED BY <1>1, <2>1 DEF Frame!Advance
<1>3. avail \in Int /\ avail >= 0 /\ avail <= totalRows - n /\ avail <= 8 - src /\ avail <= 8 - dest
      /\ (n < totalRows => avail >= 1)
  <2> HIDE DEF src, dest, n
  <2> QED BY <1>1, <1>2 DEF Frame!Smaller
<1>4. /\ Frame!Advanced(s, y, totalRows) = [src |-> src, dest |-> dest, r |-> r, w |-> w, avail |-> avail]
      /\ t = [nRows |-> n + avail, r |-> r, w |-> w]
  BY DEF Frame!Advanced, Frame!Turn
<1>5. n < totalRows =>
        /\ r = n \div 8 /\ w = yn \div 8 /\ n = 8 * r + src /\ yn = 8 * w + dest
        /\ (n + avail - 1) \div 8 = r /\ (yn + avail - 1) \div 8 = w
  <2> SUFFICES ASSUME n < totalRows
      PROVE /\ r = n \div 8 /\ w = yn \div 8 /\ n = 8 * r + src /\ yn = 8 * w + dest
            /\ (n + avail - 1) \div 8 = r /\ (yn + avail - 1) \div 8 = w
    OBVIOUS
  <2>1. n \in Nat \ {0} /\ yn \in Nat \ {0}
    BY <1>1
  <2>2. s.r = (n - 1) \div 8 /\ s.w = (yn - 1) \div 8
    BY <1>1 DEF InLoop
  <2>3. avail \in 1 .. 8 - src /\ avail \in 1 .. 8 - dest
    BY <1>2, <1>3
  <2> HIDE DEF n, yn, avail
  <2>4. r = n \div 8 /\ 8 * (n \div 8) + src = n /\ \A m \in 1 .. 8 - src : (n + m - 1) \div 8 = n \div 8
    BY <2>1, <2>2, NextPage
  <2>5. w = yn \div 8 /\ 8 * (yn \div 8) + dest = yn /\ \A m \in 1 .. 8 - dest : (yn + m - 1) \div 8 = yn \div 8
    BY <2>1, <2>2, NextPage
  <2> HIDE DEF src, dest, r, w
  <2> QED BY <2>3, <2>4, <2>5
<1>6. t \in Pages /\ t.nRows = n + avail /\ t.r = r /\ t.w = w
  BY <1>1, <1>2, <1>3, <1>4 DEF Pages
<1>7. y + t.nRows - 1 = yn + avail - 1
  BY <1>1, <1>3, <1>6
<1> HIDE DEF src, dest, r, w, avail, yn
<1>8. InLoop(t, y, first, totalRows)
  <2>1. t.nRows \in first .. totalRows
    BY <1>1, <1>3, <1>6
  <2>2. CASE n < totalRows
    <3>1. t.r = (t.nRows - 1) \div 8 /\ t.w = (y + t.nRows - 1) \div 8
      <4> DEFINE m == t.nRows
      <4>1. m \in Int /\ m - 1 = n + avail - 1 /\ y + m - 1 = yn + avail - 1
        BY <1>1, <1>3, <1>6, <1>7
      <4> HIDE DEF m, n
      <4>2. r = (m - 1) \div 8 /\ w = (y + m - 1) \div 8
        BY <1>5, <2>2, <4>1
      <4> QED BY <1>6, <4>2 DEF m
    <3> QED BY <1>6, <2>1, <3>1 DEF InLoop
  <2>3. CASE ~(n < totalRows)
    <3>1. ~(t.nRows < totalRows)
      BY <1>1, <1>3, <1>6, <2>3
    <3> QED BY <1>6, <2>1, <3>1 DEF InLoop
  <2> QED BY <2>2, <2>3
<1>9. Frame!BlitTurn(glyph, x, y, drawW, s, totalRows) = GlyphRows(glyph, x, y, drawW, n, t.nRows)
  <2>1. CASE n < totalRows
    <3>1. Frame!BlitTurn(glyph, x, y, drawW, s, totalRows) = Frame!Blit(glyph, x, drawW, r, src, w, dest, avail)
      BY <1>1, <1>4, <2>1 DEF Frame!BlitTurn
    <3> DEFINE m == t.nRows
    <3>5. n \in Int /\ m \in Int
      BY <1>1, <1>3, <1>6
    <3>2. n = 8 * r + src /\ y + n = 8 * w + dest /\ m = n + avail
      BY <1>5, <1>6, <2>1 DEF yn
    <3> HIDE DEF n, m
    <3>3. src \in Int /\ dest \in Int /\ r \in Int /\ w \in Int /\ avail \in Int /\ y \in Int
      BY <1>2, <1>3
    <3>4. Frame!Blit(glyph, x, drawW, r, src, w, dest, avail) = GlyphRows(glyph, x, y, drawW, n, m)
      <4>1. Aligned(n, m, y, r, src, w, dest, avail)
        BY <3>2, <3>3, <3>5 DEF Aligned
      <4> QED BY <4>1, BlitIs
    <3> QED BY <3>1, <3>4 DEF m
  <2>2. CASE ~(n < totalRows)
    <3>1. Frame!BlitTurn(glyph, x, y, drawW, s, totalRows) = {}
      BY <1>1, <2>2 DEF Frame!BlitTurn
    <3>2. t.nRows = n
      BY <1>1, <1>3, <1>6, <2>2
    <3>3. n .. n - 1 = {}
      BY <1>1
    <3>4. GlyphRows(glyph, x, y, drawW, n, n) = {}
      BY <3>3 DEF GlyphRows
    <3> QED BY <3>1, <3>2, <3>4
  <2> QED BY <2>1, <2>2
<1>10. n <= t.nRows /\ (n < totalRows => n < t.nRows)
  BY <1>1, <1>3, <1>6
<1> QED BY <1>8, <1>9, <1>10

LEMMA TurnsAre ==
  ASSUME NEW y \in Nat, NEW first \in Nat, NEW totalRows \in Nat
  PROVE  /\ Frame!Turns(y, first, totalRows)[0] = Frame!Start(y, first)
         /\ \A k \in Nat : Frame!Turns(y, first, totalRows)[k + 1]
                           = Frame!Turn(Frame!Turns(y, first, totalRows)[k], y, totalRows)
<1> DEFINE s0 == Frame!Start(y, first)
           step == [s \in Pages |-> Frame!Turn(s, y, totalRows)]
           Is(At) == At = [k \in Nat |-> IF k = 0 THEN Frame!Start(y, first) ELSE Frame!Turn(At[k - 1], y, totalRows)]
           T == Frame!Turns(y, first, totalRows)
<1>1. T = CHOOSE At : Is(At)
  BY DEF Frame!Turns
<1>2. \E At : Is(At)
  <2>1. s0 \in Pages
    BY DEF Frame!Start, Pages
  <2>2. ASSUME NEW s \in Pages PROVE Frame!Turn(s, y, totalRows) \in Pages
    <3> DEFINE n == s.nRows
               src == n % 8
               dest == (y + n) % 8
    <3>1. n \in Int /\ s.r \in Int /\ s.w \in Int
      BY DEF Pages
    <3>2. src \in Int /\ dest \in Int
      BY <3>1
    <3>3. Frame!Turn(s, y, totalRows)
          = [nRows |-> n + Frame!Smaller(Frame!Smaller(8 - src, 8 - dest), totalRows - n),
             r |-> Frame!Advance(src, s.r), w |-> Frame!Advance(dest, s.w)]
      BY DEF Frame!Turn, Frame!Advanced
    <3> HIDE DEF n, src, dest
    <3>4. /\ Frame!Smaller(Frame!Smaller(8 - src, 8 - dest), totalRows - n) \in Int
          /\ Frame!Advance(src, s.r) \in Int /\ Frame!Advance(dest, s.w) \in Int
      BY <3>1, <3>2 DEF Frame!Smaller, Frame!Advance
    <3> QED BY <3>1, <3>3, <3>4 DEF Pages
  <2>3. step \in [Pages -> Pages]
    BY <2>2
  <2> HIDE DEF s0, step
  <2>4. PICK f \in [Nat -> Pages] : f[0] = s0 /\ \A n \in Nat : f[n + 1] = step[f[n]]
    BY <2>1, <2>3, Iterates
  <2>5. ASSUME NEW k \in Nat
        PROVE  f[k] = IF k = 0 THEN Frame!Start(y, first) ELSE Frame!Turn(f[k - 1], y, totalRows)
    <3>1. CASE k = 0
      BY <2>4, <3>1 DEF s0
    <3>2. CASE k # 0
      <4> DEFINE n == k - 1
      <4>1. n \in Nat /\ n + 1 = k
        BY <3>2
      <4> HIDE DEF n
      <4>2. f[n] \in Pages /\ f[k] = step[f[n]]
        BY <2>4, <4>1
      <4>3. f[k] = Frame!Turn(f[n], y, totalRows)
        BY <4>2 DEF step
      <4> QED BY <3>2, <4>3 DEF n
    <3> QED BY <3>1, <3>2
  <2>6. Is(f)
    BY <2>4, <2>5, Zenon
  <2> QED BY <2>6
<1>3. Is(T)
  <2> HIDE DEF Is, T
  <2> QED BY <1>1, <1>2
<1> HIDE DEF T
<1>4. T[0] = Frame!Start(y, first)
  BY <1>3
<1>5. ASSUME NEW n \in Nat PROVE T[n + 1] = Frame!Turn(T[n], y, totalRows)
  <2> DEFINE k == n + 1
  <2>1. k \in Nat /\ k # 0 /\ k - 1 = n
    OBVIOUS
  <2> HIDE DEF k
  <2>2. T[k] = IF k = 0 THEN Frame!Start(y, first) ELSE Frame!Turn(T[k - 1], y, totalRows)
    BY <1>3, <2>1
  <2> QED BY <2>1, <2>2 DEF k
<1> QED BY <1>4, <1>5 DEF T

\* What lies in the first page, of so many rows from y on.
FirstRows(first, y, totalRows) ==
    y \in Nat /\ totalRows \in Nat /\ first = Frame!Smaller(totalRows, 8 - (y % 8))

\* The turns copy every row from the first of them on, none twice or on other pages.
LEMMA LoopIs ==
  ASSUME NEW glyph, IsGlyph(glyph), NEW x \in Int, NEW y, NEW drawW \in Int, NEW totalRows,
         NEW first, FirstRows(first, y, totalRows)
  PROVE  Frame!BlitFrom(glyph, x, y, drawW, first, totalRows) = GlyphRows(glyph, x, y, drawW, first, totalRows)
<1> DEFINE at == Frame!Turns(y, first, totalRows)
           Rows(k) == Frame!BlitTurn(glyph, x, y, drawW, at[k], totalRows)
           all == GlyphRows(glyph, x, y, drawW, first, totalRows)
<1>0. y \in Nat /\ totalRows \in Nat /\ first = Frame!Smaller(totalRows, 8 - (y % 8))
  BY DEF FirstRows
<1>1. /\ first \in Nat /\ first <= totalRows /\ first <= 8 - (y % 8) /\ y % 8 \in 0 .. 7
      /\ first >= 1 \/ totalRows = 0
  <2> DEFINE off == y % 8
  <2>1. off \in 0 .. 7
    BY <1>0
  <2> HIDE DEF off
  <2>2. first \in Nat /\ first <= totalRows /\ first <= 8 - off /\ (first >= 1 \/ totalRows = 0)
    BY <1>0, <2>1 DEF Frame!Smaller, off
  <2> QED BY <2>1, <2>2 DEF off
<1>2. at[0] = Frame!Start(y, first) /\ \A k \in Nat : at[k + 1] = Frame!Turn(at[k], y, totalRows)
  BY <1>0, <1>1, TurnsAre, ZenonT(60)
<1>3. Frame!BlitFrom(glyph, x, y, drawW, first, totalRows) = UNION {Rows(k) : k \in 0 .. totalRows}
  BY DEF Frame!BlitFrom
<1> HIDE DEF at
<1>4. InLoop(at[0], y, first, totalRows) /\ at[0].nRows = first
  <2>1. at[0] = [nRows |-> first, r |-> 0, w |-> y \div 8]
    BY <1>2 DEF Frame!Start
  <2>2. first >= 1 => 0 = (first - 1) \div 8 /\ y \div 8 = (y + first - 1) \div 8
    <3> DEFINE a == y \div 8
               b == y % 8
    <3>1. a \in Nat /\ b \in 0 .. 7 /\ y = 8 * a + b /\ first <= 8 - b
      BY <1>0, <1>1
    <3> HIDE DEF a, b
    <3>2. first >= 1 => 0 = (first - 1) \div 8 /\ a = (y + first - 1) \div 8
      BY <1>0, <1>1, <3>1
    <3> QED BY <3>2 DEF a
  <2>3. y \div 8 \in Int
    BY <1>0
  <2> QED BY <1>0, <1>1, <2>1, <2>2, <2>3 DEF InLoop, Pages
<1>5. ASSUME NEW n \in Nat
      PROVE  /\ InLoop(at[n], y, first, totalRows)
             /\ at[n].nRows = totalRows \/ at[n].nRows >= n
             /\ \A j \in first .. at[n].nRows - 1 : \E k \in 0 .. n - 1 : at[k].nRows <= j /\ j < at[k + 1].nRows
  <2> DEFINE Good(m) == /\ InLoop(at[m], y, first, totalRows)
                        /\ at[m].nRows = totalRows \/ at[m].nRows >= m
                        /\ \A j \in first .. at[m].nRows - 1 :
                              \E k \in 0 .. m - 1 : at[k].nRows <= j /\ j < at[k + 1].nRows
             S == {m \in 0 .. n : Good(m)}
  <2>1. 0 \in S
    BY <1>0, <1>1, <1>4
  <2>2. ASSUME NEW m \in 0 .. n - 1, m \in S PROVE m + 1 \in S
    <3> DEFINE t == m + 1
    <3>1. t \in 0 .. n /\ t = m + 1 /\ m \in Nat /\ at[t] = Frame!Turn(at[m], y, totalRows)
      BY <1>2
    <3>2. Good(m)
      BY <2>2
    <3> HIDE DEF t
    <3>3. /\ InLoop(at[t], y, first, totalRows)
          /\ at[m].nRows <= at[t].nRows /\ (at[m].nRows < totalRows => at[m].nRows < at[t].nRows)
      <4> DEFINE one == at[m]
                 next == at[t]
      <4>1. InLoop(one, y, first, totalRows) /\ next = Frame!Turn(one, y, totalRows)
        BY <3>1, <3>2
      <4> HIDE DEF one, next
      <4>2. InLoop(next, y, first, totalRows) /\ one.nRows <= next.nRows /\ (one.nRows < totalRows => one.nRows < next.nRows)
        BY <1>0, <1>1, <4>1, TurnGoes
      <4> QED BY <4>2 DEF one, next
    <3> DEFINE from == at[m].nRows
               to == at[t].nRows
    <3>4. from \in Int /\ to \in Int /\ from <= totalRows /\ to <= totalRows
      BY <3>2, <3>3 DEF InLoop, Pages
    <3>5. to = totalRows \/ to >= t
      <4>1. (from = totalRows \/ from >= m) /\ from <= to /\ (from < totalRows => from < to)
        BY <3>2, <3>3
      <4> HIDE DEF from, to
      <4> QED BY <1>0, <3>1, <3>4, <4>1
    <3>6. ASSUME NEW j \in first .. to - 1
          PROVE  \E k \in 0 .. t - 1 : at[k].nRows <= j /\ j < at[k + 1].nRows
      <4>1. CASE j < from
        <5>1. j \in first .. from - 1
          BY <1>0, <1>1, <3>4, <4>1
        <5>2. PICK k \in 0 .. m - 1 : at[k].nRows <= j /\ j < at[k + 1].nRows
          BY <3>2, <5>1
        <5>3. k \in 0 .. t - 1
          BY <3>1
        <5> QED BY <5>2, <5>3
      <4>2. CASE ~(j < from)
        <5>1. m \in 0 .. t - 1 /\ from <= j /\ j < to
          BY <1>0, <1>1, <3>1, <3>4, <4>2
        <5> QED BY <3>1, <5>1
      <4> QED BY <4>1, <4>2
    <3>7. Good(t)
      BY <3>3, <3>5, <3>6
    <3> QED BY <3>1, <3>7 DEF t
  <2> HIDE DEF S
  <2>3. \A m \in 0 .. n : m \in S
    BY <2>1, <2>2, UpTo
  <2> QED BY <2>3 DEF S
<1>6. ASSUME NEW k \in Nat
      PROVE  /\ Rows(k) = GlyphRows(glyph, x, y, drawW, at[k].nRows, at[k + 1].nRows)
             /\ at[k].nRows \in Int /\ at[k].nRows >= first
             /\ at[k + 1].nRows \in Int /\ at[k + 1].nRows <= totalRows
  <2> DEFINE t == k + 1
  <2>1. t \in Nat /\ at[t] = Frame!Turn(at[k], y, totalRows)
    BY <1>2
  <2>2. InLoop(at[k], y, first, totalRows)
    BY <1>5
  <2> HIDE DEF t
  <2>3. Rows(k) = GlyphRows(glyph, x, y, drawW, at[k].nRows, at[t].nRows)
    BY <1>0, <1>1, <2>1, <2>2, TurnGoes
  <2>4. InLoop(at[t], y, first, totalRows)
    BY <1>5, <2>1
  <2>5. /\ at[k].nRows \in Int /\ at[k].nRows >= first
        /\ at[t].nRows \in Int /\ at[t].nRows <= totalRows
    BY <1>0, <1>1, <2>2, <2>4 DEF InLoop, Pages
  <2> HIDE DEF Rows
  <2> QED BY <2>3, <2>5 DEF t
<1>7. ASSUME NEW k \in 0 .. totalRows, NEW p \in Rows(k) PROVE p \in all
  <2> DEFINE from == at[k].nRows
             to == at[k + 1].nRows
  <2>1. Rows(k) = GlyphRows(glyph, x, y, drawW, from, to) /\ from \in Int /\ from >= first /\ to \in Int /\ to <= totalRows
    BY <1>6
  <2> HIDE DEF from, to, Rows
  <2>2. \A j : j \in from .. to - 1 => j \in first .. totalRows - 1
    BY <1>0, <1>1, <2>1
  <2> QED BY <1>7, <2>1, <2>2 DEF GlyphRows
<1>8. ASSUME NEW p \in all PROVE \E k \in 0 .. totalRows : p \in Rows(k)
  <2>1. PICK q \in glyph : q[1] < drawW /\ q[2] \in first .. totalRows - 1 /\ p = <<x + q[1], y + q[2]>>
    BY DEF GlyphRows
  <2> DEFINE j == q[2]
             n == totalRows
  <2>2. j \in first .. n - 1 /\ j \in Int
    BY <1>0, <1>1, <2>1
  <2>3. InLoop(at[n], y, first, totalRows) /\ (at[n].nRows = n \/ at[n].nRows >= n)
    BY <1>0, <1>5
  <2>4. at[n].nRows = n
    BY <1>0, <2>3 DEF InLoop, Pages
  <2>5. PICK k \in 0 .. n - 1 : at[k].nRows <= j /\ j < at[k + 1].nRows
    BY <1>0, <1>5, <2>2, <2>4
  <2>6. k \in 0 .. totalRows /\ k \in Nat
    BY <1>0
  <2> DEFINE from == at[k].nRows
             to == at[k + 1].nRows
  <2>7. Rows(k) = GlyphRows(glyph, x, y, drawW, from, to) /\ from \in Int /\ to \in Int
    BY <1>6, <2>6
  <2>8. from <= j /\ j < to
    BY <2>5
  <2> HIDE DEF from, to, Rows
  <2>9. j \in from .. to - 1
    BY <2>2, <2>7, <2>8
  <2>10. p \in Rows(k)
    BY <2>1, <2>7, <2>9 DEF GlyphRows
  <2> QED BY <2>6, <2>10
<1> HIDE DEF Rows, all
<1>9. Frame!BlitFrom(glyph, x, y, drawW, first, totalRows) = all
  BY <1>3, <1>7, <1>8
<1> QED BY <1>9 DEF all

\* Where putc() puts a glyph, and how much of it.
Placed(glyph, charW, fontHeight, x, y, drawW, totalRows, first) ==
    /\ charW \in Nat /\ fontHeight \in Nat
    /\ glyph \subseteq (0 .. charW - 1) \X (0 .. fontHeight - 1)
    /\ x \in 0 .. Width - 1 /\ y \in 0 .. Height - 1
    /\ drawW = Frame!Smaller(charW, Width - x)
    /\ totalRows = Frame!Smaller(fontHeight, Height - y)
    /\ first = Frame!Smaller(totalRows, 8 - (y % 8))

\* A glyph, as far as it is on the frame.
LEMMA ShapeIs ==
  ASSUME NEW glyph, NEW charW, NEW fontHeight, NEW x, NEW y, NEW drawW, NEW totalRows, NEW first,
         Placed(glyph, charW, fontHeight, x, y, drawW, totalRows, first)
  PROVE  Frame!Blit(glyph, x, drawW, 0, 0, y \div 8, y % 8, first)
         \cup Frame!BlitFrom(glyph, x, y, drawW, first, totalRows)
         = {p \in Frame!Screen : <<p[1] - x, p[2] - y>> \in glyph}
<1> DEFINE there == {p \in Frame!Screen : <<p[1] - x, p[2] - y>> \in glyph}
           page == y \div 8
           bit == y % 8
           none == 0
<1>0. /\ charW \in Nat /\ fontHeight \in Nat /\ glyph \subseteq (0 .. charW - 1) \X (0 .. fontHeight - 1)
      /\ x \in 0 .. Width - 1 /\ y \in 0 .. Height - 1 /\ drawW = Frame!Smaller(charW, Width - x)
      /\ totalRows = Frame!Smaller(fontHeight, Height - y) /\ first = Frame!Smaller(totalRows, 8 - (y % 8))
  BY DEF Placed
<1>1. /\ x \in Int /\ y \in Nat /\ drawW \in Nat /\ totalRows \in Nat
      /\ drawW <= charW /\ drawW <= Width - x /\ (drawW = charW \/ drawW = Width - x)
      /\ totalRows <= fontHeight /\ totalRows <= Height - y
      /\ (totalRows = fontHeight \/ totalRows = Height - y)
  BY <1>0, FrameSize DEF Frame!Smaller
<1>2. IsGlyph(glyph)
  BY <1>0 DEF IsGlyph
<1>3. first \in Int /\ first <= totalRows /\ first >= 0
  <2>1. bit \in 0 .. 7 /\ first = Frame!Smaller(totalRows, 8 - bit)
    BY <1>0, <1>1
  <2> HIDE DEF bit
  <2> QED BY <1>1, <2>1 DEF Frame!Smaller
<1>4. Frame!Blit(glyph, x, drawW, 0, 0, page, bit, first) = GlyphRows(glyph, x, y, drawW, 0, first)
  <2>1. page \in Int /\ bit \in Int /\ none \in Int /\ y + none = 8 * page + bit /\ none = 8 * none + none
        /\ first = none + first
    BY <1>1, <1>3
  <2> HIDE DEF page, bit, none
  <2>2. Aligned(none, first, y, none, none, page, bit, first)
    BY <1>3, <2>1 DEF Aligned
  <2>3. Frame!Blit(glyph, x, drawW, none, none, page, bit, first) = GlyphRows(glyph, x, y, drawW, none, first)
    <3>1. y \in Int /\ drawW \in Int
      BY <1>1
    <3> QED BY <1>1, <1>2, <2>2, <3>1, BlitIs
  <2> QED BY <2>3 DEF none
<1>5. Frame!BlitFrom(glyph, x, y, drawW, first, totalRows) = GlyphRows(glyph, x, y, drawW, first, totalRows)
  <2>1. drawW \in Int /\ x \in Int /\ y \in Nat /\ totalRows \in Nat
    BY <1>1
  <2>2. FirstRows(first, y, totalRows)
    BY <1>0, <2>1 DEF FirstRows
  <2> QED BY <1>2, <2>1, <2>2, LoopIs
<1>6. ASSUME NEW p \in GlyphRows(glyph, x, y, drawW, 0, first) \cup GlyphRows(glyph, x, y, drawW, first, totalRows)
      PROVE  p \in there
  <2>1. PICK q \in glyph : q[1] < drawW /\ q[2] < totalRows /\ p = <<x + q[1], y + q[2]>>
    BY <1>1, <1>3 DEF GlyphRows
  <2>2. q = <<q[1], q[2]>> /\ q[1] \in Nat /\ q[2] \in Nat /\ q[1] < charW /\ q[2] < fontHeight
    BY <1>0, <2>1
  <2>3. p[1] - x = q[1] /\ p[2] - y = q[2]
    BY <1>1, <2>1, <2>2
  <2>4. p \in Frame!Screen
    BY <1>0, <1>1, <2>1, <2>2, FrameSize DEF Frame!Screen
  <2> QED BY <2>1, <2>2, <2>3, <2>4
<1>7. ASSUME NEW p \in there
      PROVE  p \in GlyphRows(glyph, x, y, drawW, 0, first) \cup GlyphRows(glyph, x, y, drawW, first, totalRows)
  <2> DEFINE q == <<p[1] - x, p[2] - y>>
  <2>1. q \in glyph /\ p \in Frame!Screen
    BY <1>7
  <2>2. /\ p = <<p[1], p[2]>> /\ p[1] \in 0 .. Width - 1 /\ p[2] \in 0 .. Height - 1
    BY <2>1, FrameSize DEF Frame!Screen
  <2>3. q[1] \in 0 .. charW - 1 /\ q[2] \in 0 .. fontHeight - 1 /\ q[1] = p[1] - x /\ q[2] = p[2] - y
    BY <1>0, <2>1
  <2> HIDE DEF q
  <2>4. q[1] < drawW /\ q[2] < totalRows /\ p = <<x + q[1], y + q[2]>>
    BY <1>0, <1>1, <2>2, <2>3, FrameSize
  <2>5. q[2] \in 0 .. first - 1 \/ q[2] \in first .. totalRows - 1
    BY <1>1, <1>3, <2>3, <2>4
  <2> QED BY <2>1, <2>4, <2>5 DEF GlyphRows
<1> HIDE DEF there
<1>8. GlyphRows(glyph, x, y, drawW, 0, first) \cup GlyphRows(glyph, x, y, drawW, first, totalRows) = there
  BY <1>6, <1>7
<1> QED BY <1>4, <1>5, <1>8 DEF there

\* What is cleared behind a glyph.
LEMMA BehindIs ==
  ASSUME NEW x \in Nat, NEW y \in 0 .. Height - 1, NEW charW \in Nat, x + charW <= Width,
         NEW charSpacing \in Nat, NEW fontHeight \in Nat
  PROVE  Frame!bitOpRect(x + charW, y, Frame!Smaller(Width - x - charW, charSpacing), fontHeight)
         = {p \in Frame!Screen : /\ p[1] \in x + charW .. x + charW + charSpacing - 1
                                 /\ p[2] \in y .. y + fontHeight - 1}
<1> DEFINE from == x + charW
           w == Frame!Smaller(Width - x - charW, charSpacing)
<1>1. from \in Int /\ from <= Width /\ w \in Nat /\ w <= Width - from /\ (w = charSpacing \/ w = Width - from)
      /\ w <= charSpacing /\ from >= 0 /\ y \in Int /\ Frame!Clip(y, Height) = y
  BY FrameSize DEF Frame!Smaller, Frame!Clip
<1> HIDE DEF from, w
<1>2. Frame!bitOpRect(from, y, w, fontHeight)
      = {p \in Frame!Screen : /\ p[1] \in Frame!Clip(from, Width) .. Frame!Clip(from, Width) + w - 1
                              /\ p[2] \in Frame!Clip(y, Height) .. Frame!Clip(y, Height) + fontHeight - 1}
  BY <1>1, RectIs
<1>3. ASSUME NEW p \in Frame!Screen
      PROVE  p[1] \in Frame!Clip(from, Width) .. Frame!Clip(from, Width) + w - 1
             <=> p[1] \in from .. from + charSpacing - 1
  <2>1. p[1] \in 0 .. Width - 1
    BY DEF Frame!Screen
  <2>2. CASE from = Width
    <3>1. w = 0
      BY <1>1, <2>2, FrameSize
    <3> QED BY <1>1, <2>1, <2>2, <3>1, FrameSize DEF Frame!Clip
  <2>3. CASE from < Width
    <3>1. Frame!Clip(from, Width) = from
      BY <1>1, <2>3, FrameSize DEF Frame!Clip
    <3> QED BY <1>1, <2>1, <2>3, <3>1, FrameSize
  <2> QED BY <1>1, <2>2, <2>3, FrameSize
<1>4. Frame!bitOpRect(from, y, w, fontHeight)
      = {p \in Frame!Screen : p[1] \in from .. from + charSpacing - 1 /\ p[2] \in y .. y + fontHeight - 1}
  BY <1>1, <1>2, <1>3
<1> QED BY <1>4 DEF from, w

LEMMA GlyphDraws == ASSUME Frame!DrawGlyph PROVE ShapesDrawn'
<1>1. PICK c \in Calls.glyph :
        Frame!Draw("glyph", c, Frame!putc(frame, c.glyph, c.charW, c.charSpacing, c.fontHeight, c.x, c.y, c.flags, c.color))
  BY DEF Frame!DrawGlyph
<1> DEFINE x == c.x
           y == c.y
           glyph == c.glyph
           charW == c.charW
           fontHeight == c.fontHeight
           charSpacing == c.charSpacing
           flags == c.flags
           color == c.color
<1>2. /\ charW \in Nat /\ charSpacing \in Nat /\ fontHeight \in Nat /\ x \in Nat /\ y \in Nat /\ color \in BOOLEAN
      /\ glyph \subseteq (0 .. charW - 1) \X (0 .. fontHeight - 1)
  BY FrameAssumption DEF Frame!MonoFrameAssumption, Frame!LegalCalls
<1>3. /\ call'.f = "glyph" /\ call'.args = c /\ before' = frame
      /\ frame' = Frame!putc(frame, glyph, charW, charSpacing, fontHeight, x, y, flags, color)
  BY <1>1 DEF Frame!Draw, Frame!Drawn
<1> DEFINE there == {p \in Frame!Screen : <<p[1] - x, p[2] - y>> \in glyph}
           behind == {p \in Frame!Screen : /\ p[1] \in x + charW .. x + charW + charSpacing - 1
                                           /\ p[2] \in y .. y + fontHeight - 1}
           whole == x + charW <= Width
           drawW == Frame!Smaller(charW, Width - x)
           totalRows == Frame!Smaller(fontHeight, Height - y)
           first == Frame!Smaller(totalRows, 8 - (y % 8))
           shape == Frame!Blit(glyph, x, drawW, 0, 0, y \div 8, y % 8, first) \cup
                    Frame!BlitFrom(glyph, x, y, drawW, first, totalRows)
           drawn == Frame!fillRect(frame, shape, color # ("NoBackground" \in flags))
           gap == Frame!bitOpRect(x + drawW, y, Frame!Smaller(Width - x - drawW, charSpacing), fontHeight)
           result == IF x >= Width \/ (~whole /\ "AllowPartial" \notin flags) THEN frame
                     ELSE IF "NoBackground" \in flags THEN (IF ~color THEN frame \cup there ELSE frame \ there)
                     ELSE (IF color THEN frame \cup there ELSE frame \ there) \ behind
<1>4. frame' = IF y >= Height \/ x >= Width \/ (drawW < charW /\ "AllowPartial" \notin flags) THEN frame
               ELSE IF drawW < charW \/ "NoBackground" \in flags THEN drawn
               ELSE drawn \ gap
  BY <1>3 DEF Frame!putc
<1>5. x < Width => (drawW < charW <=> ~whole) /\ (whole => drawW = charW)
  BY <1>2, FrameSize DEF Frame!Smaller
<1>6. x < Width /\ y < Height => shape = there
  <2> SUFFICES ASSUME x < Width, y < Height PROVE shape = there
    OBVIOUS
  <2>1. x \in 0 .. Width - 1 /\ y \in 0 .. Height - 1
    BY <1>2, FrameSize
  <2>2. first = Frame!Smaller(totalRows, 8 - (y % 8)) /\ drawW = Frame!Smaller(charW, Width - x)
        /\ totalRows = Frame!Smaller(fontHeight, Height - y)
    OBVIOUS
  <2> HIDE DEF first, drawW, totalRows, x, y, glyph, charW, fontHeight
  <2>3. Placed(glyph, charW, fontHeight, x, y, drawW, totalRows, first)
    BY <1>2, <2>1, <2>2 DEF Placed
  <2>4. Frame!Blit(glyph, x, drawW, 0, 0, y \div 8, y % 8, first) \cup
        Frame!BlitFrom(glyph, x, y, drawW, first, totalRows)
        = {p \in Frame!Screen : <<p[1] - x, p[2] - y>> \in glyph}
    BY <2>3, ShapeIs
  <2> QED BY <2>4
<1>7. x < Width /\ y < Height /\ whole => gap = behind
  <2> SUFFICES ASSUME x < Width, y < Height, whole PROVE gap = behind
    OBVIOUS
  <2>1. y \in 0 .. Height - 1 /\ drawW = charW
    BY <1>2, <1>5, FrameSize
  <2> HIDE DEF drawW, x, y, charW, fontHeight, charSpacing
  <2>2. Frame!bitOpRect(x + charW, y, Frame!Smaller(Width - x - charW, charSpacing), fontHeight) = behind
    BY <1>2, <2>1, BehindIs
  <2> QED BY <2>1, <2>2
<1>8. ~whole => behind = {}
  BY <1>2, FrameSize DEF Frame!Screen
<1>9. y >= Height => there = {} /\ behind = {}
  <2> SUFFICES ASSUME y >= Height PROVE there = {} /\ behind = {}
    OBVIOUS
  <2>1. ASSUME NEW p \in there PROVE FALSE
    <3>1. p[2] \in 0 .. Height - 1
      BY <2>1 DEF Frame!Screen
    <3>2. p[2] - y \in 0 .. fontHeight - 1
      BY <1>2, <2>1
    <3> QED BY <1>2, <3>1, <3>2, FrameSize
  <2>2. behind = {}
    BY <1>2, FrameSize DEF Frame!Screen
  <2> QED BY <2>1, <2>2
<1> HIDE DEF there, behind, shape, gap, drawW
<1>10. frame' = result
  <2>1. CASE x >= Width
    BY <1>4, <2>1
  <2>2. CASE ~(x >= Width) /\ y >= Height
    BY <1>4, <1>9, <2>2
  <2>3. CASE ~(x >= Width) /\ ~(y >= Height)
    <3>1. x < Width /\ y < Height
      BY <1>2, <2>3, FrameSize
    <3>2. drawn = IF color # ("NoBackground" \in flags) THEN frame \cup there ELSE frame \ there
      BY <1>6, <3>1 DEF Frame!fillRect
    <3> HIDE DEF drawn, x, y, charW, color, flags
    <3>3. CASE "NoBackground" \in flags
      BY <1>2, <1>4, <1>5, <2>3, <3>1, <3>2, <3>3
    <3>4. CASE "NoBackground" \notin flags
      <4>1. drawn = IF color THEN frame \cup there ELSE frame \ there
        <5>1. color # ("NoBackground" \in flags) <=> color
          BY <1>2, <3>4
        <5> QED BY <3>2, <5>1
      <4> HIDE DEF whole
      <4>2. CASE whole
        BY <1>4, <1>5, <1>7, <2>3, <3>1, <3>4, <4>1, <4>2
      <4>3. CASE ~whole
        <5>1. frame' = IF "AllowPartial" \notin flags THEN frame ELSE drawn
          BY <1>4, <1>5, <2>3, <3>1, <3>4, <4>3
        <5>2. result = IF "AllowPartial" \notin flags THEN frame ELSE (IF color THEN frame \cup there ELSE frame \ there) \ behind
          BY <2>3, <3>1, <3>4, <4>3
        <5>3. \A s : s \ behind = s
          BY <1>8, <4>3
        <5> QED BY <4>1, <5>1, <5>2, <5>3
      <4> QED BY <4>2, <4>3
    <3> QED BY <3>3, <3>4
  <2> QED BY <2>1, <2>2, <2>3
<1>11. Frame!GlyphDrawn(c)'
  BY <1>3, <1>10 DEF Frame!GlyphDrawn, Frame!Paint, there, behind
<1> QED BY <1>3, <1>11 DEF ShapesDrawn, Frame!ShapesDrawn

LEMMA FrameKeeps == ASSUME ShapesDrawn, [Frame!FrameNext]_frameVars PROVE ShapesDrawn'
<1>1. CASE Frame!Fill
  <2>1. call'.f = "fill"
    BY <1>1 DEF Frame!Fill, Frame!Drawn
  <2> QED BY <2>1 DEF ShapesDrawn, Frame!ShapesDrawn
<1>2. CASE UNCHANGED frameVars
  BY <1>2 DEF frameVars, ShapesDrawn, Frame!ShapesDrawn, Frame!RectDrawn, Frame!HLineDrawn, Frame!VLineDrawn,
              Frame!PixelDrawn, Frame!LineDrawn, Frame!GlyphDrawn, Frame!Paint
<1> QED BY <1>1, <1>2, RectDraws, StraightDraws, LineDraws, GlyphDraws DEF Frame!FrameNext

LEMMA FrameBegins == ASSUME Frame!FrameInit PROVE ShapesDrawn
BY DEF Frame!FrameInit, ShapesDrawn, Frame!ShapesDrawn

\* On a frame of any size, and for any rectangles, lines, pixels and glyphs, each call
\* changes the pixels of its shape, all of them and no others: the bytes of eight rows,
\* the masks of the first and the last of them and the clipping add up for every
\* place, and the error of a sloped line never leaves half a pixel.
THEOREM ShapesDrawnHolds == MCSpec => []ShapesDrawn
<1>1. MCInit => ShapesDrawn
  BY FrameBegins DEF MCInit
<1>2. ShapesDrawn /\ [MCNext]_allVars => ShapesDrawn'
  BY StepOfEach, FrameKeeps
<1> QED BY <1>1, <1>2, PTL DEF MCSpec
=============================================================================
