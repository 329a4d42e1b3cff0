------------------------------ MODULE NvsHandle ------------------------------
(***************************************************************************)
(* mySystem/nvsHandle.hpp: a write-behind cache in front of the ESP-IDF    *)
(* key-value store. Writes go to mCommitItems; a periodic FreeRTOS timer,  *)
(* whose callback runs in the timer service task, moves each item to the   *)
(* store when it has been left alone for a while; commit(), the iterator   *)
(* and the destructor move all of them at once.                            *)
(*                                                                         *)
(* A member function takes the recursive mMutex for its whole body, except *)
(* that strings and erasures go to the store after releasing it. Starting, *)
(* stopping, changing and deleting a timer only posts a command to a queue *)
(* of the timer service, and waits, mutex held, while that queue is full.  *)
(***************************************************************************)
EXTENDS Integers, Sequences, FiniteSets

CONSTANTS Keys,
          Values,           \* pairs <<"num" or "str", size>>
          Absent,           \* what the store holds for a key it does not have
          Users,            \* the tasks that use the handle
          Daemon,           \* the timer service task
          Nobody,           \* the value of mutex when it is free
          Calls,            \* which member functions the tasks use
          DirectTypes,      \* types that are also written with writeDirect
          Periods,          \* timer periods that are used; 0 is "no delay"
          FirstPeriod,      \* the one given to the constructor
          Timers,           \* timers, as FreeRTOS objects
          NoTimer,          \* the null handle
          QueueLen          \* configTIMER_QUEUE_LENGTH

AllCalls == {"write", "readString", "erase", "commit", "setPeriod", "iterate", "destroy",
             "restart"}

ASSUME NvsAssumption ==
    /\ Absent \notin Values
    /\ Values \subseteq {"num", "str"} \X Nat
    /\ {Daemon, Nobody} \cap Users = {} /\ Daemon # Nobody
    /\ Calls \subseteq AllCalls
    /\ DirectTypes \subseteq {"num", "str"}
    /\ Periods \subseteq Nat /\ FirstPeriod \in Periods
    /\ NoTimer \notin Timers
    /\ QueueLen \in Nat \ {0}
    /\ IsFiniteSet(Timers) /\ Cardinality(Timers) >= QueueLen + 2

VARIABLES items,            \* mCommitItems, per key
          set,              \* what mHandle was told, per key
          flash,            \* what a restart finds, per key
          period,           \* mTimerPeriod
          timer,            \* mTimer
          running,          \* mTimerIsRunning
          alive,            \* the handle has not been destroyed
          mutex,            \* the holder of mMutex, or Nobody
          todo,             \* what the holder still has to do before it releases it
          queue,            \* commands to the timer service: <<command, timer>>
          exists, active,   \* the timers that are allocated; those that tick
          dpc,              \* where the timer service is: "idle", "fired", "sync"
          pc, arg,          \* per user: where it is, and its key, length and value
          orig,             \* NvsIterator::mOrigCommitDelay, per user
          given,            \* per key: what the last write or erasure said
          since,            \* per key: its values since the last commit() returned
          seen              \* per user: the values of its key since its call began

cacheVars == <<items, set>>
timerVars == <<period, timer, running, exists>>
userVars  == <<pc, arg, orig>>
vars == <<cacheVars, flash, timerVars, alive, mutex, todo, queue, active, dpc, userVars,
          given, since, seen>>

TicksTillCommit == 2        \* CommitItem::kTimerTicksTillCommit
NoItem == [val |-> Absent, ticks |-> 0]
Item(v) == [val |-> v, ticks |-> TicksTillCommit]
NoArg  == [key |-> Absent, len |-> 0, val |-> Absent]
TypeOf(v) == v[1]
SizeOf(v) == v[2]

Cached(k) == items[k] # NoItem
Empty     == \A k \in Keys : ~Cached(k)
\* What a caller is told that key k holds.
Shown(cache, store, k) == IF cache[k] # NoItem THEN cache[k].val ELSE store[k]
View(k)   == Shown(items, set, k)
Free      == mutex = Nobody

Reading == {"size", "get", "done"}
CommitNow == <<"flush", "sync">>
StopFirst(script) == IF running THEN <<"Stop">> \o script ELSE script
StartIfStopped == IF running THEN <<>> ELSE <<"Start">>
HasTimerUnchecked == FALSE
HasTimer == timer # NoTimer

Init ==
    /\ items = [k \in Keys |-> NoItem]
    /\ set = [k \in Keys |-> Absent]
    /\ flash = set
    /\ period = FirstPeriod
    /\ timer = IF FirstPeriod = 0 THEN NoTimer ELSE CHOOSE id \in Timers : TRUE
    /\ exists = {timer} \ {NoTimer}
    /\ running = FALSE
    /\ alive = TRUE
    /\ mutex = Nobody
    /\ todo = <<>>
    /\ queue = <<>>
    /\ active = {}
    /\ dpc = "idle"
    /\ pc = [t \in Users |-> "idle"]
    /\ arg = [t \in Users |-> NoArg]
    /\ orig = [t \in Users |-> 0]
    /\ given = set
    /\ since = [k \in Keys |-> {Absent}]
    /\ seen = [t \in Users |-> {}]

\* Task t locks the mutex, and keeps it if there is more to do.
Lock(t, script) ==
    /\ Free /\ alive
    /\ mutex' = IF script = <<>> THEN Nobody ELSE t
    /\ todo' = script

Go(t, where, a) == pc' = [pc EXCEPT ![t] = where] /\ arg' = [arg EXCEPT ![t] = a]

\* Bookkeeping of the two histories.
Remember == since' = [k \in Keys |-> since[k] \cup {View(k)', set'[k]}]
Observe ==
    seen' = [t \in Users |->
               IF pc'[t] \notin Reading THEN {}
               ELSE (IF pc[t] \in Reading THEN seen[t] ELSE {View(arg'[t].key)})
                    \cup {Shown(items', set', arg'[t].key)}]

-----------------------------------------------------------------------------
\* Writing. A write of another type than the cached one is refused; it changes
\* nothing.

\* The item is new, and the timer has to run.
WriteNew(t, k, v) ==
    /\ timer # NoTimer
    /\ ~Cached(k)
    /\ items' = [items EXCEPT ![k] = Item(v)]
    /\ Lock(t, StartIfStopped)
    /\ UNCHANGED set

\* The item is there and waits as long as a new one.
WriteAgain(t, k, v) ==
    /\ timer # NoTimer
    /\ Cached(k)
    /\ TypeOf(items[k].val) = TypeOf(v)
    /\ items' = [items EXCEPT ![k] = Item(v)]
    /\ Lock(t, <<>>)
    /\ UNCHANGED set

\* Straight to the store. A cached item is dropped first. For a number write()
\* then goes on with the item it deleted: nothing reaches the store, and the
\* call ends with ESP_OK, with an error or in an abort (Restart).
StoreDirectOnly(k, v) == set' = [set EXCEPT ![k] = v] /\ UNCHANGED items
StoreDirect(k, v) ==
    /\ items' = [items EXCEPT ![k] = NoItem]
    /\ set' = IF Cached(k) /\ TypeOf(v) = "num" THEN set ELSE [set EXCEPT ![k] = v]

WriteDirect(t, k, v) ==
    /\ timer = NoTimer \/ TypeOf(v) \in DirectTypes
    /\ StoreDirect(k, v)
    /\ Lock(t, <<>>)

Write(t) ==
    /\ "write" \in Calls
    /\ pc[t] \in {"idle", "iter"}
    /\ \E k \in Keys, v \in Values :
         /\ WriteNew(t, k, v) \/ WriteAgain(t, k, v) \/ WriteDirect(t, k, v)
         /\ given' = [given EXCEPT ![k] = v]
    /\ UNCHANGED <<flash, timerVars, alive, queue, active, dpc, userVars>>
    /\ Remember

-----------------------------------------------------------------------------
\* Reading a string. (A number is read under the mutex in one step: View.)

LookUpStoreOnly(t, k) == Go(t, "size", [NoArg EXCEPT !.key = k])

\* A cached value is copied under the mutex; otherwise the store is asked later.
LookUp(t, k) ==
    IF Cached(k)
    THEN /\ TypeOf(items[k].val) = "str"
         /\ Go(t, "done", [key |-> k, len |-> SizeOf(View(k)), val |-> View(k)])
    ELSE Go(t, "size", [NoArg EXCEPT !.key = k])

ReadString(t) ==
    /\ "readString" \in Calls
    /\ pc[t] = "idle"
    /\ \E k \in Keys : LookUp(t, k)
    /\ Lock(t, <<>>)
    /\ UNCHANGED <<cacheVars, flash, timerVars, alive, queue, active, dpc, orig, given, since>>

StoredString(k) == set[k] # Absent /\ TypeOf(set[k]) = "str"

\* get_item_size, without the mutex; the caller's buffer is large enough.
ReadSize(t) ==
    /\ pc[t] = "size"
    /\ LET k == arg[t].key
       IN  \/ StoredString(k) /\ Go(t, "get", [arg[t] EXCEPT !.len = SizeOf(set[k])])
           \/ ~StoredString(k) /\ Go(t, "idle", NoArg)
    /\ UNCHANGED <<cacheVars, flash, timerVars, alive, mutex, todo, queue, active, dpc, orig, given, since>>

\* get_string, with the length found before: it fails when the string no longer
\* fits in that.
ReadGet(t) ==
    /\ pc[t] = "get"
    /\ LET k == arg[t].key
           fits == StoredString(k) /\ SizeOf(set[k]) <= arg[t].len
       IN  \/ fits /\ Go(t, "done", [arg[t] EXCEPT !.val = set[k]])
           \/ ~fits /\ Go(t, "idle", NoArg)
    /\ UNCHANGED <<cacheVars, flash, timerVars, alive, mutex, todo, queue, active, dpc, orig, given, since>>

ReadReturn(t) ==
    /\ pc[t] = "done"
    /\ Go(t, "idle", NoArg)
    /\ UNCHANGED <<cacheVars, flash, timerVars, alive, mutex, todo, queue, active, dpc, orig, given, since>>

-----------------------------------------------------------------------------
\* Erasing: from the cache under the mutex, from the store after releasing it.
EraseCached(t) ==
    /\ "erase" \in Calls
    /\ pc[t] = "idle"
    /\ \E k \in Keys : /\ items' = [items EXCEPT ![k] = NoItem]
                       /\ Go(t, "erase", [NoArg EXCEPT !.key = k])
                       /\ given' = [given EXCEPT ![k] = Absent]
    /\ Lock(t, <<>>)
    /\ UNCHANGED <<set, flash, timerVars, alive, queue, active, dpc, orig>>
    /\ Remember

EraseStored(t) ==
    /\ pc[t] = "erase"
    /\ set' = [set EXCEPT ![arg[t].key] = Absent]
    /\ given' = [given EXCEPT ![arg[t].key] = IF Cached(arg[t].key) THEN @ ELSE Absent]
    /\ Go(t, "idle", NoArg)
    /\ UNCHANGED <<items, flash, timerVars, alive, mutex, todo, queue, active, dpc, orig>>
    /\ Remember

-----------------------------------------------------------------------------
\* commit(), the delay, iterators and the destructor: scripts.

Commit(t) ==
    /\ "commit" \in Calls
    /\ pc[t] = "idle"
    /\ Lock(t, StopFirst(CommitNow))
    /\ UNCHANGED <<cacheVars, flash, timerVars, alive, queue, active, dpc, userVars, given, since>>

\* setAutoCommitOsTicks
SetPeriod(t, p) ==
    /\ period' = p
    /\ \/ p = period /\ Lock(t, <<>>) /\ UNCHANGED <<timer, exists>>
       \/ /\ p # period /\ p = 0
          /\ Lock(t, <<"Delete">> \o CommitNow)
          /\ UNCHANGED <<timer, exists>>
       \/ /\ p # period /\ p # 0 /\ HasTimer
          /\ Lock(t, <<"Change">>)
          /\ UNCHANGED <<timer, exists>>
       \/ /\ p # period /\ p # 0 /\ ~HasTimer
          /\ timer' = CHOOSE id \in Timers \ exists : TRUE
          /\ exists' = exists \cup {timer'}
          /\ Lock(t, <<>>)
    /\ UNCHANGED running

EnableAutoCommit(t) ==
    /\ "setPeriod" \in Calls
    /\ pc[t] = "idle"
    /\ \E p \in Periods : SetPeriod(t, p)
    /\ UNCHANGED <<cacheVars, flash, alive, queue, active, dpc, userVars, given, since>>

BeginIterate(t) ==
    /\ "iterate" \in Calls
    /\ pc[t] = "idle"
    /\ SetPeriod(t, 0)
    /\ Go(t, "iter", NoArg)
    /\ orig' = [orig EXCEPT ![t] = period]
    /\ UNCHANGED <<cacheVars, flash, alive, queue, active, dpc, given, since>>

EndIterate(t) ==
    /\ pc[t] = "iter"
    /\ SetPeriod(t, orig[t])
    /\ Go(t, "idle", NoArg)
    /\ orig' = [orig EXCEPT ![t] = 0]
    /\ UNCHANGED <<cacheVars, flash, alive, queue, active, dpc, given, since>>

\* Nobody may be in a call of an object that is destroyed; the timer may.
Destroy(t) ==
    /\ "destroy" \in Calls
    /\ \A u \in Users : pc[u] = "idle"
    /\ Lock(t, StopFirst(CommitNow) \o (IF timer = NoTimer THEN <<>> ELSE <<"Delete">>)
               \o <<"free">>)
    /\ UNCHANGED <<cacheVars, flash, timerVars, alive, queue, active, dpc, userVars, given, since>>

-----------------------------------------------------------------------------
\* The steps of the task that holds the mutex.

Step(what) ==
    /\ todo # <<>> /\ Head(todo) = what
    /\ todo' = Tail(todo)
    /\ mutex' = IF todo' = <<>> THEN Nobody ELSE mutex

Post(command) ==
    /\ Step(command)
    /\ Len(queue) < QueueLen
    /\ queue' = Append(queue, <<command, timer>>)
    /\ UNCHANGED <<cacheVars, flash, period, exists, alive, active, dpc, userVars, given, since>>

StartTimer  == Post("Start") /\ running' = TRUE /\ UNCHANGED timer
StopTimer   == Post("Stop") /\ running' = FALSE /\ UNCHANGED timer
ChangeTimer == Post("Change") /\ UNCHANGED <<running, timer>>
ForgetTimerStillRunning == timer' = NoTimer /\ UNCHANGED running
ForgetTimer == timer' = NoTimer /\ running' = FALSE
PostDelete  == Post("Delete") /\ ForgetTimer

FlushAll ==
    /\ Step("flush")
    /\ set' = [k \in Keys |-> View(k)]
    /\ items' = [k \in Keys |-> NoItem]
    /\ UNCHANGED <<flash, timerVars, alive, queue, active, dpc, userVars, given, since>>

SyncAllNot ==
    /\ Step("sync")
    /\ since' = [k \in Keys |-> {View(k)}]
    /\ UNCHANGED <<cacheVars, flash, timerVars, alive, queue, active, dpc, userVars, given>>

SyncAll ==
    /\ Step("sync")
    /\ flash' = set
    /\ since' = [k \in Keys |-> {View(k)}]
    /\ UNCHANGED <<cacheVars, timerVars, alive, queue, active, dpc, userVars, given>>

FreeHandle ==
    /\ Step("free")
    /\ alive' = FALSE
    /\ UNCHANGED <<cacheVars, flash, timerVars, queue, active, dpc, userVars, given, since>>

HolderStep == StartTimer \/ StopTimer \/ ChangeTimer \/ PostDelete \/ FlushAll \/ SyncAll \/ FreeHandle

-----------------------------------------------------------------------------
\* The timer service: it takes commands in order, and runs the callback of a
\* timer that expired. FreeRTOS starts a timer whose period is changed.

TakeCommand ==
    /\ dpc = "idle"
    /\ queue # <<>>
    /\ LET id == Head(queue)[2]
       IN  CASE Head(queue)[1] \in {"Start", "Change"} -> active' = active \cup {id} /\ UNCHANGED exists
             [] Head(queue)[1] = "Stop"   -> active' = active \ {id} /\ UNCHANGED exists
             [] Head(queue)[1] = "Delete" -> active' = active \ {id} /\ exists' = exists \ {id}
    /\ queue' = Tail(queue)
    /\ UNCHANGED <<cacheVars, flash, period, timer, running, alive, mutex, todo, dpc, userVars, given, since>>

TimerExpires ==
    /\ dpc = "idle"
    /\ active # {}
    /\ dpc' = "fired"
    /\ UNCHANGED <<cacheVars, flash, timerVars, alive, mutex, todo, queue, active, userVars, given, since>>

\* onCommitTimer, up to the release of the mutex or to xTimerStop.
Ripe(k) == Cached(k) /\ items[k].ticks - 1 <= 0

OnCommitTimer ==
    /\ dpc = "fired"
    /\ set' = [k \in Keys |-> IF Ripe(k) THEN items[k].val ELSE set[k]]
    /\ items' = [k \in Keys |-> IF Ripe(k) \/ ~Cached(k) THEN NoItem
                                ELSE [items[k] EXCEPT !.ticks = @ - 1]]
    /\ Lock(Daemon, IF \A k \in Keys : items'[k] = NoItem THEN StopFirst(<<>>) ELSE <<>>)
    /\ dpc' = "sync"
    /\ UNCHANGED <<flash, timerVars, alive, queue, active, userVars, given, since>>

\* Its commit, without the mutex.
CommitAfterTimer ==
    /\ dpc = "sync"
    /\ mutex # Daemon
    /\ flash' = set
    /\ dpc' = "idle"
    /\ UNCHANGED <<cacheVars, timerVars, alive, mutex, todo, queue, active, userVars, given, since>>

\* The store may write to the flash what it was told before it is asked to.
Persist(k) ==
    /\ "restart" \in Calls
    /\ flash[k] # set[k]
    /\ flash' = [flash EXCEPT ![k] = set[k]]
    /\ UNCHANGED <<cacheVars, timerVars, alive, mutex, todo, queue, active, dpc, userVars, given, since>>

\* Power is lost and the program starts again.
Restart ==
    /\ "restart" \in Calls
    /\ items' = [k \in Keys |-> NoItem]
    /\ set' = flash
    /\ period' = FirstPeriod
    /\ timer' = IF FirstPeriod = 0 THEN NoTimer ELSE CHOOSE id \in Timers : TRUE
    /\ exists' = {timer'} \ {NoTimer}
    /\ running' = FALSE
    /\ alive' = TRUE
    /\ mutex' = Nobody /\ todo' = <<>>
    /\ queue' = <<>> /\ active' = {} /\ dpc' = "idle"
    /\ pc' = [t \in Users |-> "idle"]
    /\ arg' = [t \in Users |-> NoArg]
    /\ orig' = [t \in Users |-> 0]
    /\ given' = flash
    /\ since' = [k \in Keys |-> {flash[k]}]
    /\ UNCHANGED flash

-----------------------------------------------------------------------------
UserCall(t) ==
    \/ Write(t) \/ ReadString(t) \/ EraseCached(t) \/ Commit(t)
    \/ EnableAutoCommit(t) \/ BeginIterate(t) \/ Destroy(t)
UserStep(t) == ReadSize(t) \/ ReadGet(t) \/ ReadReturn(t) \/ EraseStored(t) \/ EndIterate(t)
TimerService == TakeCommand \/ TimerExpires \/ OnCommitTimer \/ CommitAfterTimer

Next ==
    /\ \/ \E t \in Users : UserCall(t) \/ UserStep(t)
       \/ HolderStep
       \/ TimerService
       \/ \E k \in Keys : Persist(k)
       \/ Restart
    /\ Observe

Spec == Init /\ [][Next]_vars

\* The scheduler runs every task. The mutex is handed to the task that waits
\* for it, so the callback does not wait for ever while others come and go; and
\* a timer that keeps ticking expires, whatever commands keep coming.
Fairness ==
    /\ WF_vars(HolderStep /\ Observe)
    /\ \A t \in Users : WF_vars(UserStep(t) /\ Observe)
    /\ SF_vars(TakeCommand /\ Observe)
    /\ SF_vars(TimerExpires /\ Observe)
    /\ SF_vars(OnCommitTimer /\ Observe)
    /\ WF_vars(CommitAfterTimer /\ Observe)

FairSpec == Spec /\ Fairness
-----------------------------------------------------------------------------
\* Every variable has its type.
TypeOK ==
    /\ items \in [Keys -> {NoItem} \cup [val : Values, ticks : 1 .. TicksTillCommit]]
    /\ set \in [Keys -> Values \cup {Absent}]
    /\ flash \in [Keys -> Values \cup {Absent}]
    /\ period \in Periods \cup {0}
    /\ timer \in Timers \cup {NoTimer}
    /\ running \in BOOLEAN /\ alive \in BOOLEAN
    /\ mutex \in Users \cup {Daemon, Nobody}
    /\ todo \in Seq({"Start", "Stop", "Change", "Delete", "flush", "sync", "free"})
    /\ queue \in Seq({"Start", "Stop", "Change", "Delete"} \X Timers)
    /\ exists \subseteq Timers /\ active \subseteq exists
    /\ dpc \in {"idle", "fired", "sync"}
    /\ pc \in [Users -> {"idle", "size", "get", "done", "erase", "iter"}]
    /\ arg \in [Users -> [key : Keys \cup {Absent}, len : Nat, val : Values \cup {Absent}]]
    /\ orig \in [Users -> Periods \cup {0}]
    /\ given \in [Keys -> Values \cup {Absent}]
    /\ since \in [Keys -> SUBSET (Values \cup {Absent})]
    /\ seen \in [Users -> SUBSET (Values \cup {Absent})]

\* The state of timer id once the service has taken every command it was sent.
WillTick(id) ==
    LET sent == {i \in 1 .. Len(queue) : queue[i][2] = id}
    IN  IF sent = {} THEN id \in active
        ELSE queue[CHOOSE i \in sent : \A j \in sent : j <= i][1] \in {"Start", "Change"}

\* No pending write is forgotten: whenever the mutex is free and the cache holds
\* something, mTimer exists and ticks, or will as soon as the commands that are
\* on their way are taken, whichever of start, stop, change and delete were sent
\* before by callers and by the callback.
PendingIsArmed == Free /\ alive /\ ~Empty => timer # NoTimer /\ running /\ WillTick(timer)

\* A timer that the handle does not have any more has its deletion on the way,
\* and no command comes after that: none is leaked, none is used when freed.
TimersAccounted ==
    /\ alive => \A id \in exists \ {timer} : \E i \in 1 .. Len(queue) : queue[i] = <<"Delete", id>>
    /\ \A i \in 1 .. Len(queue) :
         /\ queue[i][2] \in exists
         /\ queue[i][1] = "Delete" => \A j \in i + 1 .. Len(queue) : queue[j][2] # queue[i][2]

\* The timer does its work, however it is stopped, changed, deleted and created:
\* pending values have one that ticks, and none is left behind.
TimerServes == PendingIsArmed /\ TimersAccounted

\* What callers are told of a key is what the last write or erasure of it said,
\* whether that went to the cache or to the store, and whatever the timer,
\* commits, iterators and changes of the delay moved in between. (A direct write
\* deletes a cached item and then writes, nvsHandle.hpp:179.)
WritesStick ==
    \A k \in Keys : (\A t \in Users : pc[t] = "erase" => arg[t].key # k) => View(k) = given[k]

\* A string that is read is one that the key held at some moment during the
\* call, although the cache and the store are looked at at different moments
\* and the timer moves values from the one to the other.
ReadRecent == \A t \in Users : pc[t] = "done" => arg[t].val \in seen[t]

\* Unless the timer service waits for the mutex and its holder for the service's
\* queue, every value that nobody overwrites leaves the cache.
Stuck == Len(queue) = QueueLen /\ dpc = "fired" /\ mutex # Nobody
Flushed ==
    \/ <>[]Stuck
    \/ \A k \in Keys : []<>(~Cached(k)) \/ []<><<Cached(k)' /\ items'[k].ticks = TicksTillCommit
                                                /\ items'[k] # items[k]>>_vars

\* nvsHandle.hpp:550, the iterator "disables commit delay and commits current
\* pending items": while one is alive, nothing is pending.
IteratorSeesAll == (\E t \in Users : pc[t] = "iter") /\ Free => Empty

\* nvsHandle.hpp:84, the length that a read returns is "the actual size".
LengthIsActual == \A t \in Users : pc[t] = "done" => arg[t].len = SizeOf(arg[t].val)

\* nvsHandle.hpp:296, the destructor's commit() "stops the timer": its callback
\* does not run on a destroyed handle.
NoCallbackOnFreed == ~alive => dpc # "fired"
=============================================================================
