---------------------------- MODULE NvsHandleProofs ----------------------------
(***************************************************************************)
(* What holds of NvsHandle for any keys, values, users, delays and length  *)
(* of the timer service's queue, and with every member function in use:    *)
(* types, the timer that serves what is pending, strings that are read,    *)
(* writes that stick, and the map of KeyValue that all this implements.    *)
(***************************************************************************)
EXTENDS MCNvsHandle, TLAPS, FiniteSetTheorems

Held == Values \cup {Absent}

-----------------------------------------------------------------------------
\* The cache and the store.

DataType ==
    /\ items \in [Keys -> {NoItem} \cup [val : Values, ticks : 1 .. TicksTillCommit]]
    /\ set \in [Keys -> Held]
    /\ flash \in [Keys -> Held]
    /\ given \in [Keys -> Held]

\* Who is inside a read or an erasure, and of which key.
UserType ==
    /\ pc \in [Users -> {"idle", "size", "get", "done", "erase", "iter"}]
    /\ arg \in [Users -> [key : Keys \cup {Absent}, len : Nat, val : Held]]
    /\ orig \in [Users -> Periods \cup {0}]
    /\ period \in Periods \cup {0}
    /\ \A t \in Users : pc[t] \in Reading \cup {"erase"} => arg[t].key \in Keys

HistoryType ==
    /\ since \in [Keys -> SUBSET Held]
    /\ seen \in [Users -> SUBSET Held]

\* The values of one key: what the store was told, what a restart finds and what
\* callers are told were all given since the last commit.
Durable == \A k \in Keys : set[k] \in since[k] /\ flash[k] \in since[k] /\ View(k) \in since[k]

\* A read in progress. (Absent is what an erasure leaves in the store while a
\* newer value is in the cache: a read that meets it fails.)
Fresh ==
    \A t \in Users :
        /\ pc[t] \in {"size", "get"} => set[arg[t].key] \in seen[t] \cup {Absent}
        /\ pc[t] = "done" => arg[t].val \in seen[t]

\* A step moves values from the cache to the store, key by key, or not.
Moved(k) ==
    \/ items'[k] = items[k] /\ set'[k] = set[k]
    \/ Cached(k) /\ items'[k] = NoItem /\ set'[k] = items[k].val
    \/ Cached(k) /\ items'[k] # NoItem /\ items'[k].val = items[k].val /\ set'[k] = set[k]

-----------------------------------------------------------------------------
\* The timer.

Flushing ==
    {<<"Delete", "flush", "sync">>, <<"Stop", "flush", "sync">>, <<"flush", "sync">>,
     <<"Stop", "flush", "sync", "Delete", "free">>, <<"flush", "sync", "Delete", "free">>,
     <<"Stop", "flush", "sync", "free">>, <<"flush", "sync", "free">>}
Emptied ==
    {<<"Stop">>, <<"sync">>, <<"sync", "Delete", "free">>, <<"sync", "free">>,
     <<"Delete", "free">>, <<"free">>}
Scripts == {<<>>, <<"Start">>, <<"Change">>} \cup Flushing \cup Emptied

\* The ones that still have a command for the timer.
Commanding ==
    {<<"Start">>, <<"Change">>, <<"Stop">>, <<"Delete", "flush", "sync">>,
     <<"Stop", "flush", "sync">>, <<"Stop", "flush", "sync", "Delete", "free">>,
     <<"flush", "sync", "Delete", "free">>, <<"Stop", "flush", "sync", "free">>,
     <<"sync", "Delete", "free">>, <<"Delete", "free">>}

TimerType ==
    /\ timer \in Timers \cup {NoTimer}
    /\ running \in BOOLEAN /\ alive \in BOOLEAN
    /\ mutex \in Users \cup {Daemon, Nobody}
    /\ queue \in Seq({"Start", "Stop", "Change", "Delete"} \X Timers)
    /\ Len(queue) <= QueueLen
    /\ exists \subseteq Timers /\ active \subseteq exists
    /\ dpc \in {"idle", "fired", "sync"}

\* What the holder of the mutex has to do still; the cache is empty from the
\* moment it is flushed until the mutex is released.
ScriptOK ==
    /\ todo \in Scripts
    /\ Free <=> todo = <<>>
    /\ todo \in Emptied => Empty
    /\ todo \in Commanding => timer # NoTimer

\* The handle's own view of its timer.
HandleOK ==
    /\ running => timer # NoTimer
    /\ todo = <<"Delete", "flush", "sync">> => period = 0
    /\ alive /\ todo \notin {<<"Delete", "flush", "sync">>, <<"free">>} => (period = 0 <=> timer = NoTimer)
    /\ alive /\ ~Empty => running \/ todo = <<"Start">> \/ todo \in Flushing

\* The commands on their way: a timer ticks, or will.
Armed(id) ==
    \/ id \in active /\ \A i \in 1 .. Len(queue) : queue[i][2] # id
    \/ \E i \in 1 .. Len(queue) :
          /\ queue[i][1] \in {"Start", "Change"} /\ queue[i][2] = id
          /\ \A j \in i + 1 .. Len(queue) : queue[j][2] # id

QueueOK ==
    /\ running => Armed(timer)
    /\ timer # NoTimer => timer \in exists
    /\ \A i \in 1 .. Len(queue) : ~(queue[i][1] = "Delete" /\ queue[i][2] = timer)

TimerInv == TimerType /\ ScriptOK /\ HandleOK /\ QueueOK /\ TimersAccounted

IInv == DataType /\ UserType /\ HistoryType /\ Durable /\ Fresh /\ TimerInv

-----------------------------------------------------------------------------
\* Scripts.

\* What is left of a script after its next step.
LEMMA NextOfScript ==
  ASSUME NEW s \in Scripts, s # <<>>
  PROVE  /\ Tail(s) \in Scripts /\ Tail(s) # s
         /\ Head(s) = "Start" => s = <<"Start">> /\ Tail(s) = <<>>
         /\ Head(s) = "Change" => s = <<"Change">> /\ Tail(s) = <<>>
         /\ Head(s) = "Stop" => \/ s = <<"Stop">> /\ Tail(s) = <<>>
                                \/ s \in Flushing /\ Tail(s) \in Flushing /\ Head(Tail(s)) = "flush"
         /\ Head(s) = "Delete" => \/ s = <<"Delete", "flush", "sync">> /\ Tail(s) = <<"flush", "sync">>
                                  \/ s = <<"Delete", "free">> /\ Tail(s) = <<"free">>
         /\ Head(s) = "flush" => s \in Flushing /\ Tail(s) \in Emptied /\ Head(Tail(s)) = "sync"
         /\ Head(s) = "sync" => s \in Emptied /\ Tail(s) \in {<<>>, <<"Delete", "free">>, <<"free">>}
         /\ Head(s) = "free" => s = <<"free">> /\ Tail(s) = <<>>
         /\ Head(s) \in {"Start", "Change", "Stop", "Delete"} => s \in Commanding
         /\ Tail(s) \in Commanding => s \in Commanding /\ Head(s) # "Delete"
<1>1. CASE s = <<"Start">>
  <2>1. Head(s) = "Start" /\ Tail(s) = <<>>
    BY <1>1
  <2>. QED BY <1>1, <2>1 DEF Scripts, Flushing, Emptied, Commanding
<1>2. CASE s = <<"Change">>
  <2>1. Head(s) = "Change" /\ Tail(s) = <<>>
    BY <1>2
  <2>. QED BY <1>2, <2>1 DEF Scripts, Flushing, Emptied, Commanding
<1>3. CASE s = <<"Delete", "flush", "sync">>
  <2>1. Head(s) = "Delete" /\ Tail(s) = <<"flush", "sync">>
    BY <1>3
  <2>. QED BY <1>3, <2>1 DEF Scripts, Flushing, Emptied, Commanding
<1>4. CASE s = <<"Stop", "flush", "sync">>
  <2>1. Head(s) = "Stop" /\ Tail(s) = <<"flush", "sync">>
    BY <1>4
  <2>. QED BY <1>4, <2>1 DEF Scripts, Flushing, Emptied, Commanding
<1>5. CASE s = <<"flush", "sync">>
  <2>1. Head(s) = "flush" /\ Tail(s) = <<"sync">>
    BY <1>5
  <2>. QED BY <1>5, <2>1 DEF Scripts, Flushing, Emptied, Commanding
<1>6. CASE s = <<"Stop", "flush", "sync", "Delete", "free">>
  <2>1. Head(s) = "Stop" /\ Tail(s) = <<"flush", "sync", "Delete", "free">>
    BY <1>6
  <2>. QED BY <1>6, <2>1 DEF Scripts, Flushing, Emptied, Commanding
<1>7. CASE s = <<"flush", "sync", "Delete", "free">>
  <2>1. Head(s) = "flush" /\ Tail(s) = <<"sync", "Delete", "free">>
    BY <1>7
  <2>. QED BY <1>7, <2>1 DEF Scripts, Flushing, Emptied, Commanding
<1>8. CASE s = <<"Stop", "flush", "sync", "free">>
  <2>1. Head(s) = "Stop" /\ Tail(s) = <<"flush", "sync", "free">>
    BY <1>8
  <2>. QED BY <1>8, <2>1 DEF Scripts, Flushing, Emptied, Commanding
<1>9. CASE s = <<"flush", "sync", "free">>
  <2>1. Head(s) = "flush" /\ Tail(s) = <<"sync", "free">>
    BY <1>9
  <2>. QED BY <1>9, <2>1 DEF Scripts, Flushing, Emptied, Commanding
<1>10. CASE s = <<"Stop">>
  <2>1. Head(s) = "Stop" /\ Tail(s) = <<>>
    BY <1>10
  <2>. QED BY <1>10, <2>1 DEF Scripts, Flushing, Emptied, Commanding
<1>11. CASE s = <<"sync">>
  <2>1. Head(s) = "sync" /\ Tail(s) = <<>>
    BY <1>11
  <2>. QED BY <1>11, <2>1 DEF Scripts, Flushing, Emptied, Commanding
<1>12. CASE s = <<"sync", "Delete", "free">>
  <2>1. Head(s) = "sync" /\ Tail(s) = <<"Delete", "free">>
    BY <1>12
  <2>. QED BY <1>12, <2>1 DEF Scripts, Flushing, Emptied, Commanding
<1>13. CASE s = <<"sync", "free">>
  <2>1. Head(s) = "sync" /\ Tail(s) = <<"free">>
    BY <1>13
  <2>. QED BY <1>13, <2>1 DEF Scripts, Flushing, Emptied, Commanding
<1>14. CASE s = <<"Delete", "free">>
  <2>1. Head(s) = "Delete" /\ Tail(s) = <<"free">>
    BY <1>14
  <2>. QED BY <1>14, <2>1 DEF Scripts, Flushing, Emptied, Commanding
<1>15. CASE s = <<"free">>
  <2>1. Head(s) = "free" /\ Tail(s) = <<>>
    BY <1>15
  <2>. QED BY <1>15, <2>1 DEF Scripts, Flushing, Emptied, Commanding
<1>. QED BY <1>1, <1>2, <1>3, <1>4, <1>5, <1>6, <1>7, <1>8, <1>9, <1>10, <1>11, <1>12, <1>13, <1>14, <1>15 DEF Scripts, Flushing, Emptied

LEMMA SameSequence ==
  ASSUME NEW S, NEW s \in Seq(S), NEW t \in Seq(S), Len(s) = Len(t),
         \A i \in 1 .. Len(s) : s[i] = t[i]
  PROVE  s = t
  OBVIOUS

\* What two sequences make, one behind the other.
LEMMA Joined ==
  ASSUME NEW S, NEW s \in Seq(S), NEW t \in Seq(S), NEW u \in Seq(S), Len(u) = Len(s) + Len(t),
         \A i \in 1 .. Len(s) : u[i] = s[i], \A i \in 1 .. Len(t) : u[Len(s) + i] = t[i]
  PROVE  s \o t = u
<1>1. /\ s \o t \in Seq(S) /\ Len(s \o t) = Len(s) + Len(t)
      /\ \A i \in 1 .. Len(s) + Len(t) : (s \o t)[i] = IF i <= Len(s) THEN s[i] ELSE t[i - Len(s)]
  OBVIOUS
<1>2. ASSUME NEW i \in 1 .. Len(s \o t) PROVE (s \o t)[i] = u[i]
  <2>1. CASE i <= Len(s)
    BY <1>1, <2>1
  <2>2. CASE ~(i <= Len(s))
    <3>1. i - Len(s) \in 1 .. Len(t) /\ Len(s) + (i - Len(s)) = i
      BY <1>1, <2>2
    <3>2. u[Len(s) + (i - Len(s))] = t[i - Len(s)]
      BY <3>1
    <3>. QED BY <1>1, <2>2, <3>1, <3>2
  <2>. QED BY <2>1, <2>2
<1>. QED BY <1>1, <1>2, SameSequence

Words == {"Start", "Stop", "Change", "Delete", "flush", "sync", "free"}

\* The scripts of commit() and of the destructor.
LEMMA ScriptsOf ==
  /\ StopFirst(CommitNow) = IF running THEN <<"Stop", "flush", "sync">> ELSE <<"flush", "sync">>
  /\ StopFirst(<<>>) = IF running THEN <<"Stop">> ELSE <<>>
  /\ <<"Delete">> \o CommitNow = <<"Delete", "flush", "sync">>
  /\ StopFirst(CommitNow) \o <<>> \o <<"free">>
       = IF running THEN <<"Stop", "flush", "sync", "free">> ELSE <<"flush", "sync", "free">>
  /\ StopFirst(CommitNow) \o <<"Delete">> \o <<"free">>
       = IF running THEN <<"Stop", "flush", "sync", "Delete", "free">>
                    ELSE <<"flush", "sync", "Delete", "free">>
<1>1. <<"Stop">> \o <<"flush", "sync">> = <<"Stop", "flush", "sync">>
  <2> DEFINE a == <<"Stop">>
             b == <<"flush", "sync">>
             c == <<"Stop", "flush", "sync">>
  <2>1. a \in Seq(Words) /\ b \in Seq(Words) /\ c \in Seq(Words)
    BY DEF Words
  <2>2. Len(a) = 1 /\ Len(b) = 2 /\ Len(c) = 3
    OBVIOUS
  <2>3. (\A i \in 1 .. 1 : c[i] = a[i]) /\ (\A i \in 1 .. 2 : c[1 + i] = b[i])
    OBVIOUS
  <2>. HIDE DEF a, b, c
  <2>4. /\ Len(c) = Len(a) + Len(b) /\ \A i \in 1 .. Len(a) : c[i] = a[i]
        /\ \A i \in 1 .. Len(b) : c[Len(a) + i] = b[i]
    BY <2>2, <2>3
  <2>5. a \o b = c
    BY <2>1, <2>4, Joined
  <2>. QED BY <2>5 DEF a, b, c
<1>2. <<"Delete">> \o <<"flush", "sync">> = <<"Delete", "flush", "sync">>
  <2> DEFINE a == <<"Delete">>
             b == <<"flush", "sync">>
             c == <<"Delete", "flush", "sync">>
  <2>1. a \in Seq(Words) /\ b \in Seq(Words) /\ c \in Seq(Words)
    BY DEF Words
  <2>2. Len(a) = 1 /\ Len(b) = 2 /\ Len(c) = 3
    OBVIOUS
  <2>3. (\A i \in 1 .. 1 : c[i] = a[i]) /\ (\A i \in 1 .. 2 : c[1 + i] = b[i])
    OBVIOUS
  <2>. HIDE DEF a, b, c
  <2>4. /\ Len(c) = Len(a) + Len(b) /\ \A i \in 1 .. Len(a) : c[i] = a[i]
        /\ \A i \in 1 .. Len(b) : c[Len(a) + i] = b[i]
    BY <2>2, <2>3
  <2>5. a \o b = c
    BY <2>1, <2>4, Joined
  <2>. QED BY <2>5 DEF a, b, c
<1>3. <<"Delete">> \o <<"free">> = <<"Delete", "free">>
  <2> DEFINE a == <<"Delete">>
             b == <<"free">>
             c == <<"Delete", "free">>
  <2>1. a \in Seq(Words) /\ b \in Seq(Words) /\ c \in Seq(Words)
    BY DEF Words
  <2>2. Len(a) = 1 /\ Len(b) = 1 /\ Len(c) = 2
    OBVIOUS
  <2>3. (\A i \in 1 .. 1 : c[i] = a[i]) /\ (\A i \in 1 .. 1 : c[1 + i] = b[i])
    OBVIOUS
  <2>. HIDE DEF a, b, c
  <2>4. /\ Len(c) = Len(a) + Len(b) /\ \A i \in 1 .. Len(a) : c[i] = a[i]
        /\ \A i \in 1 .. Len(b) : c[Len(a) + i] = b[i]
    BY <2>2, <2>3
  <2>5. a \o b = c
    BY <2>1, <2>4, Joined
  <2>. QED BY <2>5 DEF a, b, c
<1>4. <<"Stop", "flush", "sync">> \o <<"free">> = <<"Stop", "flush", "sync", "free">>
  <2> DEFINE a == <<"Stop", "flush", "sync">>
             b == <<"free">>
             c == <<"Stop", "flush", "sync", "free">>
  <2>1. a \in Seq(Words) /\ b \in Seq(Words) /\ c \in Seq(Words)
    BY DEF Words
  <2>2. Len(a) = 3 /\ Len(b) = 1 /\ Len(c) = 4
    OBVIOUS
  <2>3. (\A i \in 1 .. 3 : c[i] = a[i]) /\ (\A i \in 1 .. 1 : c[3 + i] = b[i])
    OBVIOUS
  <2>. HIDE DEF a, b, c
  <2>4. /\ Len(c) = Len(a) + Len(b) /\ \A i \in 1 .. Len(a) : c[i] = a[i]
        /\ \A i \in 1 .. Len(b) : c[Len(a) + i] = b[i]
    BY <2>2, <2>3
  <2>5. a \o b = c
    BY <2>1, <2>4, Joined
  <2>. QED BY <2>5 DEF a, b, c
<1>5. <<"flush", "sync">> \o <<"free">> = <<"flush", "sync", "free">>
  <2> DEFINE a == <<"flush", "sync">>
             b == <<"free">>
             c == <<"flush", "sync", "free">>
  <2>1. a \in Seq(Words) /\ b \in Seq(Words) /\ c \in Seq(Words)
    BY DEF Words
  <2>2. Len(a) = 2 /\ Len(b) = 1 /\ Len(c) = 3
    OBVIOUS
  <2>3. (\A i \in 1 .. 2 : c[i] = a[i]) /\ (\A i \in 1 .. 1 : c[2 + i] = b[i])
    OBVIOUS
  <2>. HIDE DEF a, b, c
  <2>4. /\ Len(c) = Len(a) + Len(b) /\ \A i \in 1 .. Len(a) : c[i] = a[i]
        /\ \A i \in 1 .. Len(b) : c[Len(a) + i] = b[i]
    BY <2>2, <2>3
  <2>5. a \o b = c
    BY <2>1, <2>4, Joined
  <2>. QED BY <2>5 DEF a, b, c
<1>6. <<"Stop", "flush", "sync">> \o <<"Delete">> = <<"Stop", "flush", "sync", "Delete">>
  <2> DEFINE a == <<"Stop", "flush", "sync">>
             b == <<"Delete">>
             c == <<"Stop", "flush", "sync", "Delete">>
  <2>1. a \in Seq(Words) /\ b \in Seq(Words) /\ c \in Seq(Words)
    BY DEF Words
  <2>2. Len(a) = 3 /\ Len(b) = 1 /\ Len(c) = 4
    OBVIOUS
  <2>3. (\A i \in 1 .. 3 : c[i] = a[i]) /\ (\A i \in 1 .. 1 : c[3 + i] = b[i])
    OBVIOUS
  <2>. HIDE DEF a, b, c
  <2>4. /\ Len(c) = Len(a) + Len(b) /\ \A i \in 1 .. Len(a) : c[i] = a[i]
        /\ \A i \in 1 .. Len(b) : c[Len(a) + i] = b[i]
    BY <2>2, <2>3
  <2>5. a \o b = c
    BY <2>1, <2>4, Joined
  <2>. QED BY <2>5 DEF a, b, c
<1>7. <<"flush", "sync">> \o <<"Delete">> = <<"flush", "sync", "Delete">>
  <2> DEFINE a == <<"flush", "sync">>
             b == <<"Delete">>
             c == <<"flush", "sync", "Delete">>
  <2>1. a \in Seq(Words) /\ b \in Seq(Words) /\ c \in Seq(Words)
    BY DEF Words
  <2>2. Len(a) = 2 /\ Len(b) = 1 /\ Len(c) = 3
    OBVIOUS
  <2>3. (\A i \in 1 .. 2 : c[i] = a[i]) /\ (\A i \in 1 .. 1 : c[2 + i] = b[i])
    OBVIOUS
  <2>. HIDE DEF a, b, c
  <2>4. /\ Len(c) = Len(a) + Len(b) /\ \A i \in 1 .. Len(a) : c[i] = a[i]
        /\ \A i \in 1 .. Len(b) : c[Len(a) + i] = b[i]
    BY <2>2, <2>3
  <2>5. a \o b = c
    BY <2>1, <2>4, Joined
  <2>. QED BY <2>5 DEF a, b, c
<1>8. <<"Stop", "flush", "sync", "Delete">> \o <<"free">> = <<"Stop", "flush", "sync", "Delete", "free">>
  <2> DEFINE a == <<"Stop", "flush", "sync", "Delete">>
             b == <<"free">>
             c == <<"Stop", "flush", "sync", "Delete", "free">>
  <2>1. a \in Seq(Words) /\ b \in Seq(Words) /\ c \in Seq(Words)
    BY DEF Words
  <2>2. Len(a) = 4 /\ Len(b) = 1 /\ Len(c) = 5
    OBVIOUS
  <2>3. (\A i \in 1 .. 4 : c[i] = a[i]) /\ (\A i \in 1 .. 1 : c[4 + i] = b[i])
    OBVIOUS
  <2>. HIDE DEF a, b, c
  <2>4. /\ Len(c) = Len(a) + Len(b) /\ \A i \in 1 .. Len(a) : c[i] = a[i]
        /\ \A i \in 1 .. Len(b) : c[Len(a) + i] = b[i]
    BY <2>2, <2>3
  <2>5. a \o b = c
    BY <2>1, <2>4, Joined
  <2>. QED BY <2>5 DEF a, b, c
<1>9. <<"flush", "sync", "Delete">> \o <<"free">> = <<"flush", "sync", "Delete", "free">>
  <2> DEFINE a == <<"flush", "sync", "Delete">>
             b == <<"free">>
             c == <<"flush", "sync", "Delete", "free">>
  <2>1. a \in Seq(Words) /\ b \in Seq(Words) /\ c \in Seq(Words)
    BY DEF Words
  <2>2. Len(a) = 3 /\ Len(b) = 1 /\ Len(c) = 4
    OBVIOUS
  <2>3. (\A i \in 1 .. 3 : c[i] = a[i]) /\ (\A i \in 1 .. 1 : c[3 + i] = b[i])
    OBVIOUS
  <2>. HIDE DEF a, b, c
  <2>4. /\ Len(c) = Len(a) + Len(b) /\ \A i \in 1 .. Len(a) : c[i] = a[i]
        /\ \A i \in 1 .. Len(b) : c[Len(a) + i] = b[i]
    BY <2>2, <2>3
  <2>5. a \o b = c
    BY <2>1, <2>4, Joined
  <2>. QED BY <2>5 DEF a, b, c
<1>10. /\ <<"Stop">> \o <<>> = <<"Stop">>
      /\ <<"flush", "sync">> \o <<>> = <<"flush", "sync">>
      /\ <<"Stop", "flush", "sync">> \o <<>> = <<"Stop", "flush", "sync">>
  OBVIOUS
<1>. QED BY <1>1, <1>2, <1>3, <1>4, <1>5, <1>6, <1>7, <1>8, <1>9, <1>10 DEF StopFirst, CommitNow
-----------------------------------------------------------------------------
\* The timer and the commands on their way.

Commands == {"Start", "Stop", "Change", "Delete"}
timerSide == <<timer, running, exists, queue, active>>

\* Who touches none of it.
LEMMA TimerQuiet ==
  ASSUME TimerInv, UNCHANGED <<timerSide, period, alive, mutex, todo>>,
         dpc' \in {"idle", "fired", "sync"}, Empty => Empty'
  PROVE  TimerInv'
<1>1. TimerType' /\ ScriptOK' /\ HandleOK'
  BY DEF TimerInv, TimerType, ScriptOK, HandleOK, timerSide, Free
<1>2. QueueOK' /\ TimersAccounted'
  BY DEF TimerInv, QueueOK, TimersAccounted, Armed, timerSide
<1>. QED BY <1>1, <1>2 DEF TimerInv

\* Who takes the mutex, and has a script to do.
LEMMA TimerLock ==
  ASSUME NvsAssumption, TimerInv, NEW t \in Users \cup {Daemon}, NEW s \in Scripts, Lock(t, s),
         UNCHANGED <<timerSide, alive>>, dpc' \in {"idle", "fired", "sync"},
         s \in Emptied => Empty', s \in Commanding => timer # NoTimer, s # <<"free">>,
         IF s = <<"Delete", "flush", "sync">> THEN period' = 0
                                              ELSE period' = 0 <=> timer = NoTimer,
         ~Empty' => running \/ s = <<"Start">> \/ s \in Flushing
  PROVE  TimerInv'
<1>1. TimerType'
  BY DEF TimerInv, TimerType, timerSide, Lock
<1>2. ScriptOK' /\ HandleOK'
  BY DEF TimerInv, ScriptOK, HandleOK, Lock, Free, timerSide, NvsAssumption
<1>3. QueueOK' /\ TimersAccounted'
  BY DEF TimerInv, QueueOK, TimersAccounted, Armed, timerSide
<1>. QED BY <1>1, <1>2, <1>3 DEF TimerInv

\* A command is posted, and the script goes on.
LEMMA Posted ==
  ASSUME NvsAssumption, TimerInv, NEW c \in Commands, Post(c)
  PROVE  /\ timer \in Timers /\ timer \in exists /\ timer # NoTimer
         /\ todo \in Scripts /\ todo # <<>> /\ Head(todo) = c /\ todo' = Tail(todo)
         /\ ~Free /\ (Free' <=> todo' = <<>>) /\ mutex' \in Users \cup {Daemon, Nobody}
         /\ queue' \in Seq(Commands \X Timers)
         /\ Len(queue) \in Nat /\ Len(queue') = Len(queue) + 1 /\ Len(queue') <= QueueLen
         /\ \A i \in 1 .. Len(queue) : queue'[i] = queue[i]
         /\ queue'[Len(queue) + 1] = <<c, timer>>
<1>1. todo \in Scripts /\ todo # <<>> /\ Head(todo) = c /\ todo' = Tail(todo)
  BY DEF Post, Step, TimerInv, ScriptOK
<1>2. todo \in Commanding
  BY <1>1, NextOfScript DEF Commands
<1>3. timer \in Timers /\ timer \in exists /\ timer # NoTimer
  BY <1>2 DEF TimerInv, ScriptOK, TimerType, QueueOK
<1>4. ~Free /\ (Free' <=> todo' = <<>>) /\ mutex' \in Users \cup {Daemon, Nobody}
  BY <1>1 DEF TimerInv, ScriptOK, TimerType, Free, Post, Step
<1>5. queue \in Seq(Commands \X Timers) /\ <<c, timer>> \in Commands \X Timers
      /\ queue' = Append(queue, <<c, timer>>) /\ Len(queue) < QueueLen /\ QueueLen \in Nat
  BY <1>3 DEF Post, TimerInv, TimerType, Commands, NvsAssumption
<1> DEFINE e == <<c, timer>>
<1>. HIDE DEF e
<1>6. /\ queue' \in Seq(Commands \X Timers)
      /\ Len(queue) \in Nat /\ Len(queue') = Len(queue) + 1 /\ Len(queue') <= QueueLen
      /\ \A i \in 1 .. Len(queue) : queue'[i] = queue[i]
      /\ queue'[Len(queue) + 1] = e
  BY <1>5 DEF e
<1>. QED BY <1>1, <1>3, <1>4, <1>6 DEF e

\* A command that is posted leaves every timer accounted for.
LEMMA AccountPosted ==
  ASSUME TimerInv, NEW c \in Commands,
         timer \in exists, UNCHANGED <<exists, alive>>, timer' = timer \/ c = "Delete",
         Len(queue) \in Nat, Len(queue') = Len(queue) + 1,
         \A i \in 1 .. Len(queue) : queue'[i] = queue[i],
         queue'[Len(queue) + 1] = <<c, timer>>
  PROVE  TimersAccounted'
<1>1. ASSUME alive', NEW id \in exists' \ {timer'}
      PROVE  \E i \in 1 .. Len(queue') : queue'[i] = <<"Delete", id>>
  <2>1. CASE id = timer
    <3>1. c = "Delete" /\ Len(queue) + 1 \in 1 .. Len(queue')
      BY <1>1, <2>1
    <3>. QED BY <2>1, <3>1
  <2>2. CASE id # timer
    <3>1. PICK i \in 1 .. Len(queue) : queue[i] = <<"Delete", id>>
      BY <1>1, <2>2 DEF TimerInv, TimersAccounted
    <3>2. i \in 1 .. Len(queue') /\ queue'[i] = queue[i]
      OBVIOUS
    <3>. QED BY <3>1, <3>2
  <2>. QED BY <2>1, <2>2
<1>2. ASSUME NEW i \in 1 .. Len(queue')
      PROVE  /\ queue'[i][2] \in exists'
             /\ queue'[i][1] = "Delete" => \A j \in i + 1 .. Len(queue') : queue'[j][2] # queue'[i][2]
  <2>1. CASE i = Len(queue) + 1
    BY <2>1
  <2>2. CASE i \in 1 .. Len(queue)
    <3>1. queue'[i] = queue[i] /\ queue[i][2] \in exists
      BY <2>2 DEF TimerInv, TimersAccounted
    <3>2. ASSUME queue[i][1] = "Delete", NEW j \in i + 1 .. Len(queue') PROVE queue'[j][2] # queue[i][2]
      <4>1. j \in i + 1 .. Len(queue) \/ j = Len(queue) + 1
        BY <2>2
      <4>2. queue[i][2] # timer
        BY <2>2, <3>2 DEF TimerInv, QueueOK
      <4>3. j \in i + 1 .. Len(queue) => queue'[j] = queue[j] /\ queue[j][2] # queue[i][2]
        BY <2>2, <3>2 DEF TimerInv, TimersAccounted
      <4>. QED BY <4>1, <4>2, <4>3
    <3>. QED BY <3>1, <3>2
  <2>. QED BY <2>1, <2>2
<1>. QED BY <1>1, <1>2 DEF TimersAccounted

\* Starting it and changing its period.
LEMMA TimerStarted ==
  ASSUME NvsAssumption, TimerInv, StartTimer \/ ChangeTimer
  PROVE  TimerInv'
<1>1. PICK c \in {"Start", "Change"} : Post(c)
  BY DEF StartTimer, ChangeTimer
<1>2. /\ UNCHANGED <<timer, exists, active, alive, dpc, items, period>>
      /\ running' \in BOOLEAN /\ (running => running')
      /\ c = "Start" => running'
      /\ c # "Start" => running' = running
  BY <1>1 DEF StartTimer, ChangeTimer, Post, cacheVars, TimerInv, TimerType, Step
<1>3. /\ timer \in Timers /\ timer \in exists /\ timer # NoTimer
      /\ todo \in Scripts /\ todo # <<>> /\ Head(todo) = c /\ todo' = Tail(todo)
      /\ ~Free /\ (Free' <=> todo' = <<>>) /\ mutex' \in Users \cup {Daemon, Nobody}
      /\ queue' \in Seq(Commands \X Timers)
      /\ Len(queue) \in Nat /\ Len(queue') = Len(queue) + 1 /\ Len(queue') <= QueueLen
      /\ \A i \in 1 .. Len(queue) : queue'[i] = queue[i]
      /\ queue'[Len(queue) + 1] = <<c, timer>>
  BY <1>1, Posted DEF Commands
<1>4. todo' = <<>> /\ todo = <<c>>
  BY <1>3, NextOfScript
<1>5. TimerType'
  BY <1>2, <1>3 DEF TimerInv, TimerType, Commands
<1>6. ScriptOK'
  BY <1>2, <1>3, <1>4 DEF ScriptOK, Scripts, Emptied, Commanding
<1>7. HandleOK'
  BY <1>2, <1>3, <1>4 DEF TimerInv, HandleOK, Empty, Cached, Flushing
<1>8. QueueOK'
  <2>1. Armed(timer)'
    <3>1. /\ Len(queue) + 1 \in 1 .. Len(queue') /\ queue'[Len(queue) + 1][1] \in {"Start", "Change"}
          /\ queue'[Len(queue) + 1][2] = timer' /\ Len(queue) + 2 .. Len(queue') = {}
      BY <1>2, <1>3
    <3>. QED BY <3>1 DEF Armed
  <2>2. ASSUME NEW i \in 1 .. Len(queue') PROVE ~(queue'[i][1] = "Delete" /\ queue'[i][2] = timer')
    <3>1. i \in 1 .. Len(queue) \/ i = Len(queue) + 1
      BY <1>3
    <3>2. CASE i = Len(queue) + 1
      BY <1>1, <1>3, <3>2
    <3>3. CASE i \in 1 .. Len(queue)
      BY <1>2, <1>3, <3>3 DEF TimerInv, QueueOK
    <3>. QED BY <3>1, <3>2, <3>3
  <2>. QED BY <1>2, <1>3, <2>1, <2>2 DEF QueueOK
<1>9. TimersAccounted'
  BY <1>2, <1>3, AccountPosted DEF Commands
<1>. QED BY <1>5, <1>6, <1>7, <1>8, <1>9 DEF TimerInv
\* Stopping it.
LEMMA TimerStopped ==
  ASSUME NvsAssumption, TimerInv, StopTimer
  PROVE  TimerInv'
<1>1. Post("Stop")
  BY DEF StopTimer
<1>2. UNCHANGED <<timer, exists, active, alive, dpc, items, period>> /\ running' = FALSE
  BY DEF StopTimer, Post, cacheVars
<1>3. /\ timer \in Timers /\ timer \in exists /\ timer # NoTimer
      /\ todo \in Scripts /\ todo # <<>> /\ Head(todo) = "Stop" /\ todo' = Tail(todo)
      /\ ~Free /\ (Free' <=> todo' = <<>>) /\ mutex' \in Users \cup {Daemon, Nobody}
      /\ queue' \in Seq(Commands \X Timers)
      /\ Len(queue) \in Nat /\ Len(queue') = Len(queue) + 1 /\ Len(queue') <= QueueLen
      /\ \A i \in 1 .. Len(queue) : queue'[i] = queue[i]
      /\ queue'[Len(queue) + 1] = <<"Stop", timer>>
  BY <1>1, Posted DEF Commands
<1>4. /\ todo' \in Scripts /\ (todo' \in Commanding => todo \in Commanding)
      /\ \/ todo = <<"Stop">> /\ todo' = <<>>
         \/ todo \in Flushing /\ todo' \in Flushing /\ Head(todo') = "flush"
  BY <1>3, NextOfScript
<1>5. Empty' = Empty
  BY <1>2 DEF Empty, Cached
<1>6. TimerType'
  BY <1>2, <1>3 DEF TimerInv, TimerType, Commands
<1>7. ScriptOK'
  <2>1. todo' \notin Emptied
    BY <1>4 DEF Emptied, Flushing
  <2>. QED BY <1>2, <1>3, <1>4, <2>1 DEF ScriptOK
<1>8. HandleOK'
  <2>1. todo = <<"Stop">> => Empty
    BY DEF TimerInv, ScriptOK, Emptied
  <2>2. todo \notin {<<"Delete", "flush", "sync">>, <<"free">>}
    BY <1>3
  <2>. QED BY <1>2, <1>4, <1>5, <2>1, <2>2 DEF TimerInv, HandleOK
<1>9. QueueOK'
  <2>1. ASSUME NEW i \in 1 .. Len(queue') PROVE ~(queue'[i][1] = "Delete" /\ queue'[i][2] = timer')
    <3>1. CASE i = Len(queue) + 1
      BY <1>3, <3>1
    <3>2. CASE i \in 1 .. Len(queue)
      BY <1>2, <1>3, <3>2 DEF TimerInv, QueueOK
    <3>. QED BY <1>3, <3>1, <3>2
  <2>. QED BY <1>2, <1>3, <2>1 DEF QueueOK
<1>10. TimersAccounted'
  BY <1>2, <1>3, AccountPosted DEF Commands
<1>. QED BY <1>6, <1>7, <1>8, <1>9, <1>10 DEF TimerInv

\* Deleting it: the handle forgets it at the same time.
LEMMA TimerDeleted ==
  ASSUME NvsAssumption, TimerInv, PostDelete
  PROVE  TimerInv'
<1>1. Post("Delete")
  BY DEF PostDelete
<1>2. UNCHANGED <<exists, active, alive, dpc, items, period>> /\ running' = FALSE /\ timer' = NoTimer
  BY DEF PostDelete, ForgetTimer, Post, cacheVars
<1>3. /\ timer \in Timers /\ timer \in exists /\ timer # NoTimer
      /\ todo \in Scripts /\ todo # <<>> /\ Head(todo) = "Delete" /\ todo' = Tail(todo)
      /\ ~Free /\ (Free' <=> todo' = <<>>) /\ mutex' \in Users \cup {Daemon, Nobody}
      /\ queue' \in Seq(Commands \X Timers)
      /\ Len(queue) \in Nat /\ Len(queue') = Len(queue) + 1 /\ Len(queue') <= QueueLen
      /\ \A i \in 1 .. Len(queue) : queue'[i] = queue[i]
      /\ queue'[Len(queue) + 1] = <<"Delete", timer>>
  BY <1>1, Posted DEF Commands
<1>4. \/ todo = <<"Delete", "flush", "sync">> /\ todo' = <<"flush", "sync">>
      \/ todo = <<"Delete", "free">> /\ todo' = <<"free">>
  BY <1>3, NextOfScript
<1>5. Empty' = Empty
  BY <1>2 DEF Empty, Cached
<1>6. NoTimer \notin exists
  BY DEF TimerInv, TimerType, NvsAssumption
<1>7. TimerType'
  BY <1>2, <1>3 DEF TimerInv, TimerType, Commands
<1>8. ScriptOK'
  <2>1. todo' \in Scripts /\ todo' \notin Commanding
    BY <1>4 DEF Scripts, Emptied, Flushing, Commanding
  <2>2. CASE todo = <<"Delete", "flush", "sync">>
    <3>1. todo' \notin Emptied
      BY <1>4, <2>2 DEF Emptied
    <3>. QED BY <1>3, <1>4, <2>1, <3>1 DEF ScriptOK
  <2>3. CASE todo = <<"Delete", "free">>
    <3>1. Empty
      BY <2>3 DEF TimerInv, ScriptOK, Emptied
    <3>. QED BY <1>3, <1>4, <1>5, <2>1, <3>1 DEF ScriptOK
  <2>. QED BY <1>4, <2>2, <2>3
<1>9. HandleOK'
  <2>1. todo = <<"Delete", "flush", "sync">> => period = 0
    BY DEF TimerInv, HandleOK
  <2>2. todo = <<"Delete", "free">> => Empty
    BY DEF TimerInv, ScriptOK, Emptied
  <2>. QED BY <1>2, <1>4, <1>5, <2>1, <2>2 DEF HandleOK, Flushing
<1>10. QueueOK'
  <2>1. ASSUME NEW i \in 1 .. Len(queue') PROVE queue'[i][2] # timer'
    <3>1. CASE i = Len(queue) + 1
      BY <1>2, <1>3, <3>1
    <3>2. CASE i \in 1 .. Len(queue)
      BY <1>2, <1>3, <1>6, <3>2 DEF TimerInv, TimersAccounted
    <3>. QED BY <1>3, <3>1, <3>2
  <2>. QED BY <1>2, <2>1 DEF QueueOK
<1>11. TimersAccounted'
  BY <1>2, <1>3, AccountPosted DEF Commands
<1>. QED BY <1>7, <1>8, <1>9, <1>10, <1>11 DEF TimerInv
\* The steps of a script that send no command.
LEMMA ScriptStepped ==
  ASSUME NvsAssumption, TimerInv, NEW w \in {"flush", "sync", "free"}, Step(w)
  PROVE  /\ todo \in Scripts /\ todo # <<>> /\ Head(todo) = w /\ todo' = Tail(todo)
         /\ todo' \in Scripts /\ (todo' \in Commanding => timer # NoTimer)
         /\ Free' <=> todo' = <<>>
         /\ mutex' \in Users \cup {Daemon, Nobody}
<1>1. todo \in Scripts /\ todo # <<>> /\ Head(todo) = w /\ todo' = Tail(todo)
  BY DEF TimerInv, ScriptOK, Step
<1>2. todo' \in Scripts /\ (todo' \in Commanding => todo \in Commanding)
  BY <1>1, NextOfScript
<1>. QED BY <1>1, <1>2 DEF TimerInv, ScriptOK, TimerType, Free, Step

LEMMA TimerFlushed ==
  ASSUME NvsAssumption, TimerInv, FlushAll
  PROVE  TimerInv'
<1>1. UNCHANGED <<timerSide, period, alive, dpc>> /\ Step("flush")
  BY DEF FlushAll, timerVars, timerSide
<1>2. Empty'
  BY DEF FlushAll, Empty, Cached
<1>3. /\ todo \in Scripts /\ todo # <<>> /\ Head(todo) = "flush" /\ todo' = Tail(todo)
      /\ todo' \in Scripts /\ (todo' \in Commanding => timer # NoTimer)
      /\ Free' <=> todo' = <<>>
      /\ mutex' \in Users \cup {Daemon, Nobody}
  BY <1>1, ScriptStepped
<1>4. todo \in Flushing /\ todo' \in Emptied /\ Head(todo') = "sync"
  BY <1>3, NextOfScript
<1>5. /\ todo' \notin {<<"Delete", "flush", "sync">>, <<"free">>}
      /\ todo \notin {<<"Delete", "flush", "sync">>, <<"free">>}
  <2>1. Head(<<"Delete", "flush", "sync">>) = "Delete" /\ Head(<<"free">>) = "free"
    OBVIOUS
  <2>. QED BY <1>3, <1>4, <2>1
<1>6. TimerType' /\ QueueOK' /\ TimersAccounted'
  BY <1>1, <1>3 DEF TimerInv, TimerType, QueueOK, TimersAccounted, Armed, timerSide
<1>7. ScriptOK'
  BY <1>1, <1>2, <1>3 DEF ScriptOK, timerSide
<1>8. HandleOK'
  BY <1>1, <1>2, <1>5 DEF TimerInv, HandleOK, timerSide
<1>. QED BY <1>6, <1>7, <1>8 DEF TimerInv

LEMMA TimerSynced ==
  ASSUME NvsAssumption, TimerInv, SyncAll
  PROVE  TimerInv' /\ Empty
<1>1. UNCHANGED <<timerSide, period, alive, dpc, items>> /\ Step("sync")
  BY DEF SyncAll, timerVars, timerSide, cacheVars
<1>3. /\ todo \in Scripts /\ todo # <<>> /\ Head(todo) = "sync" /\ todo' = Tail(todo)
      /\ todo' \in Scripts /\ (todo' \in Commanding => timer # NoTimer)
      /\ Free' <=> todo' = <<>>
      /\ mutex' \in Users \cup {Daemon, Nobody}
  BY <1>1, ScriptStepped
<1>4. todo \in Emptied /\ todo' \in {<<>>, <<"Delete", "free">>, <<"free">>}
  BY <1>3, NextOfScript
<1>2. Empty /\ Empty'
  BY <1>1, <1>4 DEF Empty, Cached, TimerInv, ScriptOK
<1>5. todo \notin {<<"Delete", "flush", "sync">>, <<"free">>} /\ todo' # <<"Delete", "flush", "sync">>
  BY <1>3, <1>4
<1>6. TimerType' /\ QueueOK' /\ TimersAccounted'
  BY <1>1, <1>3 DEF TimerInv, TimerType, QueueOK, TimersAccounted, Armed, timerSide
<1>7. ScriptOK'
  BY <1>1, <1>2, <1>3 DEF ScriptOK, timerSide
<1>8. HandleOK'
  BY <1>1, <1>2, <1>5 DEF TimerInv, HandleOK, timerSide
<1>. QED BY <1>2, <1>6, <1>7, <1>8 DEF TimerInv

LEMMA TimerFreed ==
  ASSUME NvsAssumption, TimerInv, FreeHandle
  PROVE  TimerInv'
<1>1. UNCHANGED <<timerSide, period, dpc, items>> /\ Step("free") /\ alive' = FALSE
  BY DEF FreeHandle, timerVars, timerSide, cacheVars
<1>3. /\ todo \in Scripts /\ todo # <<>> /\ Head(todo) = "free" /\ todo' = Tail(todo)
      /\ todo' \in Scripts /\ (todo' \in Commanding => timer # NoTimer)
      /\ Free' <=> todo' = <<>>
      /\ mutex' \in Users \cup {Daemon, Nobody}
  BY <1>1, ScriptStepped
<1>4. todo' = <<>>
  BY <1>3, NextOfScript
<1>6. TimerType' /\ QueueOK'
  BY <1>1, <1>3 DEF TimerInv, TimerType, QueueOK, Armed, timerSide
<1>9. TimersAccounted'
  BY <1>1 DEF TimerInv, TimersAccounted, timerSide
<1>7. ScriptOK'
  BY <1>1, <1>3, <1>4 DEF ScriptOK, timerSide, Emptied
<1>8. HandleOK'
  BY <1>1, <1>4 DEF TimerInv, HandleOK, timerSide
<1>. QED BY <1>6, <1>7, <1>8, <1>9 DEF TimerInv

LEMMA SomeTimer ==
  ASSUME NvsAssumption
  PROVE  \E id \in Timers : TRUE
<1>1. ASSUME Timers = {} PROVE FALSE
  <2>1. Cardinality(Timers) = 0
    BY <1>1, FS_EmptySet
  <2>. QED BY <2>1 DEF NvsAssumption
<1>. QED BY <1>1

\* Power is lost.
LEMMA TimerRestarted ==
  ASSUME NvsAssumption, Restart
  PROVE  TimerInv'
<1>1. \E id \in Timers : TRUE
  BY SomeTimer
<1>2. timer' \in Timers \cup {NoTimer} /\ (timer' = NoTimer <=> FirstPeriod = 0)
  BY <1>1 DEF Restart, NvsAssumption
<1>3. exists' = {timer'} \ {NoTimer} /\ queue' = <<>> /\ active' = {} /\ running' = FALSE
      /\ alive' = TRUE /\ mutex' = Nobody /\ todo' = <<>> /\ dpc' = "idle" /\ period' = FirstPeriod
  BY DEF Restart
<1>4. Empty'
  BY DEF Restart, Empty, Cached
<1>5. TimerType'
  <2>1. queue' \in Seq(Commands \X Timers) /\ Len(queue') = 0 /\ 0 <= QueueLen
    BY <1>3 DEF NvsAssumption
  <2>2. exists' \subseteq Timers /\ active' \subseteq exists'
    BY <1>2, <1>3
  <2>. QED BY <1>2, <1>3, <2>1, <2>2 DEF TimerType, Commands
<1>6. ScriptOK'
  BY <1>3 DEF ScriptOK, Scripts, Free, Emptied, Commanding
<1>7. HandleOK'
  BY <1>2, <1>3, <1>4 DEF HandleOK
<1>8. QueueOK' /\ TimersAccounted'
  BY <1>2, <1>3 DEF QueueOK, TimersAccounted
<1>. QED BY <1>5, <1>6, <1>7, <1>8 DEF TimerInv
\* The service takes a command.
LEMMA CommandTaken ==
  ASSUME NvsAssumption, TimerInv, TakeCommand
  PROVE  TimerInv'
<1> DEFINE id == queue[1][2]
           c == queue[1][1]
           n == Len(queue)
<1>1. /\ UNCHANGED <<items, period, timer, running, alive, mutex, todo, dpc>>
      /\ queue # <<>> /\ queue' = Tail(queue) /\ queue \in Seq(Commands \X Timers)
  BY DEF TakeCommand, cacheVars, TimerInv, TimerType, Commands
<1>2. /\ n \in Nat \ {0} /\ Len(queue') = n - 1 /\ queue' \in Seq(Commands \X Timers)
      /\ \A i \in 1 .. n - 1 : i + 1 \in 1 .. n /\ queue'[i] = queue[i + 1]
      /\ Head(queue) = queue[1] /\ 1 \in 1 .. n /\ n <= QueueLen /\ QueueLen \in Nat
  BY <1>1 DEF TimerInv, TimerType, NvsAssumption
<1>3. queue[1] \in Commands \X Timers /\ id \in Timers /\ c \in Commands /\ queue[1] = <<c, id>>
  BY <1>1, <1>2
<1>4. id \in exists /\ (c = "Delete" => id # timer /\ \A j \in 2 .. n : queue[j][2] # id)
  BY <1>1, <1>2, <1>3 DEF TimerInv, TimersAccounted, QueueOK
<1>5. /\ active' = IF c \in {"Start", "Change"} THEN active \cup {id} ELSE active \ {id}
      /\ exists' = IF c = "Delete" THEN exists \ {id} ELSE exists
  BY <1>2, <1>3 DEF TakeCommand, Commands
<1>. HIDE DEF id, c, n
<1>6. TimerType'
  <2>1. Len(queue') <= QueueLen
    BY <1>2 DEF n
  <2>. QED BY <1>1, <1>2, <1>4, <1>5, <2>1 DEF TimerInv, TimerType, Commands
<1>7. ScriptOK' /\ HandleOK'
  BY <1>1 DEF TimerInv, ScriptOK, HandleOK, Empty, Cached, Free
<1>8. \A j \in 1 .. n - 1 : \A z : queue[j + 1][2] # z <=> queue'[j][2] # z
  BY <1>2
<1>9. QueueOK'
  <2>1. timer # NoTimer => timer \in exists'
    BY <1>4, <1>5 DEF TimerInv, QueueOK
  <2>2. ASSUME NEW i \in 1 .. Len(queue') PROVE ~(queue'[i][1] = "Delete" /\ queue'[i][2] = timer')
    BY <1>1, <1>2 DEF TimerInv, QueueOK, n
  <2>3. ASSUME running PROVE Armed(timer)'
    <3>1. Armed(timer)
      BY <2>3 DEF TimerInv, QueueOK
    <3>2. CASE timer \in active /\ \A i \in 1 .. Len(queue) : queue[i][2] # timer
      <4>1. timer # id
        BY <1>2, <3>2 DEF id, n
      <4>2. timer \in active' /\ \A i \in 1 .. Len(queue') : queue'[i][2] # timer
        BY <1>2, <1>5, <3>2, <4>1 DEF n
      <4>. QED BY <1>1, <4>2 DEF Armed
    <3>3. ASSUME NEW i \in 1 .. Len(queue), queue[i][1] \in {"Start", "Change"}, queue[i][2] = timer,
                 \A j \in i + 1 .. Len(queue) : queue[j][2] # timer
          PROVE  Armed(timer)'
      <4>1. CASE i = 1
        <5>1. timer \in active'
          BY <1>3, <1>5, <3>3, <4>1 DEF id, c
        <5>2. \A j \in 1 .. Len(queue') : queue'[j][2] # timer
          BY <1>2, <3>3, <4>1 DEF n
        <5>. QED BY <1>1, <5>1, <5>2 DEF Armed
      <4>2. CASE i # 1
        <5> DEFINE k == i - 1
        <5>1. k \in 1 .. Len(queue') /\ k + 1 = i /\ i \in Int
          BY <1>2, <4>2 DEF n
        <5>2. queue'[k] = queue[i]
          BY <1>2, <5>1 DEF n
        <5>3. ASSUME NEW j \in k + 1 .. Len(queue') PROVE queue'[j][2] # timer
          <6>1. j + 1 \in i + 1 .. Len(queue) /\ j \in 1 .. n - 1
            BY <1>2, <5>1 DEF n
          <6>. QED BY <1>2, <3>3, <6>1
        <5>. HIDE DEF k
        <5>. QED BY <1>1, <3>3, <5>1, <5>2, <5>3 DEF Armed
      <4>. QED BY <4>1, <4>2
    <3>. QED BY <3>1, <3>2, <3>3 DEF Armed
  <2>. QED BY <1>1, <2>1, <2>2, <2>3 DEF QueueOK
<1>10. TimersAccounted'
  <2>1. ASSUME alive, NEW x \in exists' \ {timer}
        PROVE  \E i \in 1 .. Len(queue') : queue'[i] = <<"Delete", x>>
    <3>1. PICK i \in 1 .. Len(queue) : queue[i] = <<"Delete", x>>
      BY <1>5, <2>1 DEF TimerInv, TimersAccounted
    <3>2. i # 1
      BY <1>3, <1>5, <2>1, <3>1
    <3>3. i - 1 \in 1 .. Len(queue') /\ queue'[i - 1] = queue[i]
      BY <1>2, <3>2 DEF n
    <3>. QED BY <3>1, <3>3
  <2>2. ASSUME NEW i \in 1 .. Len(queue')
        PROVE  /\ queue'[i][2] \in exists'
               /\ queue'[i][1] = "Delete" => \A j \in i + 1 .. Len(queue') : queue'[j][2] # queue'[i][2]
    <3>1. i + 1 \in 2 .. Len(queue) /\ queue'[i] = queue[i + 1] /\ i \in Nat
      BY <1>2 DEF n
    <3>2. queue[i + 1][2] \in exists'
      BY <1>4, <1>5, <3>1 DEF TimerInv, TimersAccounted, n
    <3>3. ASSUME queue'[i][1] = "Delete", NEW j \in i + 1 .. Len(queue')
          PROVE  queue'[j][2] # queue'[i][2]
      <4>1. j + 1 \in (i + 1) + 1 .. Len(queue) /\ queue'[j] = queue[j + 1]
        BY <1>2, <3>1 DEF n
      <4>. QED BY <3>1, <3>3, <4>1 DEF TimerInv, TimersAccounted
    <3>. QED BY <3>1, <3>2, <3>3
  <2>. QED BY <1>1, <2>1, <2>2 DEF TimersAccounted
<1>. QED BY <1>6, <1>7, <1>9, <1>10 DEF TimerInv
\* There is a timer to take: those that exist and are not the handle's own have
\* their deletion in the queue, which is too short for all of them.
LEMMA SpareTimer ==
  ASSUME NvsAssumption, TimerInv, alive, timer = NoTimer
  PROVE  \E id \in Timers : id \notin exists
<1> SUFFICES ASSUME \A id \in Timers : id \in exists PROVE FALSE
  OBVIOUS
<1> DEFINE f == [i \in 1 .. Len(queue) |-> queue[i][2]]
<1>1. Len(queue) \in Nat /\ Len(queue) <= QueueLen /\ queue \in Seq(Commands \X Timers)
  BY DEF TimerInv, TimerType, Commands
<1>2. f \in [1 .. Len(queue) -> Timers]
  BY <1>1
<1>3. ASSUME NEW id \in Timers PROVE \E i \in 1 .. Len(queue) : f[i] = id
  <2>1. id \in exists \ {timer}
    BY DEF NvsAssumption
  <2>2. PICK i \in 1 .. Len(queue) : queue[i] = <<"Delete", id>>
    BY <2>1 DEF TimerInv, TimersAccounted
  <2>. QED BY <2>2
<1>. HIDE DEF f
<1>4. ExistsSurjection(1 .. Len(queue), Timers)
  BY <1>2, <1>3 DEF ExistsSurjection, Surjection
<1>5. Cardinality(Timers) <= Len(queue)
  BY <1>1, <1>4, FS_SurjCardinalityBound
<1>6. Cardinality(Timers) \in Nat
  BY FS_CardinalityType DEF NvsAssumption
<1>. QED BY <1>1, <1>5, <1>6 DEF NvsAssumption

\* Changing the delay.
LEMMA PeriodSet ==
  ASSUME NvsAssumption, TimerInv, period \in Nat, NEW t \in Users, NEW p \in Nat, SetPeriod(t, p),
         UNCHANGED <<items, alive, queue, active, dpc>>
  PROVE  TimerInv'
<1>1. Free /\ alive /\ todo = <<>> /\ period' = p /\ UNCHANGED running
  BY DEF SetPeriod, Lock, TimerInv, ScriptOK
<1>2. /\ period = 0 <=> timer = NoTimer
      /\ ~Empty => running
      /\ running => timer # NoTimer
  BY <1>1 DEF TimerInv, HandleOK, Flushing
<1>3. dpc' \in {"idle", "fired", "sync"} /\ Empty' = Empty
  BY DEF TimerInv, TimerType, Empty, Cached
<1>4. CASE p = period /\ Lock(t, <<>>) /\ UNCHANGED <<timer, exists>>
  BY <1>1, <1>2, <1>3, <1>4, TimerLock DEF timerSide, Scripts, Emptied, Commanding
<1>5. CASE p # period /\ p = 0 /\ Lock(t, <<"Delete">> \o CommitNow) /\ UNCHANGED <<timer, exists>>
  <2>1. Lock(t, <<"Delete", "flush", "sync">>)
    BY <1>5, ScriptsOf
  <2>. QED BY <1>1, <1>2, <1>3, <1>5, <2>1, TimerLock DEF timerSide, Scripts, Flushing, Emptied
<1>6. CASE p # period /\ p # 0 /\ HasTimer /\ Lock(t, <<"Change">>) /\ UNCHANGED <<timer, exists>>
  BY <1>1, <1>2, <1>3, <1>6, TimerLock DEF timerSide, Scripts, Emptied, HasTimer
<1>7. CASE /\ p # 0 /\ ~HasTimer
           /\ timer' = CHOOSE id \in Timers \ exists : TRUE
           /\ exists' = exists \cup {timer'}
           /\ Lock(t, <<>>)
  <2>1. timer = NoTimer /\ ~running /\ Empty
    BY <1>2, <1>7 DEF HasTimer
  <2>2. timer' \in Timers /\ timer' \notin exists /\ timer' # NoTimer
    BY <1>1, <1>7, <2>1, SpareTimer DEF NvsAssumption
  <2>3. mutex' = Nobody /\ todo' = <<>> /\ mutex = Nobody
    BY <1>1, <1>7 DEF Lock, Free
  <2>4. TimerType'
    BY <1>1, <1>7, <2>2, <2>3 DEF TimerInv, TimerType
  <2>5. ScriptOK' /\ HandleOK'
    BY <1>1, <1>3, <1>7, <2>1, <2>2, <2>3 DEF ScriptOK, HandleOK, Scripts, Free, Emptied, Commanding
  <2>6. QueueOK'
    <3>1. ASSUME NEW i \in 1 .. Len(queue) PROVE queue[i][2] # timer'
      BY <2>2 DEF TimerInv, TimersAccounted
    <3>. QED BY <1>1, <1>7, <2>1, <3>1 DEF QueueOK
  <2>7. TimersAccounted'
    <3>1. exists' \ {timer'} = exists \ {timer} /\ exists \subseteq exists'
      BY <1>7, <2>1, <2>2 DEF TimerInv, TimerType, NvsAssumption
    <3>. QED BY <1>1, <3>1 DEF TimerInv, TimersAccounted
  <2>. QED BY <2>4, <2>5, <2>6, <2>7 DEF TimerInv
<1>. QED BY <1>4, <1>5, <1>6, <1>7 DEF SetPeriod

\* A call of a user.
LEMMA TimerCalled ==
  ASSUME NvsAssumption, TimerInv, period \in Nat, NEW t \in Users, UserCall(t)
  PROVE  TimerInv'
<1>1. alive /\ Free /\ todo = <<>>
  BY DEF UserCall, Write, WriteNew, WriteAgain, WriteDirect, ReadString, EraseCached, Commit,
         EnableAutoCommit, BeginIterate, SetPeriod, Destroy, Lock, TimerInv, ScriptOK
<1>2. /\ period = 0 <=> timer = NoTimer
      /\ ~Empty => running
      /\ running => timer # NoTimer
      /\ dpc \in {"idle", "fired", "sync"}
  BY <1>1 DEF TimerInv, HandleOK, TimerType, Flushing
<1>3. ASSUME Lock(t, <<>>) PROVE UNCHANGED <<mutex, todo>>
  BY <1>1, <1>3 DEF Lock, Free
<1>4. CASE Write(t)
  <2>1. PICK k \in Keys, v \in Values : WriteNew(t, k, v) \/ WriteAgain(t, k, v) \/ WriteDirect(t, k, v)
    BY <1>4 DEF Write
  <2>2. UNCHANGED <<timer, running, exists, queue, active, period, alive, dpc>>
    BY <1>4 DEF Write, timerVars
  <2>3. CASE WriteNew(t, k, v)
    <3>1. Lock(t, IF running THEN <<>> ELSE <<"Start">>) /\ timer # NoTimer
      BY <2>3 DEF WriteNew, StartIfStopped
    <3>2. CASE running
      BY <1>2, <2>2, <3>1, <3>2, TimerLock DEF timerSide, Scripts, Emptied
    <3>3. CASE ~running
      BY <1>2, <2>2, <3>1, <3>3, TimerLock DEF timerSide, Scripts, Emptied
    <3>. QED BY <3>2, <3>3
  <2>4. CASE WriteAgain(t, k, v)
    <3>1. Lock(t, <<>>) /\ (Empty => Empty')
      BY <2>4 DEF WriteAgain, Empty
    <3>. QED BY <1>2, <1>3, <2>2, <3>1, TimerQuiet DEF timerSide
  <2>5. CASE WriteDirect(t, k, v)
    <3>1. items' = [items EXCEPT ![k] = NoItem] /\ Lock(t, <<>>)
      BY <2>5 DEF WriteDirect, StoreDirect
    <3>2. Empty => Empty'
      BY <3>1 DEF Empty, Cached
    <3>. QED BY <1>2, <1>3, <2>2, <3>1, <3>2, TimerQuiet DEF timerSide
  <2>. QED BY <2>1, <2>3, <2>4, <2>5
<1>5. CASE ReadString(t)
  <2>1. UNCHANGED <<items, timerSide, period, alive, dpc>> /\ Lock(t, <<>>)
    BY <1>5 DEF ReadString, timerVars, cacheVars, timerSide
  <2>. QED BY <1>2, <1>3, <2>1, TimerQuiet DEF Empty, Cached
<1>6. CASE EraseCached(t)
  <2>1. UNCHANGED <<timerSide, period, alive, dpc>> /\ Lock(t, <<>>)
    BY <1>6 DEF EraseCached, timerVars, timerSide
  <2>2. Empty => Empty'
    BY <1>6 DEF EraseCached, Empty, Cached
  <2>. QED BY <1>2, <1>3, <2>1, <2>2, TimerQuiet
<1>7. CASE Commit(t)
  <2>1. UNCHANGED <<items, timerSide, period, alive, dpc>>
    BY <1>7 DEF Commit, timerVars, cacheVars, timerSide
  <2>2. CASE running
    <3>1. Lock(t, <<"Stop", "flush", "sync">>)
      BY <1>7, <2>2, ScriptsOf DEF Commit
    <3>. QED BY <1>2, <2>1, <2>2, <3>1, TimerLock DEF Scripts, Flushing, Emptied
  <2>3. CASE ~running
    <3>1. Lock(t, <<"flush", "sync">>)
      BY <1>7, <2>3, ScriptsOf DEF Commit
    <3>. QED BY <1>2, <2>1, <2>3, <3>1, TimerLock DEF Scripts, Flushing, Emptied, Commanding
  <2>. QED BY <2>2, <2>3
<1>8. CASE EnableAutoCommit(t)
  <2>1. PICK p \in Periods : SetPeriod(t, p)
    BY <1>8 DEF EnableAutoCommit
  <2>2. p \in Nat /\ UNCHANGED <<items, alive, queue, active, dpc>>
    BY <1>8 DEF EnableAutoCommit, cacheVars, NvsAssumption
  <2>. QED BY <2>1, <2>2, PeriodSet
<1>9. CASE BeginIterate(t)
  <2>1. SetPeriod(t, 0) /\ UNCHANGED <<items, alive, queue, active, dpc>>
    BY <1>9 DEF BeginIterate, cacheVars
  <2>. QED BY <2>1, PeriodSet
<1>10. CASE Destroy(t)
  <2>1. UNCHANGED <<items, timerSide, period, alive, dpc>>
    BY <1>10 DEF Destroy, timerVars, cacheVars, timerSide
  <2>2. CASE running
    <3>1. Lock(t, <<"Stop", "flush", "sync", "Delete", "free">>)
      BY <1>2, <1>10, <2>2, ScriptsOf DEF Destroy
    <3>. QED BY <1>2, <2>1, <2>2, <3>1, TimerLock DEF Scripts, Flushing, Emptied
  <2>3. CASE ~running /\ timer = NoTimer
    <3>1. Lock(t, <<"flush", "sync", "free">>)
      BY <1>10, <2>3, ScriptsOf DEF Destroy
    <3>. QED BY <1>2, <2>1, <2>3, <3>1, TimerLock DEF Scripts, Flushing, Emptied, Commanding
  <2>4. CASE ~running /\ timer # NoTimer
    <3>1. Lock(t, <<"flush", "sync", "Delete", "free">>)
      BY <1>10, <2>4, ScriptsOf DEF Destroy
    <3>. QED BY <1>2, <2>1, <2>4, <3>1, TimerLock DEF Scripts, Flushing, Emptied
  <2>. QED BY <2>2, <2>3, <2>4
<1>. QED BY <1>4, <1>5, <1>6, <1>7, <1>8, <1>9, <1>10 DEF UserCall

\* The callback of the timer.
LEMMA TimerFired ==
  ASSUME NvsAssumption, TimerInv, OnCommitTimer
  PROVE  TimerInv'
<1>1. UNCHANGED <<timerSide, period, alive>> /\ dpc' = "sync"
  BY DEF OnCommitTimer, timerVars, timerSide
<1>2. Lock(Daemon, IF Empty' THEN StopFirst(<<>>) ELSE <<>>)
  BY DEF OnCommitTimer, Empty, Cached
<1>3. Empty => Empty'
  BY DEF OnCommitTimer, Empty, Cached
<1>4. alive /\ Free /\ todo = <<>>
  BY <1>2 DEF Lock, TimerInv, ScriptOK
<1>5. /\ period = 0 <=> timer = NoTimer
      /\ ~Empty => running
      /\ running => timer # NoTimer
  BY <1>4 DEF TimerInv, HandleOK, Flushing
<1>6. CASE Empty' /\ running
  <2>1. Lock(Daemon, <<"Stop">>)
    BY <1>2, <1>6, ScriptsOf
  <2>. QED BY <1>1, <1>5, <1>6, <2>1, TimerLock DEF Scripts, Emptied
<1>7. CASE ~(Empty' /\ running)
  <2>1. Lock(Daemon, <<>>)
    BY <1>2, <1>7, ScriptsOf
  <2>. QED BY <1>1, <1>3, <1>5, <1>7, <2>1, TimerLock DEF Scripts, Emptied, Commanding
<1>. QED BY <1>6, <1>7
LEMMA TimerStep ==
  ASSUME NvsAssumption, TimerInv, period \in Nat, \A t \in Users : orig[t] \in Nat, [Next]_vars
  PROVE  TimerInv'
<1>1. TimerType
  BY DEF TimerInv
<1>2. CASE Next
  <2>1. ASSUME NEW t \in Users, UserCall(t) PROVE TimerInv'
    BY <2>1, TimerCalled
  <2>2. ASSUME NEW t \in Users, ReadSize(t) \/ ReadGet(t) \/ ReadReturn(t) \/ EraseStored(t) PROVE TimerInv'
    <3>1. UNCHANGED <<items, timerSide, period, alive, mutex, todo, dpc>>
      BY <2>2 DEF ReadSize, ReadGet, ReadReturn, EraseStored, cacheVars, timerVars, timerSide
    <3>. QED BY <1>1, <3>1, TimerQuiet DEF TimerType, Empty, Cached
  <2>3. ASSUME NEW t \in Users, EndIterate(t) PROVE TimerInv'
    <3>1. SetPeriod(t, orig[t]) /\ UNCHANGED <<items, alive, queue, active, dpc>>
      BY <2>3 DEF EndIterate, cacheVars
    <3>. QED BY <3>1, PeriodSet
  <2>4. CASE HolderStep
    BY <2>4, TimerStarted, TimerStopped, TimerDeleted, TimerFlushed, TimerSynced, TimerFreed DEF HolderStep
  <2>5. CASE TimerExpires \/ CommitAfterTimer \/ \E k \in Keys : Persist(k)
    <3>1. UNCHANGED <<items, timerSide, period, alive, mutex, todo>> /\ dpc' \in {dpc, "fired", "idle"}
      BY <2>5 DEF TimerExpires, CommitAfterTimer, Persist, cacheVars, timerVars, timerSide
    <3>. QED BY <1>1, <3>1, TimerQuiet DEF TimerType, Empty, Cached
  <2>6. CASE TakeCommand \/ OnCommitTimer \/ Restart
    BY <2>6, CommandTaken, TimerFired, TimerRestarted
  <2>. QED BY <1>2, <2>1, <2>2, <2>3, <2>4, <2>5, <2>6 DEF Next, UserStep, TimerService
<1>3. CASE UNCHANGED vars
  <2>1. UNCHANGED <<items, timerSide, period, alive, mutex, todo, dpc>>
    BY <1>3 DEF vars, cacheVars, timerVars, timerSide
  <2>. QED BY <1>1, <2>1, TimerQuiet DEF TimerType, Empty, Cached
<1>. QED BY <1>2, <1>3

-----------------------------------------------------------------------------
\* The types of the rest.

LEMMA Seen ==
  ASSUME NEW k \in Keys, DataType
  PROVE  View(k) \in Held /\ (Cached(k) => items[k].val \in Values)
BY DEF DataType, View, Shown, Cached, Held, NoItem

LEMMA ItemType ==
  ASSUME NEW v \in Values
  PROVE  /\ Item(v) \in [val : Values, ticks : 1 .. TicksTillCommit]
         /\ Item(v).val = v /\ Item(v).ticks = TicksTillCommit
BY DEF Item, TicksTillCommit

\* An item is never the empty one.
LEMMA ItemIsNot ==
  ASSUME NvsAssumption, NEW x \in [val : Values, ticks : 1 .. TicksTillCommit]
  PROVE  x # NoItem
BY DEF NvsAssumption, NoItem

LEMMA DataStep ==
  ASSUME NvsAssumption, DataType, TimerInv, UserType, [Next]_vars
  PROVE  DataType'
<1>1. items \in [Keys -> {NoItem} \cup [val : Values, ticks : 1 .. TicksTillCommit]]
      /\ set \in [Keys -> Held] /\ flash \in [Keys -> Held] /\ given \in [Keys -> Held]
  BY DEF DataType
<1>2. Absent \in Held /\ Values \subseteq Held
  BY DEF Held
<1>3. CASE Next
  <2>1. ASSUME NEW t \in Users, Write(t) PROVE DataType'
    <3>1. PICK k \in Keys, v \in Values :
            /\ WriteNew(t, k, v) \/ WriteAgain(t, k, v) \/ WriteDirect(t, k, v)
            /\ given' = [given EXCEPT ![k] = v]
      BY <2>1 DEF Write
    <3>2. /\ items' \in {[items EXCEPT ![k] = Item(v)], [items EXCEPT ![k] = NoItem]}
          /\ set' \in {set, [set EXCEPT ![k] = v]} /\ flash' = flash
      BY <2>1, <3>1 DEF WriteNew, WriteAgain, WriteDirect, StoreDirect, Write
    <3>. QED BY <1>1, <1>2, <3>1, <3>2, ItemType DEF DataType
  <2>2. ASSUME NEW t \in Users, EraseCached(t) PROVE DataType'
    <3>1. PICK k \in Keys : items' = [items EXCEPT ![k] = NoItem] /\ given' = [given EXCEPT ![k] = Absent]
      BY <2>2 DEF EraseCached
    <3>2. UNCHANGED <<set, flash>>
      BY <2>2 DEF EraseCached
    <3>. QED BY <1>1, <1>2, <3>1, <3>2 DEF DataType
  <2>3. ASSUME NEW t \in Users, EraseStored(t) PROVE DataType'
    <3>1. /\ set' = [set EXCEPT ![arg[t].key] = Absent] /\ UNCHANGED <<items, flash>>
          /\ given' \in {[given EXCEPT ![arg[t].key] = Absent], [given EXCEPT ![arg[t].key] = @]}
      BY <2>3 DEF EraseStored
    <3>. QED BY <1>1, <1>2, <3>1 DEF DataType
  <2>4. CASE FlushAll
    <3>1. set' = [k \in Keys |-> View(k)] /\ items' = [k \in Keys |-> NoItem] /\ UNCHANGED <<flash, given>>
      BY <2>4 DEF FlushAll
    <3>2. set' \in [Keys -> Held]
      BY <3>1, Seen
    <3>. QED BY <1>1, <1>2, <3>1, <3>2 DEF DataType
  <2>5. CASE OnCommitTimer
    <3>1. UNCHANGED <<flash, given>>
      BY <2>5 DEF OnCommitTimer
    <3>2. set' \in [Keys -> Held]
      <4>1. set' = [k \in Keys |-> IF Ripe(k) THEN items[k].val ELSE set[k]]
        BY <2>5 DEF OnCommitTimer
      <4>2. \A k \in Keys : Ripe(k) => items[k].val \in Held
        BY <1>2, Seen DEF Ripe
      <4>. QED BY <1>1, <4>1, <4>2
    <3>3. items' \in [Keys -> {NoItem} \cup [val : Values, ticks : 1 .. TicksTillCommit]]
      <4>1. items' = [k \in Keys |-> IF Ripe(k) \/ ~Cached(k) THEN NoItem
                                     ELSE [items[k] EXCEPT !.ticks = @ - 1]]
        BY <2>5 DEF OnCommitTimer
      <4>2. ASSUME NEW k \in Keys, ~(Ripe(k) \/ ~Cached(k))
            PROVE  [items[k] EXCEPT !.ticks = @ - 1] \in [val : Values, ticks : 1 .. TicksTillCommit]
        <5>1. items[k] \in [val : Values, ticks : 1 .. TicksTillCommit] /\ ~(items[k].ticks - 1 <= 0)
          BY <1>1, <4>2 DEF Ripe, Cached
        <5>. QED BY <5>1 DEF TicksTillCommit
      <4>. QED BY <4>1, <4>2
    <3>. QED BY <1>1, <3>1, <3>2, <3>3 DEF DataType
  <2>6. CASE SyncAll \/ CommitAfterTimer
    <3>1. flash' = set /\ UNCHANGED <<items, set, given>>
      BY <2>6 DEF SyncAll, CommitAfterTimer, cacheVars
    <3>. QED BY <1>1, <3>1 DEF DataType
  <2>7. ASSUME NEW k \in Keys, Persist(k) PROVE DataType'
    <3>1. flash' = [flash EXCEPT ![k] = set[k]] /\ UNCHANGED <<items, set, given>>
      BY <2>7 DEF Persist, cacheVars
    <3>. QED BY <1>1, <3>1 DEF DataType
  <2>8. CASE Restart
    <3>1. /\ items' = [k \in Keys |-> NoItem] /\ set' = flash /\ flash' = flash /\ given' = flash
      BY <2>8 DEF Restart
    <3>. QED BY <1>1, <3>1 DEF DataType
  <2>9. ASSUME NEW t \in Users,
               ReadString(t) \/ Commit(t) \/ EnableAutoCommit(t) \/ BeginIterate(t) \/ Destroy(t)
               \/ ReadSize(t) \/ ReadGet(t) \/ ReadReturn(t) \/ EndIterate(t)
        PROVE  DataType'
    <3>1. UNCHANGED <<items, set, flash, given>>
      BY <2>9 DEF ReadString, Commit, EnableAutoCommit, BeginIterate, Destroy, ReadSize, ReadGet,
                  ReadReturn, EndIterate, cacheVars
    <3>. QED BY <1>1, <3>1 DEF DataType
  <2>10. CASE StartTimer \/ StopTimer \/ ChangeTimer \/ PostDelete \/ FreeHandle \/ TakeCommand \/ TimerExpires
    <3>1. UNCHANGED <<items, set, flash, given>>
      BY <2>10 DEF StartTimer, StopTimer, ChangeTimer, PostDelete, Post, FreeHandle, TakeCommand,
                   TimerExpires, cacheVars
    <3>. QED BY <1>1, <3>1 DEF DataType
  <2>. QED BY <1>3, <2>1, <2>2, <2>3, <2>4, <2>5, <2>6, <2>7, <2>8, <2>9, <2>10
           DEF Next, UserCall, UserStep, HolderStep, TimerService
<1>4. CASE UNCHANGED vars
  BY <1>1, <1>4 DEF vars, cacheVars, DataType
<1>. QED BY <1>3, <1>4
\* A user's place, and the key it is at.
LEMMA UserStepped ==
  ASSUME NvsAssumption, DataType, UserType, [Next]_vars
  PROVE  UserType'
<1> DEFINE Args == [key : Keys \cup {Absent}, len : Nat, val : Held]
           Places == {"idle", "size", "get", "done", "erase", "iter"}
<1>1. /\ pc \in [Users -> Places] /\ arg \in [Users -> Args]
      /\ orig \in [Users -> Periods \cup {0}] /\ period \in Periods \cup {0}
      /\ \A t \in Users : pc[t] \in Reading \cup {"erase"} => arg[t].key \in Keys
  BY DEF UserType
<1>2. NoArg \in Args /\ \A k \in Keys : [NoArg EXCEPT !.key = k] \in Args /\ [NoArg EXCEPT !.key = k].key = k
  BY DEF NoArg, Held
<1>3. \A v \in Values : SizeOf(v) \in Nat
  BY DEF SizeOf, NvsAssumption
<1>4. ASSUME NEW t \in Users, NEW w \in Places, NEW a \in Args, Go(t, w, a),
             w \in Reading \cup {"erase"} => a.key \in Keys,
             orig' \in [Users -> Periods \cup {0}], period' \in Periods \cup {0}
      PROVE  UserType'
  <2>. HIDE DEF Args, Places
  <2>1. pc' \in [Users -> Places] /\ arg' \in [Users -> Args]
    BY <1>1, <1>4 DEF Go
  <2>2. ASSUME NEW u \in Users, pc'[u] \in Reading \cup {"erase"} PROVE arg'[u].key \in Keys
    <3>1. CASE u = t
      <4>1. pc'[t] = w /\ arg'[t] = a
        BY <1>1, <1>4 DEF Go
      <4>. QED BY <1>4, <2>2, <3>1, <4>1
    <3>2. CASE u # t
      <4>1. pc'[u] = pc[u] /\ arg'[u] = arg[u]
        BY <1>1, <1>4, <3>2 DEF Go
      <4>. QED BY <1>1, <2>2, <4>1
    <3>. QED BY <3>1, <3>2
  <2>. QED BY <1>4, <2>1, <2>2 DEF UserType, Args, Places
<1>5. ASSUME UNCHANGED <<pc, arg>>, orig' \in [Users -> Periods \cup {0}], period' \in Periods \cup {0}
      PROVE  UserType'
  BY <1>1, <1>5 DEF UserType
<1>6. ASSUME NEW t \in Users, NEW p, SetPeriod(t, p) PROVE period' = p
  BY <1>6 DEF SetPeriod
<1>7. CASE Next
  <2>1. ASSUME NEW t \in Users, ReadString(t) PROVE UserType'
    <3>1. PICK k \in Keys : LookUp(t, k)
      BY <2>1 DEF ReadString
    <3>2. UNCHANGED <<orig, period>>
      BY <2>1 DEF ReadString, timerVars
    <3>3. CASE Cached(k)
      <4> DEFINE a == [key |-> k, len |-> SizeOf(View(k)), val |-> View(k)]
      <4>1. View(k) \in Values
        BY <3>3, Seen DEF View, Shown, Cached
      <4>2. a \in Args /\ a.key = k
        BY <1>3, <4>1 DEF Held
      <4>3. Go(t, "done", a)
        BY <3>1, <3>3 DEF LookUp
      <4>. HIDE DEF a, Args
      <4>. QED BY <1>1, <1>4, <3>2, <4>2, <4>3
    <3>4. CASE ~Cached(k)
      <4>1. Go(t, "size", [NoArg EXCEPT !.key = k])
        BY <3>1, <3>4 DEF LookUp
      <4>. HIDE DEF Args
      <4>. QED BY <1>1, <1>2, <1>4, <3>2, <4>1
    <3>. QED BY <3>3, <3>4
  <2>2. ASSUME NEW t \in Users, ReadSize(t) PROVE UserType'
    <3> DEFINE k == arg[t].key
    <3>1. k \in Keys /\ arg[t] \in Args /\ set[k] \in Held
      BY <1>1, <2>2 DEF ReadSize, Reading, DataType
    <3>2. UNCHANGED <<orig, period>>
      BY <2>2 DEF ReadSize, timerVars
    <3>3. CASE StoredString(k) /\ Go(t, "get", [arg[t] EXCEPT !.len = SizeOf(set[k])])
      <4> DEFINE a == [arg[t] EXCEPT !.len = SizeOf(set[k])]
      <4>1. SizeOf(set[k]) \in Nat
        BY <1>3, <3>1, <3>3 DEF StoredString, Held
      <4>2. a \in Args /\ a.key = k
        BY <3>1, <4>1
      <4>3. Go(t, "get", a)
        BY <3>3
      <4>. HIDE DEF a, Args
      <4>. QED BY <1>1, <1>4, <3>1, <3>2, <4>2, <4>3
    <3>4. CASE Go(t, "idle", NoArg)
      <4>. HIDE DEF Args
      <4>. QED BY <1>1, <1>2, <1>4, <3>2, <3>4 DEF Reading
    <3>. QED BY <2>2, <3>3, <3>4 DEF ReadSize
  <2>3. ASSUME NEW t \in Users, ReadGet(t) PROVE UserType'
    <3> DEFINE k == arg[t].key
    <3>1. k \in Keys /\ arg[t] \in Args /\ set[k] \in Held
      BY <1>1, <2>3 DEF ReadGet, Reading, DataType
    <3>2. UNCHANGED <<orig, period>>
      BY <2>3 DEF ReadGet, timerVars
    <3>3. CASE Go(t, "done", [arg[t] EXCEPT !.val = set[k]])
      <4> DEFINE a == [arg[t] EXCEPT !.val = set[k]]
      <4>1. a \in Args /\ a.key = k
        BY <3>1
      <4>2. Go(t, "done", a)
        BY <3>3
      <4>. HIDE DEF a, Args
      <4>. QED BY <1>1, <1>4, <3>1, <3>2, <4>1, <4>2
    <3>4. CASE Go(t, "idle", NoArg)
      <4>. HIDE DEF Args
      <4>. QED BY <1>1, <1>2, <1>4, <3>2, <3>4 DEF Reading
    <3>. QED BY <2>3, <3>3, <3>4 DEF ReadGet
  <2>4. ASSUME NEW t \in Users, EraseCached(t) PROVE UserType'
    <3>1. PICK k \in Keys : Go(t, "erase", [NoArg EXCEPT !.key = k])
      BY <2>4 DEF EraseCached
    <3>2. UNCHANGED <<orig, period>>
      BY <2>4 DEF EraseCached, timerVars
    <3>. HIDE DEF Args
    <3>. QED BY <1>1, <1>2, <1>4, <3>1, <3>2
  <2>5. ASSUME NEW t \in Users, ReadReturn(t) \/ EraseStored(t) PROVE UserType'
    <3>1. Go(t, "idle", NoArg) /\ UNCHANGED <<orig, period>>
      BY <2>5 DEF ReadReturn, EraseStored, timerVars
    <3>. HIDE DEF Args
    <3>. QED BY <1>1, <1>2, <1>4, <3>1 DEF Reading
  <2>6. ASSUME NEW t \in Users, BeginIterate(t) PROVE UserType'
    <3>1. Go(t, "iter", NoArg) /\ orig' = [orig EXCEPT ![t] = period] /\ period' = 0
      BY <1>6, <2>6 DEF BeginIterate
    <3>2. orig' \in [Users -> Periods \cup {0}]
      BY <1>1, <3>1
    <3>. HIDE DEF Args
    <3>. QED BY <1>1, <1>2, <1>4, <3>1, <3>2 DEF Reading
  <2>7. ASSUME NEW t \in Users, EndIterate(t) PROVE UserType'
    <3>1. Go(t, "idle", NoArg) /\ orig' = [orig EXCEPT ![t] = 0] /\ period' = orig[t]
      BY <1>6, <2>7 DEF EndIterate
    <3>2. orig' \in [Users -> Periods \cup {0}]
      BY <1>1, <3>1
    <3>. HIDE DEF Args
    <3>. QED BY <1>1, <1>2, <1>4, <3>1, <3>2 DEF Reading
  <2>8. ASSUME NEW t \in Users, EnableAutoCommit(t) PROVE UserType'
    <3>1. UNCHANGED <<pc, arg, orig>> /\ period' \in Periods
      BY <1>6, <2>8 DEF EnableAutoCommit, userVars
    <3>. QED BY <1>1, <1>5, <3>1
  <2>9. CASE Restart
    <3>1. /\ pc' = [t \in Users |-> "idle"] /\ arg' = [t \in Users |-> NoArg]
          /\ orig' = [t \in Users |-> 0] /\ period' = FirstPeriod
      BY <2>9 DEF Restart
    <3>. QED BY <1>2, <3>1 DEF UserType, NvsAssumption, Reading
  <2>10. ASSUME NEW t \in Users, Write(t) \/ Commit(t) \/ Destroy(t) PROVE UserType'
    <3>1. UNCHANGED <<pc, arg, orig, period>>
      BY <2>10 DEF Write, Commit, Destroy, userVars, timerVars
    <3>. QED BY <1>1, <1>5, <3>1
  <2>11. CASE HolderStep \/ TimerService \/ \E k \in Keys : Persist(k)
    <3>1. UNCHANGED <<pc, arg, orig, period>>
      BY <2>11 DEF HolderStep, StartTimer, StopTimer, ChangeTimer, PostDelete, Post, FlushAll, SyncAll,
           FreeHandle, TimerService, TakeCommand, TimerExpires, OnCommitTimer, CommitAfterTimer, Persist,
           userVars, timerVars
    <3>. QED BY <1>1, <1>5, <3>1
  <2>. QED BY <1>7, <2>1, <2>2, <2>3, <2>4, <2>5, <2>6, <2>7, <2>8, <2>9, <2>10, <2>11
           DEF Next, UserCall, UserStep
<1>8. CASE UNCHANGED vars
  BY <1>1, <1>8 DEF vars, userVars, timerVars, UserType
<1>. QED BY <1>7, <1>8
-----------------------------------------------------------------------------
\* The cache, the store and the flash, one key at a time.

\* A write puts the value in one of the two places.
LEMMA Written ==
  ASSUME NvsAssumption, DataType, NEW t \in Users, NEW k \in Keys, NEW v \in Values,
         WriteNew(t, k, v) \/ WriteAgain(t, k, v) \/ WriteDirect(t, k, v)
  PROVE  /\ \A j \in Keys : j # k => items'[j] = items[j] /\ set'[j] = set[j]
         /\ \/ items'[k] = Item(v) /\ Item(v) # NoItem /\ Item(v).val = v /\ set'[k] = set[k]
            \/ items'[k] = NoItem /\ set'[k] = v
            \/ Cached(k) /\ TypeOf(v) = "num" /\ (timer = NoTimer \/ "num" \in DirectTypes)
               /\ items'[k] = NoItem /\ set'[k] = set[k]
<1>1. Item(v) # NoItem /\ Item(v).val = v
  BY ItemType, ItemIsNot
<1>2. items' = [items EXCEPT ![k] = Item(v)] \/ items' = [items EXCEPT ![k] = NoItem]
  BY DEF WriteNew, WriteAgain, WriteDirect, StoreDirect
<1>. QED BY <1>1, <1>2 DEF WriteNew, WriteAgain, WriteDirect, StoreDirect, DataType

\* The callback and the flush move values; they change none.
LEMMA Drained ==
  ASSUME NvsAssumption, DataType, FlushAll \/ OnCommitTimer, NEW k \in Keys
  PROVE  Moved(k) /\ View(k)' = View(k)
<1>1. CASE FlushAll
  <2>1. items'[k] = NoItem /\ set'[k] = View(k)
    BY <1>1 DEF FlushAll
  <2>. QED BY <2>1 DEF Moved, View, Shown, Cached
<1>2. CASE OnCommitTimer
  <2>1. /\ items'[k] = IF Ripe(k) \/ ~Cached(k) THEN NoItem ELSE [items[k] EXCEPT !.ticks = @ - 1]
        /\ set'[k] = IF Ripe(k) THEN items[k].val ELSE set[k]
    BY <1>2 DEF OnCommitTimer
  <2>2. CASE Ripe(k)
    BY <2>1, <2>2 DEF Ripe, Moved, View, Shown, Cached
  <2>3. CASE ~Ripe(k) /\ ~Cached(k)
    BY <2>1, <2>3 DEF Moved, View, Shown, Cached
  <2>4. CASE ~Ripe(k) /\ Cached(k)
    <3>1. items[k] \in [val : Values, ticks : 1 .. TicksTillCommit]
      BY <2>4 DEF DataType, Cached
    <3>2. items[k].ticks \in Int /\ ~(items[k].ticks - 1 <= 0)
      BY <2>4, <3>1 DEF Ripe
    <3>3. items'[k] = [items[k] EXCEPT !.ticks = @ - 1]
      BY <2>1, <2>4
    <3>4. items'[k].val = items[k].val /\ items'[k].ticks = items[k].ticks - 1
      BY <3>1, <3>3
    <3>5. items'[k] # NoItem
      BY <3>2, <3>4 DEF NoItem
    <3>6. set'[k] = set[k]
      BY <2>1, <2>4
    <3>. QED BY <2>4, <3>4, <3>5, <3>6 DEF Moved, View, Shown, Cached
  <2>. QED BY <2>2, <2>3, <2>4
<1>. QED BY <1>1, <1>2

\* What a step does to a key, the histories of it included.
Kept(k)    == items'[k] = items[k] /\ set'[k] = set[k]
Flashed(k) == flash'[k] = flash[k] \/ flash'[k] = set[k]
Noted(k)   == since'[k] = since[k] \cup {View(k)', set'[k]} /\ flash'[k] = flash[k]
Silent     == UNCHANGED <<items, set, given, since>> /\ \A k \in Keys : Flashed(k)

\* The actions that do nothing to any key, but for the flash.
LEMMA SilentSteps ==
  ASSUME DataType,
         \/ \E t \in Users : \/ ReadString(t) \/ Commit(t) \/ EnableAutoCommit(t) \/ BeginIterate(t)
                             \/ Destroy(t) \/ ReadSize(t) \/ ReadGet(t) \/ ReadReturn(t) \/ EndIterate(t)
         \/ StartTimer \/ StopTimer \/ ChangeTimer \/ PostDelete \/ FreeHandle
         \/ TakeCommand \/ TimerExpires \/ CommitAfterTimer \/ \E k \in Keys : Persist(k)
         \/ UNCHANGED vars
  PROVE  Silent
<1>1. UNCHANGED <<items, set, given, since>>
  BY DEF ReadString, Commit, EnableAutoCommit, BeginIterate, Destroy, ReadSize, ReadGet, ReadReturn,
         EndIterate, StartTimer, StopTimer, ChangeTimer, PostDelete, Post, FreeHandle, TakeCommand,
         TimerExpires, CommitAfterTimer, Persist, cacheVars, vars
<1>2. \/ flash' = flash \/ flash' = set
      \/ \E k \in Keys : flash' = [flash EXCEPT ![k] = set[k]]
  BY DEF ReadString, Commit, EnableAutoCommit, BeginIterate, Destroy, ReadSize, ReadGet, ReadReturn,
         EndIterate, StartTimer, StopTimer, ChangeTimer, PostDelete, Post, FreeHandle, TakeCommand,
         TimerExpires, CommitAfterTimer, Persist, vars
<1>3. ASSUME NEW k \in Keys PROVE Flashed(k)
  BY <1>2 DEF Flashed, DataType
<1>. QED BY <1>1, <1>3 DEF Silent

\* All the steps there are, seen from the data.
LEMMA DataMoves ==
  ASSUME NvsAssumption, DataType, [Next]_vars
  PROVE  \/ Silent
         \/ \E t \in Users : Write(t)
         \/ \E t \in Users : EraseCached(t)
         \/ \E t \in Users : EraseStored(t)
         \/ FlushAll \/ OnCommitTimer \/ SyncAll \/ Restart
<1>1. CASE UNCHANGED vars
  BY <1>1, SilentSteps
<1>2. CASE Next
  BY <1>2, SilentSteps DEF Next, UserCall, UserStep, HolderStep, TimerService
<1>. QED BY <1>1, <1>2

LEMMA DurableStep ==
  ASSUME NvsAssumption, DataType, HistoryType, TimerInv, Durable, UserType, [Next]_vars
  PROVE  Durable'
<1> SUFFICES ASSUME NEW k \in Keys
             PROVE  set'[k] \in since'[k] /\ flash'[k] \in since'[k] /\ View(k)' \in since'[k]
  BY DEF Durable
<1>1. set[k] \in since[k] /\ flash[k] \in since[k] /\ View(k) \in since[k]
  BY DEF Durable
<1>2. since \in [Keys -> SUBSET Held]
  BY DEF HistoryType
<1>3. CASE Silent
  BY <1>1, <1>3 DEF Silent, Flashed, View, Shown
<1>4. CASE Remember /\ flash' = flash
  <2>1. since'[k] = since[k] \cup {View(k)', set'[k]}
    BY <1>4 DEF Remember
  <2>. QED BY <1>1, <1>4, <2>1
<1>5. CASE FlushAll \/ OnCommitTimer
  <2>1. Moved(k) /\ View(k)' = View(k)
    BY <1>5, Drained
  <2>2. flash' = flash /\ since' = since
    BY <1>5 DEF FlushAll, OnCommitTimer
  <2>3. set'[k] \in {set[k], View(k)}
    BY <2>1 DEF Moved, View, Shown, Cached
  <2>. QED BY <1>1, <2>1, <2>2, <2>3
<1>6. CASE SyncAll
  <2>1. Empty
    BY <1>6, TimerSynced
  <2>2. View(k) = set[k]
    BY <2>1 DEF Empty, View, Shown, Cached
  <2>3. since'[k] = {View(k)} /\ flash' = set /\ items' = items /\ set' = set
    BY <1>6 DEF SyncAll, cacheVars
  <2>4. View(k)' = View(k)
    BY <2>3 DEF View, Shown
  <2>. QED BY <2>2, <2>3, <2>4
<1>7. CASE Restart
  <2>1. items'[k] = NoItem /\ set' = flash /\ flash' = flash /\ since'[k] = {flash[k]}
    BY <1>7 DEF Restart
  <2>. QED BY <2>1 DEF View, Shown
<1>8. (\E t \in Users : Write(t) \/ EraseCached(t) \/ EraseStored(t)) => Remember /\ flash' = flash
  BY DEF Write, EraseCached, EraseStored
<1>. QED BY <1>3, <1>4, <1>5, <1>6, <1>7, <1>8, DataMoves

\* What callers were told last.
Said ==
    \A k \in Keys :
        /\ Cached(k) => given[k] = items[k].val
        /\ ~Cached(k) /\ (\A t \in Users : pc[t] = "erase" => arg[t].key # k) => given[k] = set[k]

\* Who is between the two steps of an erasure stays there, and of the same key,
\* but for the one who takes a step of it.
LEMMA Erasing ==
  ASSUME UserType, [Next]_vars, ~Restart, NEW u \in Users, pc[u] = "erase", ~EraseStored(u)
  PROVE  pc'[u] = "erase" /\ arg'[u] = arg[u]
<1>1. pc \in [Users -> {"idle", "size", "get", "done", "erase", "iter"}] /\ DOMAIN arg = Users
  BY DEF UserType
<1>2. ASSUME NEW t \in Users, NEW w, NEW a, Go(t, w, a), pc[t] # "erase" PROVE pc'[u] = pc[u] /\ arg'[u] = arg[u]
  BY <1>1, <1>2 DEF Go
<1>3. ASSUME NEW t \in Users, EraseStored(t) PROVE pc'[u] = pc[u] /\ arg'[u] = arg[u]
  BY <1>1, <1>3 DEF EraseStored, Go
<1>4. ASSUME NEW t \in Users,
             ReadString(t) \/ EraseCached(t) \/ BeginIterate(t) \/ ReadSize(t) \/ ReadGet(t)
             \/ ReadReturn(t) \/ EndIterate(t)
      PROVE  \E w, a : Go(t, w, a) /\ pc[t] # "erase"
  BY <1>4 DEF ReadString, LookUp, EraseCached, BeginIterate, ReadSize, ReadGet, ReadReturn, EndIterate
<1>5. ASSUME \/ \E t \in Users : Write(t) \/ Commit(t) \/ EnableAutoCommit(t) \/ Destroy(t)
             \/ HolderStep \/ TimerService \/ (\E k \in Keys : Persist(k)) \/ UNCHANGED vars
      PROVE  UNCHANGED <<pc, arg>>
  BY <1>5 DEF Write, Commit, EnableAutoCommit, Destroy, HolderStep, StartTimer, StopTimer, ChangeTimer,
       PostDelete, Post, FlushAll, SyncAll, FreeHandle, TimerService, TakeCommand, TimerExpires,
       OnCommitTimer, CommitAfterTimer, Persist, userVars, vars
<1>. QED BY <1>2, <1>3, <1>4, <1>5 DEF Next, UserCall, UserStep
Erased(k) == \A t \in Users : pc[t] = "erase" => arg[t].key # k

LEMMA SaidStep ==
  ASSUME NvsAssumption, "num" \notin DirectTypes, DataType, UserType, TimerInv, Said, [Next]_vars
  PROVE  Said'
<1> SUFFICES ASSUME NEW k \in Keys
             PROVE  /\ Cached(k)' => given'[k] = items'[k].val
                    /\ ~Cached(k)' /\ Erased(k)' => given'[k] = set'[k]
  BY DEF Said, Erased
<1>1. /\ Cached(k) => given[k] = items[k].val
      /\ ~Cached(k) /\ Erased(k) => given[k] = set[k]
  BY DEF Said, Erased
<1>2. given \in [Keys -> Held]
  BY DEF DataType
<1>3. ASSUME ~Restart, \A t \in Users : ~EraseStored(t), Erased(k)' PROVE Erased(k)
  BY <1>3, Erasing DEF Erased
<1>4. ASSUME Kept(k), given'[k] = given[k], Erased(k)' => Erased(k)
      PROVE  /\ Cached(k)' => given'[k] = items'[k].val
             /\ ~Cached(k)' /\ Erased(k)' => given'[k] = set'[k]
  BY <1>1, <1>4 DEF Kept, Cached
<1>5. CASE Restart
  BY <1>5 DEF Restart, Cached
<1>6. CASE \E t \in Users : EraseStored(t)
  <2>1. PICK t \in Users : EraseStored(t)
    BY <1>6
  <2> DEFINE z == arg[t].key
  <2>2. /\ pc[t] = "erase" /\ set' = [set EXCEPT ![z] = Absent] /\ items' = items
        /\ given' = [given EXCEPT ![z] = IF Cached(z) THEN @ ELSE Absent]
        /\ pc' = [pc EXCEPT ![t] = "idle"] /\ arg' = [arg EXCEPT ![t] = NoArg]
    BY <2>1 DEF EraseStored, Go
  <2>3. z \in Keys /\ set \in [Keys -> Held]
    BY <2>2 DEF UserType, DataType
  <2>4. CASE z = k
    BY <1>1, <1>2, <2>2, <2>3, <2>4 DEF Cached
  <2>5. CASE z # k
    <3>1. Kept(k) /\ given'[k] = given[k]
      BY <1>2, <2>2, <2>3, <2>5 DEF Kept
    <3>2. ASSUME Erased(k)', NEW u \in Users, pc[u] = "erase" PROVE arg[u].key # k
      <4>1. CASE u = t
        BY <2>5, <4>1
      <4>2. CASE u # t
        <5>1. pc'[u] = pc[u] /\ arg'[u] = arg[u]
          BY <2>2, <4>2 DEF UserType
        <5>. QED BY <3>2, <5>1 DEF Erased
      <4>. QED BY <4>1, <4>2
    <3>. QED BY <1>4, <3>1, <3>2 DEF Erased
  <2>. QED BY <2>4, <2>5
<1>7. CASE ~Restart /\ ~(\E t \in Users : EraseStored(t))
  <2>1. Erased(k)' => Erased(k)
    BY <1>3, <1>7
  <2>2. CASE Silent \/ SyncAll
    <3>1. UNCHANGED <<items, set, given>>
      BY <2>2 DEF Silent, SyncAll, cacheVars
    <3>. QED BY <1>4, <2>1, <3>1 DEF Kept
  <2>3. ASSUME NEW t \in Users, Write(t)
        PROVE  /\ Cached(k)' => given'[k] = items'[k].val
               /\ ~Cached(k)' /\ Erased(k)' => given'[k] = set'[k]
    <3>1. PICK j \in Keys, v \in Values :
            /\ WriteNew(t, j, v) \/ WriteAgain(t, j, v) \/ WriteDirect(t, j, v)
            /\ given' = [given EXCEPT ![j] = v]
      BY <2>3 DEF Write
    <3>2. alive /\ todo = <<>>
      BY <3>1 DEF WriteNew, WriteAgain, WriteDirect, Lock, TimerInv, ScriptOK
    <3>3. timer = NoTimer => Empty
      BY <3>2 DEF TimerInv, HandleOK, Flushing
    <3>4. /\ \A i \in Keys : i # j => items'[i] = items[i] /\ set'[i] = set[i]
          /\ \/ items'[j] = Item(v) /\ Item(v) # NoItem /\ Item(v).val = v /\ set'[j] = set[j]
             \/ items'[j] = NoItem /\ set'[j] = v
      BY <3>1, <3>3, Written DEF Empty
    <3>5. CASE j = k
      BY <1>2, <3>1, <3>4, <3>5 DEF Cached
    <3>6. CASE j # k
      <4>1. Kept(k) /\ given'[k] = given[k]
        BY <1>2, <3>1, <3>4, <3>6 DEF Kept
      <4>. QED BY <1>4, <2>1, <4>1
    <3>. QED BY <3>5, <3>6
  <2>4. ASSUME NEW t \in Users, EraseCached(t)
        PROVE  /\ Cached(k)' => given'[k] = items'[k].val
               /\ ~Cached(k)' /\ Erased(k)' => given'[k] = set'[k]
    <3>1. PICK j \in Keys : /\ items' = [items EXCEPT ![j] = NoItem]
                            /\ Go(t, "erase", [NoArg EXCEPT !.key = j])
                            /\ given' = [given EXCEPT ![j] = Absent]
      BY <2>4 DEF EraseCached
    <3>2. set' = set /\ items \in [Keys -> {NoItem} \cup [val : Values, ticks : 1 .. TicksTillCommit]]
      BY <2>4 DEF EraseCached, DataType
    <3>3. CASE j = k
      <4>1. pc'[t] = "erase" /\ arg'[t] = [NoArg EXCEPT !.key = j]
        BY <3>1 DEF Go, UserType
      <4>2. arg'[t].key = k
        BY <3>3, <4>1 DEF NoArg
      <4>. QED BY <3>1, <3>2, <3>3, <4>1, <4>2 DEF Erased, Cached
    <3>4. CASE j # k
      <4>1. Kept(k) /\ given'[k] = given[k]
        BY <1>2, <3>1, <3>2, <3>4 DEF Kept
      <4>. QED BY <1>4, <2>1, <4>1
    <3>. QED BY <3>3, <3>4
  <2>5. CASE FlushAll \/ OnCommitTimer
    <3>1. Moved(k) /\ given' = given
      BY <2>5, Drained DEF FlushAll, OnCommitTimer
    <3>. QED BY <1>1, <2>1, <3>1 DEF Moved, Cached
  <2>. QED BY <1>7, <2>2, <2>3, <2>4, <2>5, DataMoves
<1>. QED BY <1>5, <1>6, <1>7

-----------------------------------------------------------------------------
\* Strings that are read.

\* What is put in the store is what callers are told next, or the absence that
\* an erasure leaves there.
Settled(k) == set'[k] = set[k] \/ set'[k] = Absent \/ items'[k] = NoItem

LEMMA SettledAll ==
  ASSUME NvsAssumption, DataType, UserType, [Next]_vars, NEW k \in Keys
  PROVE  Settled(k)
<1>1. CASE Silent \/ SyncAll
  BY <1>1 DEF Silent, SyncAll, cacheVars, Settled
<1>2. CASE \E t \in Users : Write(t)
  <2>1. PICK t \in Users, j \in Keys, v \in Values :
          WriteNew(t, j, v) \/ WriteAgain(t, j, v) \/ WriteDirect(t, j, v)
    BY <1>2 DEF Write
  <2>. QED BY <2>1, Written DEF Settled
<1>3. CASE \E t \in Users : EraseCached(t) \/ EraseStored(t)
  BY <1>3 DEF EraseCached, EraseStored, DataType, Settled
<1>4. CASE FlushAll \/ OnCommitTimer
  BY <1>4, Drained DEF Settled, Moved
<1>5. CASE Restart
  BY <1>5 DEF Restart, Settled
<1>. QED BY <1>1, <1>2, <1>3, <1>4, <1>5, DataMoves

\* Where a user may be in a read, after a step.
Reads(u) ==
    \/ pc'[u] \notin Reading
    \/ pc[u] \in Reading /\ pc'[u] = pc[u] /\ arg'[u] = arg[u]
    \/ pc[u] = "size" /\ pc'[u] = "get" /\ arg'[u].key = arg[u].key
    \/ /\ pc[u] = "get" /\ pc'[u] = "done" /\ arg'[u].key = arg[u].key
       /\ arg'[u].val = set[arg[u].key] /\ set[arg[u].key] # Absent
    \/ /\ pc[u] = "idle" /\ pc'[u] = "size" /\ UNCHANGED <<items, set>>
       /\ ~Cached(arg'[u].key)
    \/ pc[u] = "idle" /\ pc'[u] = "done" /\ arg'[u].val = View(arg'[u].key)

LEMMA ReadsAll ==
  ASSUME UserType, [Next]_vars, NEW u \in Users
  PROVE  Reads(u)
<1>1. /\ pc \in [Users -> {"idle", "size", "get", "done", "erase", "iter"}]
      /\ arg \in [Users -> [key : Keys \cup {Absent}, len : Nat, val : Held]]
  BY DEF UserType
<1>2. ASSUME NEW t \in Users, NEW w, NEW a, Go(t, w, a)
      PROVE  /\ t # u => pc'[u] = pc[u] /\ arg'[u] = arg[u]
             /\ t = u => pc'[u] = w /\ arg'[u] = a
  BY <1>1, <1>2 DEF Go
<1>3. ASSUME pc'[u] = pc[u], arg'[u] = arg[u] PROVE Reads(u)
  BY <1>3 DEF Reads
<1>4. ASSUME NEW t \in Users, NEW w \in {"idle", "erase", "iter"}, NEW a, Go(t, w, a) PROVE Reads(u)
  BY <1>2, <1>3, <1>4 DEF Reads, Reading
<1>5. ASSUME NEW t \in Users, ReadString(t) PROVE Reads(u)
  <2>1. PICK k \in Keys : LookUp(t, k)
    BY <1>5 DEF ReadString
  <2>2. pc[t] = "idle" /\ UNCHANGED <<items, set>>
    BY <1>5 DEF ReadString, cacheVars
  <2>3. CASE t # u
    <3>1. \E w, a : Go(t, w, a)
      BY <2>1 DEF LookUp
    <3>. QED BY <1>2, <1>3, <2>3, <3>1
  <2>4. CASE t = u /\ Cached(k)
    <3> DEFINE a == [key |-> k, len |-> SizeOf(View(k)), val |-> View(k)]
    <3>1. Go(t, "done", a)
      BY <2>1, <2>4 DEF LookUp
    <3>2. pc'[u] = "done" /\ arg'[u] = a
      BY <1>2, <2>4, <3>1
    <3>. QED BY <2>2, <2>4, <3>2 DEF Reads
  <2>5. CASE t = u /\ ~Cached(k)
    <3> DEFINE a == [NoArg EXCEPT !.key = k]
    <3>1. Go(t, "size", a)
      BY <2>1, <2>5 DEF LookUp
    <3>2. pc'[u] = "size" /\ arg'[u] = a
      BY <1>2, <2>5, <3>1
    <3>3. arg'[u].key = k
      BY <3>2 DEF NoArg
    <3>. QED BY <2>2, <2>5, <3>2, <3>3 DEF Reads
  <2>. QED BY <2>3, <2>4, <2>5
<1>6. ASSUME NEW t \in Users, ReadSize(t) PROVE Reads(u)
  <2> DEFINE k == arg[t].key
             a == [arg[t] EXCEPT !.len = SizeOf(set[k])]
  <2>1. pc[t] = "size" /\ (Go(t, "get", a) \/ Go(t, "idle", NoArg))
    BY <1>6 DEF ReadSize
  <2>2. a.key = k
    BY <1>1
  <2>. HIDE DEF a
  <2>3. CASE Go(t, "get", a)
    <3>1. CASE t # u
      BY <1>2, <1>3, <2>3, <3>1
    <3>2. CASE t = u
      BY <1>2, <2>1, <2>2, <2>3, <3>2 DEF Reads
    <3>. QED BY <3>1, <3>2
  <2>. QED BY <1>4, <2>1, <2>3
<1>7. ASSUME NEW t \in Users, ReadGet(t) PROVE Reads(u)
  <2> DEFINE k == arg[t].key
             a == [arg[t] EXCEPT !.val = set[k]]
  <2>1. pc[t] = "get" /\ ((StoredString(k) /\ Go(t, "done", a)) \/ Go(t, "idle", NoArg))
    BY <1>7 DEF ReadGet
  <2>2. a.key = k /\ a.val = set[k]
    BY <1>1
  <2>. HIDE DEF a
  <2>3. CASE StoredString(k) /\ Go(t, "done", a)
    <3>1. CASE t # u
      BY <1>2, <1>3, <2>3, <3>1
    <3>2. CASE t = u
      BY <1>2, <2>1, <2>2, <2>3, <3>2 DEF Reads, StoredString
    <3>. QED BY <3>1, <3>2
  <2>. QED BY <1>4, <2>1, <2>3
<1>8. ASSUME NEW t \in Users,
             EraseCached(t) \/ EraseStored(t) \/ ReadReturn(t) \/ BeginIterate(t) \/ EndIterate(t)
      PROVE  Reads(u)
  <2>1. \E w \in {"idle", "erase", "iter"} : \E a : Go(t, w, a)
    BY <1>8 DEF EraseCached, EraseStored, ReadReturn, BeginIterate, EndIterate
  <2>. QED BY <1>4, <2>1
<1>9. CASE Restart
  BY <1>9 DEF Restart, Reads, Reading
<1>10. CASE \/ \E t \in Users : Write(t) \/ Commit(t) \/ EnableAutoCommit(t) \/ Destroy(t)
            \/ HolderStep \/ TimerService \/ (\E k \in Keys : Persist(k)) \/ UNCHANGED vars
  <2>1. UNCHANGED <<pc, arg>>
    BY <1>10 DEF Write, Commit, EnableAutoCommit, Destroy, HolderStep, StartTimer, StopTimer, ChangeTimer,
         PostDelete, Post, FlushAll, SyncAll, FreeHandle, TimerService, TakeCommand, TimerExpires,
         OnCommitTimer, CommitAfterTimer, Persist, userVars, vars
  <2>. QED BY <1>3, <2>1
<1>. QED BY <1>5, <1>6, <1>7, <1>8, <1>9, <1>10 DEF Next, UserCall, UserStep

LEMMA FreshStep ==
  ASSUME NvsAssumption, DataType, UserType, UserType', Fresh, Next
  PROVE  Fresh'
<1> SUFFICES ASSUME NEW u \in Users
             PROVE  /\ pc'[u] \in {"size", "get"} => set'[arg'[u].key] \in seen'[u] \cup {Absent}
                    /\ pc'[u] = "done" => arg'[u].val \in seen'[u]
  BY DEF Fresh
<1> SUFFICES ASSUME pc'[u] \in Reading
             PROVE  /\ pc'[u] \in {"size", "get"} => set'[arg'[u].key] \in seen'[u] \cup {Absent}
                    /\ pc'[u] = "done" => arg'[u].val \in seen'[u]
  BY DEF Reading
<1> DEFINE k == arg'[u].key
<1>1. seen'[u] = (IF pc[u] \in Reading THEN seen[u] ELSE {View(k)}) \cup {Shown(items', set', k)}
  BY DEF Next, Observe
<1>2. k \in Keys
  BY DEF UserType
<1>3. Settled(k)
  BY <1>2, SettledAll
<1>. HIDE DEF k
<1>4. set'[k] = set[k] \/ set'[k] = Absent \/ set'[k] \in seen'[u]
  BY <1>1, <1>3 DEF Settled, Shown
<1>5. CASE pc[u] \in Reading /\ pc'[u] = pc[u] /\ arg'[u] = arg[u]
  BY <1>1, <1>4, <1>5 DEF Fresh, k
<1>6. CASE pc[u] = "size" /\ pc'[u] = "get" /\ k = arg[u].key
  BY <1>1, <1>4, <1>6 DEF Fresh, Reading, k
<1>7. CASE pc[u] = "get" /\ pc'[u] = "done" /\ k = arg[u].key /\ arg'[u].val = set[k] /\ set[k] # Absent
  BY <1>1, <1>7 DEF Fresh, Reading
<1>8. CASE pc[u] = "idle" /\ pc'[u] = "size" /\ UNCHANGED <<items, set>> /\ ~Cached(k)
  BY <1>1, <1>8 DEF Shown, Cached, k
<1>9. CASE pc[u] = "idle" /\ pc'[u] = "done" /\ arg'[u].val = View(k)
  BY <1>1, <1>9 DEF Reading
<1>. QED BY <1>5, <1>6, <1>7, <1>8, <1>9, ReadsAll DEF Reads, k

\* The two histories.
LEMMA HistoryStep ==
  ASSUME NvsAssumption, DataType, DataType', UserType, UserType', HistoryType, [Next]_vars
  PROVE  HistoryType'
<1>1. CASE UNCHANGED vars
  BY <1>1 DEF vars, HistoryType
<1>2. CASE Next
  <2>1. seen' \in [Users -> SUBSET Held]
    <3>1. ASSUME NEW t \in Users, pc'[t] \in Reading
          PROVE  /\ View(arg'[t].key) \in Held /\ Shown(items', set', arg'[t].key) \in Held
                 /\ seen[t] \subseteq Held
      <4>1. arg'[t].key \in Keys
        BY <3>1 DEF UserType
      <4>2. View(arg'[t].key) \in Held
        BY <4>1, Seen
      <4>3. Shown(items', set', arg'[t].key) \in Held
        BY <4>1 DEF Shown, DataType, Held, NoItem
      <4>. QED BY <4>2, <4>3 DEF HistoryType
    <3>2. seen' = [t \in Users |->
                     IF pc'[t] \notin Reading THEN {}
                     ELSE (IF pc[t] \in Reading THEN seen[t] ELSE {View(arg'[t].key)})
                          \cup {Shown(items', set', arg'[t].key)}]
      BY <1>2 DEF Next, Observe
    <3>. QED BY <3>1, <3>2
  <2>2. since' \in [Keys -> SUBSET Held]
    <3>1. since \in [Keys -> SUBSET Held]
      BY DEF HistoryType
    <3>2. CASE Silent \/ FlushAll \/ OnCommitTimer
      <4>1. since' = since
        BY <3>2 DEF Silent, FlushAll, OnCommitTimer
      <4>. QED BY <3>1, <4>1
    <3>3. CASE SyncAll
      <4>1. since' = [k \in Keys |-> {View(k)}]
        BY <3>3 DEF SyncAll
      <4>2. \A k \in Keys : {View(k)} \in SUBSET Held
        BY Seen
      <4>. QED BY <4>1, <4>2
    <3>4. CASE Restart
      <4>1. since' = [k \in Keys |-> {flash[k]}] /\ \A k \in Keys : {flash[k]} \in SUBSET Held
        BY <3>4 DEF Restart, DataType
      <4>. QED BY <4>1
    <3>5. CASE Remember
      <4>1. since' = [k \in Keys |-> since[k] \cup {View(k)', set'[k]}]
        BY <3>5 DEF Remember
      <4>2. ASSUME NEW k \in Keys PROVE since[k] \cup {View(k)', set'[k]} \in SUBSET Held
        <5>1. View(k)' \in Held /\ set'[k] \in Held /\ since[k] \subseteq Held
          BY <3>1 DEF View, Shown, DataType, Held, NoItem
        <5>. QED BY <5>1
      <4>. QED BY <4>1, <4>2
    <3>6. (\E t \in Users : Write(t) \/ EraseCached(t) \/ EraseStored(t)) => Remember
      BY DEF Write, EraseCached, EraseStored
    <3>. QED BY <3>2, <3>3, <3>4, <3>5, <3>6, DataMoves
  <2>. QED BY <2>1, <2>2 DEF HistoryType
<1>. QED BY <1>1, <1>2
-----------------------------------------------------------------------------
\* The theorems.

LEMMA InitOK ==
  ASSUME NvsAssumption, Init
  PROVE  IInv /\ Said
<1>1. \E id \in Timers : TRUE
  BY SomeTimer
<1>2. timer \in Timers \cup {NoTimer} /\ (timer = NoTimer <=> FirstPeriod = 0)
  BY <1>1 DEF Init, NvsAssumption
<1>3. /\ items = [k \in Keys |-> NoItem] /\ set = [k \in Keys |-> Absent] /\ flash = set /\ given = set
      /\ since = [k \in Keys |-> {Absent}] /\ seen = [t \in Users |-> {}]
      /\ pc = [t \in Users |-> "idle"] /\ arg = [t \in Users |-> NoArg] /\ orig = [t \in Users |-> 0]
      /\ period = FirstPeriod
  BY DEF Init
<1>4. /\ exists = {timer} \ {NoTimer} /\ running = FALSE /\ alive = TRUE /\ mutex = Nobody
      /\ todo = <<>> /\ queue = <<>> /\ active = {} /\ dpc = "idle"
  BY DEF Init
<1>5. DataType /\ HistoryType
  BY <1>3 DEF DataType, HistoryType, Held
<1>6. UserType /\ Fresh
  BY <1>3 DEF UserType, Fresh, NoArg, Held, NvsAssumption, Reading
<1>7. Empty /\ Durable /\ Said
  BY <1>3 DEF Empty, Durable, Said, View, Shown, Cached
<1>8. TimerType
  <2>1. queue \in Seq(Commands \X Timers) /\ Len(queue) = 0 /\ 0 <= QueueLen
    BY <1>4 DEF NvsAssumption
  <2>2. exists \subseteq Timers /\ active \subseteq exists
    BY <1>2, <1>4
  <2>. QED BY <1>2, <1>4, <2>1, <2>2 DEF TimerType, Commands
<1>9. ScriptOK /\ HandleOK
  BY <1>2, <1>3, <1>4, <1>7 DEF ScriptOK, HandleOK, Scripts, Free, Emptied, Commanding
<1>10. QueueOK /\ TimersAccounted
  BY <1>2, <1>4 DEF QueueOK, TimersAccounted
<1>. QED BY <1>5, <1>6, <1>7, <1>8, <1>9, <1>10 DEF IInv, TimerInv

LEMMA InvStep ==
  ASSUME NvsAssumption, IInv, [Next]_vars
  PROVE  IInv'
<1>1. period \in Nat /\ \A t \in Users : orig[t] \in Nat
  <2>1. Periods \cup {0} \subseteq Nat
    BY DEF NvsAssumption
  <2>. QED BY <2>1 DEF IInv, UserType
<1>2. TimerInv'
  BY <1>1, TimerStep DEF IInv
<1>3. DataType'
  BY DataStep DEF IInv
<1>4. UserType'
  BY UserStepped DEF IInv
<1>5. HistoryType'
  BY <1>3, <1>4, HistoryStep DEF IInv
<1>6. Durable'
  BY DurableStep DEF IInv
<1>7. Fresh'
  <2>1. CASE Next
    BY <1>4, <2>1, FreshStep DEF IInv
  <2>2. CASE UNCHANGED vars
    BY <2>2 DEF IInv, Fresh, vars, cacheVars, userVars
  <2>. QED BY <2>1, <2>2
<1>. QED BY <1>2, <1>3, <1>4, <1>5, <1>6, <1>7 DEF IInv

LEMMA InvHolds == Spec => []IInv
<1>1. Init => IInv
  BY InitOK, NvsAssumption
<1>2. IInv /\ [Next]_vars => IInv'
  BY InvStep, NvsAssumption
<1>. QED BY <1>1, <1>2, PTL DEF Spec

\* Every variable has its type, with every member function in use.
THEOREM TypeCorrect == Spec => []TypeOK
<1>1. IInv => TypeOK
  <2> SUFFICES ASSUME IInv PROVE TypeOK
    OBVIOUS
  <2>1. todo \in Scripts
    BY DEF IInv, TimerInv, ScriptOK
  <2>2. todo \in Seq(Words)
    <3>1. {<<>>, <<"Start">>, <<"Change">>} \subseteq Seq(Words)
      BY DEF Words
    <3>2. /\ <<"Delete", "flush", "sync">> \in Seq(Words) /\ <<"Stop", "flush", "sync">> \in Seq(Words)
          /\ <<"flush", "sync">> \in Seq(Words) /\ <<"Stop", "flush", "sync", "Delete", "free">> \in Seq(Words)
          /\ <<"flush", "sync", "Delete", "free">> \in Seq(Words)
          /\ <<"Stop", "flush", "sync", "free">> \in Seq(Words) /\ <<"flush", "sync", "free">> \in Seq(Words)
      BY DEF Words
    <3>3. /\ <<"Stop">> \in Seq(Words) /\ <<"sync">> \in Seq(Words)
          /\ <<"sync", "Delete", "free">> \in Seq(Words) /\ <<"sync", "free">> \in Seq(Words)
          /\ <<"Delete", "free">> \in Seq(Words) /\ <<"free">> \in Seq(Words)
      BY DEF Words
    <3>. QED BY <2>1, <3>1, <3>2, <3>3 DEF Scripts, Flushing, Emptied
  <2>. QED BY <2>2 DEF IInv, DataType, UserType, HistoryType, TimerInv, TimerType, TypeOK, Held, Words
<1>. QED BY <1>1, InvHolds, PTL

\* Armed says what WillTick says: the last command for a timer decides.
LEMMA ArmedTicks ==
  ASSUME TimerType, Armed(timer)
  PROVE  WillTick(timer)
<1> DEFINE sent == {i \in 1 .. Len(queue) : queue[i][2] = timer}
<1>1. CASE sent = {}
  BY <1>1 DEF Armed, WillTick
<1>2. CASE sent # {}
  <2>1. PICK i \in 1 .. Len(queue) : /\ queue[i][1] \in {"Start", "Change"} /\ queue[i][2] = timer
                                     /\ \A j \in i + 1 .. Len(queue) : queue[j][2] # timer
    BY <1>2 DEF Armed
  <2>2. Len(queue) \in Nat
    BY DEF TimerType
  <2>3. i \in sent /\ \A j \in sent : j <= i
    BY <2>1, <2>2
  <2>4. ASSUME NEW m \in sent, \A j \in sent : j <= m PROVE m = i
    BY <2>2, <2>3, <2>4
  <2>. HIDE DEF sent
  <2>5. (CHOOSE m \in sent : \A j \in sent : j <= m) = i
    BY <2>3, <2>4
  <2>. QED BY <1>2, <2>1, <2>5 DEF WillTick, sent
<1>. QED BY <1>1, <1>2

\* Whenever the mutex is free and a value is pending, the handle's timer exists and
\* ticks, or will once the commands on their way are taken; and every other timer
\* has its deletion on the way, with no command behind it.
THEOREM TimerServesHolds == Spec => []TimerServes
<1>1. IInv => TimerServes
  <2> SUFFICES ASSUME IInv PROVE TimerServes
    OBVIOUS
  <2>1. ASSUME Free, alive, ~Empty PROVE timer # NoTimer /\ running /\ WillTick(timer)
    <3>1. todo = <<>>
      BY <2>1 DEF IInv, TimerInv, ScriptOK
    <3>2. running /\ timer # NoTimer
      BY <2>1, <3>1 DEF IInv, TimerInv, HandleOK, Flushing
    <3>3. Armed(timer)
      BY <3>2 DEF IInv, TimerInv, QueueOK
    <3>. QED BY <3>2, <3>3, ArmedTicks DEF IInv, TimerInv
  <2>. QED BY <2>1 DEF TimerServes, PendingIsArmed, IInv, TimerInv
<1>. QED BY <1>1, InvHolds, PTL

\* A string that is read was the key's at some moment of the call, although the
\* cache and the store are looked at at different moments.
THEOREM ReadRecentHolds == Spec => []ReadRecent
<1>1. IInv => ReadRecent
  BY DEF IInv, Fresh, ReadRecent
<1>. QED BY <1>1, InvHolds, PTL

\* What callers are told is what was written or erased last, as long as no number
\* is written with writeDirect.
THEOREM WritesStickHolds ==
  ASSUME "num" \notin DirectTypes
  PROVE  Spec => []WritesStick
<1>1. Init => IInv /\ Said
  BY InitOK, NvsAssumption
<1>2. IInv /\ Said /\ [Next]_vars => Said'
  BY SaidStep, NvsAssumption DEF IInv
<1>3. Said => WritesStick
  BY DEF Said, WritesStick, View, Shown, Cached
<1>. QED BY <1>1, <1>2, <1>3, InvHolds, PTL DEF Spec

-----------------------------------------------------------------------------
\* The map that callers see.

\* A step that is noted in the history, and touches one key only.
LEMMA OneKey ==
  ASSUME NvsAssumption, HistoryType, Durable, Remember, NEW k \in Keys,
         \A j \in Keys : j # k => Kept(j)
  PROVE  /\ [j \in Keys |-> View(j)]' = [[j \in Keys |-> View(j)] EXCEPT ![k] = View(k)']
         /\ since' = [since EXCEPT ![k] = @ \cup {View(k)', set'[k]}]
<1>1. ASSUME NEW j \in Keys, j # k PROVE View(j)' = View(j) /\ since[j] \cup {View(j)', set'[j]} = since[j]
  <2>1. Kept(j)
    BY <1>1
  <2>2. View(j)' = View(j) /\ set'[j] = set[j]
    BY <2>1 DEF Kept, View, Shown
  <2>3. View(j) \in since[j] /\ set[j] \in since[j]
    BY DEF Durable
  <2>. QED BY <2>2, <2>3
<1>2. since \in [Keys -> SUBSET Held] /\ since' = [j \in Keys |-> since[j] \cup {View(j)', set'[j]}]
  BY DEF HistoryType, Remember
<1> DEFINE seenNow(j) == since[j] \cup {View(j)', set'[j]}
<1>3. since' = [j \in Keys |-> seenNow(j)] /\ \A j \in Keys : j # k => seenNow(j) = since[j]
  BY <1>1, <1>2
<1>. HIDE DEF seenNow
<1>4. since' = [since EXCEPT ![k] = seenNow(k)]
  BY <1>2, <1>3
<1>. QED BY <1>1, <1>4 DEF seenNow

\* A key that loses what the cache holds for it shows what the store has.
LEMMA DroppedErases ==
  ASSUME NvsAssumption, HistoryType, Durable, Remember, NEW k \in Keys,
         \A j \in Keys : j # k => Kept(j), items'[k] = NoItem, set'[k] = set[k]
  PROVE  Store!Erase(k)
<1>1. View(k)' = set[k] /\ set[k] \in since[k]
  BY DEF View, Shown, Durable
<1>2. /\ [j \in Keys |-> View(j)]' = [[j \in Keys |-> View(j)] EXCEPT ![k] = View(k)']
      /\ since' = [since EXCEPT ![k] = @ \cup {View(k)', set'[k]}]
  BY OneKey
<1>3. {View(k)', set'[k]} = {set[k]} \cup {}
  BY <1>1
<1>4. since[k] \cup {View(k)', set'[k]} = since[k] \cup {set[k]} \cup {}
  BY <1>3
<1>. QED BY <1>1, <1>2, <1>4 DEF Store!Erase

LEMMA MapStep ==
  ASSUME NvsAssumption, IInv, [Next]_vars
  PROVE  Store!Next \/ UNCHANGED <<[k \in Keys |-> View(k)], since>>
<1> USE DEF IInv
<1>1. CASE Silent \/ FlushAll \/ OnCommitTimer
  <2>1. \A k \in Keys : View(k)' = View(k)
    BY <1>1, Drained DEF Silent, View, Shown
  <2>2. since' = since
    BY <1>1 DEF Silent, FlushAll, OnCommitTimer
  <2>. QED BY <2>1, <2>2
<1>2. CASE SyncAll
  <2>1. UNCHANGED <<items, set>> /\ since' = [k \in Keys |-> {View(k)}]
    BY <1>2 DEF SyncAll, cacheVars
  <2>2. \A k \in Keys : View(k)' = View(k)
    BY <2>1 DEF View, Shown
  <2>. QED BY <2>1, <2>2 DEF Store!Next, Store!Saved
<1>3. CASE Restart
  <2>1. \A k \in Keys : View(k)' = flash[k] /\ flash[k] \in since[k] /\ flash[k] \in Held
    BY <1>3 DEF Restart, View, Shown, Durable, DataType
  <2>2. since' = [k \in Keys |-> {flash[k]}]
    BY <1>3 DEF Restart
  <2>. QED BY <2>1, <2>2 DEF Store!Next, Store!Restart, Held
<1>4. ASSUME NEW t \in Users, Write(t) PROVE Store!Next
  <2>1. PICK k \in Keys, v \in Values : WriteNew(t, k, v) \/ WriteAgain(t, k, v) \/ WriteDirect(t, k, v)
    BY <1>4 DEF Write
  <2>2. Remember
    BY <1>4 DEF Write
  <2>3. /\ \A j \in Keys : j # k => Kept(j)
        /\ \/ items'[k] = Item(v) /\ Item(v) # NoItem /\ Item(v).val = v /\ set'[k] = set[k]
           \/ items'[k] = NoItem /\ set'[k] = v
           \/ items'[k] = NoItem /\ set'[k] = set[k]
    BY <2>1, Written DEF Kept
  <2>4. CASE items'[k] = NoItem /\ set'[k] = set[k]
    BY <2>2, <2>3, <2>4, DroppedErases DEF Store!Next
  <2>5. CASE View(k)' = v /\ set'[k] \in {set[k], v}
    <3>1. /\ [j \in Keys |-> View(j)]' = [[j \in Keys |-> View(j)] EXCEPT ![k] = View(k)']
          /\ since' = [since EXCEPT ![k] = @ \cup {View(k)', set'[k]}]
      BY <2>2, <2>3, OneKey
    <3>2. since[k] \cup {View(k)', set'[k]} = since[k] \cup {v}
      BY <2>5 DEF Durable
    <3>3. Store!Put(k, v)
      BY <2>5, <3>1, <3>2 DEF Store!Put, Store!Becomes
    <3>. QED BY <3>3 DEF Store!Next
  <2>. QED BY <2>3, <2>4, <2>5 DEF View, Shown
<1>5. ASSUME NEW t \in Users, EraseCached(t) PROVE Store!Next
  <2>1. PICK k \in Keys : items' = [items EXCEPT ![k] = NoItem]
    BY <1>5 DEF EraseCached
  <2>2. Remember /\ set' = set
    BY <1>5 DEF EraseCached
  <2>3. items'[k] = NoItem /\ \A j \in Keys : j # k => Kept(j)
    BY <2>1, <2>2 DEF Kept, DataType
  <2>. QED BY <2>2, <2>3, DroppedErases DEF Store!Next
<1>6. ASSUME NEW t \in Users, EraseStored(t) PROVE Store!Next
  <2>1. pc[t] = "erase"
    BY <1>6 DEF EraseStored
  <2>2. PICK k \in Keys : k = arg[t].key
    BY <2>1 DEF UserType
  <2>3. set' = [set EXCEPT ![k] = Absent] /\ items' = items /\ Remember
    BY <1>6, <2>2 DEF EraseStored
  <2>4. set'[k] = Absent /\ \A j \in Keys : j # k => Kept(j)
    BY <2>3 DEF Kept, DataType
  <2>5. View(k)' \in since[k] \cup {Absent}
    BY <2>4, <2>3 DEF View, Shown, Durable
  <2>6. /\ [j \in Keys |-> View(j)]' = [[j \in Keys |-> View(j)] EXCEPT ![k] = View(k)']
        /\ since' = [since EXCEPT ![k] = @ \cup {View(k)', set'[k]}]
    BY <2>4, <2>3, OneKey
  <2>7. since[k] \cup {View(k)', set'[k]} = since[k] \cup {View(k)'} \cup {Absent}
    BY <2>4
  <2>8. Store!Erase(k)
    BY <2>5, <2>6, <2>7 DEF Store!Erase
  <2>. QED BY <2>2, <2>8 DEF Store!Next
<1>. QED BY <1>1, <1>2, <1>3, <1>4, <1>5, <1>6, DataMoves

\* The cache, the store, the timer and the callers together are one map, that only
\* writes and erasures change, and of which a restart keeps what it had at the last
\* commit or was given since.
THEOREM MapImplemented == Spec => ImplementsKeyValue
<1>1. Init => Store!Init
  BY DEF Init, Store!Init, View, Shown
<1>2. IInv /\ [Next]_vars => [Store!Next]_<<[k \in Keys |-> View(k)], since>>
  BY MapStep, NvsAssumption
<1>. QED BY <1>1, <1>2, InvHolds, PTL DEF Spec, ImplementsKeyValue, Store!Spec
=============================================================================
