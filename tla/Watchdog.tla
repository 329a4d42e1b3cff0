------------------------------- MODULE Watchdog -------------------------------
(***************************************************************************)
(* PingWatchdog of mySystem/watchdog.hpp. The two timers fire in the timer *)
(* task, which then waits for the mutex in the callback; until it has it,  *)
(* other tasks start, stop and answer the watchdog. A body that holds the  *)
(* mutex is one step. The user's callbacks run inside such a body and may  *)
(* themselves call the watchdog: the mutex is recursive.                   *)
(***************************************************************************)
EXTENDS Integers

CONSTANTS Idle, kPingTimer, kPongTimer    \* mState, and the names of the timers

VARIABLES mState,
          armed,      \* the timers that run
          firing,     \* the timer whose callback waits for the mutex, or Idle
          answered,   \* a task called pong() since the last ping was sent
          accused     \* a timeout was reported though the last ping was answered
watchdogVars == <<mState, armed, firing, answered, accused>>

WatchdogInit ==
    /\ mState = Idle /\ armed = {} /\ firing = Idle
    /\ answered = FALSE /\ accused = FALSE

\* What the members do to the state and the timers. esp_timer_start_once does
\* nothing but fail for a timer that runs, as does esp_timer_stop for one that
\* does not; neither affects a callback that has been dispatched.
Watch == [mState |-> mState, armed |-> armed]
Stop(w) == [mState |-> Idle, armed |-> w.armed \ {w.mState}]
Start(w) == [mState |-> kPingTimer,
             armed |-> (IF w.mState = Idle THEN w ELSE Stop(w)).armed \cup {kPingTimer}]
Pong(w) ==
    IF w.mState # kPongTimer THEN w
    ELSE [mState |-> kPingTimer, armed |-> (w.armed \ {kPongTimer}) \cup {kPingTimer}]
Become(w) == mState' = w.mState /\ armed' = w.armed

start ==
    /\ Become(Start(Watch))
    /\ answered' = FALSE
    /\ UNCHANGED <<firing, accused>>
stop ==
    /\ Become(Stop(Watch))
    /\ UNCHANGED <<firing, answered, accused>>
pong ==
    /\ Become(Pong(Watch))
    /\ answered' = TRUE
    /\ UNCHANGED <<firing, accused>>
-----------------------------------------------------------------------------
Fire(timer) ==
    /\ firing = Idle /\ timer \in armed
    /\ armed' = armed \ {timer}
    /\ firing' = timer
    /\ UNCHANGED <<mState, answered, accused>>

\* The user's callback, which may call the watchdog. What it does to the state
\* is overwritten when it returns.
Called == {Watch, Stop(Watch), Start(Watch), Pong(Watch)}

IsPing(state) == state = kPingTimer
IsPong(state) == state = kPongTimer
AnyState(state) == state # Idle
PongIsDue(state) == IsPong(state)

onPingTimer ==
    /\ firing = kPingTimer
    /\ firing' = Idle
    /\ IF IsPing(mState)
       THEN /\ \E w \in Called :
                Become([mState |-> kPongTimer, armed |-> w.armed \cup {kPongTimer}])
            /\ answered' = FALSE
       ELSE UNCHANGED <<mState, armed, answered>>
    /\ UNCHANGED accused

onPongTimer ==
    /\ firing = kPongTimer
    /\ firing' = Idle
    /\ IF PongIsDue(mState)
       THEN /\ \E w \in Called :
                Become([mState |-> kPingTimer, armed |-> w.armed \cup {kPingTimer}])
            /\ accused' = answered
       ELSE UNCHANGED <<mState, armed, accused>>
    /\ UNCHANGED answered

WatchdogNext ==
    \/ start
    \/ stop
    \/ pong
    \/ \E timer \in {kPingTimer, kPongTimer} : Fire(timer)
    \/ onPingTimer
    \/ onPongTimer
-----------------------------------------------------------------------------
\* A watchdog that runs has the timer that its state names running, or that
\* timer's callback on its way; and it never reports a timeout for a ping that
\* another task answered, however late the timer's callback gets the mutex.
WatchdogSound ==
    /\ mState # Idle => mState \in armed \cup {firing}
    /\ ~accused
=============================================================================
