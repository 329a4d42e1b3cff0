-------------------------------- MODULE Wifi --------------------------------
(***************************************************************************)
(* mySystem/wifi.cpp: the Wi-Fi client, which connects again by itself a   *)
(* number of times and then gives up. The radio, and the task of the event *)
(* loop, which runs the handlers one after another, are external. start()  *)
(* cannot be repeated: the network interface would be created twice.       *)
(***************************************************************************)
EXTENDS Naturals, Sequences

CONSTANT kMaxConnectRetries

VARIABLES
    link,           \* the radio: "new", "off", "idle", "joining" or "up"
    loop,           \* events that wait for the task of the event loop
    handlers,       \* wifiEventHandler and gotIpEventHandler are registered
    mRetryNum,
    mEvents,        \* the flags Connected and Aborted
    waiter          \* a call of waitForConnect(): "none", "waiting", "yes", "no"

wifiVars == <<link, loop, handlers, mRetryNum, mEvents, waiter>>

Init ==
    /\ link = "new" /\ loop = <<>> /\ handlers = FALSE
    /\ mRetryNum = 0 /\ mEvents = {} /\ waiter = "none"
-----------------------------------------------------------------------------
\* The radio.

RadioGoes(from, to, event) ==
    /\ link = from
    /\ link' = to
    /\ loop' = Append(loop, event)
    /\ UNCHANGED <<handlers, mRetryNum, mEvents, waiter>>

Join == RadioGoes("joining", "up", "GOT_IP")
JoinFails == RadioGoes("joining", "idle", "DISCONNECTED")
Lose == RadioGoes("up", "idle", "DISCONNECTED")

\* esp_wifi_connect
Connect == link' = "joining"
-----------------------------------------------------------------------------
\* The application.

\* eventLoopCreateAndRegisterHandler
Register == handlers' = TRUE

\* set_mode, set_config and start may fail. start() returns true all the same,
\* since what it returns then is the error code.
Start ==
    /\ link = "new"
    /\ Register
    /\ \/ link' = "idle" /\ loop' = <<"STA_START">>
       \/ link' = "off" /\ UNCHANGED loop
    /\ UNCHANGED <<mRetryNum, mEvents, waiter>>

Stop ==
    /\ handlers
    /\ handlers' = FALSE
    /\ link' = "off"
    /\ UNCHANGED <<loop, mRetryNum, mEvents, waiter>>

\* What a wait returns that found these flags set.
Answer(bits) == IF "Aborted" \in bits THEN "no" ELSE "yes"

WaitForConnect ==
    /\ waiter # "waiting"
    /\ waiter' = IF mEvents = {} THEN "waiting" ELSE Answer(mEvents)
    /\ UNCHANGED <<link, loop, handlers, mRetryNum, mEvents>>

TimeOut ==
    /\ waiter = "waiting"
    /\ waiter' = "no"
    /\ UNCHANGED <<link, loop, handlers, mRetryNum, mEvents>>
-----------------------------------------------------------------------------
\* The handlers, in the task of the event loop.

\* The flags become `bits`, which may end a wait.
Signal(bits) ==
    /\ mEvents' = bits
    /\ waiter' = IF waiter = "waiting" /\ bits # {} THEN Answer(bits) ELSE waiter

Handle(event) ==
    /\ loop # <<>> /\ Head(loop) = event /\ handlers
    /\ loop' = Tail(loop)
    /\ UNCHANGED handlers

OnStart ==
    /\ Handle("STA_START")
    /\ Connect
    /\ UNCHANGED <<mRetryNum, mEvents, waiter>>

StillConnected(bits) == bits
Lost(bits) == bits \ {"Connected"}

OnDisconnected ==
    /\ Handle("DISCONNECTED") /\ mRetryNum + 1 < kMaxConnectRetries
    /\ mRetryNum' = mRetryNum + 1
    /\ Signal(Lost(mEvents))
    /\ Connect

SayNothing(bits) == bits
GiveUp(bits) == bits \cup {"Aborted"}

OnLastDisconnected ==
    /\ Handle("DISCONNECTED") /\ mRetryNum + 1 >= kMaxConnectRetries
    /\ mRetryNum' = mRetryNum + 1
    /\ Signal(GiveUp(Lost(mEvents)))
    /\ UNCHANGED link

OnGotIp ==
    /\ Handle("GOT_IP")
    /\ mRetryNum' = 0
    /\ Signal(mEvents \cup {"Connected"})
    /\ UNCHANGED link

\* Nobody is registered any more.
Drop ==
    /\ loop # <<>> /\ ~handlers
    /\ loop' = Tail(loop)
    /\ UNCHANGED <<link, handlers, mRetryNum, mEvents, waiter>>

LoopStep == OnStart \/ OnDisconnected \/ OnLastDisconnected \/ OnGotIp \/ Drop
RadioStep == Join \/ JoinFails

Next == LoopStep \/ RadioStep \/ Lose \/ Start \/ Stop \/ WaitForConnect \/ TimeOut

\* The event loop's task runs, and an attempt to join ends.
Fairness == WF_wifiVars(LoopStep) /\ WF_wifiVars(RadioStep)
-----------------------------------------------------------------------------
\* While the handlers are registered, Connected is set only if the connection is
\* up or the event that will clear the flag is on its way (wifi.cpp:23-24, 48-49):
\* what a wait answers is never older than the events in the loop.
ConnectedIsRecent ==
    handlers /\ "Connected" \in mEvents =>
        link = "up" \/ \E i \in DOMAIN loop : loop[i] = "DISCONNECTED"

\* waitForConnect() without a timeout returns, connected or not, if attempts to
\* join end: the handlers either try again, at most kMaxConnectRetries times, or
\* say that they gave up (wifi.cpp:25-33). Excepted are a start() that failed and
\* stop(), after which nobody wakes the waiter.
WaitEnds == (waiter = "waiting" /\ link \notin {"new", "off"}) ~> (waiter # "waiting" \/ link = "off")
=============================================================================
