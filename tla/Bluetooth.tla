------------------------------ MODULE Bluetooth ------------------------------
(***************************************************************************)
(* BluetoothStack of mySystem/bluetooth.cpp: bringing the stack up and     *)
(* down, the discovery of devices, and the answers to pairing requests.    *)
(* The application's task calls the stack; the callbacks run in the task   *)
(* of the Bluetooth library, one event after another. The radio and the    *)
(* four layers of the library are external.                                *)
(***************************************************************************)
EXTENDS Naturals, Sequences

CONSTANTS Devices,      \* addresses
          MaxEvents     \* bound: how many events may wait for the callbacks

VARIABLES
    up,             \* how many of the four layers are up
    mMode,          \* a set of "classic" and "ble", empty for ESP_BT_MODE_IDLE
    mDiscovery,     \* made, its mode, its devices; it is made at most once
    starting,       \* in doDiscoverDevices(): the scans it has yet to start
    scanning,       \* the scans that run in the radio
    events,         \* events that wait for the callbacks
    told,           \* onComplete was called
    asked           \* what a peer that pairs has asked and was not answered

btVars == <<up, mMode, mDiscovery, starting, scanning, events, told, asked>>

Modes == {"classic", "ble"}
Requests == {"confirm", "security"}
Layers == 4     \* controller initialised, enabled, bluedroid initialised, enabled

Init ==
    /\ up = 0 /\ mMode = {}
    /\ mDiscovery = [made |-> FALSE, mode |-> {}, devices |-> {}]
    /\ starting = {} /\ scanning = {} /\ events = <<>> /\ told = FALSE /\ asked = {}

\* esp_..._disable and esp_..._deinit take down one layer, if it is the top one.
Down(layer, n) == IF n = layer THEN n - 1 ELSE n
Shut(n) == Down(1, Down(2, Down(3, Down(4, n))))

\* Any layer may fail to come up. Nobody resets mMode.
Start(mode) ==
    /\ mMode = {}
    /\ \E n \in 0 .. Layers :
        /\ up' = IF n = Layers THEN n ELSE Shut(n)
        /\ mMode' = IF n = Layers THEN mode ELSE {}
    /\ UNCHANGED <<mDiscovery, starting, scanning, events, told, asked>>

Shutdown ==
    /\ mMode # {} /\ starting = {}
    /\ up' = Shut(up)
    /\ scanning' = {} /\ events' = <<>> /\ asked' = {}
    /\ UNCHANGED <<mMode, mDiscovery, starting, told>>
-----------------------------------------------------------------------------
\* Discovery.

\* discoverDevices, the beginning of doDiscoverDevices, which keeps the mode
Discover(mode) ==
    /\ ~mDiscovery.made
    /\ mDiscovery' = [made |-> TRUE, mode |-> mode \cap mMode, devices |-> {}]
    /\ starting' = mode \cap mMode
    /\ UNCHANGED <<up, mMode, scanning, events, told, asked>>

\* The classic scan is started first, and each may fail to start.
StartScan(mode) ==
    /\ mode \in starting /\ (mode = "ble" => "classic" \notin starting)
    /\ starting' = starting \ {mode}
    /\ scanning' \in {scanning, scanning \cup (IF up = Layers THEN {mode} ELSE {})}
    /\ UNCHANGED <<up, mMode, mDiscovery, events, told, asked>>

\* What happens to scans and events when the scans of this mode are cancelled:
\* the end of a classic scan is an event.
Cancel(mode, waiting) ==
    /\ scanning' = scanning \ mode
    /\ events' = IF "classic" \in mode \cap scanning THEN Append(waiting, "stopped") ELSE waiting

StopDiscovery ==
    /\ mDiscovery.made /\ starting = {}
    /\ Cancel(mDiscovery.mode, events)
    /\ mDiscovery' = [mDiscovery EXCEPT !.mode = {}]
    /\ UNCHANGED <<up, mMode, starting, told, asked>>

\* The radio finds a device, or a scan's time is over.
Find(device) ==
    /\ scanning # {} /\ Len(events) < MaxEvents
    /\ events' = Append(events, device)
    /\ UNCHANGED <<up, mMode, mDiscovery, starting, scanning, told, asked>>

\* A peer that wants to pair asks.
Ask(request) ==
    /\ up = Layers /\ request \notin asked /\ Len(events) < MaxEvents
    /\ asked' = asked \cup {request}
    /\ events' = Append(events, request)
    /\ UNCHANGED <<up, mMode, mDiscovery, starting, scanning, told>>

ScanEnds(mode) ==
    /\ mode \in scanning
    /\ Cancel({mode}, events)
    /\ UNCHANGED <<up, mMode, mDiscovery, starting, told, asked>>
-----------------------------------------------------------------------------
\* gapCallback and bleGapCallback.

Callback == events # <<>> /\ UNCHANGED <<up, mMode, starting>>

\* addDevice: the application is told of a new device, and may end the discovery.
OnDevice ==
    /\ Callback
    /\ Head(events) \in Devices
    /\ LET found == [mDiscovery EXCEPT !.devices = @ \cup {Head(events)}]
       IN  \/ mDiscovery' = found /\ events' = Tail(events) /\ UNCHANGED scanning
           \/ /\ Head(events) \notin mDiscovery.devices
              /\ Cancel(mDiscovery.mode, Tail(events))
              /\ mDiscovery' = [found EXCEPT !.mode = {}]
    /\ UNCHANGED <<told, asked>>

CompleteIfActive == mDiscovery.mode # {}
Completes == TRUE

\* ESP_BT_GAP_DISC_STATE_CHANGED_EVT; the end of a BLE scan is not reported
OnStopped ==
    /\ Callback
    /\ Head(events) = "stopped"
    /\ told' = (told \/ (mDiscovery.made /\ Completes))
    /\ events' = Tail(events)
    /\ UNCHANGED <<mDiscovery, scanning, asked>>

\* Numbers are confirmed and security requests granted, without asking anybody.
\* A request to enter a passkey is not answered: the code that would is left out
\* of the build, and is not modelled.
OnRequest ==
    /\ Callback
    /\ Head(events) \in Requests
    /\ asked' = asked \ {Head(events)}
    /\ events' = Tail(events)
    /\ UNCHANGED <<mDiscovery, scanning, told>>

OnEvent == OnDevice \/ OnStopped \/ OnRequest

Next ==
    \/ \E mode \in SUBSET Modes \ {{}} : Start(mode) \/ Discover(mode)
    \/ \E mode \in Modes : StartScan(mode) \/ ScanEnds(mode)
    \/ \E device \in Devices : Find(device)
    \/ \E request \in Requests : Ask(request)
    \/ Shutdown \/ StopDiscovery \/ OnEvent

\* The library's task runs, and a classic scan takes a limited time.
Fairness == WF_btVars(OnEvent) /\ WF_btVars(ScanEnds("classic"))
-----------------------------------------------------------------------------
\* However start() and shutdown() end, the library is completely up or
\* completely down (bluetooth.cpp:272-294, 358-364): start() can be tried again.
UpOrDown == up \in {0, Layers}

\* Whoever started a classic scan is told of its end (bluetooth.cpp:45-53), also
\* when a callback ended the discovery while it was being started, and a peer that
\* pairs gets its answer, unless the stack is shut down, completely.
CallbacksAnswer ==
    /\ []UpOrDown
    /\ "classic" \in scanning ~> (told \/ up = 0)
    /\ \A request \in Requests : request \in asked ~> request \notin asked
=============================================================================
