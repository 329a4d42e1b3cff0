------------------------------ MODULE MCDevices ------------------------------
(***************************************************************************)
(* The parts of mySystem that wait for, or are called back by, other tasks *)
(* and devices, and the display's driver, in one model: asyncCallWait, the *)
(* Wi-Fi client, the Bluetooth stack, weak references, the life of a task, *)
(* the watchdog, SPI and the monochrome frame buffer. They share nothing:  *)
(* each behaviour is about one of them, its subject, and the others stay   *)
(* as they began.                                                          *)
(***************************************************************************)
EXTENDS AsyncCall, Sequences

CONSTANTS kMaxConnectRetries, Devices, MaxEvents, Handles, MaxTasks, Idle, kPingTimer, kPongTimer,
          mWidth, mHeight, mYoffs, kMaxTransferLen, kDmaMaxBufSize, Black, Colors, Areas, MaxCalls,
          Width, Height, Calls, MaxDraws

\* The states of the watchdog differ, and the number of tasks is a number.
ASSUME DevicesAssumption ==
    /\ MaxTasks \in Nat
    /\ Idle # kPingTimer /\ Idle # kPongTimer /\ kPingTimer # kPongTimer

VARIABLES
    subject,
    link, loop, handlers, mRetryNum, mEvents, waiter,
    up, mMode, mDiscovery, starting, scanning, events, told, asked,
    mPtr, mRefCount, held, falling, deletes,
    mHandle, mPsramCtx, owner, task, stack, cleanups, freed,
    mState, armed, firing, answered, accused,
    todo, fifo, dc, descs, left, source, display, screen, calls,
    frame, before, call, draws

Client == INSTANCE Wifi
Stack == INSTANCE Bluetooth
Weak == INSTANCE WeakRef
Task == INSTANCE TaskLife
Dog == INSTANCE Watchdog
Lcd == INSTANCE Spi
ASSUME LcdAssumption == Lcd!SpiAssumption
Frame == INSTANCE MonoFrame
ASSUME FrameAssumption == Frame!MonoFrameAssumption

\* Where the application draws on a small screen.
Place(x, y, w, h) == [x |-> x, y |-> y, w |-> w, h |-> h]
MCAreas == [fill |-> {Place(0, 0, 3, 2), Place(1, 1, 1, 1)}, pixel |-> {Place(1, 0, 1, 1)},
            blit |-> {Place(0, 0, 2, 2)}, again |-> {Place(0, 1, 2, 1)},
            image |-> {Place(0, 1, 3, 1)}, pixels |-> {Place(1, 0, 1, 2)}]

\* Calls on a small frame, of two pages: rectangles and lines whose ends are on it or
\* off it, sloped lines from corner to corner, glyphs that lie across the pages.
Coords(max) == {c \in {-1, 0, 2, 7, 8, 14} : c < max} \cup {max}
MCGlyphs == {(0 .. 1) \X (0 .. 9), {<<0, 0>>, <<1, 9>>}, {<<0, row>> : row \in {7, 8}} \cup {<<1, row>> : row \in {1, 6}}}
MCCalls ==
    [rect |-> [x : Coords(Width), y : Coords(Height), w : 1 .. 2, h : {1, 7, 8, 9, 17}, op : {"set", "clear", "invert"}],
     straight |-> [f : {"hLine", "vLine", "pixel"}, a : Coords(Height), b : {-1, 0, 5, 7, 8, 15, 16},
                   at : Coords(Width), color : BOOLEAN],
     line |-> {c \in [x1 : {0, 3}, y1 : {0, 6}, x2 : 0 .. 3, y2 : 0 .. 7, color : {TRUE}] : c.x1 # c.x2 /\ c.y1 # c.y2},
     glyph |-> [glyph : MCGlyphs, charW : {2}, charSpacing : {1}, fontHeight : {10}, x : 0 .. Width, y : 0 .. Height,
                flags : SUBSET {"AllowPartial", "NoBackground"}, color : BOOLEAN]]

wifiVars == <<link, loop, handlers, mRetryNum, mEvents, waiter>>
btVars == <<up, mMode, mDiscovery, starting, scanning, events, told, asked>>
weakVars == <<mPtr, mRefCount, held, falling, deletes>>
taskVars == <<mHandle, mPsramCtx, owner, task, stack, cleanups, freed>>
dogVars == <<mState, armed, firing, answered, accused>>
spiVars == <<todo, fifo, dc, descs, left, source, display, screen, calls>>
frameVars == <<frame, before, call, draws>>
allVars == <<vars, subject, wifiVars, btVars, weakVars, taskVars, dogVars, spiVars, frameVars>>

MCInit ==
    /\ subject \in {"async", "wifi", "bluetooth", "weak", "task", "watchdog", "spi", "frame"}
    /\ Init /\ Client!Init /\ Stack!Init /\ Weak!Init
    /\ Task!TaskInit /\ Dog!WatchdogInit /\ Lcd!Init /\ Frame!FrameInit

Only(name) ==
    /\ subject = name /\ UNCHANGED subject
    /\ name # "async" => UNCHANGED vars
    /\ name # "wifi" => UNCHANGED wifiVars
    /\ name # "bluetooth" => UNCHANGED btVars
    /\ name # "weak" => UNCHANGED weakVars
    /\ name # "task" => UNCHANGED taskVars
    /\ name # "watchdog" => UNCHANGED dogVars
    /\ name # "spi" => UNCHANGED spiVars
    /\ name # "frame" => UNCHANGED frameVars

AsyncStep == Only("async") /\ Next
WifiStep == Only("wifi") /\ Client!Next
BluetoothStep == Only("bluetooth") /\ Stack!Next
WeakStep == Only("weak") /\ Weak!Next
TaskLifeStep == Only("task") /\ Task!TaskNext
WatchdogStep == Only("watchdog") /\ Dog!WatchdogNext
SpiStep == Only("spi") /\ Lcd!Next
FrameStep == Only("frame") /\ Frame!FrameNext

MCNext ==
    \/ AsyncStep \/ WifiStep \/ BluetoothStep \/ WeakStep
    \/ TaskLifeStep \/ WatchdogStep \/ SpiStep \/ FrameStep

\* Nothing that must happen can happen in a part that is not the subject.
MCSpec == MCInit /\ [][MCNext]_allVars /\ Fairness /\ Client!Fairness /\ Stack!Fairness

-----------------------------------------------------------------------------
\* What waitForConnect() answers is not older than the events that wait for the
\* handlers (Wifi).
ConnectedIsRecent == Client!ConnectedIsRecent

\* A wait for the connection ends, with it or without (Wifi).
WaitEnds == Client!WaitEnds

\* Whoever scans is told of the end, and who pairs is answered (Bluetooth).
CallbacksAnswer == Stack!CallbacksAnswer

\* The data that handles share are deleted once, after the last of them (WeakRef).
DeletedOnce == Weak!DeletedOnce

\* A stack is not freed or given away, and the Task object not destroyed, while a
\* task still uses it (TaskLife).
StackAndObjectHeld == Task!StackAndObjectHeld

\* The watchdog goes on watching and does not accuse who answered (Watchdog).
WatchdogSound == Dog!WatchdogSound

\* When the driver has nothing more to do and the bus is silent, the display shows
\* what the application has drawn, but for what spiSend() sends of an image after the
\* FIFO's first filling, which is its beginning again (Spi, spi.cpp:159).
DisplayShowsCalls == Lcd!DisplayShowsCalls

\* A shape changes the pixels inside it, all of them and no others, wherever it
\* lies across the pages of eight rows that a byte holds and the edges of the
\* frame; a sloped line stays within half a pixel of the exact one (MonoFrame).
ShapesDrawn == Frame!ShapesDrawn
=============================================================================
