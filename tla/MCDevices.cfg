SPECIFICATION MCSpec
CONSTANTS
    Tasks = {t1, t2, t3}
    NumSlots = 2
    kMaxConnectRetries = 3
    Devices = {d1, d2}
    MaxEvents = 2
    Handles = {h1, h2}
    MaxTasks = 3
    Idle = 0
    kPingTimer = 1
    kPongTimer = 2
    mWidth = 3
    mHeight = 2
    mYoffs = 1
    kMaxTransferLen = 4
    kDmaMaxBufSize = 3
    Black = 0
    Colors = {7, 9}
    Areas <- MCAreas
    MaxCalls = 2
    Width = 3
    Height = 16
    Calls <- MCCalls
    MaxDraws = 1
INVARIANT SlotsExclusive
INVARIANT ReturnsAfterCall
PROPERTY CallsReturn
INVARIANT ConnectedIsRecent
PROPERTY WaitEnds
PROPERTY CallbacksAnswer
INVARIANT DeletedOnce
INVARIANT StackAndObjectHeld
INVARIANT WatchdogSound
INVARIANT DisplayShowsCalls
INVARIANT ShapesDrawn
CHECK_DEADLOCK FALSE
