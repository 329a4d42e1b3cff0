\* Progress, the stop signal, and peek(): without clear() and timeouts.
SPECIFICATION FairSpec
CONSTANTS
    N = 3
    Readers = {r1}
    Writers = {w1}
    Controllers = {c1}
    Nobody = nobody
    Calls = {"read", "contigRead", "write", "getWriteBuf", "peek", "setStop", "clearStop"}
    ReadSizes = {1, 2}
    WriteSizes = {2}
    LeastCommit = 1
    Timeouts = {"forever"}
    Tags = 2
INVARIANTS GotInOrder
PROPERTIES CallsReturn StopEndsWaits
