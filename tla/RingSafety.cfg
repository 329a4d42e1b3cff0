\* Waiting: every call but peek(), with timeouts and the stop signal; one tag, so that bytes are only live or dead.
SPECIFICATION Spec
CONSTANTS
    N = 2
    Readers = {r1}
    Writers = {w1}
    Controllers = {c1}
    Nobody = nobody
    Calls = {"read", "contigRead", "write", "getWriteBuf", "abortWrite", "clear", "setStop", "clearStop"}
    ReadSizes = {1}
    WriteSizes = {1, 2}
    LeastCommit = 1
    Timeouts = {"forever", "timed"}
    Tags = 1
INVARIANTS FlagsTellTheTruth NoLostWakeup
