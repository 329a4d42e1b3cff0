\* Data and order: every call that moves data, and clear(); no stop, no timeouts.
SPECIFICATION Spec
CONSTANTS
    N = 3
    Readers = {r1}
    Writers = {w1}
    Controllers = {c1}
    Nobody = nobody
    Calls = {"read", "contigRead", "write", "getWriteBuf", "abortWrite", "clear"}
    ReadSizes = {1, 2}
    WriteSizes = {1, 2}
    LeastCommit = 1
    Timeouts = {"forever"}
    Tags = 4
INVARIANTS CommitsFit
PROPERTIES HeldBufferStable ImplementsByteStream
