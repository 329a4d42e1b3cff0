\* doClear() ends in an assertion.
SPECIFICATION Spec
CONSTANTS
    N = 2
    Readers = {r1}
    Writers = {w1}
    Controllers = {c1}
    Nobody = nobody
    Calls = {"read", "write", "clear"}
    ReadSizes = {1, 2}
    WriteSizes = {1, 2}
    LeastCommit = 1
    Timeouts = {"forever"}
    Tags = 1
INVARIANTS ClearAssertion
