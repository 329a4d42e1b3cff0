SPECIFICATION MCSpec
CONSTANTS
    N = 4
    Values = {a, b}
    Nothing = Nothing
    MaxDataSize = 8
    MaxLineCount = 5
    Sizes = {1, 2, 3, 4}
    Ids = 7
    Calls = {"clear"}
    kChunkSize = 2
    Bytes = {97, 9}
    MaxPiece = 3
    MaxText = 4
    Reserves = {0, 4}
    MaxAlloc = 5
    Conversions <- MCConversions
PROPERTY ImplementsQueue
INVARIANT LogKept
PROPERTY LogAddReturns
INVARIANT BuffersHold
INVARIANT ToStringFits
