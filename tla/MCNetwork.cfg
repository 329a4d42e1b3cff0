SPECIFICATION MCSpec
CONSTANTS
    Versions = {v1, v2}
    Broken = Broken
    MaxChunks = 2
    Fds = {c1, c2}
    Msgs = {m1, m2}
    MaxWork = 2
    Loggers = {t1}
    Httpd = httpd
    NoOne = NoOne
    kMaxMemResponseLen = 8
    FirstSize = 3
    MaxBody = 9
    MaxRedirects = 1
    Dirs = {"root", "outer", "inner"}
    Files = {"near", "far"}
    Root = "root"
    Quoted = {"far"}
    Parent <- MCParent
    Bodies <- MCBodies
    kFileIoBufSize = 2
    MaxWaits = 4
    MaxEntries = 1
    Requests <- MCRequests
INVARIANT AlwaysBoots
INVARIANT FallbackKept
PROPERTY UpdateServed
INVARIANT BroadcastReachesAll
INVARIANT LineReachesAll
PROPERTY LogsReturn
INVARIANT ResponseIsWhole
INVARIANT AnswersAreTrue
INVARIANT SetParamsApplied
CHECK_DEADLOCK FALSE
