SPECIFICATION FairSpec
CONSTANTS
    Keys = {k1}
    Values <- MCOne
    Absent = Absent
    Users = {u1, u2}
    Daemon = Daemon
    Nobody = Nobody
    Calls = {"write", "erase", "commit", "setPeriod", "iterate", "destroy"}
    DirectTypes = {"str"}
    Periods = {0, 1, 2}
    FirstPeriod = 1
    Timers = {t1, t2, t3, t4}
    NoTimer = NoTimer
    QueueLen = 2
INVARIANT TimerServes
PROPERTY Flushed
CHECK_DEADLOCK FALSE
