SPECIFICATION Spec
CONSTANTS
    Keys = {k1}
    Values <- MCNumbers
    Absent = Absent
    Users = {u1, u2}
    Daemon = Daemon
    Nobody = Nobody
    Calls = {"write"}
    DirectTypes = {"num"}
    Periods = {0, 1}
    FirstPeriod = 1
    Timers = {t1, t2, t3, t4}
    NoTimer = NoTimer
    QueueLen = 2
INVARIANT WritesStick
CHECK_DEADLOCK FALSE
