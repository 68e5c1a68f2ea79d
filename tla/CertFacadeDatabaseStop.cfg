\* The comment on stop_cert, with two processes on one database.
SPECIFICATION Spec
CONSTANTS
    Managers = {m1, m2}
    Ids = {i1, i2}
    None = None
    HOUR = 1
    MaxTime = 3
    MaxOrders = 2
    Skipping = FALSE
    FailAt = {}
    CrashAt = {}
PROPERTY
    StopOnlyIfHolder
\* The clock stops at MaxTime.
CHECK_DEADLOCK FALSE
