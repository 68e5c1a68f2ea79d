\* The comment on the takeover branch of start_cert, on the in-memory facade.
SPECIFICATION Spec
CONSTANTS
    Managers = {m1, m2}
    Ids = {i1}
    None = None
    HOUR = 1
    MaxTime = 4
    MaxOrders = 3
    Skipping = FALSE
    FailAt = {}
INVARIANT
    OnlyTimedOutTakenOver
\* The clock stops at MaxTime.
CHECK_DEADLOCK FALSE
