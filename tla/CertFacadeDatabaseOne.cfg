\* One process whose attempts fail or die anywhere behind start_cert, and go on, with the
\* next interval; i2 is there for a second row.
SPECIFICATION FairSpec
CONSTANTS
    Managers = {m1}
    Ids = {i1, i2}
    None = None
    HOUR = 2
    MaxTime = 8
    MaxOrders = 4
    Skipping = FALSE
    FailAt = {"claimed", "pending", "validate", "ready", "issued", "stopping"}
    CrashAt = {"claimed", "pending", "validate", "ready", "issued", "stopping"}
INVARIANT
    AnswerIsProof
PROPERTIES
    NeverOlder
    ImplementsLease
    JobResumed
\* The clock stops at MaxTime.
CHECK_DEADLOCK FALSE
