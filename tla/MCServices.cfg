\* A process with a second one, with two requests, or with queries; i3 is there for a row
\* too many.
SPECIFICATION MCSpec
CONSTANTS
    Managers = {m1, m2}
    Ids = {i1, i2, i3}
    None = None
    HOUR = 1
    MaxTime = 2
    MaxOrders = 2
    Skipping = FALSE
    FailAt = {"selected"}
    CrashAt = {"validate", "issued"}
    Requests = {r1, r2}
    Asks = {"register", "update", "other"}
    Questions = {"SOA", "A"}
    Configured = {{}, {"CNAME"}}
SYMMETRY Symmetry
INVARIANTS
    ServicesTypeOK
    RowsPerManager
    DomainFound
    RegisteredKept
    CountedOnce
    ChallengeAnswersOrder
    ProvenNeverPanics
\* The clock stops at MaxTime.
CHECK_DEADLOCK FALSE
