\* Two managers share the in-memory facade: two takeovers in four hours, three orders.
SPECIFICATION Spec
CONSTANTS
    Managers = {m1, m2}
    Ids = {i1}
    None = None
    HOUR = 1
    MaxTime = 4
    MaxOrders = 3
    Skipping = FALSE
    FailAt = {"start", "claimed", "pending", "validate", "ready"}
SYMMETRY Symmetry
INVARIANTS
    TypeOK
    HandOver
    UniqueHolder
    FreshJobLeftAlone
PROPERTIES
    NeverOlder
    ImplementsLease
\* The clock stops at MaxTime.
CHECK_DEADLOCK FALSE
