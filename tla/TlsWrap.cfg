\* Own, and one more connection at a time; the second of three certificates cannot be
\* loaded.  A stream of four parts, a buffer for two of them: a header that leaves room in
\* it, one that fits exactly, and one that does not fit, which extra polls may finish.
SPECIFICATION WrapSpec
CONSTANTS
    Own = c1
    Conns = {c1, c2}
    Versions = 3
    Loadable = {1, 3}
    HeaderLens = {1, 2, 3}
    BufferSize = 2
    Length = 4
    MaxRewakes = 1
INVARIANTS
    WrapTypeOK
    FreshEnough
    ReadsStreamAfterHeader
PROPERTIES
    NeverEmptyAgain
    CacheFollows
    WholeHeaderAnswered
    HandshakeStarts
\* A task that nobody wakes, and a closed connection, do nothing.
CHECK_DEADLOCK FALSE
