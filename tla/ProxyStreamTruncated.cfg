\* What the ignored test_incomplete asserts.
SPECIFICATION FairSpec
CONSTANTS
    HeaderLens = {1, 2, 3}
    BufferSize = 2
    Length = 4
    MaxRewakes = 1
PROPERTY
    TruncatedHeaderReported
\* A task that nobody wakes, and a closed connection, do nothing.
CHECK_DEADLOCK FALSE
