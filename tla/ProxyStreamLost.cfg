\* What test_header_parsing asserts, on a socket that may be empty for a while.
SPECIFICATION Spec
CONSTANTS
    HeaderLens = {1, 2, 3}
    BufferSize = 2
    Length = 4
    MaxRewakes = 1
INVARIANT
    NothingLost
\* A task that nobody wakes, and a closed connection, do nothing.
CHECK_DEADLOCK FALSE
