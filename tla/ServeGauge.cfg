\* Two connections; one may panic.
SPECIFICATION Spec
CONSTANTS
    Conns = {c1, c2}
    Hanging = {}
    MaxFds = 2
INVARIANT
    GaugeIsOpen
\* Connections are over at some time.
CHECK_DEADLOCK FALSE
