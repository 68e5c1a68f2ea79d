\* Pool: three connections, two callers that may stop at once, two that answer queries.
\* Serve: four connections, one of which hangs, and two descriptors.
\* Run: every combination of the three listeners.
CONSTANTS
    Size = 3
    Callers = {s1, s2, q1, q2}
    Stoppers = {s1, s2}
    Conns = {c1, c2, c3, c4}
    Hanging = {c1}
    MaxFds = 2
    Listeners = {http, https, prom}
    Texts = {"nothing", "address", "[]", "[address, true]"}
SPECIFICATION ProcessSpec
INVARIANTS
    TypesOK
    NeverStuck
    GaugeKeepsPanicked
    ServesUntilSignal
    RuntimeOutlivesAsync
PROPERTIES
    EveryCallEnds
    NobodyWaits
    EndsAsAWhole
\* Connections and the program are over at some time.
CHECK_DEADLOCK FALSE
