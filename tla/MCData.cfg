\* acme: two processes and two keys, with a row more than each process may insert of one.
\* Util: integers of three bits.  Records: files of up to seven tokens.  Metrics: up to seven bytes.
CONSTANTS
    Writers = {w1, w2}
    Keys = {k1, k2}
    Values = {v1, v2}
    RowIds = {r1, r2, r3}
    None = None
    Done = Done
    Err = Err
    Idle = Idle
    Half = 4
    Labels = {x, y}
    RecordValues = {v, w}
    MaxTokens = 7
    MaxLength = 7
SPECIFICATION DataSpec
INVARIANTS
    TypesOK
    OneInsertPerWriter
    ReadBack
    KindKept
    ServedAsListed
    OnlyZerosGo
PROPERTIES
    MapWhileSingle
    Agreement
\* The file and the text are read at some time.
CHECK_DEADLOCK FALSE
