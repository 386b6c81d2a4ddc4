\* Two threads and the main one, a recording of at most three events, one failed write.
SPECIFICATION RecorderSpec
CONSTANTS
    Requests = {r1, r2}
    Main = main
    Exports <- MCExports
    Bad <- MCBad
    MaxRecorded = 3
    MaxFailures = 1
\* The server ends.
CHECK_DEADLOCK FALSE
INVARIANTS
    AcceptedOnce
    NoSilentLoss
PROPERTIES
    ClosedFileComplete
