\* The reference lab, the MCP lab and the artifact review: every fixture on two threads, two
\* principals and two sessions, files of up to three chunks of which two may be read.
SPECIFICATION Spec
CONSTANTS
    None = None
    LabThreads = {t1, t2}
    FixtureIndexes = {1, 2, 3, 4, 5, 6, 7, 8, 9, 10, 11, 12, 13, 14, 15, 16, 17, 18, 19, 20, 21, 22, 23}
    Principals = {a, b}
    Sessions = {s1, s2}
    MaxMessages = 3
    Unread = Unread
    Chunks = {c1, c2}
    MaxChunks = 2
    MaxFileEdits = 3
INVARIANTS
    EveryDifferenceDenied
    TracesTellEffects
    SessionHasOnePrincipal
    ReportTellsControls
    ApprovedWasRead
CHECK_DEADLOCK FALSE
