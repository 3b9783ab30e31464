\* One start or stop at a time, kills and failed starts between them.
CHECK_DEADLOCK FALSE  \* all daemons may have ended
CONSTANTS
    d1 = d1  d2 = d2  d3 = d3  d4 = d4
    NoDaemon = NoDaemon
    Daemon = {d1, d2, d3, d4}
    MaxFile = 4
    Overlap = FALSE
    Leftover = NoDaemon
SPECIFICATION PidSpec

INVARIANTS
    OneRuns
    FileNamesDaemon
PROPERTY FailsOnlyIfRunning
