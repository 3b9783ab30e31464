\* Two starts at the same time, over the file of a daemon that was killed.
CHECK_DEADLOCK FALSE  \* all daemons may have ended
CONSTANTS
    d1 = d1  d2 = d2  d3 = d3  d4 = d4
    NoDaemon = NoDaemon
    Daemon = {d1, d2, d3}
    MaxFile = 4
    Overlap = TRUE
    Leftover = d3
SPECIFICATION PidSpec
INVARIANT OneRuns
