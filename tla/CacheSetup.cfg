\* The three builds of main; every system call may fail.
CHECK_DEADLOCK FALSE  \* main ends
CONSTANTS
    Server = TRUE
    MinSize = 1
    RequiredSize = 1
    TrendsCacheSize = 4
    MapCacheSize = 4
    SyncCacheSize = 16
    SyncIndexCacheSize = 4
SPECIFICATION Spec
INVARIANTS
    LogKeepsItsLock
    
