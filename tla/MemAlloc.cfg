\* A heap of up to six chunks in three buckets; the pool ends the process when it is full.
CHECK_DEADLOCK FALSE  \* exit(EXIT_FAILURE) on out of memory
CONSTANTS
    d1 = d1  d2 = d2
    Base = 4096
    SegmentSize = 390
    InfoSize = 88
    NamesSize = 27
    MaxBucketSize = 40
    Request = {1, 25, 40, 56, 120}
    Data = {d1, d2}
    Junk = Junk
    NULL = NULL
    AllowOom = FALSE
SPECIFICATION Spec
SYMMETRY Symmetry
INVARIANTS
    Tiling
    ListsAndStats
    AllocExact
PROPERTY BlocksKeepData
