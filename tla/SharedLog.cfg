\* A parent and a child; signals and kills anywhere.
CHECK_DEADLOCK FALSE  \* all processes may have ended
CONSTANTS
    parent = parent  c1 = c1  c2 = c2
    Parent = parent
    Child = {c1}
    Mortal = {parent, c1}
    Limit = 1
    MaxSend = 2
SPECIFICATION FairSpec
INVARIANTS
    LockAccounting
    NoSelfDeadlock
    MaskRestored
    OldFileWasFull
PROPERTIES
    TermEnds
    ChildEndsParent
