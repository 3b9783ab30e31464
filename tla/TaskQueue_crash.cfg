\* Any process may be killed anywhere, fair scheduling of the others.
\* Processes may all be dead, or blocked for ever by a dead one.
CHECK_DEADLOCK FALSE
CONSTANTS
    p1 = p1  p2 = p2  c1 = c1  c2 = c2  t1 = t1  t2 = t2
    Producer = {p1, p2}
    Consumer = {c1, c2}
    Mortal = {p1, p2, c1, c2}
    Task = {t1}
    NoTask = NoTask
    MaxLength = 2
SPECIFICATION FairSpec
PROPERTIES
    CrashOutsideHarmless
    CrashCostsOneNode
    FifoProgress
