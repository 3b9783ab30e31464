\* Two producers, two consumers, a ring of two nodes; any process may be killed anywhere.
CHECK_DEADLOCK FALSE  \* all may be dead, or blocked on a dead one's mutex
CONSTANTS
    p1 = p1  p2 = p2  c1 = c1  c2 = c2  t1 = t1  t2 = t2
    Producer = {p1, p2}
    Consumer = {c1, c2}
    Mortal = {p1, p2, c1, c2}
    Task = {t1, t2}
    NoTask = NoTask
    MaxLength = 2
SPECIFICATION Spec
SYMMETRY Symmetry
INVARIANTS
    MutualExclusion
    SlotAccounting
    QueueInv
PROPERTY FifoOrder
