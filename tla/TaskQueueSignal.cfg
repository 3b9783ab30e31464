\* One signal is enough: a worker waiting for its first task handles an unwritten node.
CONSTANTS
    p1 = p1  p2 = p2  c1 = c1  c2 = c2  t1 = t1  t2 = t2
    Producer = {p1, p2}
    Consumer = {c1, c2}
    Mortal = {}
    Task = {t1, t2}
    NoTask = NoTask
    MaxLength = 2
SPECIFICATION SignalSpec
INVARIANT HandledTaskWasPushed
