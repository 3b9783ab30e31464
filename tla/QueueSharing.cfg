\* Two processes create or open and one is forked; the queue may be destroyed and made again, anywhere.
CHECK_DEADLOCK FALSE  \* every process may have given its queue up, at MaxObject
CONSTANTS
    m1 = m1  m2 = m2  c1 = c1  a1 = a1  a2 = a2
    Creator = {m1, m2}
    Opener = {m1, m2}
    Forked = {c1}
    Address = {a1, a2}
    Task = {1}
    MaxLength = 2
    MaxObject = 2
SPECIFICATION Spec
SYMMETRY Symmetry
INVARIANTS
    FaultsHaveACause
    TasksSurvive
