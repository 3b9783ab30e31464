\* Three clients that connect in order, two descriptors, one worker, a queue of one task.
CHECK_DEADLOCK FALSE  \* all clients may have been served
CONSTANTS
    a = a  b = b  c = c  w1 = w1  f1 = f1  f2 = f2
    NoClient = NoClient  NoTask = NoTask  Listen = Listen  Server = Server
    Client = {a, b, c}
    Worker = {w1}
    Fd = {f1, f2}
    MaxLength = 1
    MaxEvents = 2
    MaxPieces = 1
    Signals = TRUE
    SameProcess = FALSE
SPECIFICATION OrderedSpec
INVARIANTS
    NoLostWakeup
    OneTaskEach
    EventsFresh
PROPERTIES
    SentIsServed
    ShutIsClosed
