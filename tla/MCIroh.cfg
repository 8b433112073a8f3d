\* Two endpoints that may dial each other at once, hang up, break and return.
SPECIFICATION Spec
CONSTANTS
    None = None
    a = a
    b = b
    s1 = s1
    s2 = s2
    Nodes = {a, b}
    Senders = {s1, s2}
    HomeOf <- OneSenderEach
    Book <- BookOfBoth
    Kinds <- BatchAndSingle
    Sends = 1
    MaxConns = 3
    MaxFaults = 1
INVARIANTS
    IrohTypeOK
    NoDeathIsSwallowed
    OnlyTheGoneAreReported
    AtMostOnce
    CachedIsWatched
    FramesHaveReaders
PROPERTIES
    ReportsAreCurrent
CHECK_DEADLOCK FALSE
