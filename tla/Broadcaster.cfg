SPECIFICATION FairSpec
CONSTANTS
    p1 = p1
    p2 = p2
    d1 = d1
    d2 = d2
    None = None
    Main = Main
    Publishers = {p1, p2}
    Streams = {d1, d2}
    Stalled = {d2}
    BufferLength = 2
    MaxEvents = 4
    MaxIds = 3
CHECK_DEADLOCK FALSE
INVARIANTS
    TypeOK
    NoPanic
PROPERTIES
    ImplementsStream
    BroadcastReturns
    StreamsEnd
