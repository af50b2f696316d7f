SPECIFICATION FairSpec
CONSTANTS
    Handlers = {h1, h2}
    Sites = {s1}
    Ids = {1, 2}
    Addresses = {a1}
    Limit = 1
    MaxRequests = 2
    MaxWindow = 1
    Deliveries = {"mailed"}
    Faults = {"sql", "call", "process"}
    None = None
INVARIANTS
    TypeOK
    WindowBound
    DeliveryTruthful
PROPERTIES
    AnnouncedIsFinal
    EveryMessageAnnounced
