SPECIFICATION FairSpec
CONSTANTS
    s1 = s1
    s2 = s2
    q1 = q1
    q2 = q2
    None = None
    c1 = c1
    l1 = l1
    l2 = l2
    NoLoop = NoLoop
    Callers = {c1}
    Loops = {l1, l2}
    DayLength = 2
    DayForm = "timestamp"
    Normal <- MCNormal
    TrendDefault = 2
    TrendMax = 3
    EngagementDefault = 2
    EngagementMax = 3
    PagesDefault = 1
    AttributionDefault = 1
    AttributionMax = 1
    DepthBounds <- MCDepthBounds
    ObservedBounds <- MCObservedBounds
    Sites = {s1, s2}
    Requests = {q1, q2}
    Beacons <- MCBeacons
    RetentionDays = 1
    Limits = {0, 2}
    FirstTick = 1
    MaxNow = 4
    MaxRuns = 2
CONSTRAINT Explored
CHECK_DEADLOCK FALSE
INVARIANTS
    LoopsOwned
    RollupBracketed
    AggregatedIsAccounted
    StatisticsAgree
PROPERTIES
    PruneKeepsStatistics
    StopReturns
