SPECIFICATION Spec
CONSTANTS
    s1 = s1
    s2 = s2
    s3 = s3
    o1 = o1
    o2 = o2
    c1 = c1
    c2 = c2
    None = None
    Scanner = Scanner
    Sites = {s1, s2}
    Origins = {o1}
    Clients = {c1}
    QCap = 1
    Results <- MCStatementsFail
    MaxUpdates = 0
SYMMETRY SitesInterchangeable
INVARIANTS
    TypeOK
    InFlightExact
