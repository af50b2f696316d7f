SPECIFICATION FairSpec
CONSTANTS
    u1 = u1
    h1 = h1
    h2 = h2
    n1 = n1
    n2 = n2
    p1 = p1
    p2 = p2
    Blank = Blank
    NoRow = NoRow
    Users = {u1}
    Handlers = {h1, h2}
    Names = {n1, n2}
    Pictures = {p1, p2}
    Results <- MCResults
    MaxLogins = 2
INVARIANTS
    AvatarTruthful
PROPERTIES
    AvatarKept
    ProfileSettles
CHECK_DEADLOCK FALSE
