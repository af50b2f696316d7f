SPECIFICATION Spec
CONSTANTS
    a = a
    b = b
    la = la
    upperA = upperA
    lb = lb
    lab = lab
    None = None
    Handlers = {h1, h2}
    Sites = {s1, s2}
    Users = {admin, u1}
    Admins = {admin}
    Lists = {la, upperA, lb, lab}
    Origins = {a, b}
    OriginsOf <- MCOriginsOf
    Folded <- MCFolded
INVARIANTS
    TypeOK
    CreatorPermanent
    SerialOriginsDisjoint
    NoOrphanedFeedback
PROPERTIES
    ImplementsSiteList
SYMMETRY Symmetry
CONSTRAINT Explored
