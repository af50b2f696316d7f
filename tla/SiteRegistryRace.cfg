SPECIFICATION Spec
CONSTANTS
    a = a
    b = b
    la = la
    upperA = upperA
    lb = lb
    lab = lab
    None = None
    Handlers = {h1, h2}
    Sites = {s1, s2}
    Users = {u1}
    Admins = {}
    Lists = {la, upperA, lb, lab}
    Origins = {a, b}
    OriginsOf <- MCOriginsOf
    Folded <- MCFolded
INVARIANTS
    OriginsDisjoint
