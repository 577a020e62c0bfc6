SPECIFICATION Spec
CONSTANTS
    c1 = c1
    c2 = c2
    d1 = d1
    d2 = d2
    p1 = p1
    p2 = p2
    w1 = w1
    w2 = w2
    Collections = {c1, c2}
    Domains = {d1}
    Points = {p1, p2}
    HomeOf <- MCHomeOf
    Requests = {w1, w2}
    KeepVectors = TRUE
    StaleForms = TRUE
    MayFail = TRUE
    None = None
INVARIANTS
    StoresAgree
    NoOrphanPoint
