SPECIFICATION Spec
CONSTANTS
    u1 = u1
    u2 = u2
    sys = sys
    n = n
    a1 = a1
    a2 = a2
    a3 = a3
    b1 = b1
    s1 = s1
    w1 = w1
    w2 = w2
    Users = {u1, u2}
    Admins = {u2}
    System = sys
    Names = {n}
    SeedNames = {n}
    Ids = {a1, a2, a3, b1, s1}
    KeyOf <- MCKeyOf
    Public = {a1, s1}
    MaxTools = 3
    None = None
    Requests = {w1}
    Ops = {"post", "put", "toggle", "delete"}
    DbMayFail = FALSE
INVARIANTS
    InStepWhenQuiet
    DegradedServesActive
    ResolvesToVisible
    PostClashesOnlyIfNewestInactive
PROPERTIES
    ImplementsHistory
    NameLostOnlyWithItsTool
    ResolvesUnlessDoublyActive
