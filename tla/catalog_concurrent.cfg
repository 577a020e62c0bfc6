SPECIFICATION Spec
CONSTANTS
    u1 = u1
    u2 = u2
    sys = sys
    n = n
    a1 = a1
    a2 = a2
    a3 = a3
    b1 = b1
    s1 = s1
    w1 = w1
    w2 = w2
    Users = {u1}
    Admins = {}
    System = sys
    Names = {n}
    SeedNames = {}
    Ids = {a1, a2, a3}
    KeyOf <- MCKeyOf
    Public = {a1}
    MaxTools = 3
    None = None
    Requests = {w1, w2}
    Ops = {"post", "toggle", "delete"}
    DbMayFail = TRUE
INVARIANTS
    IndexSound
    RegistryIsCommitted
PROPERTY
    OneActiveUnlessReactivated
