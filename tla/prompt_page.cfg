SPECIFICATION Spec
CONSTANTS
    u1 = u1
    u2 = u2
    p1 = p1
    p2 = p2
    f1 = f1
    f2 = f2
    w1 = w1
    w2 = w2
    Users = {u1, u2}
    Ids = {p1, p2}
    Requests = {w1, w2}
    Me = u1
    Fetches = {f1, f2}
    None = None
SYMMETRY Symmetry
INVARIANTS
    TextStaysWithPrompt
PROPERTY OnlyOwnerChanges
