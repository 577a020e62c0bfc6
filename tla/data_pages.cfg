SPECIFICATION MCSpec
CONSTANTS
    k1 = k1
    d1 = d1
    x1 = x1
    Cols = {k1, k2}
    Doms = {d1, d2}
    Points = {p1, p2}
    Texts = {x1, x2}
    Sources <- MCSources
    Calls = {c1, c2}
    MaxAsked = 3
    None = None
SYMMETRY Symmetry
INVARIANTS
    SavesWhatWasMeant
    TablesCurrent
    NoDuplicates
    DeletesWhatWasCounted
