SPECIFICATION MCSpec
CONSTANTS
    m1 = m1
    s1 = s1
    o1 = o1
    c1 = c1
    c2 = c2
    t1 = t1
    t2 = t2
    Mine = {m1}
    Seeds = {s1}
    Shared = {o1}
    Typed = {t1, t2}
    New = m1
    Terms <- MCTerms
    Calls = {c1, c2}
    MaxAsked = 2
    None = None
    Runs = {r1, r2, r3}
    MaxShown = 4
    NoRun = NoRun
SYMMETRY Symmetry
INVARIANTS
    EditorListsOwn
    PicksShown
    EditorCurrent
    ToggleFlips
    GeneratedFit
    TraceTells
