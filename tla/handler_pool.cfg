SPECIFICATION PoolSpec
CONSTANTS
    c1 = c1
    c2 = c2
    c3 = c3
    t1 = t1
    t2 = t2
    Calls = {c1, c2, c3}
    Workers = {t1, t2}
    MaxMembers = 1
    NoCall = NoCall
INVARIANTS
    ApartUnlessTimedOut
PROPERTIES
    NoEffectAfterAnswer
    NothingElseHangs
\* Once every call was served, or every thread hangs, nothing is left to do.
CHECK_DEADLOCK FALSE
