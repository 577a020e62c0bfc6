SPECIFICATION Spec
CONSTANTS
    t1 = t1
    t2 = t2
    q1 = q1
    q2 = q2
    Tasks = {t1, t2}
    Polls = {q1, q2}
    MaxRows = 1
    MayRestart = TRUE
    None = None
INVARIANTS
    CompletedIsFinal
    NoDeadDownload
PROPERTY PageFreed
CHECK_DEADLOCK FALSE
