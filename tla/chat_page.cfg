SPECIFICATION MCSpec
CONSTANTS
    t1 = t1
    Threads = {t1, t2, t3}
    Mine = t1
    Requests = {q1, q2, q3}
    Window = 1
    MaxTokens = 2
    MaxMessages = 2
    AtOnce = 2
    None = None
SYMMETRY Symmetry
INVARIANTS
    PromptsAreExchanges
    WindowKept
    PageMatchesMemory
\* Once every message was sent and answered, nothing is left to do.
CHECK_DEADLOCK FALSE
