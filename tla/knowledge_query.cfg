SPECIFICATION MCSpec
CONSTANTS
    c1 = c1
    c2 = c2
    d1 = d1
    d2 = d2
    Collections = {c1, c2}
    Domains = {d1, d2}
    Points = {1, 2, 3}
    Ranks = {1, 2}
    Limits = {0, 1, 2}
    Unset = Unset
INVARIANTS
    AnswerRight
PROPERTY Answered
CHECK_DEADLOCK FALSE
