SPECIFICATION MCSpec
CONSTANTS
    u1 = u1
    u2 = u2
    sys = sys
    n = n
    a = a
    b = b
    s = s
    r1 = r1
    Users = {u1}
    Me = u1
    System = sys
    Names = {n}
    Ids = {a}
    KeyOf <- MCKeyOf
    Public = {}
    MaxTools = 3
    None = None
    Runs = {r1}
    DefaultIterations = 2
    HardIterations = 2
    MaxCalls = 2
    Contents = {"text", "blocks"}
    HandlerResults = {"record"}
    HandlerErrors = {"exception"}
    Values = {"old", "new"}
    MaxTurns = 2
    Asked = {0, 1, 3}
INVARIANTS
    PromptsWellFormed
    ReplayMatchesUpToKinds
    TruncationTold
