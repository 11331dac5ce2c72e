CONSTANTS
    w1 = w1  w2 = w2  a1 = a1
    None = None
    Workers = {w1, w2}
    Accounts = {a1}
    Policies <- OptionalOnly
    MaxSecrets = 1
    MaxTokens = 1
    MaxSessions = 2
    MaxChanges = 1
SPECIFICATION Spec
SYMMETRY Symmetry
CHECK_DEADLOCK FALSE
INVARIANTS OldPasswordOpensNoSession
