CONSTANTS
    w1 = w1  w2 = w2  a1 = a1
    None = None
    Workers = {w1, w2}
    Accounts = {a1}
    Policies <- SomePolicies
    MaxSecrets = 2
    MaxTokens = 1
    MaxSessions = 3
    MaxChanges = 1
SPECIFICATION Spec
SYMMETRY Symmetry
CONSTRAINT Explored
CHECK_DEADLOCK FALSE
INVARIANTS SecretProved SessionsProven ChallengeUsesBounded ResetIsFinal
