CONSTANTS
    r1 = r1  r2 = r2
    None = None
    Requests = {r1, r2}
    MaxSessions = 2
    MaxChallenges = 1
    MaxSecrets = 1
    MaxKeys = 1
SPECIFICATION Spec
SYMMETRY Symmetry
CHECK_DEADLOCK FALSE
INVARIANTS SignInPossible AnswersBounded
PROPERTIES FactorsKept ImplementsTrust
