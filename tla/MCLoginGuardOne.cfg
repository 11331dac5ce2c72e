CONSTANTS
    w1 = w1  w2 = w2  d1 = d1  a1 = a1  l1 = l1  ip1 = ip1  acct = acct
    None = None
    Workers = {w1, w2}
    Admins = {d1}
    Accounts = {a1}
    Logins = {l1}
    KeysOf <- OneClient
    AccountOf <- OneName
    Locks <- LocksOneAccount
    OwnedBy <- OwnedByAccount
    Penalties <- TwoStepPenalties
    Window = 1
    Limit = 2
    MaxAttempts = 4
    MaxChanges = 1
    MaxTime = 2
SPECIFICATION FairSpec
CHECK_DEADLOCK FALSE
INVARIANTS FullTallyLocksAccount LateVerificationsBounded
PROPERTIES CountsLikeLoginLimiter AttemptReturns
