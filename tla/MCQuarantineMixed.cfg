CONSTANTS
    e1 = e1  e2 = e2  e3 = e3  w1 = w1  w2 = w2
    m1 = m1  t1 = t1  r1 = r1
    NoID = NoID
    Absent = Absent
    Events = {e1, e2, e3}
    Resolvers = {w1, w2}
    MessageIDOf <- SharedIDs
    TenantOf <- OneTenant
    RecipientOf <- OneRecipient
    Direct <- Mixed
    MaxAttempts = 2
SPECIFICATION QuarantineFairSpec
CHECK_DEADLOCK FALSE
INVARIANTS ResolvedAsRecorded
PROPERTIES CopyNotOverwritten OnlyADeleteRemovesAHeldFile ImplementsResolution RequestReturns
