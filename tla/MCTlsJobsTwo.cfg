CONSTANTS
    w1 = w1  w2 = w2
    None = None
    Workers = {w1, w2}
    Limit = 2
    MaxJobs = 2
    MaxCerts = 2
    MaxRows = 2
SPECIFICATION FairSpec
CHECK_DEADLOCK FALSE
INVARIANTS StatusIsTrue SuccessIsRecorded
PROPERTIES ImplementsJobQueue QueuedIsTaken
