CONSTANTS
    m1 = m1  m2 = m2  r1 = r1  r2 = r2
    None = None
    Messages = {m1}
    Sent = {}
    Requests = {r1, r2}
    Wishes <- MovesAndDeletes
    MaxInodes = 2
SPECIFICATION WebmailSpec
SYMMETRY Symmetry
CHECK_DEADLOCK FALSE
INVARIANTS DeletesOnlyFromTrash
