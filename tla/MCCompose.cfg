CONSTANTS
    r1 = r1  r2 = r2  m1 = m1  m2 = m2  own = own  shared = shared
    None = None
    Requests = {r1, r2}
    Messages = {m1, m2}
    Mailboxes = {own, shared}
    MaxTexts = 2
    MaxDrafts = 2
    MaxSends = 3
SPECIFICATION Spec
SYMMETRY Symmetry
CONSTRAINT Explored
CHECK_DEADLOCK FALSE
INVARIANTS SavedTextKept TakesOwnDraft FiledWasAccepted
