CONSTANTS
    m1 = m1  m2 = m2  r1 = r1  r2 = r2
    None = None
    Messages = {m1, m2}
    Sent = {m2}
    Requests = {r1}
    Wishes <- Anything
    MaxInodes = 3
SPECIFICATION WebmailSpec

CHECK_DEADLOCK FALSE
PROPERTIES ImplementsMailbox
