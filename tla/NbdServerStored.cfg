CONSTANTS
    c1 = c1
    c2 = c2
    Clients = {c1, c2}
    NoClient = NoClient
    Blocks = {b1}
    PastEnd = {}
    OldHandshake = TRUE
    MaxRequests = 1
    Bounds <- MCStoredBounds
SPECIFICATION Spec
INVARIANTS
    AnsweredWriteIsStored
