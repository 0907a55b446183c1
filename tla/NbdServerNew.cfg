CONSTANTS
    c1 = c1
    c2 = c2
    Clients = {c1, c2}
    NoClient = NoClient
    Blocks = {b1}
    PastEnd = {b1}
    OldHandshake = FALSE
    MaxRequests = 3
    Bounds <- MCNewBounds
SPECIFICATION FairSpec
INVARIANTS
    RequestsInStep
PROPERTIES
    EveryRequestAnswered
