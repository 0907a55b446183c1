CONSTANTS
    c1 = c1
    c2 = c2
    Clients = {c1, c2}
    NoClient = NoClient
    Blocks = {b1, b2}
    PastEnd = {}
    OldHandshake = TRUE
    MaxRequests = 2
    Bounds <- MCOldBounds
SPECIFICATION Spec
INVARIANTS
    ImageEqualsMirror
    MirroredInOrder
PROPERTIES
    ProducesPairs
