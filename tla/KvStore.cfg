CONSTANTS
    Keys = {k1, k2}
    Values = {v1}
    Nil = Nil
    REDIS_DEFAULT_PIPELINED = 3
    MaxIssued = 5
SPECIFICATION FairSpec
INVARIANTS
    Balanced
    FlushedCallGetsOwnReply
    UnflushedReplyLag
    FlushMakesVisible
PROPERTIES
    EveryCallReturns
