CONSTANTS
    Keys = {k1}
    Values = {v1}
    Nil = Nil
    REDIS_DEFAULT_PIPELINED = 3
    MaxIssued = 4
SPECIFICATION Spec
INVARIANTS
    DequeueReturnsQueuedWrite
