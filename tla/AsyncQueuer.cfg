CONSTANTS
    Main = Main
    Periodic = Periodic
    FlushThreads = {t1, t2}
    NoThread = NoThread
    REDIS_DEFAULT_PIPELINED = 4
    REDIS_DEFAULT_BYTES = 2
    MaxCount = 20
    Sectors = {0, 5000}
    Filter = {1}
    MaxWrites = 3
SPECIFICATION FairSpec
INVARIANTS
    ConnectionExclusive
    JobsAreCounted
    ShutdownLosesOnlyPeriodicJob
PROPERTIES
    ShutdownEnds
    ProducesPairs
    MetadataIsAccepted
    AcceptedIsPushed
