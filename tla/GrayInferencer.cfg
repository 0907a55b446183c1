SPECIFICATION PartSpec
CONSTANTS
    Files <- MCFiles
    Sectors <- MCSectors
    InodeSector = 0
    Disk0 <- MCDisk0
    FileSectors0 <- MCFileSectors0
    Writes <- MCSplitWrites
    BlockLen = 2
    REDIS_DEFAULT_PIPELINED = 7
    MaxWrites = 4
    MaxExpiries = 1
    FieldLen = 2
    SectorsPerBlock = 2
    PtSector = 1
    MaxDiffs = 3
CHECK_DEADLOCK FALSE
INVARIANTS
    MapIsCurrent
    
    MetadataIsCurrent
    MapIsLoaded
PROPERTIES
    
    PartsReturn
