SPECIFICATION PartSpec
CONSTANTS
    Disks <- MCDisks
    OffsetSectors = 64
    SECTOR_SIZE = 2
    FilterUnit = 4
    BitsLen = 16
    TableBlocks = 2
    MaxFaults = 1
    InodesPerGroup = 4
    InodeSize = 4
    SectorSize = 4
    Offsets = {8, 12, 16}
    A = 2
    PtSector = 63
    BlockSize = 4096
    Strays = {0, 440}
    MaxMapped = 27
    ExtentBlocks = 6
    MapDirs = {TRUE, FALSE}
    Sizes = {0, 5, 8, 70, 128}
    Bits = {0, 3, 7, 8, 63, 64}
    FallbackSize = 40
    StartSize = 8
    MaxInt = 63
    MaxElements = 2
CHECK_DEADLOCK FALSE
INVARIANTS
    IndexIsInOrder
    EntryUsedWhenFreed
    
    TreeIsDescribed
    ListIsTheFile
    TreeAboveListedIsWatched
    FilterIsKept
    BuffersHold
    DocumentsAreRead
PROPERTIES
    PartsComplete
