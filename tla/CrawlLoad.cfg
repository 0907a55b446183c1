SPECIFICATION LoadSpec
CONSTANTS
    Files <- MCFiles
    A = 2
    SectorsPerBlock = 8
    PtSector = 63
    BlockSize = 4096
    Strays = {0, 440}
    MaxMapped = 27
    ExtentBlocks = 6
    MapDirs = {TRUE, FALSE}
CHECK_DEADLOCK FALSE
INVARIANT
    StartIsByteOfFile
