SPECIFICATION Spec
CONSTANTS
    DiskSectors = 22
    SuperblockBlock = 2
    WordsPerSector = 8
    PtrsPerInode = 2
    NullFiles = 4
    InodeShare = 4
    ProbeStep = 1
    Magic = 77
    WordRange = 1024
    Drives <- OneDrive
    BootDrive = 0
    Commands <- SaveTwice
    InitDisks <- UsedDisks
    StaleCalls = {"create", "delete"}
    StackLabs = {0}
    ProbeErrors = {FALSE}
    MaxCommands = 2
    MaxCrashes = 0
PROPERTIES RefusalTruthful
