SPECIFICATION FairSpec
CONSTANTS
    DiskSectors = 22
    SuperblockBlock = 2
    WordsPerSector = 8
    PtrsPerInode = 2
    NullFiles = 4
    InodeShare = 4
    ProbeStep = 1
    Magic = 77
    WordRange = 1024
    Drives <- TwoDrives
    BootDrive = 0
    Commands <- FinishCommands
    InitDisks <- UsedDisks
    StaleCalls = {}
    StackLabs = {0}
    ProbeErrors = {FALSE}
    MaxCommands = 2
    MaxCrashes = 1
PROPERTIES CommandsFinish
