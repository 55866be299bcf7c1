SPECIFICATION Spec
CONSTANTS
    DiskSectors = 36
    SuperblockBlock = 2
    WordsPerSector = 8
    PtrsPerInode = 2
    NullFiles = 4
    InodeShare = 6
    ProbeStep = 1
    Magic = 77
    WordRange = 1024
    Drives <- OneDrive
    BootDrive = 0
    Commands <- LargeCommands
    InitDisks <- UsedDisks
    StaleCalls = {"create", "delete"}
    StackLabs = {0}
    ProbeErrors = {FALSE}
    MaxCommands = 1
    MaxCrashes = 0
PROPERTIES WriteComplete
