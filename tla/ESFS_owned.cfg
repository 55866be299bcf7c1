SPECIFICATION SparedSpec
CONSTANTS
    Capacity = 160
    DiskSectors = 22
    SuperblockBlock = 2
    WordsPerSector = 8
    PtrsPerInode = 2
    NullFiles = 4
    InodeShare = 4
    ProbeStep = 1
    Magic = 77
    WordRange = 1024
    Drives <- OneDrive
    BootDrive = 0
    Commands <- OwnedCommands
    InitDisks <- UsedDisks
    StaleCalls = {"create", "delete", "write"}
    StackLabs = {0}
    ProbeErrors = {FALSE}
    MaxCommands = 3
    MaxCrashes = 1
INVARIANTS Owned
CHECK_DEADLOCK FALSE
