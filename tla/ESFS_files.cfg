SPECIFICATION StoreSpec
CONSTANTS
    Capacity = 160
    DiskSectors = 22
    SuperblockBlock = 2
    WordsPerSector = 8
    PtrsPerInode = 2
    NullFiles = 4
    InodeShare = 4
    ProbeStep = 1
    Magic = 77
    WordRange = 1024
    Drives <- OneDrive
    BootDrive = 0
    Commands <- FileCommands
    InitDisks <- UsedDisks
    StaleCalls = {"create", "delete"}
    StackLabs = {0}
    ProbeErrors = {FALSE}
    MaxCommands = 4
    MaxCrashes = 1
INVARIANTS TypeOK FilesApart NamedFilesApart FilesInDataArea SizeCoversText CursorPersisted LeakBounded
PROPERTIES KernelKept WriteComplete DeleteReclaims CreatedFileThere ImplementsFileStore
