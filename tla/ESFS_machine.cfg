SPECIFICATION MachineSpec
CONSTANTS
    DiskSectors = 36
    SuperblockBlock = 2
    WordsPerSector = 8
    PtrsPerInode = 2
    NullFiles = 4
    InodeShare = 6
    ProbeStep = 1
    Magic = 77
    WordRange = 1024
    Drives <- TwoDrives
    BootDrive = 0
    Commands <- MachineCommands
    InitDisks <- MachineDisks
    StaleCalls = {"create", "delete", "write"}
    StackLabs = {0}
    ProbeErrors = {FALSE, TRUE}
    MaxCommands = 3
    MaxCrashes = 1
    ImageBlocks = 34
    HostFiles <- SomeFiles
    MaxPuts = 3
INVARIANTS NamedFilesApart GeometryFits HostFilesIntact
PROPERTIES CopyArrives FormatWipes FormatKeepsKernel BootSectorKept HostKernelKept
CHECK_DEADLOCK FALSE
