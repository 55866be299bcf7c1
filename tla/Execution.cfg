SPECIFICATION FairSpec
CONSTANTS
    FirstFree = 65536
    EnvSize = 16
    KernelSize = 40000
    ProgramSize = 50000
    Release = 54096
    Cleared = 200000
    StackTop = 589824
    StackSize = 65536
    Drives <- TwoDrives
    ProgramsOn <- OnDrives
    Buffers <- BufferSizes
    Commands <- TypedCommands
    Scripts <- ManualScripts
    MaxCommands = 3
INVARIANTS TypeOK AreasApart SamePlace BelowStack
PROPERTIES ClearsOnlyDead ImplementsChainScript CommandReturns
CHECK_DEADLOCK FALSE
