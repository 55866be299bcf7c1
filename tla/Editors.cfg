SPECIFICATION FairSpec
CONSTANTS
    InitHold = 1
    ContHold = 0
    Rows = 3
    Cols = 3
    Texts <- ShortTexts
    NameLen = 1
    LastByte = 7
    MaxKeys = 3
    Letters = {}
    RowBytes = 2
    Shown = 5
    KeyLimit = 2
    Bytes <- SomeBytes
    Programs <- AllPrograms
INVARIANTS SaveCovers RowsShown
PROPERTIES EditsText HexExact UpThenDown EscEnds
CHECK_DEADLOCK FALSE
