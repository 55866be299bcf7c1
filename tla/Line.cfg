SPECIFICATION FairSpec
CONSTANTS
    InitHold = 2
    ContHold = 1
    Rows = 2
    Cols = 4
    Table <- OneKey
    Bytes = 2
    Size = 4
    Befores <- AnyBefore
    MaxKeys = 5
INVARIANTS MirrorsLine
PROPERTIES ImplementsTextLine OneEnterOneLine RepeatsSpaced EnterEnds
CHECK_DEADLOCK FALSE
