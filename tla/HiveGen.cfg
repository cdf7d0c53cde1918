SPECIFICATION Spec
CONSTANTS
    U32Max = 65535
    SeqNo = {1, 2}
    FileType = {0}
    BinsSize = {8192}
    Word = {0, 1, 255, 65535}
    Hint = {}
    Total = {12288}
    NameLen = {0, 3}
    DataLen = {0, 5, 8044}
    MaxDepth = 3
    MaxCells = 5
INVARIANTS
    CellsApart
    CellsAligned
    ReferencesResolve
    OneTree
    BinFilled
    ImageParses
CHECK_DEADLOCK FALSE
