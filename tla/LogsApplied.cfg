SPECIFICATION FairSpec
CONSTANTS
    BaseLen = 4
    HdrLen = 4
    SigLen = 1
    U32Max = 31
    UsizeMod = 32
    GuardMax = 3
    LogLen = {0, 4, 5, 9, 16}
    Size = {1, 4, 24}
    Sequence = {0, 2}
    PageCount = {3, 20}
INVARIANTS HeadersInside ChainTiles CountersExact OrderOfLogs CleanIsBacked
PROPERTIES Termination
