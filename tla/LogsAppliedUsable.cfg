SPECIFICATION Spec
CONSTANTS
    BaseLen = 4
    HdrLen = 4
    SigLen = 1
    U32Max = 31
    UsizeMod = 32
    GuardMax = 3
    LogLen = {0, 5, 8, 12}
    Size = {0, 4}
    Sequence = {0, 1}
    PageCount = {1}
INVARIANTS AppliedMeansUsable
