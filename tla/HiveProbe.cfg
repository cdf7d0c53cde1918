SPECIFICATION Spec
CONSTANTS
    U32Max = 15
    SeqNo = {0, 1}
    FileType = {0, 1}
    BinsSize = {0, 4096, 8192}
    Word = {0, 1, 14, 15}
    Hint = {"ntuser", "sam"}
    Total = {6, 12290}
    Cut = {0, 3, 4, 6, 7, 8, 11, 12, 31, 32, 43, 44, 111, 112, 507, 508, 511, 512,
           4095, 4096, 4097, 8191, 8192, 12287, 12288, 12290}
INVARIANTS CleanRowsAreClean ReadersAgree
PROPERTIES VerdictForward
