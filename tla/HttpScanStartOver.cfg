SPECIFICATION Spec
CONSTANTS
    File = {1, 2, 3}
    None = None
    Absent = Absent
    Unreadable = Unreadable
    BlobSource = BlobSource
    Image <- MCTwoImages
    LogState = {"absent"}
    LogNames = 1
    LogFiles = 1
    LogFileOf <- MCOneName
    MaxWrites = 0
    MaxLost = 1
    MaxDamaged = 1
INVARIANTS CorruptStartsOver
