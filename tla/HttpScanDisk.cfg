SPECIFICATION Spec
CONSTANTS
    File = {1, 2}
    None = None
    Absent = Absent
    Unreadable = Unreadable
    BlobSource = BlobSource
    Image <- MCFourImages
    LogState = {"absent", "empty", "unusable", "usable"}
    LogNames = 2
    LogFiles = 1
    LogFileOf <- MCTwoNames
    MaxWrites = 1
    MaxLost = 1
    MaxDamaged = 0
INVARIANTS UntouchedReported LabelsMatchDisk
