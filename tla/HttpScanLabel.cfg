SPECIFICATION Spec
CONSTANTS
    File = {1}
    None = None
    Absent = Absent
    Unreadable = Unreadable
    BlobSource = BlobSource
    Image <- MCFourImages
    LogState = {"absent", "empty", "unusable", "usable"}
    LogNames = 1
    LogFiles = 1
    LogFileOf <- MCOneName
    MaxWrites = 0
    MaxLost = 0
    MaxDamaged = 0
INVARIANTS LogsAppliedMeansUsable
