SPECIFICATION FairSpec
CONSTANTS
    File = {1, 2, 3, 4}
    None = None
    Absent = Absent
    Unreadable = Unreadable
    BlobSource = BlobSource
    Image <- MCTwoImages
    LogState = {"absent"}
    LogNames = 1
    LogFiles = 1
    LogFileOf <- MCOneName
    MaxWrites = 0
    MaxLost = 2
    MaxDamaged = 1
INVARIANTS TypeOK Conservation OrderedOnce
PROPERTIES ImplementsGlobScan Termination
