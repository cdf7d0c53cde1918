SPECIFICATION Spec
CONSTANTS
    Text = {"r", "cle", "sub"}
    RootName <- R
    KeyPaths <- MCKeyPaths
    ValueLists <- MCValueLists
    Filters <- MCFilters
    Hives <- MCHives
    MaxKeys = 2
INVARIANTS
    CleanRowsAreClean
    DeletedMarked
    RowIdentifiesKey
    EveryKeySurfaces
    SubtreeClosed
    PathsSelectThemselves
    OneBatch
PROPERTY ScanEnds
CHECK_DEADLOCK FALSE
