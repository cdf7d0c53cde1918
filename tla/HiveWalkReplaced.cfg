SPECIFICATION Spec
CONSTANTS
    Text = {"r", "cle", "sub"}
    RootName <- R
    KeyPaths <- MCKeyPaths
    ValueLists <- MCValueLists
    Filters <- MCFilters
    Hives <- MCHives
    MaxKeys = 2
INVARIANT ReplacedVersionsMarked
CHECK_DEADLOCK FALSE
