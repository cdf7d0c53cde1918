SPECIFICATION Spec
CONSTANTS
    Null = Null
    Blob <- MCBlob
    Path <- MCPath
    Name = {"", "A", "a"}
    Fold <- MCFold
    MaxRows = 2
INVARIANTS ColumnsAligned RowsReadBack ScalarsAgree FailsOnlyForTypes
