SPECIFICATION Spec
CONSTANTS
    HexBase = 2
    ZERO_RUN_MIN = 3
    High <- MCHigh
    Low <- MCLow
    Replacement = 15
    Newline = 2
    ValueCell <- MCValueCell
INVARIANTS RenderingMatchesType TextKeepsUnits MultiSzKeepsComponents BadUnitsFlagged IntegersExact BlobSqlFaithful
