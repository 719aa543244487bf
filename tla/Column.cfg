\* Equality and prefix search over encoded and over malformed columns.
SPECIFICATION Spec
CONSTANTS
    NumBytes = 2
    MaxTokenSize = 3
    Views <- MCViews
    Needles <- MCNeedles
INVARIANTS
    SelectsMatchingRows
    RowsAreDisjoint
CHECK_DEADLOCK FALSE
