CONSTANTS
    None = None  Null = Null  Unchanged = Unchanged
    Values <- MCValues
    MaxCols = 2
    Truncate = TRUE
SPECIFICATION Spec
INVARIANT TruncatedFrameSkipped
