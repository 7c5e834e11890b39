CONSTANTS
    None = None  Null = Null  Unchanged = Unchanged
    Values <- MCValues
    MaxCols = 2
    Truncate = FALSE
SPECIFICATION Spec
INVARIANT DeleteRoundTrip
