CONSTANTS
    None = None  Null = Null  Unchanged = Unchanged
    Values <- MCValuesWithEmpty
    MaxCols = 2
    Truncate = FALSE
SPECIFICATION Spec
INVARIANT InsertRoundTrip
