CONSTANTS
    s1 = s1  s2 = s2  s3 = s3  s4 = s4
    Sessions = {s1, s2, s3, s4}
    Limit = 2
    IncrFailures = FALSE
    DecrFailures = FALSE
    MaxCrashes = 0
SYMMETRY SessionSymmetry
SPECIFICATION Spec
PROPERTY DeniedOnlyWhenBusy
