CONSTANTS
    r1 = r1  r2 = r2  e1 = e1  e2 = e2  t1 = t1  c1 = c1  c2 = c2
    None = None
    Ids <- MCIds
    Envs <- MCEnvs
    Tags <- MCTags
    Times <- MCTimes
    Statuses <- MCStatuses
    Rows <- MCRows
    Filters <- MCFilters
    Conns = {c1, c2}
    QueueCap = 2
    RingCap = 1
    MaxSeq = 3
SYMMETRY ConnSymmetry
SPECIFICATION Spec
INVARIANT TypeOK
INVARIANT IndexesConsistent
INVARIANT SubscriberCoverage
