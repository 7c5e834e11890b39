CONSTANTS
    r1 = r1  r2 = r2  r3 = r3  nilRun = nilRun  e1 = e1  nilEnv = nilEnv  t1 = t1
    None = None  Null = Null  Unchanged = Unchanged
    Ids <- MCIds
    Envs <- MCEnvs
    Tags <- MCTags
    Times <- MCTimes
    Statuses <- MCStatuses
    Rows <- MCRows
    Filters = {}
    Conns = {}
    QueueCap = 1
    RingCap = 1
    MaxSeq = 3
    NilId = nilRun
    NilEnv = nilEnv
    ZeroTime = 0
    UuidText <- MCUuidText
    StatusText <- MCStatusText
    Rfc3339Text <- MCRfc3339
    TimeText <- MCRfc3339
    TagsColumn = "json"
    Ops = {"INSERT", "DELETE"}
    MaxWal = 3
SPECIFICATION FairSpec
PROPERTY MirrorRefinement
