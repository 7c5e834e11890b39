CONSTANTS
    r1 = r1  r2 = r2  nilRun = nilRun  e1 = e1  e2 = e2  nilEnv = nilEnv  t1 = t1
    None = None  NoLSN = NoLSN  SeedLSN = SeedLSN  Corrupt = Corrupt
    Ids <- MCIds
    Envs <- MCEnvs
    Tags <- MCTags
    Times <- MCTimes
    Statuses <- MCStatuses
    Rows <- MCRows
    Filters = {}
    Conns = {}
    QueueCap = 1
    RingCap = 1
    MaxSeq = 4
    MaxWal = 2
    NilId = nilRun
    NilEnv = nilEnv
    ZeroTime = 0
    MaxCrashes = 1
    SeedSnapshot = TRUE
    ExecResultRead = TRUE
    TransportErrors = TRUE
SPECIFICATION FairSpec
INVARIANT IndexesConsistent
INVARIANT SequenceCoversRuns
INVARIANT CaughtUpHoldsInsertedRuns
