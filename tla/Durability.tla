----------------------------- MODULE Durability -----------------------------
(***************************************************************************)
(* The service across crashes and restarts: NewServer (load and restore a *)
(* snapshot, set currentLSN), the replication goroutine (Start: ensure the *)
(* slot, START_REPLICATION at 0/0, apply every change with UpdateRun), the *)
(* snapshot worker (copy under the read lock, write snapshot.dat.tmp,      *)
(* rename onto snapshot.dat), and a crash at any point between those       *)
(* steps.  Sources: src/apps/realtime-service/main.go, replication.go and  *)
(* snapshot.go.                                                            *)
(*                                                                         *)
(* The upstream write-ahead log is a Sequence of committed row changes; an *)
(* LSN is a position in it.  Each change reaches UpdateRun as the decoder *)
(* really hands it on (Decoded; its byte-level derivation is Decoder and  *)
(* Pipeline).  No subscriber is connected (Conns is empty): the engine's   *)
(* fan-out is the subject of Stream.                                       *)
(***************************************************************************)
EXTENDS StateEngine, FiniteSetsExt

CONSTANTS
    MaxWal,          \* bound on the number of upstream commits
    MaxCrashes,      \* bound on process crashes
    SeedSnapshot,    \* TRUE: snapshot.dat holds a valid snapshot at first start
    TransportErrors, \* TRUE: ReceiveMessage may fail
    ExecResultRead,  \* FALSE: startReplication as written; TRUE: see StartReplication
    NoLSN,           \* currentLSN == ""
    SeedLSN,         \* the LSN string stored in the seed snapshot
    Corrupt,         \* a file whose contents do not decode
    NilId,           \* uuid.Nil among the run ids
    NilEnv,          \* uuid.Nil among the environment ids
    ZeroTime         \* time.Time{} among the instants

ASSUME /\ MaxWal \in Nat /\ MaxCrashes \in Nat
       /\ SeedSnapshot \in BOOLEAN /\ TransportErrors \in BOOLEAN
       /\ ExecResultRead \in BOOLEAN
       /\ NilId \in Ids /\ NilEnv \in Envs /\ ZeroTime \in Times
       /\ {"", "deleted"} \subseteq Statuses

RunIds == Ids \ {NilId}

VARIABLES
    wal,         \* upstream: committed changes [op, id, row], in LSN order
    slot,        \* upstream: the slot's confirmed position (None: no slot)
    up,          \* the process is running (NewServer has returned)
    repl,        \* replication goroutine: "connecting", "streaming", "stopped"
    pos,         \* WAL entries the replication stream has delivered
    currentLSN,  \* Server.currentLSN
    worker,      \* snapshot worker: "idle", "copied", "written"
    copy,        \* the Snapshot built under the read lock
    tmp,         \* snapshot.dat.tmp: None, or its contents
    file,        \* snapshot.dat: None, Corrupt, or a Snapshot
    unsynced,    \* snapshot.dat was renamed into place and not yet written back
    version,     \* history: the WAL position each stored run reflects
    crashes      \* crashes so far

durVars == <<wal, slot, up, repl, pos, currentLSN, worker, copy, tmp, file,
             unsynced, version, crashes>>
vars == <<engineVars, durVars>>

\* A Snapshot: runs, sequence and LSN, plus the version history of its runs.
SeedFile == [runs |-> [id \in Ids |-> None], sequence |-> 0, lsn |-> SeedLSN,
             version |-> [id \in Ids |-> 0]]

Init ==
    /\ EngineInit
    /\ wal = <<>>
    /\ slot = None
    /\ up = FALSE
    /\ repl = "stopped"
    /\ pos = 0
    /\ currentLSN = NoLSN
    /\ worker = "idle"
    /\ copy = None
    /\ tmp = None
    /\ file = IF SeedSnapshot THEN SeedFile ELSE None
    /\ unsynced = FALSE
    /\ version = [id \in Ids |-> 0]
    /\ crashes = 0

-----------------------------------------------------------------------------
(* The upstream database and the machine.                                  *)

\* The table holds a row for id: its last change is not a delete.
InTable(id) ==
    LET ws == {i \in DOMAIN wal : wal[i].id = id}
    IN ws # {} /\ wal[Max(ws)].op # "DELETE"

\* A transaction on "TaskRun" inserts a new run, or updates or deletes an
\* existing one (the row of a delete plays no part).
Commit(op, id, row) ==
    /\ Len(wal) < MaxWal
    /\ IF op = "INSERT" THEN ~InTable(id) ELSE InTable(id)
    /\ wal' = Append(wal, [op |-> op, id |-> id, row |-> row])
    /\ UNCHANGED <<engineVars, slot, up, repl, pos, currentLSN, worker, copy,
                   tmp, file, unsynced, version, crashes>>

\* The kernel writes the renamed file's data back to disk.
WriteBack ==
    /\ unsynced
    /\ unsynced' = FALSE
    /\ UNCHANGED <<engineVars, wal, slot, up, repl, pos, currentLSN, worker,
                   copy, tmp, file, version, crashes>>

\* The process dies: memory is lost, the slot and the files stay.  Nothing
\* is ever fsync'ed, so a snapshot.dat renamed into place whose data the
\* kernel has not yet written back may be found empty (undecodable).
Crash ==
    /\ up
    /\ crashes < MaxCrashes
    /\ up' = FALSE
    /\ crashes' = crashes + 1
    /\ repl' = "stopped"
    /\ worker' = "idle"
    /\ copy' = None
    /\ file' \in IF unsynced THEN {file, Corrupt} ELSE {file}
    /\ unsynced' = FALSE
    /\ UNCHANGED <<engineVars, wal, slot, pos, currentLSN, tmp, version>>

-----------------------------------------------------------------------------
(* Startup: NewServer.                                                     *)

\* LoadSnapshot: a missing file is "no snapshot"; a file that does not
\* decompress or decode is an error, which NewServer treats the same way.
LoadSnapshot(f) == IF f \in {None, Corrupt} THEN None ELSE f

\* Mutant: the restore leaves the indexes as they were.
RestoreFromSnapshotNoIndexes(s) ==
    /\ runs' = s.runs
    /\ sequence' = s.sequence
    /\ envIndex' = [e \in Envs |-> {}]
    /\ tagIndex' = [t \in Tags |-> {}]

\* Mutant: the sequence counter is not restored.
RestoreFromSnapshotNoSequence(s) ==
    LET stored == {id \in Ids : s.runs[id] # None}
        rebuilt == FoldSet(LAMBDA id, acc : addToIndexes(acc[1], acc[2], id, s.runs[id]),
                           <<[e \in Envs |-> {}], [t \in Tags |-> {}]>>, stored)
    IN /\ runs' = s.runs
       /\ sequence' = 0
       /\ envIndex' = rebuilt[1]
       /\ tagIndex' = rebuilt[2]

\* RestoreFromSnapshot (under the write lock): install the runs and the
\* sequence, then rebuild envIndex and tagIndex with addToIndexes for
\* every stored run.
RestoreFromSnapshot(s) ==
    LET stored == {id \in Ids : s.runs[id] # None}
        rebuilt == FoldSet(LAMBDA id, acc : addToIndexes(acc[1], acc[2], id, s.runs[id]),
                           <<[e \in Envs |-> {}], [t \in Tags |-> {}]>>, stored)
    IN /\ runs' = s.runs
       /\ sequence' = s.sequence
       /\ envIndex' = rebuilt[1]
       /\ tagIndex' = rebuilt[2]

\* NewServer: a fresh StateManager; if a snapshot loads, restore it and
\* take its LSN as currentLSN; start the snapshot worker.  main then starts
\* the replication goroutine.
Boot ==
    /\ ~up
    /\ up' = TRUE
    /\ LET s == LoadSnapshot(file) IN
       IF s # None
       THEN /\ RestoreFromSnapshot(s)
            /\ currentLSN' = s.lsn
            /\ version' = s.version
       ELSE /\ runs' = [id \in Ids |-> None]
            /\ sequence' = 0
            /\ envIndex' = [e \in Envs |-> {}]
            /\ tagIndex' = [t \in Tags |-> {}]
            /\ currentLSN' = NoLSN
            /\ version' = [id \in Ids |-> 0]
    /\ recentEvents' = [id \in Ids |-> <<>>]
    /\ repl' = "connecting"
    /\ UNCHANGED <<connections, filter, subByRun, subByEnv, subByTag, events,
                   dropped, wal, slot, pos, worker, copy, tmp, file, unsynced,
                   crashes>>

-----------------------------------------------------------------------------
(* The replication goroutine.                                              *)

\* handleKeepalive sends a zero-filled buffer as an SQL string, never a
\* standby status update: the slot's confirmed position stays where
\* pg_create_logical_replication_slot put it.
ConfirmedPosition == slot

\* Mutant: replication resumes after the last change already in the WAL.
StartReplicationAtEnd ==
    /\ up /\ repl = "connecting"
    /\ slot' = IF slot = None THEN Len(wal) ELSE slot
    /\ pos' = Len(wal)
    /\ repl' = "streaming"
    /\ UNCHANGED <<engineVars, wal, up, currentLSN, worker, copy, tmp, file,
                   unsynced, version, crashes>>

\* Start: ensurePublication, ensureReplicationSlot (a new logical slot
\* starts at the current end of the WAL), then startReplication sends
\* START_REPLICATION ... 0/0 with conn.Exec.  As written it tests the
\* *MultiResultReader that Exec returns against nil; that pointer is never
\* nil, so startReplication returns "failed to start replication" before
\* its receive loop, and main only logs it.  ExecResultRead stands for
\* that test reading the query's own result: then the loop runs, and as a
\* logical slot streams from its confirmed position when asked for an
\* older one, every start re-reads all changes since the slot was made.
StartReplication ==
    /\ up /\ repl = "connecting"
    /\ slot' = IF slot = None THEN Len(wal) ELSE slot
    /\ IF ExecResultRead
       THEN /\ pos' = IF slot = None THEN Len(wal) ELSE ConfirmedPosition
            /\ repl' = "streaming"
       ELSE /\ repl' = "stopped"
            /\ UNCHANGED pos
    /\ UNCHANGED <<engineVars, wal, up, currentLSN, worker, copy, tmp, file,
                   unsynced, version, crashes>>

\* The run handleInsert, handleUpdate or handleDelete hands to UpdateRun
\* for a pgoutput frame of the change (REPLICA IDENTITY FULL): an insert
\* decodes to its row; parseChangeMessage skips an update's tuple marker
\* and finds no 'N', and a delete has no 'N' tuple, so both return empty
\* column maps, and changeToRunState leaves every field at its zero value:
\* uuid.Nil, no tags, the zero time, an empty status ("deleted" for a
\* delete, set by handleDelete).
Decoded(ch) ==
    IF ch.op = "INSERT" THEN [id |-> ch.id, row |-> ch.row]
    ELSE [id |-> NilId,
          row |-> [env |-> NilEnv, tags |-> {}, created |-> ZeroTime,
                   status |-> IF ch.op = "DELETE" THEN "deleted" ELSE ""]]

\* The receive loop: the next change arrives, is decoded, and its run is
\* stored by UpdateRun.
ReceiveChange ==
    /\ up /\ repl = "streaming"
    /\ pos < Len(wal)
    /\ LET d == Decoded(wal[pos + 1])
       IN /\ UpdateRun(d.id, d.row)
          /\ version' = [version EXCEPT ![d.id] = pos + 1]
    /\ pos' = pos + 1
    /\ UNCHANGED <<wal, slot, up, repl, currentLSN, worker, copy, tmp, file,
                   unsynced, crashes>>

\* ReceiveMessage fails (the server drops a connection that never answers
\* its keepalives, or the network fails): startReplication returns, main's
\* goroutine logs the error, and nothing starts replication again.
ReplicationFails ==
    /\ TransportErrors
    /\ up /\ repl \in {"connecting", "streaming"}
    /\ repl' = "stopped"
    /\ UNCHANGED <<engineVars, wal, slot, up, pos, currentLSN, worker, copy,
                   tmp, file, unsynced, version, crashes>>

-----------------------------------------------------------------------------
(* The snapshot worker: one tick of snapshotWorker is CreateSnapshot.      *)

\* snapshotWorker: every tick, CreateSnapshot(currentLSN) if currentLSN is
\* set; ticks without it do nothing.
SnapshotDue == up /\ worker = "idle" /\ currentLSN # NoLSN

\* CreateSnapshot, under the read lock: copy runs and sequence.
CopyState ==
    /\ SnapshotDue
    /\ copy' = [runs |-> runs, sequence |-> sequence, lsn |-> currentLSN,
                version |-> version]
    /\ worker' = "copied"
    /\ UNCHANGED <<engineVars, wal, slot, up, repl, pos, currentLSN, tmp, file,
                   unsynced, version, crashes>>

\* Encode, compress, os.WriteFile of snapshot.dat.tmp; a failed write
\* returns the error and the tick ends (the temp file may be partial).
WriteTemp ==
    /\ up /\ worker = "copied"
    /\ \/ tmp' = copy /\ worker' = "written"
       \/ tmp' = Corrupt /\ worker' = "idle"
    /\ copy' = None
    /\ UNCHANGED <<engineVars, wal, slot, up, repl, pos, currentLSN, file,
                   unsynced, version, crashes>>

\* os.Rename of the temp file onto snapshot.dat: the commit point.
RenameSnapshot ==
    /\ up /\ worker = "written"
    /\ file' = tmp
    /\ tmp' = None
    /\ unsynced' = TRUE
    /\ worker' = "idle"
    /\ UNCHANGED <<engineVars, wal, slot, up, repl, pos, currentLSN, copy,
                   version, crashes>>

-----------------------------------------------------------------------------

\* Every bound is spent and the process is caught up or stopped for good.
BoundsExhausted ==
    /\ Len(wal) = MaxWal /\ crashes = MaxCrashes
    /\ up /\ worker = "idle"
    /\ repl = "stopped" \/ pos = Len(wal) \/ sequence = MaxSeq
    /\ UNCHANGED vars

Next ==
    \/ \E op \in {"INSERT", "UPDATE", "DELETE"}, id \in RunIds, row \in Rows :
           Commit(op, id, row)
    \/ WriteBack \/ Crash \/ Boot
    \/ StartReplication \/ ReceiveChange \/ ReplicationFails
    \/ CopyState \/ WriteTemp \/ RenameSnapshot
    \/ BoundsExhausted

\* The replication goroutine and the snapshot worker's ticker keep running
\* while the process is up.  Commits, crashes, restarts, write-back and
\* failures are the environment's and get no fairness.
Fairness ==
    /\ WF_vars(StartReplication) /\ WF_vars(ReceiveChange)
    /\ WF_vars(CopyState) /\ WF_vars(WriteTemp) /\ WF_vars(RenameSnapshot)

Spec == Init /\ [][Next]_vars
FairSpec == Spec /\ Fairness

-----------------------------------------------------------------------------
(* Properties.                                                             *)

IsSnapshot(f) == f \notin {None, Corrupt}

\* The WAL positions after from that insert run id.
InsertsAfter(id, from) ==
    {i \in (from + 1)..Len(wal) : wal[i].op = "INSERT" /\ wal[i].id = id}

\* The stored run id is the row its latest insert after from committed.
HoldsLastInsert(id, from) ==
    InsertsAfter(id, from) # {} =>
        LET i == Max(InsertsAfter(id, from))
        IN /\ version[id] = i
           /\ runs[id] # None
           /\ [f \in DOMAIN wal[i].row |-> runs[id][f]] = wal[i].row

\* A sequence number is never handed out twice within a process: every
\* stored run's seq is at most sm.sequence, also after RestoreFromSnapshot
\* installed runs and sequence copied by one CreateSnapshot.
SequenceCoversRuns ==
    \A id \in Ids : runs[id] # None => runs[id].seq <= sequence

\* Whatever crashes came before, whether the snapshot that NewServer
\* loaded was current, stale, or lost (an undecodable snapshot.dat after
\* an unsynced rename makes a silent cold start), once the stream has
\* delivered the whole WAL the engine holds every run inserted since the
\* slot was made, as its latest insert committed it: the replay from the
\* never-acknowledged slot position loses no insert and leaves no older
\* one on top.  (Updates and deletes reach only the uuid.Nil record.)
CaughtUpHoldsInsertedRuns ==
    up /\ repl = "streaming" /\ pos = Len(wal) =>
        \A id \in RunIds : HoldsLastInsert(id, slot)

\* The engine mirrors the table: once caught up, it holds every run ever
\* inserted, including runs inserted before the service first created its
\* slot (nothing loads the table's existing rows).
UpstreamMirrored ==
    up /\ repl = "streaming" /\ pos = Len(wal) =>
        \A id \in RunIds : HoldsLastInsert(id, 0)

\* A running server never replaces a stored run with an older version of
\* it (spec section 8: subscribers see each run's history in order).  After
\* a restore, the replay from the slot's position re-applies older rows:
\* with the real decoder, a run inserted, deleted and inserted again.
NoRegression ==
    [][up /\ up' => \A id \in RunIds : version'[id] >= version[id]]_vars

\* Spec section 4.4: the state is snapshotted periodically.  Every applied
\* change is eventually in snapshot.dat, unless the process goes down.
\* snapshotWorker only writes when currentLSN is set, and only a loaded
\* snapshot ever sets it.
SnapshotEventuallyWritten ==
    \A id \in Ids, k \in 1..MaxWal :
        (up /\ version[id] = k) ~> (~up \/ (IsSnapshot(file) /\ file.version[id] >= k))

\* Spec sections 4.4 and 7: the rename is the commit point and the last
\* good snapshot stays on disk.  A valid snapshot.dat never turns into an
\* undecodable one: CreateSnapshot renames without fsync.
GoodSnapshotSurvivesCrash ==
    [][IsSnapshot(file) => IsSnapshot(file')]_vars

\* Spec section 4.5: replication keeps the engine fed for as long as the
\* process is up, whatever transport errors happen (the caller restarts
\* it).  main starts the goroutine once and only logs its error, and as
\* written startReplication returns an error before its first receive.
ReplicationResumes ==
    \A n \in 1..MaxWal : (up /\ Len(wal) >= n) ~> (~up \/ pos >= n)
=============================================================================
