# TLA+ models of the realtime service

These are TLA+ models of `src/apps/realtime-service`, a Go service with four files. The service tails Postgres logical replication of the `TaskRun` table and keeps an in-memory view of the runs. It fans per-run changes out to many server-sent-event subscribers.

## 1. Inventory

### Components

| Component | Source | State it keeps | Operations that change state |
|---|---|---|---|
| State engine | `state.go` (`StateManager`) | `runs`, `sequence`, `envIndex`, `tagIndex`, `connections`, `subByRun/Env/Tag`, `recentEvents`, plus each connection's `Events` channel (capacity 256), which it writes | `UpdateRun` (numbers the run, re-indexes it, stores it, appends to its ring of 128, non-blocking fan-out), `RemoveRun` (called by nothing), `AddConnection`, `RemoveConnection`; reader `GetMatchingRuns` |
| Subscriber session | `main.go` `handleStream`, `sendInitialState`; `state.go` `NewConnection`, `SendEvent`, `SendKeepAlive` | the goroutine's position, the slice of initial runs still to push, the channel contents | admission, filter parse, `AddConnection`, read the initial runs under the read lock, push them without the lock (returns at the first full send), then a select loop: deliver an event, keepalive tick, or exit on disconnect or write error (deferred `RemoveConnection`, `decrementConcurrency`) |
| Wire decoder | `replication.go` `handleCopyData` … `changeToRunState` | none (pure) | parses `'w'`/`'k'` frames and the `'B','C','I','U','D'` messages into a `RunState`, then calls `UpdateRun` |
| Replication driver | `replication.go` `Start`, `ensurePublication`, `ensureReplicationSlot`, `startReplication`, `handleKeepalive` | the connection; upstream state: the publication, the slot and the WAL | creates the publication and slot if missing, starts at `0/0`, receives frames in a loop, answers keepalives with a zero buffer sent as SQL |
| Snapshot manager | `snapshot.go`, `main.go` `snapshotWorker`, `NewServer` | the file `snapshot.dat` and `snapshot.dat.tmp`; `Server.currentLSN` | every 30 s when `currentLSN != ""`: copy runs and sequence under the read lock, encode, write the temp file, rename. At startup: load, then restore runs and sequence and rebuild the indexes |
| Admission counter | `main.go` `checkConcurrencyLimit`, `decrementConcurrency` | the Redis key `realtime:connections` | `Incr`, compare with the limit, `Decr` if over the limit; fail-open when `Incr` fails; deferred `Decr` on exit, under the request's context |
| HTTP plumbing, health, config | `main.go` | none that matters | not modelled: I/O and formatting |

### How they interact

The replication goroutine is the only writer of runs and calls `UpdateRun` under the write lock. Each subscriber goroutine calls `AddConnection`, then `GetMatchingRuns` under the read lock. It then sends on its own channel without the lock and reads the channel. `UpdateRun` sends on every matching subscriber's channel while it holds the write lock, with a non-blocking send that drops the event when the channel is full. The snapshot goroutine copies the state under the read lock and does its file I/O outside the lock. At startup, `NewServer` restores the state before anything else runs.

### What is hard

- The unlocked initial pushes interleave with concurrent deltas (`main.go:181-219`).
- A full channel drops events silently (`state.go:148-151`, `main.go:214-217`).
- The byte-level decoder has off-by-one and missing length checks (`replication.go:247-315`). Updates and deletes decode to an empty change.
- `startReplication` tests the never-nil result reader of `conn.Exec` as an error (`replication.go:109`), so as written it always returns before its receive loop and nothing ever streams. Every other replication finding below is latent behind this one: it shows once that test reads the query's result.
- `changeToRunState` parses each field on its own and falls back to the zero value: an unparsable id puts the change under `uuid.Nil`, pgoutput's timestamp text is not RFC 3339, and an array column is not JSON.
- On restart, replication starts at `0/0` and the slot is never acknowledged.
- The snapshot goroutine is gated on a `currentLSN` that replication never sets.
- The temp-file and rename steps can be interrupted by a crash.
- The Redis admission counter can be lost or drift when a call fails or the process crashes. Both DECRs run under `r.Context()`, which is cancelled once the client has gone, and go-redis v9 then does not send the command: every stream that ends by a disconnect leaks a unit.

`PROJECT.json` lists each hazard at the line where it bites.

### What makes each component correct

- State engine: the indexes match the stored runs and filters; tombstones are unindexed (spec §8); seq values are never reused; the fan-out reaches exactly the matching connections that have room.
- Session: for every run its filter matches, a subscriber eventually holds the current version. For one run, its seq values strictly increase. Leaving the session always unregisters it.
- Decoder: it inverts the pgoutput encoding of every well-formed message, and no input makes it panic.
- Snapshot: restoring a snapshot gives the state that was copied. A crash never leaves a half-written file that loads as valid. The snapshot's LSN covers its contents.
- Replication: after a restart, no run regresses to an older version.
- Admission: the counter equals the number of admitted, live connections, and the ceiling holds.

## 2. Plan

Modules, in order of importance:

1. **StateEngine** (done): the `StateManager` state and its public API as actions.
2. **Stream** (done): StateEngine with the replication goroutine's `UpdateRun` calls and one `handleStream` goroutine per connection. This is the core concurrency of the system.
3. **Decoder** (done): the byte-level decoder as RECURSIVE operators, checked against a reference pgoutput encoder.
4. **Durability** (done): the process across crashes and restarts. It covers the snapshot worker, load and restore in `NewServer`, replication start from the slot, and the receive loop, all on top of StateEngine.
5. **Admission** (done): the Redis counter of `checkConcurrencyLimit` and `decrementConcurrency`, with Redis failures and crashes.
6. **Mirror** and **Pipeline** (done): an abstract specification of what replication promises the record map, and the composition upstream table -> pgoutput frame -> Decoder -> field coercions -> `UpdateRun`, checked to refine it.
7. **RunFeed**: an abstract specification in which each subscriber's delivered versions of each run form a subsequence of the run's history. A corrected session would refine it through a refinement mapping. Stream does not refine it, because `PerRecordMonotonic` fails.
8. Larger instances of Durability: more runs in the WAL, and subscribers connected across a restore.

## 3. Modules and how they map to the code

### StateEngine.tla

| Model | Code |
|---|---|
| `runs[id]` (record of env, tags, status, created, seq) | `sm.runs` (`RunState`; `Data` and `UpdatedAt` are omitted because no filter or property reads them) |
| `envIndex`, `tagIndex`, `subByRun/Env/Tag` | the Go maps of sets; an empty set is a deleted map entry |
| `connections`, `filter[c]` | `sm.connections`, `Connection.Filter` |
| `events[c]` | `Connection.Events`, a bounded FIFO of `[id, seq, type]` |
| `recentEvents[id]` | the ring, as the seqs of its events |
| `dropped[c]` | history only: an event for `c` was dropped on a full channel |
| `UpdateRun`, `RemoveRun`, `AddConnection`, `RemoveConnection` | the methods of the same names; each is one atomic step because it holds the write lock throughout. `UpdateRun` includes `removeFromIndexes`, `addToIndexes` and `broadcastUpdate` |

Nothing in the program calls `RemoveRun`, so no specification of the project takes that step.

### Stream.tla

Stream extends StateEngine. `phase[c]` is where `handleStream` is:
- `idle`;
- `registered`, after `AddConnection`;
- `priming`, once the initial runs have been read;
- `streaming`, in the select loop;
- `done`.

`pending[c]` is the slice of initial events not yet pushed. They are pushed in Go map order, so in any order. `seen[c][id]` is history: the highest seq written to the client for a run. `Apply` is a decoded change arriving at `UpdateRun`. `Exit` covers all three ways out of the loop (request cancelled, keepalive write error, event write error), because each ends in the same deferred `RemoveConnection`.

### Decoder.tla

Frames are sequences of naturals below 256. Go's `data[pos]` is `At(data, pos)`, and `data[k:]` is `Drop(data, k)`. The decoder functions are operators with the code's names:

| Model | Code |
|---|---|
| `handleCopyData`, `handleXLogData`, `parseLogicalMessage` | the functions of the same names (`replication.go:142-190`) |
| `handleChange(op, data)` | `handleInsert`, `handleUpdate` and `handleDelete`, which differ only in op and the deleted status (`192-238`) |
| `parseChangeMessage`, `ParseCols` | `parseChangeMessage`; `ParseCols` is its column loop (`270-315`) as a RECURSIVE operator |
| `changeToRunState` | its choice of column map (`326-334`) |
| `Outcome` | what a frame leads to: ignored, a logged error, a panic, or `UpdateRun` with a column map |
| `Handle`, `Receive` | the receive loop of `startReplication`; a panic ends the loop |

The reference encoder (`EncodeChange`, `TupleData`, `XLogData`) builds what pgoutput protocol 1 sends. For an update this is the optional `K`/`O` old tuple followed by `N` and the new tuple. For a delete it is the `K`/`O` tuple. `Expected` gives the text columns 0..5 by position. With `Truncate`, `Inputs` also contains every prefix of every change frame.

### Durability.tla

Durability extends StateEngine with no connections. Its variables are:
- `wal`: the upstream write-ahead log, one `[op, id, row]` per commit (`INSERT` of an absent run, `UPDATE` or `DELETE` of a present one).
- `slot`: the slot's confirmed position. `None` means no slot yet.
- `up`: whether the process is running.
- `repl` and `pos`: the replication goroutine's state and how far its stream has delivered.
- `currentLSN`: `Server.currentLSN`.
- `worker` and `copy`: the snapshot worker's state and its copy of the engine.
- `tmp` and `file`: `snapshot.dat.tmp` and `snapshot.dat`.
- `unsynced`: a renamed file whose data is not yet written back.
- `version`: history, the WAL position each stored run reflects.

| Model | Code |
|---|---|
| `Boot` | `NewServer`: a fresh `StateManager`; `LoadSnapshot` then `RestoreFromSnapshot`, and `currentLSN = snapshot.LSN`, when a snapshot loads |
| `LoadSnapshot` | a missing or undecodable file is "no snapshot" |
| `RestoreFromSnapshot` | installs runs and sequence, and rebuilds the indexes by folding `addToIndexes` over the stored runs |
| `StartReplication` | `Start`, `ensureReplicationSlot` (a new slot starts at the end of the WAL) and `START_REPLICATION ... 0/0`. With `ExecResultRead = FALSE` it stops there, as the code does; with `TRUE` the server then streams from the slot's confirmed position |
| `ConfirmedPosition` | `handleKeepalive` never sends a standby status update, so the confirmed position never moves |
| `ReceiveChange` | the receive loop: the next change goes to `UpdateRun` as `Decoded` hands it on |
| `Decoded` | `parseChangeMessage` and `changeToRunState` as Decoder and Pipeline derive them byte by byte: an insert becomes its row; an update (the skipped byte makes the tuple check fail) and a delete (no `N` tuple) become an empty map, stored as a run with `uuid.Nil`, no environment, no tags, the zero time and status `""` or `"deleted"` |
| `ReplicationFails` | `ReceiveMessage` fails; `startReplication` returns and `main` only logs the error |
| `SnapshotDue`, `CopyState` | `snapshotWorker`'s gate on `currentLSN`; `CreateSnapshot`'s copy under the read lock |
| `WriteTemp`, `RenameSnapshot` | `os.WriteFile` of the temp file (which may fail), then `os.Rename` |
| `Commit`, `Crash`, `WriteBack` | the environment: upstream transactions; a process crash, after which an unsynced renamed file may be undecodable; kernel write-back |

Durability takes the decoder's outcome per operation from Decoder and Pipeline rather than re-deriving bytes, so `uuid.Nil` is one of its run ids and receives every update and delete.

### Mirror.tla

The abstract specification of the replication path (spec §4.1, §4.2, §4.5). `log` is the committed changes `[op, id, row]`, `applied` how many the record map `store` reflects. `Apply` writes the next change's row (a delete: the row with status `deleted`) under its id and nothing else. `FairSpec` asks that every commit is eventually applied. It is weak fairness of `Apply`, written out with its enabling condition `Applicable`.

### Pipeline.tla

Pipeline extends StateEngine with the upstream `table` (the committed row of every run id), its `wal` of `[op, id, old, row]` and the stream position `pos`. Column texts are short byte sequences given by tables in the MC module (`UuidText`, `StatusText`, `Rfc3339Text`, and `TimeText` for what the upstream really sends).

| Model | Code |
|---|---|
| `Frame(ch)` (with `Cols`, `TagsText`) | the environment: the `XLogData` frame pgoutput sends for a change, built with Decoder's reference encoder; the tags column is a JSON array or an array literal (`TagsColumn`) |
| `ReceiveChange` | one iteration of the receive loop: Decoder's `handleCopyData` on the frame, then `handleInsert`/`handleUpdate`/`handleDelete` (`192-238`) calling `changeToRunState` and `UpdateRun`; a delete is marked `deleted` |
| `runFromColumns` | `changeToRunState` after it has chosen the column map (`336-372`): each field only when present, status as it is |
| `ParseUuid`, `ParseTime`, `ParseTags` | `uuid.Parse`, `time.Parse(time.RFC3339, ...)` and `json.Unmarshal` into `[]uuid.UUID`, each the inverse of its spelling table and falling back to the zero value (`uuid.Nil`, the zero time, nil tags) on failure |
| `Commit`, `Drained` | the environment: a transaction inserts, updates or deletes a run; the table takes no more commits and every one has been delivered |

`Promise == INSTANCE Mirror WITH ...` maps `log` to the WAL without the old tuples, `applied` to `pos`, and `store` to each stored run's env, tags, status and creation time (not its seq). `MirrorRefinement == Promise!FairSpec` is checked as a temporal property. The key set of the mapping includes `uuid.Nil`, so a change stored under the zero uuid breaks it.

Durability models the same receive loop over committed rows, and its `ExecResultRead` constant says how `startReplication` tests `conn.Exec`: `FALSE` is the code as written (it always fails), `TRUE` is the test reading the query's result, which every Durability run but `replication_never_starts` assumes so that the receive loop can be examined. Pipeline likewise assumes the loop runs.

### Admission.tla

`counter` is the Redis value. `phase[s]` is one request: `idle`, `denying` (INCR returned a value over the limit, DECR pending), `admitted` (filter not yet parsed), `serving`, or `done`. `via[s]` is history: admitted by a successful INCR, or by fail-open.
- `checkConcurrencyLimit` is INCR and the comparison.
- `Deny` is the DECR on the deny path; the client may already have gone.
- `ParseFilter` starts the stream, or answers 400 and runs the deferred DECR while the client waits.
- `Disconnect` is the select loop seeing `r.Context().Done()`; `WriteFails` is a failed `SendEvent` or `SendKeepAlive`, with the context cancelled or not.
- `decrementConcurrency(s, ctxDone)` is the deferred DECR; `DecrWith` does not send it under a cancelled context, and `Decr` lets a sent one fail silently.
- `Crash` ends every in-flight request without its DECR: a crash, or `main`'s shutdown, which waits 30 s for streams that never end by themselves and then returns.

## 4. Runs

| Run | Checks | Result |
|---|---|---|
| `stream_safety` | `TypeOK`, `IndexesConsistent`, `SubscriberCoverage` with 2 sessions racing updates | pass, about 2.6M states with connection symmetry |
| `stream_liveness` | `EventuallyUpToDate` under `FairSpec` | pass |
| `stream_monotonic` | `PerRecordMonotonic` (spec §8) | **violation**: connect, update (its delta is queued), read initial, push initial; the client then gets delta seq 1 followed by initial seq 1 |
| `pipeline_insert` | `MirrorRefinement`: three runs inserted through frame, decoder, coercions and `UpdateRun` | pass, 277 states |
| `pipeline_update` | `MirrorRefinement` with updates and deletes | **violation**: insert r1, update r1; the update decodes to an empty map and is stored under `uuid.Nil`, while r1 keeps its old row |
| `decoder_truncated` | `TruncatedFrameSkipped` over every prefix of every change frame | **violation**: a 4-byte change body makes `data[pos]` panic |
| `durability` | `IndexesConsistent`, `SequenceCoversRuns`, `CaughtUpHoldsInsertedRuns`, with a crash, transport errors, write failures and an unsynced rename | pass, about 38k states |
| `durability_regression` | `NoRegression` (spec §8) | **violation**: insert r1, delete r1, insert r1 again, all three applied and snapshotted; crash; restore (the second insert); the replay from the slot stores the first insert over it |
| `replication_never_starts` | `ReplicationResumes` with `ExecResultRead = FALSE` (the code as written) | **violation**: boot, commit, commit, `StartReplication` returns at the `Exec` test; no commit is ever applied |
| `durability_snapshot_gate` | `SnapshotEventuallyWritten` (spec §4.4) | **violation**: on a cold start `currentLSN` stays empty and no snapshot is ever written |
| `admission_drift_bound` | `CeilingUpToFailOpenDrift` with INCR and DECR failures and a crash | pass |
| `admission_disconnect_leak` | `DeniedOnlyWhenBusy`, with no Redis failure and no crash | **violation**: two streams end by their clients disconnecting, their DECRs are not sent, and the third request is denied with no stream open |

Main results:
- `SubscriberCoverage`: registering before reading the initial state loses no update. A subscriber that never lost an event to a full channel always holds, written, queued or still pending, the current version of every run its filter matches.
- `CaughtUpHoldsInsertedRuns`: because the slot is never acknowledged, every restart re-reads everything since the slot was made. A caught-up engine therefore holds, for every run inserted since then, the row of its latest insert, however crashes (including one that leaves an undecodable `snapshot.dat` and a cold start) and restores interleaved with snapshot writes. Updates and deletes are not claimed: they never reach their run (see `pipeline_update`). The same replay is what breaks `NoRegression`.
- The durability safety run seeds `snapshot.dat` with a valid, empty snapshot carrying an LSN. It is the only way the code's `currentLSN` gate ever opens, and the only way the restore path runs.

### Supplementary checks

These confirm further disagreements. Each cfg checks one property with TLC and is not one of the runs in `PROJECT.json`. The hazards list names them.

| cfg | Property | Result |
|---|---|---|
| `MCStream_tomb.cfg` | `TombstonesUnindexed` (spec §8) | violated: `UpdateRun` indexes a run whose status is `deleted` |
| `MCStream_overflow.cfg` | `OverflowEndsSubscription` (spec §3) | violated: a connection whose channel overflowed stays registered |
| `MCDecoder_empty.cfg` | `InsertRoundTrip` with the empty string among the values | violated: a trailing empty text column is dropped (`pos+4 >= len(data)`) |
| `MCDecoder.cfg`, `MCDecoder_update.cfg`, `MCDecoder_delete.cfg` | `InsertRoundTrip`, `UpdateRoundTrip`, `DeleteRoundTrip` of the decoder alone | pass; violated (updates decode to an empty map); violated (`K`/`O` tuples are not parsed, and `changeToRunState` prefers the empty non-nil `New` over `Old`) |
| `MCPipeline_delete.cfg` | `MirrorRefinement` with inserts and deletes | violated: the tombstone is stored under `uuid.Nil` and the deleted run stays live (spec scenario 4) |
| `MCPipeline_pgtime.cfg` | `MirrorRefinement` with `created_at` spelled as pgoutput sends a `timestamp(3)` | violated: `time.Parse(RFC3339)` fails and the run is stored with the zero creation time |
| `MCPipeline_arraytags.cfg` | `MirrorRefinement` with the tags column an array (`{a,b}`) | violated: `json.Unmarshal` fails and a tagged run is stored with no tags (spec §4.1 says both forms are accepted) |
| `MCDurability_unsynced.cfg` | `GoodSnapshotSurvivesCrash` | violated: a crash right after the unsynced rename leaves an undecodable `snapshot.dat` |
| `MCDurability_replstop.cfg` | `ReplicationResumes` | violated: after one transport error, replication never restarts |
| `MCDurability_preexisting.cfg` | `UpstreamMirrored` | violated: rows committed before the slot was created never reach the engine |
| `MCAdmission_failopen.cfg` | `CountedCeiling` | violated: a fail-open request's deferred DECR lowers the value, and then 3 requests are admitted by INCR under a limit of 2 |
| `MCAdmission_leak.cfg` | `DeniedOnlyWhenBusy` | violated: after a crash with requests in flight, requests are denied while none is admitted |

### Mutants

Every property of a passing run has a mutant in `PROJECT.json` that TLC kills:
- the ring trimmed one element late;
- `RemoveConnection` without its tag loop;
- the creation floor compared with `After`;
- a misplaced `return` in `sendInitialState`;
- the decoder's column bound checked with `>=` (killing `MirrorRefinement`: the tags column of a tagged insert is lost);
- a restore that skips the index rebuild;
- a restore that skips the sequence;
- replication resuming at the end of the WAL;
- the admission limit compared one too high.

### Bounds

- Stream:
  - 2 runs and 2 connections (1 for liveness); 2 environments, 1 tag, creation instants {0, 1}.
  - 3 rows; each filter matches some rows and misses others, and one row is a tombstone.
  - `MaxSeq` 3 (4 for liveness), `QueueCap` 2 (standing for 256), `RingCap` 1 (standing for 128).
  - A channel of 2 fills during priming: two matching runs plus one delta queued between registration and the read. Both drop paths are therefore reached.
- Decoder: values of length 1 and 2 and null, tuples of up to 2 columns, every insert, update (with no old tuple, a `K` tuple or an `O` tuple) and delete of those. The column loop is uniform in the column index.
- Durability:
  - 2 runs plus `uuid.Nil`, 2 rows that move a run between environments and tag sets, inserts, updates and deletes, a WAL of 2 commits, 1 crash.
  - `MaxSeq` 4, which covers a full replay after the crash.
  - The regression needs 3 commits to one run (insert, delete, insert) and 1 crash; the violation runs use 2 or 3 commits and up to 2 crashes.
- Pipeline: 3 runs plus `uuid.Nil`, 1 environment, 1 tag, one real instant, 2 rows (tagged `QUEUED`, untagged `EXECUTING`), a WAL of 3 commits, `MaxSeq` 3 (`MaxSeq >= MaxWal` is assumed, so sequence numbers never run out). Each update or delete failure shows at its first frame.
- Admission: 4 requests against a limit of 2 (symmetric). The drift needs 1 fail-open request and 3 later ones.

### Fairness

- Stream: weak fairness on `ReadInitial`, `PushInitial` and `Deliver` of each session. Once the goroutine is in the select loop, the event case is ready whenever the channel is non-empty. The other two steps never block, because their sends are non-blocking. Clients (`Connect`, `Exit`) and the upstream (`Apply`) get no fairness.
- Durability: weak fairness on the replication goroutine (`StartReplication`, `ReceiveChange`) and on the snapshot worker (`CopyState`, `WriteTemp`, `RenameSnapshot`). The worker is driven by a 30 s ticker for the life of the process, and the receive loop blocks only on the network. Commits, crashes, restarts, write-back and failures belong to the environment and get no fairness.
- Pipeline: weak fairness of `ReceiveChange`, for the same reason. It is written out as `[]<>~Deliverable \/ []<><<ReceiveChange>>_vars`: whole frames never panic and sequence numbers do not run out, so `ReceiveChange` is enabled exactly when a frame waits. Mirror's fairness is written the same way.

## 5. Not modelled

- `updated_at` and `Data`: `changeToRunState` never reads `updated_at` (it stamps `UpdatedAt` with `time.Now()`), and no property reads either.
- The database's WAL retention behind the never-acknowledged slot: outside the service.
- `ensurePublication` and `REPLICA IDENTITY FULL`: the publication is assumed to exist. Creating it has no state that any property reads.
- Health, configuration and SSE text framing: I/O only.
- `Data`, `UpdatedAt`, `LastEventID`: no behaviour depends on them, because the `last-event-id` resume is accepted but never used.
- Encoding and compression of the snapshot: abstracted to "decodes or not".
- Several service instances sharing one Redis counter: one process models the same interleavings of INCR and DECR.
