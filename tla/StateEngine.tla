---------------------------- MODULE StateEngine ----------------------------
(***************************************************************************)
(* The in-memory materialized state of the realtime service: StateManager *)
(* in src/apps/realtime-service/state.go.  Every public method takes the   *)
(* single RWMutex for its whole body, so each is one atomic step here.     *)
(*                                                                         *)
(* A record (RunState) is abstracted to its environment, tag set, status, *)
(* creation instant and sequence number; the opaque Data map and the       *)
(* UpdatedAt instant are left out (no filter or property reads them).      *)
(* A subscriber's channel (Connection.Events) is a bounded Sequence of     *)
(* events, written here by the fan-out and read by the session (Stream).   *)
(***************************************************************************)
EXTENDS Naturals, Sequences, FiniteSets

CONSTANTS
    Ids,        \* run ids (uuid.UUID keys of sm.runs)
    Envs,       \* runtime environment ids
    Tags,       \* tag ids
    Times,      \* creation instants, a finite set of naturals (ordered)
    Statuses,   \* status strings, including "deleted"
    Rows,       \* the decoded row contents the engine can be handed
    Filters,    \* StreamFilter values a subscriber can present
    Conns,      \* connection ids (uuid.New() in NewConnection)
    None,       \* absent value: nil pointer / missing map entry
    QueueCap,   \* capacity of Connection.Events (256 in NewConnection)
    RingCap,    \* length of a recentEvents ring (128 in broadcastUpdate)
    MaxSeq      \* bound on sm.sequence, to keep the model finite

ASSUME /\ Times \subseteq Nat
       /\ "deleted" \in Statuses
       /\ Rows \subseteq [env : Envs, tags : SUBSET Tags, status : Statuses,
                          created : Times]
       /\ Filters \subseteq [runId : Ids \cup {None}, envId : Envs \cup {None},
                             tags : SUBSET Tags, created : Times \cup {None}]
       /\ QueueCap \in Nat \ {0} /\ RingCap \in Nat \ {0} /\ MaxSeq \in Nat

VARIABLES
    runs,          \* sm.runs: id -> RunState, or None when absent
    sequence,      \* sm.sequence
    envIndex,      \* sm.envIndex: env -> set of run ids
    tagIndex,      \* sm.tagIndex: tag -> set of run ids
    connections,   \* DOMAIN of sm.connections
    filter,        \* Connection.Filter of each connection
    subByRun,      \* sm.subByRun: run id -> set of connection ids
    subByEnv,      \* sm.subByEnv: env -> set of connection ids
    subByTag,      \* sm.subByTag: tag -> set of connection ids
    recentEvents,  \* sm.recentEvents: run id -> Seq of delta sequence numbers
    events,        \* Connection.Events: conn -> Seq of queued events
    dropped        \* history: an event meant for conn was dropped (queue full)

engineVars == <<runs, sequence, envIndex, tagIndex, connections, filter,
                subByRun, subByEnv, subByTag, recentEvents, events, dropped>>

RunState == [env : Envs, tags : SUBSET Tags, status : Statuses,
             created : Times, seq : 1..MaxSeq]

Event == [id : Ids, seq : 1..MaxSeq, type : {"initial", "delta"}]

EngineTypeOK ==
    /\ runs \in [Ids -> RunState \cup {None}]
    /\ sequence \in 0..MaxSeq
    /\ envIndex \in [Envs -> SUBSET Ids]
    /\ tagIndex \in [Tags -> SUBSET Ids]
    /\ connections \in SUBSET Conns
    /\ filter \in [Conns -> Filters \cup {None}]
    /\ subByRun \in [Ids -> SUBSET Conns]
    /\ subByEnv \in [Envs -> SUBSET Conns]
    /\ subByTag \in [Tags -> SUBSET Conns]
    /\ recentEvents \in [Ids -> Seq(1..MaxSeq)]
    /\ \A id \in Ids : Len(recentEvents[id]) <= RingCap
    /\ events \in [Conns -> Seq(Event)]
    /\ dropped \in [Conns -> BOOLEAN]

EngineInit ==   \* NewStateManager: every map empty, sequence 0
    /\ runs = [id \in Ids |-> None]
    /\ sequence = 0
    /\ envIndex = [e \in Envs |-> {}]
    /\ tagIndex = [t \in Tags |-> {}]
    /\ connections = {}
    /\ filter = [c \in Conns |-> None]
    /\ subByRun = [id \in Ids |-> {}]
    /\ subByEnv = [e \in Envs |-> {}]
    /\ subByTag = [t \in Tags |-> {}]
    /\ recentEvents = [id \in Ids |-> <<>>]
    /\ events = [c \in Conns |-> <<>>]
    /\ dropped = [c \in Conns |-> FALSE]

-----------------------------------------------------------------------------
(* Helpers, each the body of one unexported method.                        *)

\* Mutant: the creation floor compared with After instead of !Before.
matchesFilterAfter(id, run, f) ==
    /\ f.runId = None \/ f.runId = id
    /\ f.envId = None \/ f.envId = run.env
    /\ f.created = None \/ run.created > f.created
    /\ f.tags = {} \/ f.tags \cap run.tags # {}

\* matchesFilter: every set field of the filter must agree with the run; a
\* run created strictly before the floor is rejected (CreatedAt.Before); a
\* non-empty tag list needs one tag in common.
matchesFilter(id, run, f) ==
    /\ f.runId = None \/ f.runId = id
    /\ f.envId = None \/ f.envId = run.env
    /\ f.created = None \/ ~(run.created < f.created)
    /\ f.tags = {} \/ f.tags \cap run.tags # {}

\* removeFromIndexes: drop id from its env's and its tags' index entries
\* (a Go map entry left empty is deleted, i.e. the empty set here).
removeFromIndexes(idx, tidx, id, run) ==
    <<[idx EXCEPT ![run.env] = @ \ {id}],
      [t \in Tags |-> IF t \in run.tags THEN tidx[t] \ {id} ELSE tidx[t]]>>

\* addToIndexes: put id under its env and under each of its tags.
addToIndexes(idx, tidx, id, run) ==
    <<[idx EXCEPT ![run.env] = @ \cup {id}],
      [t \in Tags |-> IF t \in run.tags THEN tidx[t] \cup {id} ELSE tidx[t]]>>

\* Mutant: the ring is trimmed only once it is over capacity.
pushRingLate(ring, s) ==
    Append(IF Len(ring) > RingCap THEN Tail(ring) ELSE ring, s)

\* The ring update of broadcastUpdate: drop the oldest when full, append.
pushRing(ring, s) ==
    Append(IF Len(ring) >= RingCap THEN Tail(ring) ELSE ring, s)

\* broadcastUpdate's fan-out: a non-blocking send to every registered
\* connection whose filter matches; a full channel drops the event
\* (select ... default), which the history variable dropped records.
Matched(id, run) == {c \in connections : matchesFilter(id, run, filter[c])}

broadcastUpdate(id, run) ==
    LET ev == [id |-> id, seq |-> run.seq, type |-> "delta"]
        full(c) == Len(events[c]) >= QueueCap
    IN /\ recentEvents' = [recentEvents EXCEPT ![id] = pushRing(@, run.seq)]
       /\ events' = [c \in Conns |->
                       IF c \in Matched(id, run) /\ ~full(c)
                       THEN Append(events[c], ev) ELSE events[c]]
       /\ dropped' = [c \in Conns |->
                        dropped[c] \/ (c \in Matched(id, run) /\ full(c))]

\* GetMatchingRuns (under the read lock): ids of the stored runs that match.
GetMatchingRuns(f) == {id \in Ids : runs[id] # None /\ matchesFilter(id, runs[id], f)}

-----------------------------------------------------------------------------
(* Public operations.                                                      *)

\* UpdateRun: number the run, move it in the indexes, store it, fan it out.
UpdateRun(id, row) ==
    /\ sequence < MaxSeq
    /\ LET run == [env |-> row.env, tags |-> row.tags, status |-> row.status,
                   created |-> row.created, seq |-> sequence + 1]
           old == runs[id]
           cleared == IF old = None THEN <<envIndex, tagIndex>>
                      ELSE removeFromIndexes(envIndex, tagIndex, id, old)
           added == addToIndexes(cleared[1], cleared[2], id, run)
       IN /\ sequence' = sequence + 1
          /\ runs' = [runs EXCEPT ![id] = run]
          /\ envIndex' = added[1]
          /\ tagIndex' = added[2]
          /\ broadcastUpdate(id, run)
    /\ UNCHANGED <<connections, filter, subByRun, subByEnv, subByTag>>

\* RemoveRun: forget a stored run, its index entries and its ring.  Nothing
\* in the program calls it (spec section 3 allows an out-of-band pruner), so
\* no specification of this project takes this step.
RemoveRun(id) ==
    /\ runs[id] # None
    /\ LET cleared == removeFromIndexes(envIndex, tagIndex, id, runs[id])
       IN /\ envIndex' = cleared[1]
          /\ tagIndex' = cleared[2]
    /\ runs' = [runs EXCEPT ![id] = None]
    /\ recentEvents' = [recentEvents EXCEPT ![id] = <<>>]
    /\ UNCHANGED <<sequence, connections, filter, subByRun, subByEnv,
                   subByTag, events, dropped>>

\* NewConnection + AddConnection: a fresh connection with an empty channel
\* is registered and entered in the subscription indexes of its filter.
AddConnection(c, f) ==
    /\ filter[c] = None
    /\ connections' = connections \cup {c}
    /\ filter' = [filter EXCEPT ![c] = f]
    /\ subByRun' = IF f.runId = None THEN subByRun
                   ELSE [subByRun EXCEPT ![f.runId] = @ \cup {c}]
    /\ subByEnv' = IF f.envId = None THEN subByEnv
                   ELSE [subByEnv EXCEPT ![f.envId] = @ \cup {c}]
    /\ subByTag' = [t \in Tags |-> IF t \in f.tags THEN subByTag[t] \cup {c}
                                   ELSE subByTag[t]]
    /\ UNCHANGED <<runs, sequence, envIndex, tagIndex, recentEvents, events,
                   dropped>>

\* Mutant: the loop over conn.Filter.Tags is missing.
RemoveConnectionKeepTags(c) ==
    LET f == filter[c] IN
    /\ c \in connections
    /\ connections' = connections \ {c}
    /\ subByRun' = IF f.runId = None THEN subByRun
                   ELSE [subByRun EXCEPT ![f.runId] = @ \ {c}]
    /\ subByEnv' = IF f.envId = None THEN subByEnv
                   ELSE [subByEnv EXCEPT ![f.envId] = @ \ {c}]
    /\ UNCHANGED <<runs, sequence, envIndex, tagIndex, filter, recentEvents,
                   events, dropped, subByTag>>

\* RemoveConnection: unregister and leave the subscription indexes.
RemoveConnection(c) ==
    LET f == filter[c] IN
    /\ c \in connections
    /\ connections' = connections \ {c}
    /\ subByRun' = IF f.runId = None THEN subByRun
                   ELSE [subByRun EXCEPT ![f.runId] = @ \ {c}]
    /\ subByEnv' = IF f.envId = None THEN subByEnv
                   ELSE [subByEnv EXCEPT ![f.envId] = @ \ {c}]
    /\ subByTag' = [t \in Tags |-> IF t \in f.tags THEN subByTag[t] \ {c}
                                   ELSE subByTag[t]]
    /\ UNCHANGED <<runs, sequence, envIndex, tagIndex, filter, recentEvents,
                   events, dropped>>

-----------------------------------------------------------------------------
(* Properties.                                                             *)

\* Every index is exactly what the stored runs and the registered filters
\* say it should be: after any series of UpdateRun calls that move a run
\* between environments or tag sets, and any RemoveRun, envIndex and
\* tagIndex hold each stored run under its current env and tags only; and
\* after any series of AddConnection/RemoveConnection the subscription
\* indexes hold exactly the registered connections' filter keys.
IndexesConsistent ==
    /\ \A e \in Envs : envIndex[e] = {id \in Ids : runs[id] # None /\ runs[id].env = e}
    /\ \A t \in Tags : tagIndex[t] = {id \in Ids : runs[id] # None /\ t \in runs[id].tags}
    /\ \A id \in Ids : subByRun[id] = {c \in connections : filter[c].runId = id}
    /\ \A e \in Envs : subByEnv[e] = {c \in connections : filter[c].envId = e}
    /\ \A t \in Tags : subByTag[t] = {c \in connections : t \in filter[c].tags}

\* Spec section 8: a tombstone (status "deleted") is in neither the env
\* index nor any tag index, while every live run is in both.  UpdateRun
\* indexes whatever it stores, tombstones included.
TombstonesUnindexed ==
    \A id \in Ids : runs[id] # None =>
        LET r == runs[id]
            indexed == id \in envIndex[r.env] /\ \A t \in r.tags : id \in tagIndex[t]
            unindexed == id \notin envIndex[r.env] /\ \A t \in r.tags : id \notin tagIndex[t]
        IN IF r.status = "deleted" THEN unindexed ELSE indexed
=============================================================================
