------------------------------ MODULE Pipeline ------------------------------
(***************************************************************************)
(* The replication goroutine end to end, once its receive loop runs (see  *)
(* Durability for why, as written, it does not): every change committed   *)
(* to "TaskRun" arrives as the XLogData frame pgoutput sends for it        *)
(* (REPLICA IDENTITY FULL, so updates and deletes carry an 'O' tuple of    *)
(* the old row), is decoded by handleCopyData ... parseChangeMessage       *)
(* (Decoder), turned into a RunState by changeToRunState, and stored by    *)
(* UpdateRun.  Sources: src/apps/realtime-service/replication.go and       *)
(* state.go.                                                               *)
(*                                                                         *)
(* A column's text is a short byte sequence; which text stands for which  *)
(* uuid, status or instant is given by the tables below, and each parser  *)
(* accepts exactly the texts that spell a value the way it expects.        *)
(***************************************************************************)
EXTENDS StateEngine, SequencesExt

CONSTANTS
    NilId,        \* uuid.Nil among the run ids
    NilEnv,       \* uuid.Nil among the environment ids
    ZeroTime,     \* time.Time{} among the instants
    UuidText,     \* canonical text of every uuid (runs, environments, tags)
    StatusText,   \* text of every status
    Rfc3339Text,  \* RFC 3339 text of every instant but ZeroTime
    TimeText,     \* text the upstream sends for every instant but ZeroTime
    TagsColumn,   \* "json": the tags column holds a JSON array; "array": a uuid[]
    Null,         \* an 'n' column
    Unchanged,    \* a 'u' column
    Ops,          \* the kinds of change the table commits
    MaxWal        \* bound on the number of commits

ASSUME /\ NilId \in Ids /\ NilEnv \in Envs /\ ZeroTime \in Times
       /\ {"", "deleted"} \subseteq Statuses
       /\ TagsColumn \in {"json", "array"}
       /\ Ops \subseteq {"INSERT", "UPDATE", "DELETE"} /\ MaxWal \in Nat
       /\ MaxSeq >= MaxWal   \* UpdateRun never runs out of sequence numbers

RunIds == Ids \ {NilId}

VARIABLES
    table,   \* upstream: the committed row of every run id, or None
    wal,     \* upstream: committed changes [op, id, row, old], in LSN order
    pos      \* WAL entries the stream has delivered

pipeVars == <<table, wal, pos>>
vars == <<engineVars, pipeVars>>

-----------------------------------------------------------------------------
(* The upstream encoding.                                                  *)

Quote(x) == <<34>> \o UuidText[x] \o <<34>>

Joined(s, sep) ==
    FlattenSeq([i \in DOMAIN s |-> IF i = 1 THEN s[i] ELSE <<sep>> \o s[i]])

\* A JSON array of uuid strings, the tags in the order of s.
JsonArray(s) == <<91>> \o Joined([i \in DOMAIN s |-> Quote(s[i])], 44) \o <<93>>

\* A PostgreSQL array literal of uuids, as pgoutput sends a uuid[] column.
ArrayLiteral(s) == <<123>> \o Joined([i \in DOMAIN s |-> UuidText[s[i]]], 44) \o <<125>>

TagsText(ts) ==
    LET s == CHOOSE s \in SetToSeqs(ts) : TRUE
    IN IF TagsColumn = "json" THEN JsonArray(s) ELSE ArrayLiteral(s)

D == INSTANCE Decoder WITH Values <- {}, MaxCols <- 6, Truncate <- FALSE,
                           frame <- <<>>, sent <- None, outcome <- None

\* The columns of a "TaskRun" row in table order: id,
\* runtime_environment_id, status, created_at, updated_at, tags.
Cols(id, r) ==
    <<UuidText[id], UuidText[r.env], StatusText[r.status], TimeText[r.created],
      TimeText[r.created], TagsText(r.tags)>>

\* The CopyData payload pgoutput sends for a WAL entry.
Frame(ch) ==
    D!XLogData(D!EncodeChange(
        [op |-> ch.op,
         old |-> IF ch.op = "INSERT" THEN None
                 ELSE [marker |-> D!ByteO, cols |-> Cols(ch.id, ch.old)],
         new |-> IF ch.op = "DELETE" THEN <<>> ELSE Cols(ch.id, ch.row)]))

-----------------------------------------------------------------------------
(* changeToRunState's conversions.                                         *)

\* uuid.Parse: the uuid the text spells, else the error (the field stays
\* uuid.Nil).
ParseUuid(text, S, nil) ==
    IF \E x \in S : UuidText[x] = text THEN CHOOSE x \in S : UuidText[x] = text
    ELSE nil

\* time.Parse(time.RFC3339, ...): the instant, else created_at stays zero.
ParseTime(text) ==
    IF \E t \in DOMAIN Rfc3339Text : Rfc3339Text[t] = text
    THEN CHOOSE t \in DOMAIN Rfc3339Text : Rfc3339Text[t] = text
    ELSE ZeroTime

\* json.Unmarshal into []uuid.UUID: a JSON array of uuid strings in any
\* order, else the error and Tags stays nil.
ParseTags(text) ==
    IF \E ts \in SUBSET Tags : \E s \in SetToSeqs(ts) : JsonArray(s) = text
    THEN CHOOSE ts \in SUBSET Tags : \E s \in SetToSeqs(ts) : JsonArray(s) = text
    ELSE {}

Field(m, j, parse(_), zero) == IF j \in DOMAIN m THEN parse(m[j]) ELSE zero

\* changeToRunState, after choosing the column map: each field converted
\* on its own and left at its zero value when absent or unparsable; the
\* status string is taken as it is.
runFromColumns(m) ==
    [id |-> Field(m, 0, LAMBDA x : ParseUuid(x, Ids, NilId), NilId),
     env |-> Field(m, 1, LAMBDA x : ParseUuid(x, Envs, NilEnv), NilEnv),
     status |-> Field(m, 2, LAMBDA x : CHOOSE s \in Statuses : StatusText[s] = x, ""),
     created |-> Field(m, 3, ParseTime, ZeroTime),
     tags |-> Field(m, 5, ParseTags, {})]

-----------------------------------------------------------------------------

Init ==
    /\ EngineInit
    /\ table = [id \in RunIds |-> None]
    /\ wal = <<>>
    /\ pos = 0

\* A transaction on "TaskRun" inserts a new run, or updates or deletes an
\* existing one.
Commit(op, id, row) ==
    /\ Len(wal) < MaxWal
    /\ IF op = "INSERT" THEN table[id] = None ELSE table[id] # None
    /\ wal' = Append(wal, [op |-> op, id |-> id, old |-> table[id],
                           row |-> IF op = "DELETE" THEN table[id] ELSE row])
    /\ table' = [table EXCEPT ![id] = IF op = "DELETE" THEN None ELSE row]
    /\ UNCHANGED <<engineVars, pos>>

\* The receive loop takes the next frame: handleCopyData decodes it; an
\* insert, update or delete reaches changeToRunState and UpdateRun (a
\* delete marked "deleted" by handleDelete); anything else is skipped.
\* Whole frames never make the decoder panic.
ReceiveChange ==
    /\ pos < Len(wal)
    /\ LET out == D!handleCopyData(Frame(wal[pos + 1]))
           r == runFromColumns(out.data)
       IN /\ out.kind # "panic"
          /\ IF out.kind = "apply"
             THEN UpdateRun(r.id, [env |-> r.env, tags |-> r.tags, created |-> r.created,
                                   status |-> IF out.deleted THEN "deleted" ELSE r.status])
             ELSE UNCHANGED engineVars
    /\ pos' = pos + 1
    /\ UNCHANGED <<table, wal>>

\* The table takes no further commit and every one is delivered.
Drained ==
    /\ pos = Len(wal)
    /\ ~ENABLED (\E op \in Ops, id \in RunIds, row \in Rows : Commit(op, id, row))
    /\ UNCHANGED vars

Next ==
    \/ \E op \in Ops, id \in RunIds, row \in Rows : Commit(op, id, row)
    \/ ReceiveChange
    \/ Drained

Spec == Init /\ [][Next]_vars

\* A frame waits to be received.  Whole frames never panic the decoder and
\* sequence numbers never run out (MaxSeq >= MaxWal), so ReceiveChange is
\* enabled exactly when Deliverable holds.
Deliverable == pos < Len(wal)

\* The receive loop blocks only on the network: weak fairness of
\* ReceiveChange, written out with its enabling condition.
FairSpec == Spec /\ ([]<>~Deliverable \/ []<><<ReceiveChange>>_vars)

-----------------------------------------------------------------------------
(* Refinement.                                                             *)

View(r) == IF r = None THEN None
           ELSE [env |-> r.env, tags |-> r.tags, status |-> r.status, created |-> r.created]

Promise == INSTANCE Mirror WITH
    Keys <- Ids,
    Changes <- [op : Ops, id : Ids, row : Rows],
    log <- [i \in DOMAIN wal |-> [op |-> wal[i].op, id |-> wal[i].id, row |-> wal[i].row]],
    applied <- pos,
    store <- [id \in Ids |-> View(runs[id])]

\* The engine mirrors the table: the record map moves, one delivered change
\* at a time and in commit order, to the row each change committed (a
\* tombstone for a delete), no other record is written, and every commit
\* is eventually applied -- through the byte decoder, the column map and
\* the uuid, time and JSON conversions of changeToRunState.
MirrorRefinement == Promise!FairSpec
=============================================================================
