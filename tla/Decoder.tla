------------------------------ MODULE Decoder ------------------------------
(***************************************************************************)
(* The wire decoder of the replication goroutine: ReplicationManager's    *)
(* handleCopyData, handleXLogData, parseLogicalMessage, handleInsert,      *)
(* handleUpdate, handleDelete, parseChangeMessage and the column-map       *)
(* choice of changeToRunState (src/apps/realtime-service/replication.go). *)
(*                                                                         *)
(* Frames are byte sequences (naturals < 256; Go's 0-based data[pos] is    *)
(* At(data, pos)).  A reference encoder builds the frames pgoutput         *)
(* protocol version 1 sends for inserts, updates and deletes; the decoder  *)
(* is checked against what those frames carry.  The loop of the           *)
(* replication goroutine receives one frame, handles it, and receives the  *)
(* next, unless handling panicked, which ends the process.                 *)
(***************************************************************************)
EXTENDS Naturals, Sequences, SequencesExt, TLC

CONSTANTS
    Values,    \* text column values: byte sequences
    MaxCols,   \* most columns in a tuple
    Truncate,  \* TRUE: also receive every prefix of every change frame
    Null,      \* an 'n' column of a tuple
    Unchanged, \* a 'u' column (an unchanged TOASTed value)
    None       \* absent value (nil map, no change, no outcome)

ASSUME /\ Values \subseteq Seq(0..255)
       /\ MaxCols \in 0..6
       /\ Truncate \in BOOLEAN

\* Byte values of the protocol's tags.
ByteW == 119   ByteK == 107   ByteB == 66    ByteC == 67
ByteI == 73    ByteU == 85    ByteD == 68    ByteR == 82
ByteN == 78    ByteO == 79    ByteKey == 75
ByteNull == 110   ByteToast == 117   ByteText == 116

At(data, pos) == data[pos + 1]
Drop(data, k) == SubSeq(data, k + 1, Len(data))   \* Go's data[k:]
U16(data, pos) == At(data, pos) * 256 + At(data, pos + 1)
U32(data, pos) ==
    ((At(data, pos) * 256 + At(data, pos + 1)) * 256 + At(data, pos + 2)) * 256
        + At(data, pos + 3)

\* What handling one frame leads to: nothing (ignored), a logged error, a
\* panic of the goroutine, or UpdateRun with a run built from a column map.
Outcome(kind, data, deleted) == [kind |-> kind, data |-> data, deleted |-> deleted]
Ignored == Outcome("ignored", <<>>, FALSE)
Failed == Outcome("error", <<>>, FALSE)
Panic == Outcome("panic", <<>>, FALSE)

-----------------------------------------------------------------------------
(* The decoder.                                                            *)

\* Mutant: the body bound is checked with >= instead of >.
ParseColsTight(data, pos, i, numCols, acc) ==
    LET RECURSIVE Loop(_, _, _)
        Loop(p, j, m) ==
            IF j >= numCols \/ p >= Len(data) THEN m
            ELSE IF At(data, p) = ByteNull THEN Loop(p + 1, j + 1, m)
            ELSE IF p + 1 + 4 >= Len(data) THEN m
            ELSE LET colLen == U32(data, p + 1)
                     q == p + 5
                 IN IF q + colLen >= Len(data) THEN m
                    ELSE Loop(q + colLen, j + 1,
                              IF j <= 5 THEN (j :> SubSeq(data, q + 1, q + colLen)) @@ m
                              ELSE m)
    IN Loop(pos, i, acc)

\* The column loop of parseChangeMessage.  Column j (0-based) is read at
\* byte pos: 'n' has no body; any other tag is followed by a 4-byte length
\* and the text; a short frame ends the loop.  Columns 0..5 are kept
\* (id, runtime_environment_id, status, created_at, updated_at, tags).
RECURSIVE ParseCols(_, _, _, _, _)
ParseCols(data, pos, i, numCols, acc) ==
    IF i >= numCols \/ pos >= Len(data) THEN acc
    ELSE IF At(data, pos) = ByteNull THEN ParseCols(data, pos + 1, i + 1, numCols, acc)
    ELSE IF pos + 1 + 4 >= Len(data) THEN acc
    ELSE LET colLen == U32(data, pos + 1)
             q == pos + 5
         IN IF q + colLen > Len(data) THEN acc
            ELSE ParseCols(data, q + colLen, i + 1, numCols,
                           IF i <= 5 THEN (i :> SubSeq(data, q + 1, q + colLen)) @@ acc
                           ELSE acc)

\* parseChangeMessage: New and Old start as empty (non-nil) maps.  After
\* the relation id (and, for UPDATE, one skipped byte) the tuple tag is
\* read without a length check; only an 'N' tuple is parsed, and its
\* columns go to Old for DELETE and to New otherwise.
parseChangeMessage(op, data) ==
    LET empty == [new |-> <<>>, old |-> <<>>, panic |-> FALSE]
        tagPos == 4 + (IF op = "UPDATE" THEN 1 ELSE 0)
        colsAt(p) == ParseCols(data, p + 2, 0, U16(data, p), <<>>)
    IN IF Len(data) < 4 THEN empty
       ELSE IF tagPos >= Len(data) THEN [empty EXCEPT !.panic = TRUE]
       ELSE IF At(data, tagPos) # ByteN THEN empty
       ELSE IF tagPos + 1 + 2 >= Len(data) THEN empty
       ELSE IF op = "DELETE" THEN [empty EXCEPT !.old = colsAt(tagPos + 1)]
       ELSE [empty EXCEPT !.new = colsAt(tagPos + 1)]

\* changeToRunState's choice of column map: New unless nil, else Old.
changeToRunState(change) ==
    IF change.new # None THEN change.new
    ELSE IF change.old # None THEN change.old
    ELSE None

\* handleInsert / handleUpdate / handleDelete: parse, build the run, and
\* call UpdateRun; handleDelete only if Old is non-nil, and marks the run
\* deleted.
handleChange(op, data) ==
    LET change == parseChangeMessage(op, data)
        row == changeToRunState(change)
    IN IF change.panic THEN Panic
       ELSE IF row = None THEN Failed
       ELSE IF op = "DELETE" /\ change.old = None THEN Ignored
       ELSE Outcome("apply", row, op = "DELETE")

\* parseLogicalMessage: dispatch on the message tag; B, C and unknown tags
\* are ignored.
parseLogicalMessage(data) ==
    IF data = <<>> THEN Ignored
    ELSE CASE At(data, 0) = ByteI -> handleChange("INSERT", Tail(data))
           [] At(data, 0) = ByteU -> handleChange("UPDATE", Tail(data))
           [] At(data, 0) = ByteD -> handleChange("DELETE", Tail(data))
           [] OTHER -> Ignored

\* handleXLogData: skip the 24-byte header, or fail on a shorter frame.
handleXLogData(data) ==
    IF Len(data) < 24 THEN Failed ELSE parseLogicalMessage(Drop(data, 24))

\* handleCopyData: 'w' is XLogData, 'k' a keepalive (answered, no state).
handleCopyData(data) ==
    IF data = <<>> THEN Ignored
    ELSE IF At(data, 0) = ByteW THEN handleXLogData(Tail(data))
    ELSE Ignored

-----------------------------------------------------------------------------
(* Reference: the pgoutput (protocol 1) encoding of change messages.       *)

BigEndian(n, k) == [i \in 1..k |-> (n \div (256 ^ (k - i))) % 256]

EncodeColumn(v) ==
    CASE v = Null -> <<ByteNull>>
      [] v = Unchanged -> <<ByteToast>>
      [] OTHER -> <<ByteText>> \o BigEndian(Len(v), 4) \o v

TupleData(cols) ==
    BigEndian(Len(cols), 2) \o FlattenSeq([i \in DOMAIN cols |-> EncodeColumn(cols[i])])

RelationId == BigEndian(16385, 4)

\* A change: op, the old tuple (None, or a key/old marker with columns) and
\* the new tuple.
EncodeChange(ch) ==
    LET oldPart == IF ch.old = None THEN <<>>
                   ELSE <<ch.old.marker>> \o TupleData(ch.old.cols)
    IN CASE ch.op = "INSERT" -> <<ByteI>> \o RelationId \o <<ByteN>> \o TupleData(ch.new)
         [] ch.op = "UPDATE" -> <<ByteU>> \o RelationId \o oldPart \o <<ByteN>> \o TupleData(ch.new)
         [] ch.op = "DELETE" -> <<ByteD>> \o RelationId \o oldPart

XLogData(msg) == <<ByteW>> \o [i \in 1..24 |-> 0] \o msg
Keepalive == <<ByteK>> \o [i \in 1..17 |-> 0]

\* The column map a decoder must hand on: text columns 0..5 by position.
Columns(cols) ==
    [j \in {j \in 0..5 : j < Len(cols) /\ cols[j + 1] \notin {Null, Unchanged}} |-> cols[j + 1]]

Expected(ch) == Columns(IF ch.op = "DELETE" THEN ch.old.cols ELSE ch.new)

Tuples(vals) == UNION {[1..k -> vals] : k \in 0..MaxCols}
OldTuples == [marker : {ByteKey, ByteO}, cols : Tuples(Values \cup {Null})]

Changes ==
    [op : {"INSERT"}, old : {None}, new : Tuples(Values \cup {Null})]
    \cup [op : {"UPDATE"}, old : OldTuples \cup {None},
          new : Tuples(Values \cup {Null, Unchanged})]
    \cup [op : {"DELETE"}, old : OldTuples, new : {<<>>}]

\* The frames the goroutine can receive, each with the change it carries.
Inputs ==
    UNION {{[bytes |-> XLogData(SubSeq(EncodeChange(ch), 1, k)),
             change |-> IF k = Len(EncodeChange(ch)) THEN ch ELSE None] :
               k \in IF Truncate THEN 0..Len(EncodeChange(ch))
                     ELSE {Len(EncodeChange(ch))}} :
            ch \in Changes}
    \cup {[bytes |-> f, change |-> None] :
            f \in {XLogData(<<ByteB>>), XLogData(<<ByteC>>), XLogData(<<ByteR>>),
                   Keepalive, <<ByteW, 0>>}}

-----------------------------------------------------------------------------
(* The receive loop of startReplication.                                   *)

VARIABLES
    frame,    \* the CopyData payload just received
    sent,     \* history: the change the frame encodes (None if none)
    outcome   \* what handling it led to (None until handled)

vars == <<frame, sent, outcome>>

Init ==
    /\ \E in \in Inputs : frame = in.bytes /\ sent = in.change
    /\ outcome = None

\* handleMessage(CopyData) on the received frame.
Handle ==
    /\ outcome = None
    /\ outcome' = handleCopyData(frame)
    /\ UNCHANGED <<frame, sent>>

\* ReceiveMessage: the next frame, unless the goroutine panicked.
Receive ==
    /\ outcome # None
    /\ outcome.kind # "panic"
    /\ \E in \in Inputs : frame' = in.bytes /\ sent' = in.change
    /\ outcome' = None

Next == Handle \/ Receive

Spec == Init /\ [][Next]_vars

-----------------------------------------------------------------------------
(* Properties.                                                             *)

Handled(op) == outcome # None /\ sent # None /\ sent.op = op

\* An insert frame pgoutput sends reaches UpdateRun with exactly its text
\* columns: the column loop's tag, length and bounds handling loses and
\* misplaces nothing.
InsertRoundTrip ==
    Handled("INSERT") => outcome = Outcome("apply", Expected(sent), FALSE)

\* An update frame reaches UpdateRun with its new tuple's text columns.
UpdateRoundTrip ==
    Handled("UPDATE") => outcome = Outcome("apply", Expected(sent), FALSE)

\* A delete frame (REPLICA IDENTITY FULL: an 'O' tuple) reaches UpdateRun
\* as a tombstone carrying the old tuple's columns (spec section 4.1).
DeleteRoundTrip ==
    Handled("DELETE") => outcome = Outcome("apply", Expected(sent), TRUE)

\* Spec section 4.1: a short or truncated frame is logged and skipped; the
\* goroutine never panics on one.
TruncatedFrameSkipped ==
    outcome # None => outcome.kind # "panic"
=============================================================================
