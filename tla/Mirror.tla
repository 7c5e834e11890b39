------------------------------- MODULE Mirror -------------------------------
(***************************************************************************)
(* What the replication path promises the state engine (spec sections 4.1, *)
(* 4.2 and 4.5): the committed changes of the "TaskRun" table reach the    *)
(* record map one by one in commit order, each as the row it committed; a  *)
(* delete leaves a tombstone, the deleted row with status "deleted".  No   *)
(* other record is ever written.                                           *)
(***************************************************************************)
EXTENDS Naturals, Sequences

CONSTANTS
    Keys,      \* record ids
    Changes,   \* committed changes: [op, id, row]
    None       \* no record

VARIABLES
    log,       \* the committed changes, in commit order
    applied,   \* how many of them the record map reflects
    store      \* the record map: id -> row, or None

mvars == <<log, applied, store>>

Init ==
    /\ log = <<>>
    /\ applied = 0
    /\ store = [k \in Keys |-> None]

\* The table commits a change.
Commit(ch) ==
    /\ log' = Append(log, ch)
    /\ UNCHANGED <<applied, store>>

\* The next committed change reaches the record map.
Apply ==
    /\ applied < Len(log)
    /\ LET ch == log[applied + 1]
       IN store' = [store EXCEPT ![ch.id] =
                      IF ch.op = "DELETE" THEN [ch.row EXCEPT !.status = "deleted"]
                      ELSE ch.row]
    /\ applied' = applied + 1
    /\ UNCHANGED log

Next == (\E ch \in Changes : Commit(ch)) \/ Apply

Spec == Init /\ [][Next]_mvars

\* Apply is enabled exactly when a committed change is not yet applied.
Applicable == applied < Len(log)

\* Every committed change is eventually applied: weak fairness of Apply,
\* written out with its enabling condition.
FairSpec == Spec /\ ([]<>~Applicable \/ []<><<Apply>>_mvars)
=============================================================================
