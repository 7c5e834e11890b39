------------------------------- MODULE Stream -------------------------------
(***************************************************************************)
(* The realtime service's streaming path: the replication goroutine calls *)
(* StateManager.UpdateRun, while one goroutine per HTTP subscriber runs    *)
(* Server.handleStream (src/apps/realtime-service/main.go).  A session     *)
(* registers its connection, then reads the matching runs under the read   *)
(* lock, then pushes them into its channel one by one WITHOUT the lock,    *)
(* then loops receiving from the channel and writing to the client.       *)
(* The steps of different goroutines interleave between lock holds.        *)
(***************************************************************************)
EXTENDS StateEngine, FiniteSetsExt

VARIABLES
    phase,    \* where each handleStream goroutine is
    pending,  \* the runs slice of sendInitialState not yet pushed
    seen      \* history: highest seq per run id written to the client

sessionVars == <<phase, pending, seen>>
vars == <<engineVars, sessionVars>>

Phases == {"idle", "registered", "priming", "streaming", "done"}

TypeOK ==
    /\ EngineTypeOK
    /\ phase \in [Conns -> Phases]
    /\ pending \in [Conns -> SUBSET Event]
    /\ seen \in [Conns -> [Ids -> 0..MaxSeq]]

Init ==
    /\ EngineInit
    /\ phase = [c \in Conns |-> "idle"]
    /\ pending = [c \in Conns |-> {}]
    /\ seen = [c \in Conns |-> [id \in Ids |-> 0]]

-----------------------------------------------------------------------------
(* The replication goroutine: each decoded insert, update or delete ends   *)
(* in UpdateRun (handleInsert/handleUpdate/handleDelete).  Which rows the  *)
(* decoder actually produces is the subject of the Decoder module; here    *)
(* any row of Rows may arrive for any id.                                  *)

Apply(id, row) ==
    /\ UpdateRun(id, row)
    /\ UNCHANGED sessionVars

-----------------------------------------------------------------------------
(* One handleStream goroutine.                                             *)

\* GET, admitted by the concurrency counter, filter parsed: NewConnection
\* and AddConnection under the write lock.
Connect(c, f) ==
    /\ phase[c] = "idle"
    /\ AddConnection(c, f)
    /\ phase' = [phase EXCEPT ![c] = "registered"]
    /\ UNCHANGED <<pending, seen>>

\* sendInitialState, first line: GetMatchingRuns under the read lock.  Each
\* initial event carries the run's Seq as read here.
ReadInitial(c) ==
    /\ phase[c] = "registered"
    /\ LET batch == {[id |-> id, seq |-> runs[id].seq, type |-> "initial"] :
                       id \in GetMatchingRuns(filter[c])}
       IN /\ pending' = [pending EXCEPT ![c] = batch]
          /\ phase' = [phase EXCEPT ![c] = IF batch = {} THEN "streaming" ELSE "priming"]
    /\ UNCHANGED <<engineVars, seen>>

\* Mutant: the return sits in the success branch, so only one run is sent.
PushInitialReturnEarly(c) ==
    /\ phase[c] = "priming"
    /\ \E e \in pending[c] :
         /\ events' = IF Len(events[c]) < QueueCap
                      THEN [events EXCEPT ![c] = Append(@, e)] ELSE events
         /\ pending' = [pending EXCEPT ![c] = {}]
         /\ phase' = [phase EXCEPT ![c] = "streaming"]
    /\ UNCHANGED <<runs, sequence, envIndex, tagIndex, connections, filter,
                   subByRun, subByEnv, subByTag, recentEvents, seen, dropped>>

\* sendInitialState, loop body: a non-blocking send of the next run (Go map
\* order, so any of them); on a full channel the function returns and the
\* rest of the initial state is never sent.
PushInitial(c) ==
    /\ phase[c] = "priming"
    /\ \E e \in pending[c] :
         IF Len(events[c]) < QueueCap
         THEN /\ events' = [events EXCEPT ![c] = Append(@, e)]
              /\ pending' = [pending EXCEPT ![c] = @ \ {e}]
              /\ phase' = [phase EXCEPT ![c] =
                             IF pending[c] = {e} THEN "streaming" ELSE "priming"]
              /\ UNCHANGED dropped
         ELSE /\ pending' = [pending EXCEPT ![c] = {}]
              /\ phase' = [phase EXCEPT ![c] = "streaming"]
              /\ dropped' = [dropped EXCEPT ![c] = TRUE]
              /\ UNCHANGED events
    /\ UNCHANGED <<runs, sequence, envIndex, tagIndex, connections, filter,
                   subByRun, subByEnv, subByTag, recentEvents, seen>>

\* The select loop, case event := <-conn.Events: SendEvent succeeds.
Deliver(c) ==
    /\ phase[c] = "streaming"
    /\ events[c] # <<>>
    /\ LET e == Head(events[c])
       IN seen' = [seen EXCEPT ![c][e.id] = IF e.seq > @ THEN e.seq ELSE @]
    /\ events' = [events EXCEPT ![c] = Tail(@)]
    /\ UNCHANGED <<runs, sequence, envIndex, tagIndex, connections, filter,
                   subByRun, subByEnv, subByTag, recentEvents, dropped,
                   phase, pending>>

\* The select loop returns: the request context is done, or a SendEvent or
\* SendKeepAlive write failed.  The deferred RemoveConnection unregisters.
Exit(c) ==
    /\ phase[c] = "streaming"
    /\ RemoveConnection(c)
    /\ phase' = [phase EXCEPT ![c] = "done"]
    /\ UNCHANGED <<pending, seen>>

\* The model's bounds are spent: no sequence number and no connection id
\* is left, so nothing more can happen.
BoundsExhausted ==
    /\ sequence = MaxSeq
    /\ \A c \in Conns : phase[c] = "done"
    /\ UNCHANGED vars

Next ==
    \/ \E id \in Ids, row \in Rows : Apply(id, row)
    \/ \E c \in Conns, f \in Filters : Connect(c, f)
    \/ \E c \in Conns : ReadInitial(c) \/ PushInitial(c) \/ Deliver(c) \/ Exit(c)
    \/ BoundsExhausted

\* A session goroutine that can run keeps running: reading the initial
\* state and pushing it never block, and the select loop takes a ready
\* event.  Clients (Connect, Exit) and the upstream (Apply) are not fair.
Fairness ==
    \A c \in Conns : /\ WF_vars(ReadInitial(c))
                     /\ WF_vars(PushInitial(c))
                     /\ WF_vars(Deliver(c))

Spec == Init /\ [][Next]_vars
FairSpec == Spec /\ Fairness

-----------------------------------------------------------------------------
(* Properties.                                                             *)

\* The spec's filter predicate (section 3), written from the spec's words.
SpecMatch(id, r, f) ==
    /\ f.runId \in {None, id}
    /\ f.envId \in {None, r.env}
    /\ f.created = None \/ r.created >= f.created
    /\ f.tags = {} \/ \E t \in f.tags : t \in r.tags

\* What the subscriber has, or is guaranteed to get, for a run: the highest
\* seq already written, still queued, or still to be pushed as initial.
Known(c, id) ==
    LET s == {seen[c][id]}
             \cup {events[c][i].seq : i \in {i \in DOMAIN events[c] : events[c][i].id = id}}
             \cup {e.seq : e \in {e \in pending[c] : e.id = id}}
    IN Max(s)

UpToDate(c) ==
    \A id \in Ids : runs[id] # None /\ SpecMatch(id, runs[id], filter[c]) =>
        seen[c][id] = runs[id].seq

\* Registering before reading the initial state loses nothing: once the
\* initial runs have been read, a subscriber that never had an event
\* dropped has, for every stored run its filter matches, the run's current
\* version written, queued or pending -- whatever UpdateRun calls ran
\* between AddConnection, GetMatchingRuns and the unlocked pushes.
SubscriberCoverage ==
    \A c \in Conns :
        phase[c] \in {"priming", "streaming"} /\ ~dropped[c] =>
            \A id \in Ids : runs[id] # None /\ SpecMatch(id, runs[id], filter[c]) =>
                Known(c, id) = runs[id].seq

\* A subscriber that keeps its connection and never loses an event to a
\* full channel eventually has written the current version of every run
\* its filter matches: priming finishes and the select loop drains.
EventuallyUpToDate ==
    \A c \in Conns :
        <>[](phase[c] \in {"registered", "priming", "streaming"} /\ ~dropped[c]
               => UpToDate(c))

\* Spec section 8: the seq values a subscriber sees for one run id are
\* strictly increasing -- every event written is newer than any earlier
\* one for that run.
PerRecordMonotonic ==
    [][\A c \in Conns :
         phase[c] = "streaming" /\ events[c] # <<>> /\ events' [c] = Tail(events[c])
            => Head(events[c]).seq > seen[c][Head(events[c]).id]]_vars

\* Spec section 3 (lifecycles): a subscriber is destroyed on disconnect or
\* on queue overflow -- no registered connection has ever lost an event to
\* a full channel.  broadcastUpdate and sendInitialState drop the event
\* and leave the connection registered.
OverflowEndsSubscription ==
    \A c \in connections : ~dropped[c]
=============================================================================
