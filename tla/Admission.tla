------------------------------ MODULE Admission ------------------------------
(***************************************************************************)
(* Admission control of handleStream (src/apps/realtime-service/main.go): *)
(* checkConcurrencyLimit increments the shared Redis key                  *)
(* realtime:connections and denies (after a decrement) when the new value *)
(* is over ConcurrencyLimit; an admitted request's deferred                *)
(* decrementConcurrency decrements it on every way out of handleStream.    *)
(* Each Redis command is atomic on the server; the goroutines of several   *)
(* requests interleave between commands.  A Redis command may fail, and   *)
(* the process may crash with requests in flight.  Both commands run with  *)
(* r.Context(), which net/http cancels when the client goes away; go-redis *)
(* v9 then returns ctx.Err() before sending the command.                   *)
(***************************************************************************)
EXTENDS Integers, FiniteSets

CONSTANTS
    Sessions,      \* HTTP requests to /v1/runs/stream
    Limit,         \* config.ConcurrencyLimit
    IncrFailures,  \* TRUE: INCR may fail
    DecrFailures,  \* TRUE: DECR may fail
    MaxCrashes     \* bound on process crashes

ASSUME Limit \in Nat \ {0} /\ IncrFailures \in BOOLEAN /\ DecrFailures \in BOOLEAN
       /\ MaxCrashes \in Nat

VARIABLES
    counter,     \* the Redis value of realtime:connections
    phase,       \* request: "idle", "denying", "admitted", "serving", "done"
    via,         \* history: how the request was admitted: "incr", "failopen"
    crashes      \* crashes so far

vars == <<counter, phase, via, crashes>>

Init ==
    /\ counter = 0
    /\ phase = [s \in Sessions |-> "idle"]
    /\ via = [s \in Sessions |-> "none"]
    /\ crashes = 0

\* A DECR that may fail: the error is logged and the value stays.
Decr(n) == IF DecrFailures THEN {n - 1, n} ELSE {n - 1}

\* A DECR under the request's context: never sent once it is cancelled.
DecrWith(n, ctxDone) == IF ctxDone THEN {n} ELSE Decr(n)

\* Mutant: the post-increment value is compared one too high.
checkConcurrencyLimitLoose(s) ==
    /\ phase[s] = "idle"
    /\ \/ /\ counter' = counter + 1
          /\ IF counter + 1 > Limit + 1
             THEN phase' = [phase EXCEPT ![s] = "denying"] /\ UNCHANGED via
             ELSE /\ phase' = [phase EXCEPT ![s] = "admitted"]
                  /\ via' = [via EXCEPT ![s] = "incr"]
       \/ /\ IncrFailures
          /\ phase' = [phase EXCEPT ![s] = "admitted"]
          /\ via' = [via EXCEPT ![s] = "failopen"]
          /\ UNCHANGED counter
    /\ UNCHANGED crashes

\* checkConcurrencyLimit: INCR; over the limit, go on to the DECR and deny;
\* otherwise admit.  A failed INCR admits (fail-open) and leaves the value.
checkConcurrencyLimit(s) ==
    /\ phase[s] = "idle"
    /\ \/ /\ counter' = counter + 1
          /\ IF counter + 1 > Limit
             THEN phase' = [phase EXCEPT ![s] = "denying"] /\ UNCHANGED via
             ELSE /\ phase' = [phase EXCEPT ![s] = "admitted"]
                  /\ via' = [via EXCEPT ![s] = "incr"]
       \/ /\ IncrFailures
          /\ phase' = [phase EXCEPT ![s] = "admitted"]
          /\ via' = [via EXCEPT ![s] = "failopen"]
          /\ UNCHANGED counter
    /\ UNCHANGED crashes

\* checkConcurrencyLimit, over the limit: DECR (its error ignored), then
\* handleStream answers 429.  The client may already have gone.
Deny(s) ==
    /\ phase[s] = "denying"
    /\ \E ctxDone \in BOOLEAN : counter' \in DecrWith(counter, ctxDone)
    /\ phase' = [phase EXCEPT ![s] = "done"]
    /\ UNCHANGED <<via, crashes>>

\* handleStream returns after admission and its deferred
\* decrementConcurrency runs DECR under the request's context.
decrementConcurrency(s, ctxDone) ==
    /\ counter' \in DecrWith(counter, ctxDone)
    /\ phase' = [phase EXCEPT ![s] = "done"]
    /\ UNCHANGED <<via, crashes>>

\* The filter parameter is parsed: a valid one starts the stream, an
\* invalid one is answered 400 while the client still waits.
ParseFilter(s) ==
    /\ phase[s] = "admitted"
    /\ \/ phase' = [phase EXCEPT ![s] = "serving"] /\ UNCHANGED <<counter, via, crashes>>
       \/ decrementConcurrency(s, FALSE)

\* The select loop sees r.Context().Done(): the client has disconnected,
\* which is how an event stream normally ends.
Disconnect(s) ==
    /\ phase[s] = "serving"
    /\ decrementConcurrency(s, TRUE)

\* SendEvent or SendKeepAlive fails; the peer may or may not have been
\* seen to go away yet.
WriteFails(s) ==
    /\ phase[s] = "serving"
    /\ \E ctxDone \in BOOLEAN : decrementConcurrency(s, ctxDone)

InFlight == {"denying", "admitted", "serving"}

\* The process dies with requests in flight, by a crash or by main's
\* shutdown: srv.Shutdown waits up to 30 s for handlers that an event
\* stream never ends by itself, then main returns.  Those requests end
\* without their DECR; the Redis value is shared and survives.  New
\* requests reach the restarted process.
Crash ==
    /\ crashes < MaxCrashes
    /\ \E s \in Sessions : phase[s] \in InFlight
    /\ phase' = [s \in Sessions |-> IF phase[s] \in InFlight THEN "done" ELSE phase[s]]
    /\ crashes' = crashes + 1
    /\ UNCHANGED <<counter, via>>

\* Every request has been answered.
AllAnswered ==
    /\ \A s \in Sessions : phase[s] = "done"
    /\ UNCHANGED vars

Next ==
    \/ \E s \in Sessions : \/ checkConcurrencyLimit(s) \/ Deny(s) \/ ParseFilter(s)
                          \/ Disconnect(s) \/ WriteFails(s)
    \/ Crash
    \/ AllAnswered

Spec == Init /\ [][Next]_vars

-----------------------------------------------------------------------------
(* Properties.                                                             *)

Holding == {s \in Sessions : phase[s] \in InFlight}

AdmittedByIncr == {s \in Sessions : phase[s] \in {"admitted", "serving"} /\ via[s] = "incr"}

\* The ceiling: at no time are more than ConcurrencyLimit requests
\* admitted by the counter, whatever the interleaving of INCR and DECR of
\* concurrent requests (spec section 6).
CountedCeiling == Cardinality(AdmittedByIncr) <= Limit

\* How far the ceiling can drift: requests admitted by the counter exceed
\* ConcurrencyLimit by at most the number of fail-open requests that have
\* finished (their deferred DECR takes back a unit they never added).  Lost
\* DECRs, cancelled contexts and crashes only make the counter stricter.
CeilingUpToFailOpenDrift ==
    Cardinality(AdmittedByIncr)
        <= Limit + Cardinality({s \in Sessions : via[s] = "failopen" /\ phase[s] = "done"})

\* Spec section 5: admission caps concurrent subscribers.  A request is
\* denied only while another request holds a unit of the counter.  The
\* unit of a stream that ended by its client disconnecting is never given
\* back (the deferred DECR runs under the cancelled request context), nor
\* are the units of requests in flight when the process ends.
DeniedOnlyWhenBusy ==
    [][\A s \in Sessions :
         phase[s] = "idle" /\ phase'[s] = "denying" => Holding \ {s} # {}]_vars
=============================================================================
