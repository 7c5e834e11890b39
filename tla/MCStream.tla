------------------------------ MODULE MCStream ------------------------------
(* Two subscribers and two runs for TLC.                                   *)
EXTENDS Stream, TLC

CONSTANTS r1, r2, e1, e2, t1, c1, c2

MCIds == {r1, r2}
MCEnvs == {e1, e2}
MCTags == {t1}
MCTimes == {0, 1}
MCStatuses == {"QUEUED", "EXECUTING", "deleted"}

\* Every filter below matches some rows and misses others, so a run can
\* enter and leave a subscriber's filter between updates.
MCRows ==
    { [env |-> e1, tags |-> {t1}, status |-> "QUEUED", created |-> 1],
      [env |-> e2, tags |-> {}, status |-> "EXECUTING", created |-> 0],
      [env |-> e1, tags |-> {t1}, status |-> "deleted", created |-> 0] }

Wildcard == [runId |-> None, envId |-> None, tags |-> {}, created |-> None]

MCFilters ==
    { Wildcard,
      [Wildcard EXCEPT !.runId = r1],
      [Wildcard EXCEPT !.envId = e1, !.tags = {t1}],
      [Wildcard EXCEPT !.created = 1] }

ConnSymmetry == Permutations({c1, c2})
=============================================================================
