---------------------------- MODULE MCDurability ----------------------------
(* Two runs, a short WAL and a few crashes for TLC; no subscribers.        *)
EXTENDS Durability, TLC

CONSTANTS r1, r2, nilRun, e1, e2, nilEnv, t1

MCIds == {r1, r2, nilRun}
MCEnvs == {e1, e2, nilEnv}
MCTags == {t1}
MCTimes == {0}
MCStatuses == {"QUEUED", "EXECUTING", "deleted", ""}

\* A run moves between environments and tag sets.
MCRows ==
    { [env |-> e1, tags |-> {t1}, status |-> "QUEUED", created |-> 0],
      [env |-> e2, tags |-> {}, status |-> "EXECUTING", created |-> 0] }

IdSymmetry == Permutations({r1, r2})
=============================================================================
