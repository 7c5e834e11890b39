----------------------------- MODULE MCPipeline -----------------------------
(* Three runs, an environment, a tag and one real instant for TLC.  Each   *)
(* uuid, status and instant is spelled by a short, distinct text.          *)
EXTENDS Pipeline, TLC

CONSTANTS r1, r2, r3, nilRun, e1, nilEnv, t1

MCIds == {r1, r2, r3, nilRun}
MCEnvs == {e1, nilEnv}
MCTags == {t1}
MCTimes == {0, 1}
MCStatuses == {"QUEUED", "EXECUTING", "deleted", ""}

MCUuidText == (r1 :> <<65>>) @@ (r2 :> <<66>>) @@ (r3 :> <<70>>) @@ (nilRun :> <<48>>)
              @@ (e1 :> <<67>>) @@ (nilEnv :> <<48, 48>>) @@ (t1 :> <<68>>)
MCStatusText == ("QUEUED" :> <<81>>) @@ ("EXECUTING" :> <<69, 88>>)
                @@ ("deleted" :> <<100>>) @@ ("" :> <<>>)

\* "2024-01-01T00:00:00Z", and the text pgoutput sends for a timestamp(3)
\* column, "2024-01-01 00:00:00".
MCRfc3339 == 1 :> <<50, 84>>
MCPgTimestamp == 1 :> <<50, 32>>

\* A run enters and leaves the tag filter and changes status.
MCRows ==
    { [env |-> e1, tags |-> {t1}, status |-> "QUEUED", created |-> 1],
      [env |-> e1, tags |-> {}, status |-> "EXECUTING", created |-> 1] }
=============================================================================
