----------------------------- MODULE MCCouncil -----------------------------
(***************************************************************************)
(* Small instances of Council: a review and its repetition under one       *)
(* idempotency key, with the task id of its own that buildShadowEnvelope   *)
(* gives it, or with the whole envelope repeated.                          *)
(***************************************************************************)
EXTENDS Council

CONSTANTS review, repeat, task1, task2, key

MCFreshTasks == [r \in Runs |-> IF r = review THEN task1 ELSE task2]
MCSameTask == [r \in Runs |-> task1]
MCKeyOf == [r \in Runs |-> key]
MCVerdicts == {{}, {"high"}, {"critical"}, {"deny", "missing"}}
MCCleared == {{}}
=============================================================================
