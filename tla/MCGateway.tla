----------------------------- MODULE MCGateway -----------------------------
(***************************************************************************)
(* Small instances of Gateway: one frozen video grant that two calls       *)
(* submit, and a tool call charged to the same task.                       *)
(***************************************************************************)
EXTENDS Gateway, TLC

CONSTANTS submit1, submit2, tool1,   \* calls
          gVideo, gTool1,            \* grants
          task, alice,
          provider, site             \* destinations

MCGrantOf == [c \in Calls |-> IF c = tool1 THEN gTool1 ELSE gVideo]
MCUserOf == [c \in Calls |-> alice]
MCTargetOf == [c \in Calls |-> IF c = tool1 THEN site ELSE provider]

Video == [subject |-> alice, agent |-> "video_producer",
          tool |-> "video.provider_job", scope |-> "video.provider_job",
          operation |-> "provider_job", classification |-> "internal",
          task |-> task, budget |-> [u \in Units |-> 2],
          reserve |-> [u \in Units |-> 1], endpoint |-> provider]
Tool == [Video EXCEPT !.agent = "engineering", !.tool = "exec.command",
                      !.scope = "exec.command", !.operation = "exec.command",
                      !.reserve = [u \in Units |-> 2], !.endpoint = site]
MCRequest == [g \in Grants |-> IF g = gVideo THEN Video ELSE Tool]

MCToolScopes == [video_producer |-> {"video.brief", "video.provider_job"},
                 engineering |-> {"exec.command"}]
\* Room for two submissions, or for the tool call, and not for both.
MCBudget == [t \in Tasks |-> [u \in Units |-> 2]]
MCMaxBudget == [u \in Units |-> 2]

Symmetry == Permutations({submit1, submit2})
=============================================================================
