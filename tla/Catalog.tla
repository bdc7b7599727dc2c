------------------------------- MODULE Catalog --------------------------------
(***************************************************************************)
(* What a caller may ask of the server to run on a task: the governed      *)
(* tools behind the routes under /api/tasks/:taskId, and the fifty skills. *)
(* An offer is what its route puts into the grant (the agent, the tool,    *)
(* which is the scope and the capability as well, whether the grant names  *)
(* a destination) and what the route then runs. A wrapper asks its lease   *)
(* for a capability, and for a destination if it goes out to a URL; a      *)
(* skill asks for a capability. What the skills compute from their         *)
(* parameters is left out: each returns a record without doing anything.   *)
(***************************************************************************)

\* AGENT_TOOL_SCOPES
ToolScopes ==
  [research |-> {"knowledge.search", "evidence.summarize", "browser.fetch", "browser.visual",
                 "browser.screenshot", "memory.query"},
   analysis |-> {"analysis.compare", "analysis.model", "memory.query"},
   engineering |-> {"code.review", "code.plan", "exec.command", "exec.python", "file.read",
                    "file.write", "file.patch", "file.list", "browser.visual",
                    "browser.screenshot", "git.status", "git.diff", "git.commit", "git.branch",
                    "github.pr", "memory.store", "memory.query", "code.symbols", "code.definition"},
   qa |-> {"qa.evaluate", "qa.report", "exec.test", "browser.visual", "browser.screenshot",
           "code.symbols"},
   video_producer |-> {"video.brief", "video.storyboard", "video.provider_job"}]

Agents == DOMAIN ToolScopes

-----------------------------------------------------------------------------
(* The wrappers: what capability each asks its lease for. *)

Wrapper(name, capability) == [name |-> name, capability |-> capability]

ScriptTools == {Wrapper("runGovernedCommand", "exec.command"), Wrapper("runGovernedPython", "exec.python")}
ListAsRead == {Wrapper("runGovernedFileRead", "file.read"), Wrapper("runGovernedFileWrite", "file.write"),
               Wrapper("runGovernedFileList", "file.read")}
FileTools == {Wrapper("runGovernedFileRead", "file.read"), Wrapper("runGovernedFileWrite", "file.write"),
              Wrapper("runGovernedFileList", "file.list")}
ReadGitTools == {Wrapper("runGovernedGitStatus", "git.status"), Wrapper("runGovernedGitDiff", "git.diff")}
WriteGitTools == {Wrapper("runGovernedGitCommit", "git.commit"), Wrapper("runGovernedGitHubCreatePR", "github.pr")}
MemoryTools == {Wrapper("runGovernedMemoryStore", "memory.store"), Wrapper("runGovernedMemoryQuery", "memory.query")}
CodeTools == {Wrapper("runGovernedFindSymbols", "code.symbols"),
              Wrapper("runGovernedFindDefinition", "code.definition")}
FetchTools == {Wrapper("runGovernedBrowse", "browser.fetch")}
VisualTools == {Wrapper("runGovernedVisualInspect", "browser.visual"),
                Wrapper("runGovernedBrowserAction", "browser.visual")}

\* The wrappers that go out to the URL they were given.
Outbound == {w.name : w \in FetchTools \cup VisualTools}

Wrappers == ScriptTools \cup FileTools \cup ReadGitTools \cup WriteGitTools \cup MemoryTools
              \cup CodeTools \cup FetchTools \cup VisualTools

\* The capability a wrapper asks for.
AskedBy(name) == (CHOOSE w \in Wrappers : w.name = name).capability

-----------------------------------------------------------------------------
(* The routes: which agent and tool each operation becomes, and what runs it. *)

Offer(agent, tool, named, runs) == [agent |-> agent, tool |-> tool, named |-> named, runs |-> runs]
Engineer(tool, runs) == Offer("engineering", tool, FALSE, runs)

ExecuteRoute ==
  {Engineer("exec.command", "runGovernedCommand"), Engineer("exec.python", "runGovernedPython"),
   Engineer("file.read", "runGovernedFileRead"), Engineer("file.write", "runGovernedFileWrite"),
   Engineer("file.list", "runGovernedFileList")}
BrowseRoute == {Offer("research", "browser.fetch", FALSE, "runGovernedBrowse")}
VisualRoute ==
  {Offer("engineering", "browser.visual", TRUE, w.name) : w \in VisualTools}
GitRoute ==
  {Engineer("git.status", "runGovernedGitStatus"), Engineer("git.diff", "runGovernedGitDiff"),
   Engineer("git.commit", "runGovernedGitCommit"), Engineer("github.pr", "runGovernedGitHubCreatePR")}
MemoryRoute ==
  {Engineer("memory.store", "runGovernedMemoryStore"), Engineer("memory.query", "runGovernedMemoryQuery")}
CodeRoute ==
  {Engineer("code.symbols", "runGovernedFindSymbols"), Engineer("code.definition", "runGovernedFindDefinition")}

ToolOffers == ExecuteRoute \cup BrowseRoute \cup VisualRoute \cup GitRoute \cup MemoryRoute \cup CodeRoute

-----------------------------------------------------------------------------
(* TOP_50_SKILLS_CATALOG: the id, the specialist and the capability of the metadata. *)

Skill(id, specialist, capability) ==
  [id |-> id, specialist |-> specialist, capability |-> capability]

ResearchSkills ==
  {Skill("perplexity-deep-researcher", "research", "browser.visual"),
   Skill("openclaw-fact-verifier", "research", "memory.query"),
   Skill("scholarly-literature-miner", "research", "browser.visual"),
   Skill("competitive-intel-scraper", "analysis", "browser.visual"),
   Skill("adversarial-contradiction-hunter", "analysis", "memory.query"),
   Skill("market-trend-forecaster", "analysis", "memory.query"),
   Skill("source-credibility-scorer", "research", "browser.visual"),
   Skill("executive-brief-synthesizer", "analysis", "memory.query")}

CodeSkills ==
  {Skill("ast-code-refactorer", "engineering", "code.symbols"),
   Skill("polyglot-syntax-translator", "engineering", "code.symbols"),
   Skill("automated-test-generator", "qa", "code.definition"),
   Skill("api-contract-generator", "engineering", "code.symbols"),
   Skill("dead-code-tree-shaker", "engineering", "code.symbols"),
   Skill("dependency-vulnerability-fixer", "engineering", "command.run"),
   Skill("performance-profiler-analyst", "engineering", "code.definition"),
   Skill("git-pr-automation-pilot", "engineering", "git.commit")}

SecuritySkills ==
  {Skill("merkle-audit-verifier", "qa", "memory.query"),
   Skill("prompt-injection-shield", "qa", "code.symbols"),
   Skill("secret-exfiltration-scanner", "qa", "code.symbols"),
   Skill("least-privilege-lease-issuer", "qa", "governance.status"),
   Skill("destructive-command-interceptor", "qa", "command.run"),
   Skill("data-residency-compliance-auditor", "qa", "memory.query"),
   Skill("software-supply-chain-guard", "qa", "command.run"),
   Skill("fail-closed-circuit-breaker", "qa", "governance.status")}

DataSkills ==
  {Skill("sql-query-optimizer", "engineering", "code.definition"),
   Skill("acid-schema-migrator", "engineering", "command.run"),
   Skill("json-stream-etl-pipeline", "engineering", "command.run"),
   Skill("anomaly-detection-sentinel", "analysis", "memory.query"),
   Skill("vector-embedding-indexer", "engineering", "memory.store"),
   Skill("cross-tenant-isolation-enforcer", "qa", "governance.status"),
   Skill("synthetic-dataset-generator", "engineering", "code.symbols"),
   Skill("data-drift-monitor", "analysis", "memory.query")}

QuorumSkills ==
  {Skill("three-agent-judicial-quorum", "qa", "governance.status"),
   Skill("task-decomposition-planner", "analysis", "memory.query"),
   Skill("specialist-handoff-router", "engineering", "memory.store"),
   Skill("anti-loop-oscillation-breaker", "qa", "governance.status"),
   Skill("consensus-vote-signer", "qa", "governance.status"),
   Skill("agent-budget-velocity-limiter", "qa", "governance.status"),
   Skill("speculative-twin-sandbox-runner", "engineering", "command.run"),
   Skill("post-mortem-failure-diagnostician", "qa", "code.definition")}

MemorySkills ==
  {Skill("four-tier-memory-manager", "engineering", "memory.store"),
   Skill("agm-belief-revision-engine", "analysis", "memory.store"),
   Skill("temporal-decay-memory-scorer", "analysis", "memory.query"),
   Skill("knowledge-graph-entity-linker", "analysis", "code.symbols"),
   Skill("contradiction-resolution-arbiter", "qa", "memory.query")}

DevopsSkills ==
  {Skill("docker-container-jailer", "engineering", "command.run"),
   Skill("termux-mobile-deployer", "engineering", "command.run"),
   Skill("vercel-serverless-packager", "engineering", "command.run"),
   Skill("chaos-resilience-tester", "qa", "command.run"),
   Skill("continuous-evidence-ledger-builder", "qa", "governance.status")}

Catalog == ResearchSkills \cup CodeSkills \cup SecuritySkills \cup DataSkills \cup QuorumSkills
             \cup MemorySkills \cup DevopsSkills

\* The skill the registry holds under an id.
SkillNamed(id) == CHOOSE skill \in Catalog : skill.id = id

\* POST /api/skills/:skillId/execute: the specialist of the skill asks for its capability.
SkillOffers ==
  {Offer(SkillNamed(s).specialist, SkillNamed(s).capability, FALSE, s) :
     s \in {skill.id : skill \in Catalog}}

Offers == ToolOffers \cup SkillOffers
IsTool(o) == o \in ToolOffers
=============================================================================
