--------------------------- MODULE ServicesProofs ---------------------------
(***************************************************************************)
(* What holds of the components beside the gateway that have no proofs of  *)
(* their own module: the dispatch of tools and skills for any orders,      *)
(* budgets and lifetimes, the secret broker for any clients and versions,  *)
(* the semantic memory for any tenants and documents; and what holds of    *)
(* all seven components together in MCServices.                            *)
(*                                                                         *)
(* Dispatch: a call past the policy holds the lease of its grant (Held),   *)
(* for a tool of its agent's scope (Scoped), so what the executor or the   *)
(* registry compares it with decides, and the tables of Catalog say how:   *)
(* the lemmas ToolOfferFits and SkillOfferFits go through every route,     *)
(* wrapper and skill.                                                      *)
(*                                                                         *)
(* Broker: a client compares with an answer that may be old by then. The   *)
(* invariant follows the answer: what a usable answer names was not        *)
(* retired when it was given, a version only leaves retired by being put   *)
(* anew, and that takes it out of what the client remembers as retired.    *)
(*                                                                         *)
(* Memory: the property is inductive with the types. A document that no    *)
(* later one replaced is not invalidated, so the next on its subject finds *)
(* it, and one that was replaced is left alone.                            *)
(***************************************************************************)
EXTENDS MCServices, AccountsProofs, SandboxProofs, CollectiveProofs

-----------------------------------------------------------------------------
(* Dispatch. *)

\* A skill's specialist may use its capability exactly if LeasesFit lets the call be answered.
SkillFits(skill) ==
  LET o == Offer(skill.specialist, skill.capability, FALSE, skill.id) IN
  o.tool \in ToolScopes[o.agent] <=> ~NeverServed(o)

\* So it is with every skill of the catalog, group by group.
LEMMA ResearchAgrees == \A skill \in ResearchSkills : SkillFits(skill)
BY DEF ResearchSkills, SkillFits, Skill, Offer, NeverServed, ToolScopes
LEMMA CodeAgrees == \A skill \in CodeSkills : SkillFits(skill)
BY DEF CodeSkills, SkillFits, Skill, Offer, NeverServed, ToolScopes
LEMMA SecurityAgrees == \A skill \in SecuritySkills : SkillFits(skill)
BY DEF SecuritySkills, SkillFits, Skill, Offer, NeverServed, ToolScopes
LEMMA DataAgrees == \A skill \in DataSkills : SkillFits(skill)
BY DEF DataSkills, SkillFits, Skill, Offer, NeverServed, ToolScopes
LEMMA QuorumAgrees == \A skill \in QuorumSkills : SkillFits(skill)
BY DEF QuorumSkills, SkillFits, Skill, Offer, NeverServed, ToolScopes
LEMMA MemoryAgrees == \A skill \in MemorySkills : SkillFits(skill)
BY DEF MemorySkills, SkillFits, Skill, Offer, NeverServed, ToolScopes
LEMMA DevopsAgrees == \A skill \in DevopsSkills : SkillFits(skill)
BY DEF DevopsSkills, SkillFits, Skill, Offer, NeverServed, ToolScopes

\* What a skill asks for is what the registry compares it with.
LEMMA SkillOfferFits ==
  ASSUME NEW o \in SkillOffers
  PROVE  /\ SkillNamed(o.runs).capability = o.tool
         /\ o.tool \in ToolScopes[o.agent] <=> ~NeverServed(o)
<1>1. \A skill \in Catalog : SkillFits(skill)
  BY ResearchAgrees, CodeAgrees, SecurityAgrees, DataAgrees, QuorumAgrees, MemoryAgrees,
     DevopsAgrees DEF Catalog
<1>2. PICK known \in Catalog :
        o = Offer(SkillNamed(known.id).specialist, SkillNamed(known.id).capability, FALSE, known.id)
  BY DEF SkillOffers
<1> DEFINE skill == SkillNamed(known.id)
<1>3. skill \in Catalog /\ skill.id = known.id
  BY DEF SkillNamed
<1>4. o = Offer(skill.specialist, skill.capability, FALSE, skill.id)
  BY <1>2, <1>3
<1>5. o.runs = known.id /\ o.tool = skill.capability
  BY <1>2 DEF Offer
<1> QED
  BY <1>1, <1>3, <1>4, <1>5 DEF SkillFits

\* The wrapper a route calls asks for the tool of the route, which its agent may use; only
\* the fetch of a page names no destination and goes out to one.
LEMMA ToolOfferFits ==
  ASSUME NEW o \in ToolOffers
  PROVE  /\ AskedBy(o.runs) = o.tool
         /\ o.tool \in ToolScopes[o.agent]
         /\ NeverServed(o) <=> o.runs = "runGovernedBrowse"
         /\ (o.named <=> o.runs \in Outbound) <=> ~NeverServed(o)
<1>1. \E w \in Wrappers : w.name = o.runs
  BY DEF ToolOffers, ExecuteRoute, BrowseRoute, VisualRoute, GitRoute, MemoryRoute, CodeRoute,
         Engineer, Offer, Wrappers, ScriptTools, FileTools, ReadGitTools, WriteGitTools,
         MemoryTools, CodeTools, FetchTools, VisualTools, Wrapper
<1>2. \A w \in Wrappers : w.name = o.runs => w.capability = o.tool
  BY DEF ToolOffers, ExecuteRoute, BrowseRoute, VisualRoute, GitRoute, MemoryRoute, CodeRoute,
         Engineer, Offer, Wrappers, ScriptTools, FileTools, ReadGitTools, WriteGitTools,
         MemoryTools, CodeTools, FetchTools, VisualTools, Wrapper
<1>3. AskedBy(o.runs) = o.tool
  BY <1>1, <1>2 DEF AskedBy
<1>4. o.tool \in ToolScopes[o.agent]
  BY DEF ToolOffers, ExecuteRoute, BrowseRoute, VisualRoute, GitRoute, MemoryRoute, CodeRoute,
         Engineer, Offer, VisualTools, Wrapper, ToolScopes
<1>5. NeverServed(o) <=> o.runs = "runGovernedBrowse"
  BY DEF ToolOffers, ExecuteRoute, BrowseRoute, VisualRoute, GitRoute, MemoryRoute, CodeRoute,
         Engineer, Offer, VisualTools, Wrapper, NeverServed
<1>6. (o.named <=> o.runs \in Outbound) <=> o.runs # "runGovernedBrowse"
  BY DEF ToolOffers, ExecuteRoute, BrowseRoute, VisualRoute, GitRoute, MemoryRoute, CodeRoute,
         Engineer, Offer, Outbound, FetchTools, VisualTools, Wrapper
<1> QED
  BY <1>3, <1>4, <1>5, <1>6

-----------------------------------------------------------------------------
\* A call that runs a tool does not reach the registry of skills, and the other way round.
Sorted ==
  \A c \in Askers :
    /\ stage[c] \in {"enter", "execute"} => IsTool(orders[c])
    /\ stage[c] \in {"run_skill", "record"} => ~IsTool(orders[c])

\* A call past the policy has a tool of its agent's scope, ...
PastThePolicy(c) == stage[c] \in {"enter", "execute", "run_skill", "record", "answered"}
Scoped == \A c \in Askers : PastThePolicy(c) => orders[c].tool \in ToolScopes[orders[c].agent]

\* ... and holds the lease of its grant, which nothing has changed since.
Held ==
  \A c \in Askers :
    PastThePolicy(c)
      => leases[c].capability = orders[c].tool /\ leases[c].named = orders[c].named

\* An answered tool has spent its lease and gone where the lease said.
Spent ==
  \A c \in Askers :
    stage[c] = "answered" /\ IsTool(orders[c])
      => c \in spent /\ (orders[c].named <=> orders[c].runs \in Outbound)

\* What a refusal over the tool, the destination or the capability says of the order.
Explained ==
  \A c \in Askers :
    /\ cause[c] = "tool_not_allowed" => orders[c].tool \notin ToolScopes[orders[c].agent]
    /\ cause[c] = "invalid_capability_lease"
         => IsTool(orders[c]) /\ ~(orders[c].named <=> orders[c].runs \in Outbound)
    /\ cause[c] # "capability_binding"

DispatchInv ==
  /\ DispatchTypeOK /\ DOMAIN leases = Askers
  /\ Sorted /\ Scoped /\ Held /\ Spent /\ Explained

\* What is asked is on offer.
LEMMA AskersAsk == ASSUME orders \in Orders, NEW c \in Askers PROVE orders[c] \in Offers
BY DispatchAssumption DEF Askers

\* The invariant implies that the leases fit.
LEMMA DispatchHolds == DispatchInv => LeasesFit
<1> SUFFICES ASSUME DispatchInv, NEW c \in Askers
             PROVE  /\ cause[c] \in {"tool_not_allowed", "invalid_capability_lease", "capability_binding"}
                         => NeverServed(orders[c])
                    /\ stage[c] = "answered" => ~NeverServed(orders[c])
                    /\ stage[c] = "answered" /\ IsTool(orders[c]) => c \in spent
  BY DEF LeasesFit
<1>1. orders[c] \in ToolOffers \/ orders[c] \in SkillOffers
  BY AskersAsk DEF DispatchInv, DispatchTypeOK, Offers
<1>2. CASE orders[c] \in ToolOffers
  <2>1. /\ orders[c].tool \in ToolScopes[orders[c].agent]
        /\ (orders[c].named <=> orders[c].runs \in Outbound) <=> ~NeverServed(orders[c])
    BY <1>2, ToolOfferFits
  <2> QED
    BY <1>2, <2>1 DEF DispatchInv, Spent, Explained, IsTool
<1>3. CASE orders[c] \in SkillOffers /\ orders[c] \notin ToolOffers
  <2>1. orders[c].tool \in ToolScopes[orders[c].agent] <=> ~NeverServed(orders[c])
    BY <1>3, SkillOfferFits
  <2>2. stage[c] = "answered" => orders[c].tool \in ToolScopes[orders[c].agent]
    BY DEF DispatchInv, Scoped, PastThePolicy
  <2> QED
    BY <1>3, <2>1, <2>2 DEF DispatchInv, Explained, IsTool
<1> QED
  BY <1>1, <1>2, <1>3

\* The invariant at the start.
LEMMA DispatchStart == DispatchInit => DispatchInv
<1> SUFFICES ASSUME DispatchInit PROVE DispatchInv
  OBVIOUS
<1>1. DispatchTypeOK /\ DOMAIN leases = Askers
  <2>1. \A c \in Askers : leases[c] = NoLease
    BY DEF DispatchInit
  <2>2. stage \in [Askers -> Stages] /\ cause \in [Askers -> Refusals]
    BY DEF DispatchInit, Stages, Refusals
  <2>3. time \in 0 .. MaxElapse /\ reserved \in 0 .. Affordable
    BY DispatchAssumption DEF DispatchInit
  <2> QED
    BY <2>1, <2>2, <2>3 DEF DispatchInit, DispatchTypeOK
<1>2. Sorted /\ Scoped /\ Held /\ Spent /\ Explained
  BY DEF DispatchInit, Sorted, Scoped, Held, Spent, Explained, PastThePolicy
<1> QED
  BY <1>1, <1>2 DEF DispatchInv

-----------------------------------------------------------------------------
(* A call advances, or is refused. *)

\* A step keeps the invariant if it keeps it for the call that moves.
LEMMA OneCall ==
  ASSUME DispatchInv, NEW c \in Askers, Still,
         DispatchTypeOK', DOMAIN leases' = Askers,
         \A d \in Askers \ {c} : stage'[d] = stage[d] /\ cause'[d] = cause[d] /\ leases'[d] = leases[d],
         spent \subseteq spent',
         stage'[c] \in {"enter", "execute"} => IsTool(orders[c]),
         stage'[c] \in {"run_skill", "record"} => ~IsTool(orders[c]),
         PastThePolicy(c)' => /\ orders[c].tool \in ToolScopes[orders[c].agent]
                              /\ leases'[c].capability = orders[c].tool
                              /\ leases'[c].named = orders[c].named,
         stage'[c] = "answered" /\ IsTool(orders[c])
           => c \in spent' /\ (orders[c].named <=> orders[c].runs \in Outbound),
         cause'[c] = "tool_not_allowed" => orders[c].tool \notin ToolScopes[orders[c].agent],
         cause'[c] = "invalid_capability_lease"
           => IsTool(orders[c]) /\ ~(orders[c].named <=> orders[c].runs \in Outbound),
         cause'[c] # "capability_binding"
  PROVE  DispatchInv'
<1>1. orders' = orders /\ Askers' = Askers
  BY DEF Still, Askers
<1>2. Sorted'
  BY <1>1 DEF Sorted, DispatchInv
<1>3. Scoped' /\ Held'
  BY <1>1 DEF Scoped, Held, DispatchInv, PastThePolicy
<1>4. Spent'
  BY <1>1 DEF Spent, DispatchInv
<1>5. Explained'
  BY <1>1 DEF Explained, DispatchInv
<1> QED
  BY <1>1, <1>2, <1>3, <1>4, <1>5 DEF DispatchInv

\* A call that advances, and one that is refused.
LEMMA Advanced ==
  ASSUME DispatchTypeOK, NEW c \in Askers, NEW where \in Stages, Advance(c, where)
  PROVE  /\ stage' \in [Askers -> Stages] /\ cause' \in [Askers -> Refusals]
         /\ stage'[c] = where /\ cause'[c] = cause[c]
         /\ \A d \in Askers \ {c} : stage'[d] = stage[d] /\ cause'[d] = cause[d]
BY DEF DispatchTypeOK, Advance

LEMMA Refused ==
  ASSUME DispatchTypeOK, NEW c \in Askers, NEW why \in Refusals, Refuse(c, why)
  PROVE  /\ stage' \in [Askers -> Stages] /\ cause' \in [Askers -> Refusals]
         /\ stage'[c] = "refused" /\ cause'[c] = why
         /\ \A d \in Askers \ {c} : stage'[d] = stage[d] /\ cause'[d] = cause[d]
<1>1. "refused" \in Stages
  BY DEF Stages
<1> QED
  BY <1>1 DEF DispatchTypeOK, Refuse

\* A step that moves a call and gives no lease keeps the types.
LEMMA TypesKept ==
  ASSUME DispatchTypeOK, DOMAIN leases = Askers, Still, UNCHANGED <<reserved, leases>>,
         spent' \subseteq Askers,
         stage' \in [Askers -> Stages], cause' \in [Askers -> Refusals]
  PROVE  DispatchTypeOK' /\ DOMAIN leases' = Askers
<1>1. orders' = orders /\ Askers' = Askers
  BY DEF Still, Askers
<1> QED
  BY <1>1 DEF DispatchTypeOK, Still

\* A refusal that gives no reason over the tool, the destination or the capability.
LEMMA PlainRefusal ==
  ASSUME DispatchInv, NEW c \in Askers, Still, UNCHANGED <<reserved, leases>>,
         spent \subseteq spent', spent' \subseteq Askers,
         NEW why \in Refusals \ {"tool_not_allowed", "invalid_capability_lease", "capability_binding"},
         Refuse(c, why)
  PROVE  DispatchInv'
<1>1. DispatchTypeOK /\ DOMAIN leases = Askers
  BY DEF DispatchInv
<1>2. /\ stage' \in [Askers -> Stages] /\ cause' \in [Askers -> Refusals]
      /\ stage'[c] = "refused" /\ cause'[c] = why
      /\ \A d \in Askers \ {c} : stage'[d] = stage[d] /\ cause'[d] = cause[d]
  BY <1>1, Refused
<1>3. DispatchTypeOK' /\ DOMAIN leases' = Askers
  BY <1>1, <1>2, TypesKept
<1>4. ~PastThePolicy(c)'
  BY <1>2 DEF PastThePolicy
<1> QED
  BY <1>2, <1>3, <1>4, OneCall

\* A call that goes on with its lease, or before it has one.
LEMMA PlainAdvance ==
  ASSUME DispatchInv, NEW c \in Askers, Still, UNCHANGED <<reserved, leases>>,
         spent \subseteq spent', spent' \subseteq Askers,
         NEW where \in Stages, Advance(c, where),
         where \in {"enter", "execute"} => IsTool(orders[c]),
         where \in {"run_skill", "record"} => ~IsTool(orders[c]),
         where \in {"look_up", "screen", "authorize"} \/ PastThePolicy(c),
         where = "answered" /\ IsTool(orders[c])
           => c \in spent' /\ (orders[c].named <=> orders[c].runs \in Outbound)
  PROVE  DispatchInv'
<1>1. DispatchTypeOK /\ DOMAIN leases = Askers
  BY DEF DispatchInv
<1>2. /\ stage' \in [Askers -> Stages] /\ cause' \in [Askers -> Refusals]
      /\ stage'[c] = where /\ cause'[c] = cause[c]
      /\ \A d \in Askers \ {c} : stage'[d] = stage[d] /\ cause'[d] = cause[d]
  BY <1>1, Advanced
<1>3. DispatchTypeOK' /\ DOMAIN leases' = Askers
  BY <1>1, <1>2, TypesKept
<1>4. PastThePolicy(c)' => /\ orders[c].tool \in ToolScopes[orders[c].agent]
                           /\ leases'[c].capability = orders[c].tool
                           /\ leases'[c].named = orders[c].named
  BY <1>2 DEF PastThePolicy, DispatchInv, Scoped, Held
<1>5. /\ cause'[c] = "tool_not_allowed" => orders[c].tool \notin ToolScopes[orders[c].agent]
      /\ cause'[c] = "invalid_capability_lease"
           => IsTool(orders[c]) /\ ~(orders[c].named <=> orders[c].runs \in Outbound)
      /\ cause'[c] # "capability_binding"
  BY <1>2 DEF DispatchInv, Explained
<1> QED
  BY <1>2, <1>3, <1>4, <1>5, OneCall

-----------------------------------------------------------------------------
(* The steps. *)

LEMMA ReceiveKeeps == ASSUME DispatchInv, NEW c \in Askers, Receive(c) PROVE DispatchInv'
<1>1. spent \subseteq spent' /\ spent' \subseteq Askers /\ "look_up" \in Stages
  BY DEF Receive, DispatchInv, DispatchTypeOK, Stages
<1> QED
  BY <1>1, PlainAdvance DEF Receive

LEMMA FindTaskKeeps == ASSUME DispatchInv, NEW c \in Askers, FindTask(c) PROVE DispatchInv'
<1>1. spent \subseteq spent' /\ spent' \subseteq Askers
  BY DEF FindTask, DispatchInv, DispatchTypeOK
<1>2. CASE Advance(c, "screen")
  BY <1>1, <1>2, PlainAdvance DEF FindTask, Stages
<1>3. CASE Refuse(c, "no_task_or_input")
  BY <1>1, <1>3, PlainRefusal DEF FindTask, Refusals
<1> QED
  BY <1>2, <1>3 DEF FindTask

LEMMA ScreenKeeps == ASSUME DispatchInv, NEW c \in Askers, Screen(c) PROVE DispatchInv'
<1>1. spent \subseteq spent' /\ spent' \subseteq Askers
  BY DEF Screen, DispatchInv, DispatchTypeOK
<1>2. CASE Advance(c, "authorize")
  BY <1>1, <1>2, PlainAdvance DEF Screen, Stages
<1>3. CASE Refuse(c, "destructive_command_requires_human_approval")
  BY <1>1, <1>3, PlainRefusal DEF Screen, Refusals
<1> QED
  BY <1>2, <1>3 DEF Screen

LEMMA EnterKeeps == ASSUME DispatchInv, NEW c \in Askers, Enter(c) PROVE DispatchInv'
<1>1. spent \subseteq spent' /\ spent' \subseteq Askers /\ IsTool(orders[c]) /\ PastThePolicy(c)
  BY DEF Enter, DispatchInv, DispatchTypeOK, Sorted, Stands, PastThePolicy
<1>2. CASE Advance(c, "execute")
  BY <1>1, <1>2, PlainAdvance DEF Enter, Stages
<1>3. CASE Refuse(c, "effect_failed")
  BY <1>1, <1>3, PlainRefusal DEF Enter, Refusals
<1> QED
  BY <1>2, <1>3 DEF Enter

LEMMA RecordSkillKeeps == ASSUME DispatchInv, NEW c \in Askers, RecordSkill(c) PROVE DispatchInv'
<1>1. spent \subseteq spent' /\ spent' \subseteq Askers /\ ~IsTool(orders[c]) /\ PastThePolicy(c)
  BY DEF RecordSkill, DispatchInv, DispatchTypeOK, Sorted, Stands, PastThePolicy
<1>2. CASE Advance(c, "answered")
  BY <1>1, <1>2, PlainAdvance DEF RecordSkill, Stages
<1>3. CASE Refuse(c, "effect_failed")
  BY <1>1, <1>3, PlainRefusal DEF RecordSkill, Refusals
<1> QED
  BY <1>2, <1>3 DEF RecordSkill

\* The registry finds the capability of the skill in the lease: they come from one catalog.
LEMMA ExecuteSkillKeeps == ASSUME DispatchInv, NEW c \in Askers, ExecuteSkill(c) PROVE DispatchInv'
<1>1. spent \subseteq spent' /\ spent' \subseteq Askers /\ ~IsTool(orders[c]) /\ PastThePolicy(c)
  BY DEF ExecuteSkill, DispatchInv, DispatchTypeOK, Sorted, Stands, PastThePolicy
<1>2. orders[c] \in SkillOffers
  BY <1>1, AskersAsk DEF DispatchInv, DispatchTypeOK, Offers, IsTool
<1>3. leases[c].capability = SkillNamed(orders[c].runs).capability
  BY <1>1, <1>2, SkillOfferFits DEF DispatchInv, Held
<1>4. CASE Refuse(c, "lapsed_lease")
  BY <1>1, <1>4, PlainRefusal DEF ExecuteSkill, Refusals
<1>5. CASE Advance(c, "record")
  BY <1>1, <1>5, PlainAdvance DEF ExecuteSkill, Stages
<1>6. CASE Refuse(c, "invalid_skill_parameters")
  BY <1>1, <1>6, PlainRefusal DEF ExecuteSkill, Refusals
<1> QED
  BY <1>3, <1>4, <1>5, <1>6 DEF ExecuteSkill

\* The executor refuses a tool over its destination only if the lease names another than
\* the wrapper, and never over its capability: the wrapper asks for the tool of its route.
LEMMA ExecuteToolKeeps == ASSUME DispatchInv, NEW c \in Askers, ExecuteTool(c) PROVE DispatchInv'
<1>1. IsTool(orders[c]) /\ PastThePolicy(c) /\ DispatchTypeOK /\ DOMAIN leases = Askers
  BY DEF ExecuteTool, DispatchInv, DispatchTypeOK, Sorted, Stands, PastThePolicy
<1>2. /\ leases[c].capability = AskedBy(orders[c].runs)
      /\ leases[c].named = orders[c].named
  BY <1>1, ToolOfferFits DEF DispatchInv, Held, IsTool
<1>3. spent \subseteq spent' /\ spent' \subseteq Askers
  BY <1>1 DEF ExecuteTool, DispatchTypeOK
<1>4. CASE Lapsed(c)
  BY <1>3, <1>4, PlainRefusal DEF ExecuteTool, Refusals
<1>5. CASE ~Lapsed(c) /\ ~RightDestination(c)
  <2>1. Refuse(c, "invalid_capability_lease") /\ "invalid_capability_lease" \in Refusals
    BY <1>5 DEF ExecuteTool, Refusals
  <2>2. /\ stage' \in [Askers -> Stages] /\ cause' \in [Askers -> Refusals]
        /\ stage'[c] = "refused" /\ cause'[c] = "invalid_capability_lease"
        /\ \A d \in Askers \ {c} : stage'[d] = stage[d] /\ cause'[d] = cause[d]
    BY <1>1, <2>1, Refused
  <2>3. Still /\ UNCHANGED <<reserved, leases>>
    BY DEF ExecuteTool
  <2>4. DispatchTypeOK' /\ DOMAIN leases' = Askers
    BY <1>1, <1>3, <2>2, <2>3, TypesKept
  <2>5. ~PastThePolicy(c)'
    BY <2>2 DEF PastThePolicy
  <2>6. ~(orders[c].named <=> orders[c].runs \in Outbound)
    BY <1>2, <1>5 DEF RightDestination
  <2> QED
    BY <1>1, <1>3, <2>2, <2>3, <2>4, <2>5, <2>6, OneCall
<1>6. CASE ~Lapsed(c) /\ RightDestination(c)
  <2>1. c \in spent' /\ (orders[c].named <=> orders[c].runs \in Outbound)
    BY <1>2, <1>6 DEF ExecuteTool, RightDestination
  <2>2. \/ Refuse(c, "safety_interlock") \/ Advance(c, "answered") \/ Refuse(c, "effect_failed")
    BY <1>2, <1>6 DEF ExecuteTool
  <2>3. CASE Refuse(c, "safety_interlock")
    BY <1>3, <2>3, PlainRefusal DEF ExecuteTool, Refusals
  <2>4. CASE Refuse(c, "effect_failed")
    BY <1>3, <2>4, PlainRefusal DEF ExecuteTool, Refusals
  <2>5. CASE Advance(c, "answered")
    BY <1>1, <1>3, <2>1, <2>5, PlainAdvance DEF ExecuteTool, Stages
  <2> QED
    BY <2>2, <2>3, <2>4, <2>5
<1> QED
  BY <1>4, <1>5, <1>6

\* The policy refuses a tool that is not of the agent, or gives the lease of the grant.
LEMMA AuthorizeKeeps == ASSUME DispatchInv, NEW c \in Askers, Authorize(c) PROVE DispatchInv'
<1> DEFINE o == orders[c]
<1>1. /\ DispatchTypeOK /\ DOMAIN leases = Askers /\ Still
      /\ spent \subseteq spent' /\ spent' \subseteq Askers
  BY DEF Authorize, DispatchInv, DispatchTypeOK
<1>2. CASE /\ Refuse(c, "safety_interlock") \/ Refuse(c, "approval_required")
                \/ Refuse(c, "aggregate_budget_exhausted")
           /\ UNCHANGED <<reserved, leases>>
  <2>1. PICK why \in {"safety_interlock", "approval_required", "aggregate_budget_exhausted"} :
          Refuse(c, why)
    BY <1>2
  <2>2. why \in Refusals \ {"tool_not_allowed", "invalid_capability_lease", "capability_binding"}
    BY DEF Refusals
  <2> QED
    BY <1>1, <1>2, <2>1, <2>2, PlainRefusal
<1>3. CASE /\ o.tool \notin ToolScopes[o.agent] /\ Refuse(c, "tool_not_allowed")
           /\ UNCHANGED <<reserved, leases>>
  <2>1. /\ stage' \in [Askers -> Stages] /\ cause' \in [Askers -> Refusals]
        /\ stage'[c] = "refused" /\ cause'[c] = "tool_not_allowed"
        /\ \A d \in Askers \ {c} : stage'[d] = stage[d] /\ cause'[d] = cause[d]
    BY <1>1, <1>3, Refused DEF Refusals
  <2>2. DispatchTypeOK' /\ DOMAIN leases' = Askers
    BY <1>1, <1>3, <2>1, TypesKept
  <2>3. ~PastThePolicy(c)'
    BY <2>1 DEF PastThePolicy
  <2> QED
    BY <1>1, <1>3, <2>1, <2>2, <2>3, OneCall
<1>4. CASE /\ o.tool \in ToolScopes[o.agent] /\ reserved # Affordable
           /\ reserved' = reserved + 1 /\ leases' = [leases EXCEPT ![c] = LeaseFor(c)]
           /\ Advance(c, IF IsTool(o) THEN "enter" ELSE "run_skill")
  <2> DEFINE where == IF IsTool(o) THEN "enter" ELSE "run_skill"
  <2>1. where \in Stages
    BY DEF Stages
  <2>2. /\ stage' \in [Askers -> Stages] /\ cause' \in [Askers -> Refusals]
        /\ stage'[c] = where /\ cause'[c] = cause[c]
        /\ \A d \in Askers \ {c} : stage'[d] = stage[d] /\ cause'[d] = cause[d]
    BY <1>1, <1>4, <2>1, Advanced
  <2>3. /\ leases'[c] = LeaseFor(c) /\ DOMAIN leases' = Askers
        /\ \A d \in Askers \ {c} : leases'[d] = leases[d]
    BY <1>1, <1>4
  <2>4. /\ LeaseFor(c).capability = o.tool /\ LeaseFor(c).named = o.named
        /\ LeaseFor(c).expires = time + LeaseTtl
    BY DEF LeaseFor
  <2>5. time + LeaseTtl \in LeaseTtl .. MaxElapse + LeaseTtl
    BY <1>1, DispatchAssumption DEF DispatchTypeOK
  <2>6. orders' = orders /\ Askers' = Askers
    BY <1>1 DEF Still, Askers
  <2>7. \A d \in Askers :
          leases'[d] = NoLease \/ (/\ leases'[d].capability \in ToolScopes[orders[d].agent]
                                   /\ leases'[d].expires \in LeaseTtl .. MaxElapse + LeaseTtl)
    BY <1>1, <1>4, <2>3, <2>4, <2>5 DEF DispatchTypeOK
  <2>8. reserved' \in 0 .. Affordable
    BY <1>1, <1>4, DispatchAssumption DEF DispatchTypeOK
  <2>9. DispatchTypeOK'
    BY <1>1, <2>2, <2>6, <2>7, <2>8 DEF DispatchTypeOK, Still
  <2>10. /\ cause'[c] = "tool_not_allowed" => orders[c].tool \notin ToolScopes[orders[c].agent]
         /\ cause'[c] = "invalid_capability_lease"
              => IsTool(orders[c]) /\ ~(orders[c].named <=> orders[c].runs \in Outbound)
         /\ cause'[c] # "capability_binding"
    BY <2>2 DEF DispatchInv, Explained
  <2> QED
    BY <1>1, <1>4, <2>2, <2>3, <2>4, <2>9, <2>10, OneCall
<1> QED
  BY <1>2, <1>3, <1>4 DEF Authorize

\* The interlock, the clock and standing still change no call.
LEMMA WorldKeeps ==
  ASSUME DispatchInv, ToggleInterlock \/ Elapse \/ UNCHANGED dispatchVars
  PROVE  DispatchInv'
<1>1. UNCHANGED <<orders, reserved, leases, spent, stage, cause>> /\ Askers' = Askers
  BY DEF ToggleInterlock, Elapse, dispatchVars, Askers
<1>2. stopped' \in BOOLEAN /\ restricted' \in BOOLEAN
  BY DEF DispatchInv, DispatchTypeOK, ToggleInterlock, Elapse, dispatchVars
<1>3. time' \in 0 .. MaxElapse
  <2>1. time \in 0 .. MaxElapse /\ (time' = time \/ (time < MaxElapse /\ time' = time + 1))
    BY DEF DispatchInv, DispatchTypeOK, ToggleInterlock, Elapse, dispatchVars
  <2> QED
    BY <2>1, DispatchAssumption
<1>4. DispatchTypeOK' /\ DOMAIN leases' = Askers'
  BY <1>1, <1>2, <1>3 DEF DispatchInv, DispatchTypeOK
<1>5. Sorted' /\ Scoped' /\ Held' /\ Spent' /\ Explained'
  BY <1>1 DEF DispatchInv, Sorted, Scoped, Held, Spent, Explained, PastThePolicy
<1> QED
  BY <1>4, <1>5 DEF DispatchInv

LEMMA DispatchStep == DispatchInv /\ [DispatchNext]_dispatchVars => DispatchInv'
<1> SUFFICES ASSUME DispatchInv, [DispatchNext]_dispatchVars PROVE DispatchInv'
  OBVIOUS
<1>1. CASE \E c \in Askers :
             \/ Receive(c) \/ FindTask(c) \/ Screen(c) \/ Authorize(c) \/ Enter(c)
             \/ ExecuteTool(c) \/ ExecuteSkill(c) \/ RecordSkill(c)
  BY <1>1, ReceiveKeeps, FindTaskKeeps, ScreenKeeps, AuthorizeKeeps, EnterKeeps, ExecuteToolKeeps,
     ExecuteSkillKeeps, RecordSkillKeeps
<1>2. CASE ToggleInterlock \/ Elapse \/ UNCHANGED dispatchVars
  BY <1>2, WorldKeeps
<1> QED
  BY <1>1, <1>2 DEF DispatchNext

\* The inductive invariant holds in every reachable state.
THEOREM DispatchAlwaysInv == DispatchSpec => []DispatchInv
<1> QED
  BY DispatchStart, DispatchStep, PTL DEF DispatchSpec

\* Whatever the orders, the budget and the time a lease lives: a call is refused over its tool,
\* its destination or its capability only if it is one that is never served, and none of
\* those is answered; an answered tool has spent its lease.
THEOREM LeasesAlwaysFit == DispatchSpec => []LeasesFit
<1> QED
  BY DispatchAlwaysInv, DispatchHolds, PTL

-----------------------------------------------------------------------------
(* The secret broker. *)

\* A client remembers as retired only what is still retired, ...
RememberedIsRetired == \A k \in Clients : clients[k].before \subseteq retired

\* ... a secret that can be used has a version that is not, ...
UsableIsNotRetired == Usable(secret) => secret.version \notin retired

\* ... and neither has an answer that waits to be compared.
AnswersAreFresh ==
  \A k \in Clients :
    clients[k].at = "compare" /\ Usable(clients[k].found)
      => clients[k].found.version \notin clients[k].before

BrokerInv ==
  /\ BrokerTypeOK
  /\ RememberedIsRetired /\ UsableIsNotRetired /\ AnswersAreFresh
  /\ SecretIsCurrent

\* The invariant at the start.
LEMMA BrokerInitInv == BrokerInit => BrokerInv
BY BrokerAssumption
   DEF BrokerInit, BrokerInv, BrokerTypeOK, RememberedIsRetired, UsableIsNotRetired,
       AnswersAreFresh, SecretIsCurrent, AtRest, Call, NoSecret, Client, Versions, Usable

\* A call at rest, a call that asks and an answered one are clients.
LEMMA ClientAtRest ==
  AtRest \in Client /\ AtRest.at = "idle" /\ AtRest.before = {}
BY BrokerAssumption DEF AtRest, Call, NoSecret, Client, Versions

LEMMA ClientAsking ==
  ASSUME NEW v \in Versions \cup {0}, retired \subseteq Versions
  PROVE  Asking(v) \in Client /\ Asking(v).at = "ask" /\ Asking(v).before \subseteq retired
<1>1. CASE v = 0
  BY <1>1, BrokerAssumption DEF Asking, Call, NoSecret, Client, Versions
<1>2. CASE v # 0
  BY <1>2, BrokerAssumption DEF Asking, Call, NoSecret, Client, Versions
<1> QED
  BY <1>1, <1>2

LEMMA ClientAnswered ==
  ASSUME NEW q \in Client
  PROVE  Call("valid", q.lease, NoSecret, q.before) \in Client
BY BrokerAssumption DEF Call, NoSecret, Client, Versions

\* Every step keeps the types.
LEMMA BrokerTypeStep == BrokerTypeOK /\ [BrokerNext]_brokerVars => BrokerTypeOK'
<1> SUFFICES ASSUME BrokerTypeOK, [BrokerNext]_brokerVars PROVE BrokerTypeOK'
  OBVIOUS
<1> USE BrokerAssumption DEF BrokerTypeOK
<1>1. CASE UNCHANGED brokerVars
  BY <1>1 DEF brokerVars
<1>2. ASSUME NEW k \in Clients, issueLease(k) PROVE BrokerTypeOK'
  <2>1. Asking(0) \in Client /\ AtRest \in Client
    BY ClientAsking, ClientAtRest
  <2> QED
    BY <1>2, <2>1 DEF issueLease, Finish
<1>3. ASSUME NEW k \in Clients, metadata(k) PROVE BrokerTypeOK'
  BY <1>3 DEF metadata, Call, Client
<1>4. ASSUME NEW k \in Clients, Issue(k) PROVE BrokerTypeOK'
  <2>1. clients[k].found \in [version : Versions \cup {0}, revoked : BOOLEAN]
    BY DEF Client
  <2>2. Usable(clients[k].found) => clients[k].found.version \in Versions
    BY <2>1 DEF Usable
  <2>3. issued' \subseteq Versions
    BY <1>4, <2>2 DEF Issue
  <2> QED
    BY <1>4, <2>3, ClientAtRest DEF Issue, Finish
<1>5. ASSUME NEW k \in Clients, Compare(k) PROVE BrokerTypeOK'
  <2>1. clients[k] \in Client /\ AtRest \in Client
    BY ClientAtRest
  <2>2. Call("valid", clients[k].lease, NoSecret, clients[k].before) \in Client
    BY <2>1, ClientAnswered
  <2> QED
    BY <1>5, <2>1, <2>2 DEF Compare, Finish
<1>6. ASSUME NEW k \in Clients, NEW v \in Versions, validateLease(k, v) PROVE BrokerTypeOK'
  <2>1. Asking(v) \in Client /\ AtRest \in Client
    BY ClientAsking, ClientAtRest
  <2> QED
    BY <1>6, <2>1 DEF validateLease, Finish
<1>7. ASSUME NEW v \in Versions, Hold(v) PROVE BrokerTypeOK'
  BY <1>7 DEF Hold, Call, Client, Versions
<1>8. CASE put
  BY <1>8, <1>7 DEF put, Versions
<1>9. CASE rotate
  <2>1. secret.version + 1 \in Versions
    BY <1>9 DEF rotate, Versions
  <2> QED
    BY <1>9, <1>7, <2>1 DEF rotate
<1>10. CASE revokeSecret
  <2>1. secret' \in [version : Versions \cup {0}, revoked : BOOLEAN]
    BY <1>10 DEF revokeSecret
  <2> QED
    BY <1>10, <2>1 DEF revokeSecret
<1>11. ASSUME NEW v \in Versions, revoke(v) PROVE BrokerTypeOK'
  BY <1>11 DEF revoke
<1> QED
  BY <1>1, <1>2, <1>3, <1>4, <1>5, <1>6, <1>8, <1>9, <1>10, <1>11 DEF BrokerNext

\* Every step keeps what is known of retired versions.
LEMMA BrokerFreshStep == BrokerInv /\ [BrokerNext]_brokerVars =>
  (RememberedIsRetired /\ UsableIsNotRetired /\ AnswersAreFresh /\ SecretIsCurrent)'
<1> SUFFICES ASSUME BrokerInv, [BrokerNext]_brokerVars
             PROVE (RememberedIsRetired /\ UsableIsNotRetired /\ AnswersAreFresh /\ SecretIsCurrent)'
  OBVIOUS
<1> DEFINE Kept == (RememberedIsRetired /\ UsableIsNotRetired /\ AnswersAreFresh /\ SecretIsCurrent)'
<1> USE BrokerAssumption
    DEF BrokerInv, BrokerTypeOK, Versions, NoSecret, Client, Call, RememberedIsRetired,
        UsableIsNotRetired, AnswersAreFresh, SecretIsCurrent, Usable
<1>1. CASE UNCHANGED brokerVars
  BY <1>1 DEF brokerVars
<1>2. ASSUME NEW k \in Clients, issueLease(k) PROVE Kept
  <2>1. /\ Asking(0).at = "ask" /\ Asking(0).before \subseteq retired
        /\ AtRest.at = "idle" /\ AtRest.before = {}
    BY ClientAsking, ClientAtRest
  <2> QED
    BY <1>2, <2>1 DEF issueLease, Finish
<1>3. ASSUME NEW k \in Clients, metadata(k) PROVE Kept
  BY <1>3 DEF metadata
<1>4. ASSUME NEW k \in Clients, Issue(k) PROVE Kept
  BY <1>4 DEF Issue, Finish, AtRest
<1>5. ASSUME NEW k \in Clients, Compare(k) PROVE Kept
  BY <1>5 DEF Compare, Current, Finish, AtRest
<1>6. ASSUME NEW k \in Clients, NEW v \in Versions, validateLease(k, v) PROVE Kept
  <2>1. /\ Asking(v).at = "ask" /\ Asking(v).before \subseteq retired
        /\ AtRest.at = "idle" /\ AtRest.before = {}
    BY ClientAsking, ClientAtRest
  <2> QED
    BY <1>6, <2>1 DEF validateLease, Finish
<1>7. ASSUME NEW v \in Versions, Hold(v) PROVE Kept
  BY <1>7 DEF Hold
<1>8. CASE put
  BY <1>8, <1>7 DEF put
<1>9. CASE rotate
  BY <1>9, <1>7 DEF rotate
<1>10. CASE revokeSecret
  BY <1>10 DEF revokeSecret
<1>11. ASSUME NEW v \in Versions, revoke(v) PROVE Kept
  BY <1>11 DEF revoke
<1> QED
  BY <1>1, <1>2, <1>3, <1>4, <1>5, <1>6, <1>8, <1>9, <1>10, <1>11 DEF BrokerNext

\* Every step keeps the invariant.
LEMMA BrokerInvStep == BrokerInv /\ [BrokerNext]_brokerVars => BrokerInv'
BY BrokerTypeStep, BrokerFreshStep DEF BrokerInv

LEMMA BrokerInvariant == BrokerSpec => []BrokerInv
BY BrokerInitInv, BrokerInvStep, PTL DEF BrokerSpec

\* The provider's record, the broker's sets and the calls always have their types.
THEOREM BrokerTypeCorrect == BrokerSpec => []BrokerTypeOK
<1>1. BrokerInv => BrokerTypeOK
  BY DEF BrokerInv
<1> QED
  BY BrokerInvariant, <1>1, PTL

\* No lease is found valid whose version was rotated away or revoked before the question,
\* unless the secret was put anew since and its versions came to it again (validateLease).
THEOREM RetiredNeverValid == BrokerSpec => []SecretIsCurrent
<1>1. BrokerInv => SecretIsCurrent
  BY DEF BrokerInv
<1> QED
  BY BrokerInvariant, <1>1, PTL

-----------------------------------------------------------------------------
(* The semantic memory. *)

MemoryInv == MemoryTypeOK /\ BeliefsCurrent

\* The documents after i that replace what it says.
LaterThan(i) ==
  {j \in i + 1 .. Len(documents) :
     /\ documents[j].tenant = documents[i].tenant
     /\ documents[j].subject = documents[i].subject
     /\ documents[i].subject # NoSubject}

\* The belief of document i: it stands until the next one.
Believed(i) ==
  IF LaterThan(i) = {} THEN ~Invalidated(i)
  ELSE documents[i].supersededBy \in LaterThan(i)
       /\ \A j \in LaterThan(i) : documents[i].supersededBy <= j

LEMMA BeliefsAreBelieved ==
  BeliefsCurrent <=>
    /\ \A i \in DOMAIN documents : Believed(i)
    /\ \A i \in answer.found : documents[i].tenant = answer.tenant
BY DEF BeliefsCurrent, Believed, LaterThan

\* The first state.
LEMMA MemoryInitInv == MemoryInit => MemoryInv
<1> SUFFICES ASSUME MemoryInit PROVE MemoryInv
  OBVIOUS
<1>1. documents = <<>> /\ answer.found = {} /\ answer.tenant \in Tenants
  BY MemoryAssumption DEF MemoryInit
<1>2. documents \in Seq(Document) /\ DOMAIN documents = {}
  BY <1>1
<1> QED
  BY <1>1, <1>2 DEF MemoryInv, MemoryTypeOK, BeliefsCurrent

\* What a store leaves: the new document at the end, the replaced ones superseded by it.
LEMMA StoreResult ==
  ASSUME MemoryTypeOK, NEW t \in Tenants, NEW s \in Subjects \cup {NoSubject},
         runGovernedMemoryStore(t, s)
  PROVE  LET n == Len(documents) + 1
             old == IF s = NoSubject THEN {} ELSE Replaced(t, s) IN
         /\ documents' \in Seq(Document) /\ Len(documents') = n /\ n \in 1 .. MaxDocuments
         /\ documents'[n].tenant = t /\ documents'[n].subject = s /\ documents'[n].supersededBy = 0
         /\ \A i \in 1 .. Len(documents) :
              /\ documents'[i].tenant = documents[i].tenant
              /\ documents'[i].subject = documents[i].subject
              /\ documents'[i].supersededBy = IF i \in old THEN n ELSE documents[i].supersededBy
         /\ answer' = answer
<1> DEFINE n == Len(documents) + 1
           old == IF s = NoSubject THEN {} ELSE Replaced(t, s)
           kept == [i \in DOMAIN documents |->
                      IF i \in old THEN [documents[i] EXCEPT !.supersededBy = n] ELSE documents[i]]
           new == [tenant |-> t, subject |-> s, supersededBy |-> 0]
<1>1. documents \in Seq(Document) /\ DOMAIN documents = 1 .. Len(documents) /\ Len(documents) \in Nat
  BY DEF MemoryTypeOK
<1>2. n \in 1 .. MaxDocuments
  BY <1>1, MemoryAssumption DEF runGovernedMemoryStore
<1>3. \A i \in 1 .. Len(documents) : documents[i] \in Document
  BY <1>1
<1>4. \A i \in 1 .. Len(documents) :
        /\ kept[i] \in Document
        /\ kept[i].tenant = documents[i].tenant /\ kept[i].subject = documents[i].subject
        /\ kept[i].supersededBy = IF i \in old THEN n ELSE documents[i].supersededBy
  BY <1>1, <1>2, <1>3, MemoryAssumption DEF Document
<1>5. kept \in Seq(Document) /\ Len(kept) = Len(documents)
  <2>1. DOMAIN kept = 1 .. Len(documents)
    BY <1>1
  <2>2. kept \in [1 .. Len(documents) -> Document]
    BY <1>4, <2>1
  <2> HIDE DEF kept
  <2> QED
    BY <1>1, <2>1, <2>2
<1>6. new \in Document
  BY MemoryAssumption DEF Document
<1>7. documents' = Append(kept, new) /\ answer' = answer
  BY DEF runGovernedMemoryStore
<1>8. new.tenant = t /\ new.subject = s /\ new.supersededBy = 0
  OBVIOUS
<1> HIDE DEF kept, new, old
<1>9. /\ documents' \in Seq(Document) /\ Len(documents') = n /\ documents'[n] = new
      /\ \A i \in 1 .. Len(documents) : documents'[i] = kept[i]
  BY <1>1, <1>5, <1>6, <1>7
<1> QED
  BY <1>2, <1>4, <1>7, <1>8, <1>9 DEF old

\* The documents that replace i after a store: one more, if the new one is about it.
LEMMA StoreBelieved ==
  ASSUME MemoryInv, NEW t \in Tenants, NEW s \in Subjects \cup {NoSubject},
         runGovernedMemoryStore(t, s), NEW i \in 1 .. Len(documents) + 1
  PROVE  Believed(i)'
<1> DEFINE n == Len(documents) + 1
           old == IF s = NoSubject THEN {} ELSE Replaced(t, s)
<1> USE DEF MemoryInv
<1>1. /\ Len(documents) \in Nat /\ Len(documents') = n /\ DOMAIN documents = 1 .. Len(documents)
      /\ documents'[n].tenant = t /\ documents'[n].subject = s /\ documents'[n].supersededBy = 0
      /\ \A j \in 1 .. Len(documents) :
           /\ documents'[j].tenant = documents[j].tenant
           /\ documents'[j].subject = documents[j].subject
           /\ documents'[j].supersededBy = IF j \in old THEN n ELSE documents[j].supersededBy
  BY StoreResult DEF MemoryTypeOK
<1>2. CASE i = n
  <2>1. LaterThan(i)' = {}
    BY <1>1, <1>2 DEF LaterThan
  <2> QED
    BY <1>1, <1>2, <2>1 DEF Believed, Invalidated
<1>3. CASE i \in 1 .. Len(documents)
  <2>1. Believed(i)
    BY <1>1, <1>3, BeliefsAreBelieved
  <2>2. LaterThan(i) \subseteq i + 1 .. Len(documents)
    BY DEF LaterThan
  <2>3. CASE documents[i].tenant = t /\ documents[i].subject = s /\ s # NoSubject
    <3>1. LaterThan(i)' = LaterThan(i) \cup {n}
      <4>1. /\ i + 1 .. n = (i + 1 .. Len(documents)) \cup {n} /\ n \in i + 1 .. n
            /\ documents'[i].tenant = t /\ documents'[i].subject = s
        BY <1>1, <1>3, <2>3
      <4>2. \A j \in i + 1 .. Len(documents) :
              /\ documents'[j].tenant = documents[j].tenant
              /\ documents'[j].subject = documents[j].subject
        BY <1>1, <1>3
      <4> QED
        BY <1>1, <2>3, <4>1, <4>2 DEF LaterThan
    <3>2. i \in old <=> ~Invalidated(i)
      BY <1>1, <1>3, <2>3 DEF Replaced
    <3>3. CASE LaterThan(i) = {}
      BY <1>1, <1>3, <2>1, <3>1, <3>2, <3>3 DEF Believed
    <3>4. CASE LaterThan(i) # {}
      <4>1. documents[i].supersededBy \in i + 1 .. Len(documents)
        BY <2>1, <2>2, <3>4 DEF Believed
      <4>2. documents'[i].supersededBy = documents[i].supersededBy
        BY <1>1, <1>3, <3>2, <4>1 DEF Invalidated
      <4> QED
        BY <1>1, <2>1, <3>1, <3>4, <4>1, <4>2 DEF Believed
    <3> QED
      BY <3>3, <3>4
  <2>4. CASE ~(documents[i].tenant = t /\ documents[i].subject = s /\ s # NoSubject)
    <3>1. LaterThan(i)' = LaterThan(i)
      <4>1. /\ i + 1 .. n = (i + 1 .. Len(documents)) \cup {n}
            /\ documents'[i].tenant = documents[i].tenant
            /\ documents'[i].subject = documents[i].subject
        <5>1. i \in Nat /\ Len(documents) \in Nat /\ i <= Len(documents) /\ n = Len(documents) + 1
          BY <1>1, <1>3
        <5>2. i + 1 .. n = (i + 1 .. Len(documents)) \cup {n}
          BY <5>1
        <5> QED
          BY <1>1, <1>3, <5>2
      <4>2. ~(documents'[n].tenant = documents[i].tenant /\ documents'[n].subject = documents[i].subject
                /\ documents[i].subject # NoSubject)
        BY <1>1, <2>4
      <4>3. \A j \in i + 1 .. Len(documents) :
              /\ documents'[j].tenant = documents[j].tenant
              /\ documents'[j].subject = documents[j].subject
        BY <1>1, <1>3
      <4>4. LaterThan(i)' =
              {j \in i + 1 .. n :
                 /\ documents'[j].tenant = documents[i].tenant
                 /\ documents'[j].subject = documents[i].subject
                 /\ documents[i].subject # NoSubject}
        BY <1>1, <4>1 DEF LaterThan
      <4>5. \A j : j \in LaterThan(i)' <=> j \in LaterThan(i)
        BY <4>1, <4>2, <4>3, <4>4 DEF LaterThan
      <4> QED
        BY <4>5
    <3>2. i \notin old
      BY <2>4 DEF Replaced
    <3> QED
      BY <1>1, <1>3, <2>1, <3>1, <3>2 DEF Believed, Invalidated
  <2> QED
    BY <2>3, <2>4
<1> QED
  BY <1>1, <1>2, <1>3

\* Every step keeps the types and the beliefs.
LEMMA MemoryStep == MemoryInv /\ [MemoryNext]_memoryVars => MemoryInv'
<1> SUFFICES ASSUME MemoryInv, [MemoryNext]_memoryVars PROVE MemoryInv'
  OBVIOUS
<1> USE DEF MemoryInv
<1>1. CASE UNCHANGED memoryVars
  BY <1>1 DEF memoryVars, MemoryTypeOK, BeliefsCurrent, Invalidated
<1>2. ASSUME NEW t \in Tenants, NEW s \in Subjects \cup {NoSubject}, runGovernedMemoryStore(t, s)
      PROVE MemoryInv'
  <2>1. /\ documents' \in Seq(Document) /\ Len(documents') = Len(documents) + 1
        /\ Len(documents) \in Nat /\ answer' = answer
        /\ \A i \in 1 .. Len(documents) : documents'[i].tenant = documents[i].tenant
    BY <1>2, StoreResult DEF MemoryTypeOK
  <2>2. DOMAIN documents = 1 .. Len(documents) /\ DOMAIN documents' = 1 .. Len(documents) + 1
    BY <2>1 DEF MemoryTypeOK
  <2>3. MemoryTypeOK'
    BY <2>1, <2>2 DEF MemoryTypeOK
  <2>4. \A i \in DOMAIN documents' : Believed(i)'
    BY <1>2, <2>2, StoreBelieved
  <2>5. \A i \in answer'.found : documents'[i].tenant = answer'.tenant
    BY <2>1, <2>2 DEF MemoryTypeOK, BeliefsCurrent
  <2>6. BeliefsCurrent'
    BY <2>4, <2>5 DEF BeliefsCurrent, Believed, LaterThan
  <2> QED
    BY <2>3, <2>6
<1>3. ASSUME NEW t \in Tenants, runGovernedMemoryQuery(t) PROVE MemoryInv'
  <2>1. documents' = documents
    BY <1>3 DEF runGovernedMemoryQuery
  <2>2. /\ answer'.tenant = t /\ answer'.found \subseteq DOMAIN documents
        /\ \A i \in answer'.found : documents[i].tenant = t
    BY <1>3 DEF runGovernedMemoryQuery
  <2>3. MemoryTypeOK'
    BY <2>1, <2>2 DEF MemoryTypeOK
  <2>4. BeliefsCurrent'
    BY <2>1, <2>2 DEF BeliefsCurrent, Invalidated
  <2> QED
    BY <2>3, <2>4
<1> QED
  BY <1>1, <1>2, <1>3 DEF MemoryNext

LEMMA MemoryInvariant == MemorySpec => []MemoryInv
  BY MemoryInitInv, MemoryStep, PTL DEF MemorySpec

\* The documents and the last answer always have their types.
THEOREM MemoryTypeCorrect == MemorySpec => []MemoryTypeOK
<1>1. MemoryInv => MemoryTypeOK
  BY DEF MemoryInv
<1> QED
  BY MemoryInvariant, <1>1, PTL

\* Each tenant's current belief about a subject is its last, and no answer shows a document
\* of another tenant (memory.store's supersession, memory.query's filter).
THEOREM LastBeliefIsCurrent == MemorySpec => []BeliefsCurrent
<1>1. MemoryInv => BeliefsCurrent
  BY DEF MemoryInv
<1> QED
  BY MemoryInvariant, <1>1, PTL

-----------------------------------------------------------------------------
(* All of them. *)

\* A step of the services is, for every component, a step of it or none.
LEMMA PartsMove ==
  [Next]_<<allVars, part>> =>
    /\ [AccountsNext]_accountsVars /\ [QuorumNext]_quorumVars /\ [MonitorNext]_monitorVars
    /\ [SandboxNext]_sandboxVars /\ [DispatchNext]_dispatchVars /\ [BrokerNext]_brokerVars
    /\ [MemoryNext]_memoryVars
BY DEF Next, Rest, allVars

\* They start as each of them starts.
LEMMA PartsStart ==
  Init => /\ AccountsInit /\ QuorumInit /\ MonitorInit /\ SandboxInit /\ DispatchInit
          /\ BrokerInit /\ MemoryInit
BY DEF Init

ServicesInv ==
  /\ AccountsInv /\ QuorumInv /\ MonitorInv /\ SandboxInv /\ DispatchInv /\ BrokerInv /\ MemoryInv

\* Together they keep every invariant that each keeps alone.
LEMMA ServicesInvariant == Spec => []ServicesInv
<1>1. Init => ServicesInv
  BY PartsStart, AccountsInitInv, QuorumStart, MonitorStart, SandboxInitInv, DispatchStart,
     BrokerInitInv, MemoryInitInv DEF ServicesInv
<1>2. ServicesInv /\ [Next]_<<allVars, part>> => ServicesInv'
  BY PartsMove, AccountsInvStep, QuorumStep, MonitorStep, SandboxInvStep, DispatchStep,
     BrokerInvStep, MemoryStep DEF ServicesInv
<1> QED
  BY <1>1, <1>2, PTL DEF Spec

\* Every reachable state of the services is well typed, whatever each of them is given.
THEOREM ServicesTypeCorrect == Spec => []TypeOK
<1>1. ServicesInv => TypeOK
  BY DEF ServicesInv, TypeOK, AccountsInv, QuorumInv, MonitorInv, SandboxInv, DispatchInv,
         BrokerInv, MemoryInv
<1> QED
  BY ServicesInvariant, <1>1, PTL

\* And each keeps its promise beside the others: an administrator is the first account, the
\* throttle and the limits of the monitor hold, adjudications approve what was voted, leases
\* fit what they are used for, no retired secret is valid and the last belief is current,
\* a logout by cookie ends its session and a roll-back restores texts.
THEOREM ServicesKeepTheirPromises ==
  Spec => /\ [](/\ LateComersAreUsers /\ ThrottleHolds /\ QuorumHolds /\ NoRunaway /\ LeasesFit
                /\ SecretIsCurrent /\ BeliefsCurrent)
          /\ LogoutEnds /\ TrialRestoresText
<1>1. QuorumInv => QuorumHolds
  BY DEF QuorumInv, Judged, QuorumHolds
<1>2. ServicesInv => /\ LateComersAreUsers /\ ThrottleHolds /\ QuorumHolds /\ NoRunaway /\ LeasesFit
                     /\ SecretIsCurrent /\ BeliefsCurrent
  BY <1>1, MonitorHolds, DispatchHolds DEF ServicesInv, AccountsInv, BrokerInv, MemoryInv
<1>3. ServicesInv /\ [Next]_<<allVars, part>>
        => [\A r \in Requests :
              At(r, "check") /\ requests'[r].at = "select" /\ requests[r].cookie # Empty
                => [session |-> Identity(requests[r]), by |-> "cookie"] \notin requests[r].after]_accountsVars
  BY PartsMove, LogoutStep DEF ServicesInv
<1>4. ServicesInv /\ [Next]_<<allVars, part>>
        => [\A j \in Jobs :
              /\ RolledBack(j) /\ errand[j].starts # "daemon" /\ j \notin touched
              /\ \A f \in Names : before[j][f] # "binary"
              => files = before[j]]_sandboxVars
  BY PartsMove, RollBackStep DEF ServicesInv
<1> QED
  BY ServicesInvariant, <1>2, <1>3, <1>4, PTL DEF Spec, LogoutEnds, TrialRestoresText
=============================================================================
